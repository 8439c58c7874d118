----------------------------- MODULE MCVutuPlay -----------------------------
(***************************************************************************)
(* VutuApp from a state with everything in place, so that the few inputs   *)
(* a run can afford go to playing and to changing what plays.  The program *)
(* gets there by "open", "analyze" and "synthesize", each left to finish.  *)
(***************************************************************************)
EXTENDS MCVutuData, VutuPlayback, VutuTransport

CONSTANT Frames     \* the length of the source

ASSUME LoadedAssumption == Frames \in SourceFrames /\ SampleRate \in SourceRates

LoadedSource == [id |-> 1, frames |-> Frames, rate |-> SampleRate]

LoadedInit ==
    /\ sourceSample = LoadedSource
    /\ vutuPartials = [EmptyPartials(2) EXCEPT
                           !.any = TRUE, !.from = 1, !.sourceFile = 1,
                           !.sourceDuration = <<Frames, SampleRate>>, !.span = Den]
    /\ lorisPartials = LorisOf(vutuPartials)
    /\ synthSample = [LoadedSource EXCEPT !.id = 2]
    /\ ctlParams = InitParams
    /\ sourceFileLoaded = 1
    /\ nextId = 3
    /\ alive = TRUE
    /\ playbackState = "off"
    /\ playbackSampleIdx = 0
    /\ procSource = LoadedSource
    /\ synthKnown = TRUE
    /\ procParams = InitParams
    /\ toggling = "none"
    /\ arming = "none"
    /\ audio = [pc |-> "idle", which |-> "source", frameEnd |-> 0]
    /\ viewParams = InitParams
    /\ viewPartials = 2
    /\ samplesShown = Playable
    /\ enabled = [b \in Buttons |-> TRUE]
    /\ playText = [w \in Playable |-> "play"]
    /\ atZero = [w \in Playable |-> TRUE]
    /\ inputs = 0
    /\ ctlMail = <<>> /\ procMail = <<>> /\ viewMail = <<>>

LoadedSpec == LoadedInit /\ [][Next]_vars
EitherSpec == (Init \/ LoadedInit) /\ [][Next]_vars
LoadedFairSpec == LoadedSpec /\ Fairness

\* The audio thread may run within any handler, but for what breaks playback.
PlaySpec ==
    LoadedInit /\ [][/\ Next /\ ~ReplacedWithin
                     /\ ~StartOverlaps' /\ PlayedIsLong']_vars
=============================================================================
