--------------------------- MODULE VutuProcessor ----------------------------
(***************************************************************************)
(* VutuProcessor: plays one of the two samples.  Its messages are handled  *)
(* on the main thread, one action each, except that togglePlaybackState()  *)
(* is cut where it has stopped what plays and where it has set             *)
(* playbackState but not yet playbackSampleIdx.                            *)
(* processVector() runs on the audio thread and is cut where it has read   *)
(* playbackState, loaded a vector, tested for the end and stopped.         *)
(***************************************************************************)
EXTENDS VutuActors, FiniteSets

CONSTANTS
    Preemptive,     \* TRUE: the audio thread may run within a handler
    MaxFrames,      \* no frame index of the model is larger
    MaxReports      \* playback times on their way to the view, at most

VARIABLES
    playbackState,      \* "off", "source" or "synth"
    playbackSampleIdx,  \* the next frame to play
    procSource,         \* _sourceSample, resampled for playback
    synthKnown,         \* _pSynthesizedSample points to the controller's
    procParams,         \* the processor's _params
    toggling,           \* what togglePlaybackState() will set playbackState
                        \* to once it has stopped what plays, or "none"
    arming,             \* what it has set it to and has to start, or "none"
    audio               \* where processVector() is, and its locals

procVars == <<playbackState, playbackSampleIdx, procSource, synthKnown,
              procParams, toggling, arming, audio>>

ASSUME ProcessorAssumption ==
    /\ Preemptive \in BOOLEAN
    /\ MaxFrames \in Nat
    /\ MaxReports \in Nat

AudioPc == {"idle", "load", "check", "stop", "report"}

ProcessorTypeOK ==
    /\ playbackState \in Playable \cup {"off"}
    /\ playbackSampleIdx \in Nat
    /\ procSource \in Sample
    /\ synthKnown \in BOOLEAN
    /\ procParams \in Params
    /\ toggling \in Playable \cup {"none"}
    /\ arming \in Playable \cup {"none"}
    /\ audio \in [pc : AudioPc, which : Playable, frameEnd : Nat]

HandlerMayRun == Preemptive \/ audio.pc = "idle"
NotToggling == toggling = "none" /\ arming = "none"
VectorMayRun == Preemptive \/ NotToggling

Handle(type) ==
    /\ HandlerMayRun
    /\ NotToggling
    /\ IsNext(procMail, type)
    /\ procMail' = Tail(procMail)

Tell(messages) == ctlMail' = ctlMail \o messages

(***************************************************************************)
(* VutuProcessor::onMessage.                                               *)
(***************************************************************************)
ProcSetParam ==
    /\ Handle("set_param")
    /\ LET m == Head(procMail) IN
       procParams' = [procParams EXCEPT ![m.param] = m.value]
    /\ UNCHANGED <<ctlMail, viewMail, samples, playbackState,
                   playbackSampleIdx, procSource, synthKnown, toggling, arming, audio>>

\* resample(): nothing at all is done for a sample that is not usable, so
\* the processor keeps the copy it has.
\* Mutant: a copy once made is kept.
ResampleOnce(s) ==
    IF Usable(s) /\ ~Usable(procSource)
    THEN [id |-> s.id, frames |-> ResampledFrames(s), rate |-> SampleRate]
    ELSE [procSource EXCEPT !.rate = SampleRate]
Resample(s) ==
    IF Usable(s)
    THEN [id |-> s.id, frames |-> ResampledFrames(s), rate |-> SampleRate]
    ELSE [procSource EXCEPT !.rate = SampleRate]

\* "set_source_data" and "set_synth_data" stop what plays, but do not rewind.
ProcSetData ==
    /\ Handle("set_data")
    /\ playbackState' = "off"
    /\ Tell(<<Stopped>>)
    /\ IF Head(procMail).what = "source"
       THEN procSource' = Resample(sourceSample) /\ UNCHANGED synthKnown
       ELSE synthKnown' = TRUE /\ UNCHANGED procSource
    /\ UNCHANGED <<viewMail, samples, playbackSampleIdx, procParams, toggling,
                   arming, audio>>

\* Only "set_loris_partials_data" is handled, and nobody sends that.
ProcIgnorePartials ==
    /\ Handle("set_partials_data")
    /\ UNCHANGED <<ctlMail, viewMail, samples, procVars>>

(***************************************************************************)
(* togglePlaybackState().  The first part stops what plays; if another     *)
(* sample than that is asked for and has frames, the second sets           *)
(* playbackState, the third the frame to start from, and it tells the      *)
(* controller.                                                             *)
(***************************************************************************)
HasFrames(which) ==
    IF which = "source" THEN procSource.frames > 0
                        ELSE synthKnown /\ Usable(synthSample)

ProcToggle ==
    /\ Handle("toggle_play")
    /\ LET which == Head(procMail).which
           starts == which # playbackState /\ HasFrames(which)
       IN  toggling' = IF starts THEN which ELSE "none"
    /\ playbackState' = "off"
    /\ IF playbackState # "off"
       THEN /\ playbackSampleIdx' = 0
            /\ Tell(<<Stopped, Time("source", TRUE), Time("synth", TRUE)>>)
       ELSE UNCHANGED <<playbackSampleIdx, ctlMail>>
    /\ UNCHANGED <<viewMail, samples, procSource, synthKnown, procParams,
                   arming, audio>>

ProcToggleSet ==
    /\ toggling # "none"
    /\ playbackState' = toggling
    /\ arming' = toggling
    /\ toggling' = "none"
    /\ UNCHANGED <<mail, samples, playbackSampleIdx, procSource, synthKnown,
                   procParams, audio>>

StartOf(which) ==
    IF which = "source"
    THEN StartFrame(procSource.frames, procParams["analysis_interval"])
    ELSE 0

ProcToggleStart ==
    /\ arming # "none"
    /\ playbackSampleIdx' = StartOf(arming)
    /\ Tell(<<Started(arming)>>)
    /\ arming' = "none"
    /\ UNCHANGED <<procMail, viewMail, samples, playbackState, procSource,
                   synthKnown, procParams, toggling, audio>>

(***************************************************************************)
(* processVector(), on the audio thread.  It is called whether or not      *)
(* there is something to play.  MaxReports stands for the main thread's    *)
(* keeping up with the times that the audio thread reports.                *)
(***************************************************************************)
SamplePlaying == IF audio.which = "source" THEN procSource ELSE synthSample

VectorSilent ==
    /\ audio.pc = "idle"
    /\ VectorMayRun
    /\ playbackState = "off"
    /\ UNCHANGED <<mail, samples, procVars>>

\* The whole of a synthesized sample is played, of a source the interval.
FrameEndOf(which) ==
    IF which = "source"
    THEN EndFrame(procSource.frames, procParams["analysis_interval"])
    ELSE EndFrame(synthSample.frames, FullInterval)

VectorBegin ==
    /\ audio.pc = "idle"
    /\ VectorMayRun
    /\ Cardinality(At(ctlMail, "time")) + Cardinality(At(viewMail, "time"))
           < MaxReports
    /\ playbackState # "off"
    /\ audio' = [pc |-> "load", which |-> playbackState,
                 frameEnd |-> FrameEndOf(playbackState)]
    /\ UNCHANGED <<mail, samples, playbackState, playbackSampleIdx, procSource,
                   synthKnown, procParams, toggling,
                   arming>>

AtMost(n, bound) == IF n > bound THEN bound ELSE n

VectorLoad ==
    /\ audio.pc = "load"
    /\ audio' = [audio EXCEPT !.pc = "check"]
    /\ playbackSampleIdx' =
           IF SamplePlaying.frames > 0
           THEN AtMost(playbackSampleIdx + VectorSize, MaxFrames)
           ELSE playbackSampleIdx
    /\ UNCHANGED <<mail, samples, playbackState, procSource, synthKnown,
                   procParams, toggling, arming>>

\* Mutants: another vector is read as long as the end is not reached; the
\* end is taken to be reached exactly.
AtEndLate == playbackSampleIdx >= audio.frameEnd
AtEndExactly == playbackSampleIdx = SizeMinus(audio.frameEnd, VectorSize)
AtEnd == playbackSampleIdx >= SizeMinus(audio.frameEnd, VectorSize)

VectorCheck ==
    /\ audio.pc = "check"
    /\ audio' = [audio EXCEPT !.pc = IF AtEnd THEN "stop" ELSE "report"]
    /\ UNCHANGED <<mail, samples, playbackState, playbackSampleIdx, procSource,
                   synthKnown, procParams, toggling,
                   arming>>

VectorStop ==
    /\ audio.pc = "stop"
    /\ playbackState' = "off"
    /\ playbackSampleIdx' = 0
    /\ Tell(<<Stopped>>)
    /\ audio' = [audio EXCEPT !.pc = "report"]
    /\ UNCHANGED <<procMail, viewMail, samples, procSource, synthKnown,
                   procParams, toggling, arming>>

VectorReport ==
    /\ audio.pc = "report"
    /\ Tell(<<Time(audio.which, playbackSampleIdx = 0)>>)
    /\ audio' = [pc |-> "idle", which |-> "source", frameEnd |-> 0]
    /\ UNCHANGED <<procMail, viewMail, samples, playbackState,
                   playbackSampleIdx, procSource, synthKnown, procParams, toggling,
                   arming>>

ProcessorMain ==
    \/ ProcSetParam \/ ProcSetData \/ ProcIgnorePartials
    \/ ProcToggle \/ ProcToggleSet \/ ProcToggleStart

ProcessorAudio ==
    \/ VectorSilent \/ VectorBegin \/ VectorLoad \/ VectorCheck \/ VectorStop
    \/ VectorReport

(***************************************************************************)
(* A vector lies wholly inside the sample it is loaded from.               *)
(***************************************************************************)
VectorInside(sample) ==
    sample.frames > 0 => playbackSampleIdx + VectorSize <= sample.frames
=============================================================================
