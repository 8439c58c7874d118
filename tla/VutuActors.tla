----------------------------- MODULE VutuActors -----------------------------
(***************************************************************************)
(* What the actors of Vutu share: their mailboxes, the two samples that    *)
(* the controller owns and the others reach through raw pointers, and the  *)
(* frame arithmetic on them.                                               *)
(*                                                                         *)
(* An ml::Actor handles one message at a time, in the order received.  A   *)
(* message is a record; "type" stands for its address.                     *)
(***************************************************************************)
EXTENDS Integers, Sequences

CONSTANTS
    VectorSize,     \* kFloatsPerDSPVector, the frames of one audio vector
    SizeMod,        \* 2^w for the w bits of a size_t
    Den,            \* an interval bound is a multiple of 1/Den
    SampleRate,     \* kSampleRate, the rate of playback and of synthesis
    Intervals,      \* the analysis intervals a user may set
    Fundamentals    \* the values of the parameter "fundamental"

VARIABLES
    ctlMail,        \* messages for the controller
    procMail,       \* messages for the processor
    viewMail,       \* messages for the view
    sourceSample,   \* VutuController::_sourceSample
    synthSample     \* VutuController::_synthesizedSample

mail == <<ctlMail, procMail, viewMail>>
samples == <<sourceSample, synthSample>>

(***************************************************************************)
(* Parameters.  An ml::Value is an array of floats: an Interval is two of  *)
(* them, a plain value is one.                                             *)
(***************************************************************************)
FullInterval == <<0, Den>>

ASSUME FrameAssumption ==
    /\ VectorSize \in Nat \ {0}
    /\ SizeMod \in Nat \ {0}
    /\ Den \in Nat \ {0}
    /\ SampleRate \in Nat \ {0}

ASSUME ParamAssumption ==
    /\ Intervals \subseteq {iv \in (0..Den) \X (0..Den) : iv[1] <= iv[2]}
    /\ FullInterval \in Intervals
    /\ Fundamentals # {}
    /\ \A f \in Fundamentals : f \in Seq(Nat) /\ Len(f) = 1

ParamNames == {"analysis_interval", "fundamental"}

ParamValues(p) == IF p = "analysis_interval" THEN Intervals ELSE Fundamentals

Params == {f \in [ParamNames -> Intervals \cup Fundamentals] :
               \A p \in ParamNames : f[p] \in ParamValues(p)}

(***************************************************************************)
(* Samples.  The audio itself is left out: "id" says which content the     *)
(* buffer holds, "frames" and "rate" how much of it.                       *)
(***************************************************************************)
Sample == [id : Nat, frames : Nat, rate : Nat \ {0}]

NoSample == [id |-> 0, frames |-> 0, rate |-> 1]

\* usable(): the sample has something in it.
Usable(s) == s.frames > 0

\* getStartFrame() and getEndFrame(): interval bounds as frames of a sample.
StartFrame(frames, interval) == (frames * interval[1]) \div Den
EndFrame(frames, interval) == (frames * interval[2]) \div Den

\* Subtraction of two values of type size_t.
SizeMinus(a, b) == (a - b) % SizeMod

\* The length of a sample once resampled to SampleRate.
ResampledFrames(s) == (s.frames * SampleRate) \div s.rate

(***************************************************************************)
(* Messages.                                                               *)
(***************************************************************************)
Buttons == {"play_source", "analyze", "synthesize", "export", "play_synth",
            "export_synth"}
Playable == {"source", "synth"}

Commands == {"open", "import", "analyze", "synthesize", "export",
             "export_synth", "toggle_play_source", "toggle_play_synth"}

Do(cmd) == [type |-> "do", cmd |-> cmd]
SetParam(p, v, fromController) ==
    [type |-> "set_param", param |-> p, value |-> v,
     fromController |-> fromController]
SetData(what) == [type |-> "set_data", what |-> what]
SetPartials(ptr) == [type |-> "set_partials_data", ptr |-> ptr]
SetEnabled(button, on) == [type |-> "enabled", button |-> button, on |-> on]
SetText(which, text) == [type |-> "text", which |-> which, text |-> text]
\* A playback time matters only as zero (at rest) or not.
Time(which, atZero) ==
    [type |-> "time", which |-> which, atZero |-> atZero]
Started(which) == [type |-> "playback_started", which |-> which]
Stopped == [type |-> "playback_stopped"]
Toggle(which) == [type |-> "toggle_play", which |-> which]

DoMsg == [type : {"do"}, cmd : Commands]
ParamMsg == {m \in [type : {"set_param"}, param : ParamNames,
                    value : Intervals \cup Fundamentals,
                    fromController : BOOLEAN] :
                 m.value \in ParamValues(m.param)}
DataMsg == [type : {"set_data"}, what : Playable]
PartialsMsg == [type : {"set_partials_data"}, ptr : Nat]
TimeMsg == [type : {"time"}, which : Playable, atZero : BOOLEAN]

CtlMsg == DoMsg \cup ParamMsg \cup TimeMsg
          \cup [type : {"playback_started"}, which : Playable]
          \cup [type : {"playback_stopped"}]
ProcMsg == ParamMsg \cup DataMsg \cup PartialsMsg
           \cup [type : {"toggle_play"}, which : Playable]
ViewMsg == DoMsg \cup ParamMsg \cup DataMsg \cup PartialsMsg \cup TimeMsg
           \cup [type : {"enabled"}, button : Buttons, on : BOOLEAN]
           \cup [type : {"text"}, which : Playable, text : {"play", "stop"}]

ActorsTypeOK ==
    /\ ctlMail \in Seq(CtlMsg)
    /\ procMail \in Seq(ProcMsg)
    /\ viewMail \in Seq(ViewMsg)
    /\ sourceSample \in Sample
    /\ synthSample \in Sample

\* The places in a mailbox of the messages of one type.
At(box, type) == {i \in 1..Len(box) : box[i].type = type}

\* A message of this type is the next to be handled.
IsNext(box, type) == box # <<>> /\ Head(box).type = type
=============================================================================
