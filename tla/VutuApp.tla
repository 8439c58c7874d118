------------------------------ MODULE VutuApp -------------------------------
(***************************************************************************)
(* The application: controller, processor, view and the user.  The three   *)
(* actors handle their messages on the main thread, in any order; the      *)
(* audio thread calls processVector().                                     *)
(***************************************************************************)
EXTENDS VutuController, VutuProcessor, VutuView

CONSTANTS
    UserCommands,   \* the commands that the user gives ...
    UserValues,     \* ... the parameter values that the user sets ...
    MaxInputs,      \* ... how many of either, at most ...
    MaxBacklog      \* ... and with how many messages still unhandled

VARIABLE inputs     \* how many the user has given

vars == <<mail, samples, ctlVars, procVars, viewVars, inputs>>

ASSUME UserAssumption ==
    /\ UserCommands \subseteq Commands
    /\ UserValues \subseteq Intervals \cup Fundamentals
    /\ MaxInputs \in Nat
    /\ MaxBacklog \in Nat

TypeOK ==
    /\ ActorsTypeOK
    /\ ControllerTypeOK
    /\ ProcessorTypeOK
    /\ ViewTypeOK
    /\ inputs \in Nat

(***************************************************************************)
(* main() ends its preparations by broadcasting the parameters and the     *)
(* enable states of the buttons.  Widgets made by makeWidgets() have all   *)
(* those buttons disabled but "synthesize".                                *)
(***************************************************************************)
InitParams == [p \in ParamNames |->
                   IF p = "analysis_interval" THEN FullInterval
                   ELSE CHOOSE f \in Fundamentals : TRUE]

BroadcastParams == ParamMsgs("analysis_interval", InitParams["analysis_interval"])
                   \o ParamMsgs("fundamental", InitParams["fundamental"])

Init ==
    /\ sourceSample = NoSample
    /\ synthSample = NoSample
    /\ vutuPartials = EmptyPartials(0)
    /\ lorisPartials = LorisOf(EmptyPartials(0))
    /\ ctlParams = InitParams
    /\ sourceFileLoaded = 0
    /\ nextId = 1
    /\ alive = TRUE
    /\ playbackState = "off"
    /\ playbackSampleIdx = 0
    /\ procSource = NoSample
    /\ synthKnown = FALSE
    /\ procParams = InitParams
    /\ toggling = "none"
    /\ arming = "none"
    /\ audio = [pc |-> "idle", which |-> "source", frameEnd |-> 0]
    /\ viewParams = InitParams
    /\ viewPartials = 0
    /\ samplesShown = {}
    /\ enabled = [b \in Buttons |-> b = "synthesize"]
    /\ playText = [w \in Playable |-> "play"]
    /\ atZero = [w \in Playable |-> TRUE]
    /\ inputs = 0
    /\ ctlMail = <<>>
    /\ procMail = BroadcastParams
    /\ viewMail = BroadcastParams
                  \o ButtonEnableStates(sourceSample, lorisPartials, synthSample)

(***************************************************************************)
(* Steps.  The main thread does nothing else while it is in a handler.     *)
(***************************************************************************)
MainIsFree == alive /\ HandlerMayRun /\ NotToggling

Controller == MainIsFree /\ ControllerNext /\ UNCHANGED <<procVars, viewVars, inputs>>
View == MainIsFree /\ ViewNext /\ UNCHANGED <<ctlVars, procVars, inputs>>
Processor == alive /\ ProcessorMain /\ UNCHANGED <<ctlVars, viewVars, inputs>>
Audio == alive /\ ProcessorAudio /\ UNCHANGED <<ctlVars, viewVars, inputs>>

UserGives ==
    /\ MainIsFree
    /\ inputs < MaxInputs
    /\ Len(ctlMail) + Len(procMail) + Len(viewMail) <= MaxBacklog
    /\ inputs' = inputs + 1
    /\ UNCHANGED <<procMail, samples, ctlVars, procVars, viewVars>>

UserClicks ==
    /\ UserGives
    /\ \E cmd \in UserCommands : Click(cmd)
    /\ UNCHANGED ctlMail

UserTurns ==
    /\ UserGives
    /\ \E p \in ParamNames : \E v \in UserValues \cap ParamValues(p) : Turn(p, v)
    /\ UNCHANGED ctlMail

\* Key "o": vutuAppLoop() sends straight to the controller.
UserPressesO ==
    /\ UserGives
    /\ "open" \in UserCommands
    /\ ctlMail' = Append(ctlMail, Do("open"))
    /\ UNCHANGED viewMail

User == UserClicks \/ UserTurns \/ UserPressesO

Next == Controller \/ View \/ Processor \/ Audio \/ User

\* A timer empties each mailbox again and again, between two vectors if it
\* must be; the audio device asks for vector after vector.
Fairness ==
    /\ SF_vars(Controller)
    /\ SF_vars(View)
    /\ SF_vars(Processor)
    /\ WF_vars(Audio)

Spec == Init /\ [][Next]_vars
FairSpec == Spec /\ Fairness
-----------------------------------------------------------------------------
(***************************************************************************)
(* Replicas.  The view and the processor see the controller's data through *)
(* messages.  Each property says: what a replica will hold once it has     *)
(* handled the messages it has been sent is what the controller holds.     *)
(***************************************************************************)
LastOf(places, i) == i \in places /\ \A j \in places : j <= i

\* The partials that the view draws belong to the controller, which frees
\* the object it replaces; unless the message with the new pointer is still
\* in the view's mailbox, the view's pointer is the controller's.
ViewPartialsCurrent ==
    LET sent == At(viewMail, "set_partials_data") IN
    \/ sent = {} /\ viewPartials = vutuPartials.id
    \/ \E i \in sent : LastOf(sent, i) /\ viewMail[i].ptr = vutuPartials.id

\* Each button comes to be enabled exactly if the controller has the data
\* that its command needs (setButtonEnableStates).
EnabledCurrent ==
    \A b \in Buttons :
        LET sent == {i \in At(viewMail, "enabled") : viewMail[i].button = b}
            state == EnabledState(b, sourceSample, lorisPartials, synthSample)
        IN  \/ sent = {} /\ enabled[b] = state
            \/ \E i \in sent : LastOf(sent, i) /\ viewMail[i].on = state

ParamPlaces(box, p) == {i \in At(box, "set_param") : box[i].param = p}

\* The processor comes to have every parameter value of the controller's.
ProcParamsCurrent ==
    \A p \in ParamNames :
        LET sent == ParamPlaces(procMail, p) IN
        \/ sent = {} /\ procParams[p] = ctlParams[p]
        \/ \E i \in sent : LastOf(sent, i) /\ procMail[i].value = ctlParams[p]

\* So does the view, once no value that the user set is on its way: setting
\* a value in the view, and having it come back, ends with all agreed.
FromUser(box, p) == \E i \in ParamPlaces(box, p) : ~box[i].fromController

ViewParamsCurrent ==
    \A p \in ParamNames :
        LET sent == ParamPlaces(viewMail, p) IN
        \/ FromUser(viewMail, p) \/ FromUser(ctlMail, p)
        \/ sent = {} /\ viewParams[p] = ctlParams[p]
        \/ \E i \in sent : LastOf(sent, i) /\ viewMail[i].value = ctlParams[p]

Pending(what) ==
    \E i \in At(procMail, "set_data") : procMail[i].what = what

\* The processor's resampled copy is of the source that is loaded, unless
\* it has still to be told of a new one, or none is loaded.
ProcSourceCurrent ==
    ~Pending("source") /\ Usable(sourceSample) =>
        /\ procSource.id = sourceSample.id
        /\ procSource.frames = ResampledFrames(sourceSample)
-----------------------------------------------------------------------------
(***************************************************************************)
(* The controller's data fit together.                                     *)
(***************************************************************************)
\* Vutu's and Loris's forms of the partials are of the same analysis, and
\* synthesized audio was made from those partials.
DataConsistent ==
    /\ lorisPartials = LorisOf(vutuPartials)
    /\ synthSample.frames > 0 => synthSample.id = vutuPartials.id

\* Partials on show beside a source sample are the partials of that sample.
PartialsOfSource ==
    vutuPartials.any /\ Usable(sourceSample) => vutuPartials.from = sourceSample.id

\* Partials carry the name of the file whose sound was analysed.
PartialsNameSource ==
    vutuPartials.any => vutuPartials.sourceFile = vutuPartials.from

\* A file of partials that cannot be read does not end the program.
SurvivesImport == alive
-----------------------------------------------------------------------------
(***************************************************************************)
(* Playback.                                                               *)
(***************************************************************************)
\* Every vector is loaded from frames that the playing sample has.  The
\* synthesized sample is the controller's own: between its changing that
\* and the processor's being told, nothing is promised.
ReadsInBounds ==
    audio.pc = "load" =>
        \/ audio.which = "source" /\ VectorInside(procSource)
        \/ audio.which = "synth" /\ (Pending("synth") \/ VectorInside(synthSample))

Quiescent ==
    /\ mail = <<<<>>, <<>>, <<>>>>
    /\ NotToggling
    /\ audio.pc = "idle"

\* Once every message has been handled, the play buttons offer to stop what
\* plays and to play what does not.
ButtonsTellPlayback ==
    Quiescent => \A w \in Playable : (playText[w] = "stop") <=> (playbackState = w)

\* A synthesized sample is played to its last frame (unless replaced).
PlaysWholeSynth ==
    audio.pc = "stop" /\ audio.which = "synth" /\ ~Pending("synth") =>
        playbackSampleIdx >= synthSample.frames

\* Playback that nobody stops comes to its end.
PlaybackEnds == (playbackState # "off") ~> (playbackState = "off")

\* After the last thing the user does, the view comes to show the truth for
\* good: nothing plays, and its replicas equal the controller's data.
Settled ==
    /\ Quiescent
    /\ playbackState = "off"
    /\ viewPartials = vutuPartials.id
    /\ viewParams = ctlParams /\ procParams = ctlParams
    /\ playText = [w \in Playable |-> "play"]
    /\ enabled = [b \in Buttons |->
                      EnabledState(b, sourceSample, lorisPartials, synthSample)]

EventuallySettled == <>[]Settled
=============================================================================
