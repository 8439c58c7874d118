--------------------------- MODULE VutuController ---------------------------
(***************************************************************************)
(* VutuController: owns the source sample, the partials (in Vutu's form    *)
(* and in Loris's), the synthesized sample and the parameters, and tells   *)
(* the view and the processor whenever it has changed one of them.  One    *)
(* action per message of VutuController::onMessage.                        *)
(*                                                                         *)
(* The outcomes of file dialogs, files and analyses are nondeterministic.  *)
(* What AppController::onMessage, outside this repository, does with the   *)
(* messages that are passed on to it is left out.                          *)
(***************************************************************************)
EXTENDS VutuActors

CONSTANTS
    LoadOutcomes,   \* what opening a sound file can come to
    ImportOutcomes, \* what importing partials can come to
    SourceFrames,   \* the lengths of sound files, in frames ...
    SourceRates,    \* ... and their sample rates
    FileDurations   \* the durations that files of partials give, in seconds

VARIABLES
    vutuPartials,       \* the object that _vutuPartials owns
    lorisPartials,      \* what _lorisPartials was made from
    ctlParams,          \* the controller's params
    sourceFileLoaded,   \* names the file last picked to open
    nextId,             \* the next unused name of a content or an object
    alive               \* FALSE once the program has crashed

ctlVars == <<vutuPartials, lorisPartials, ctlParams, sourceFileLoaded, nextId,
             alive>>

ASSUME OutcomeAssumption ==
    /\ LoadOutcomes \subseteq {"cancel", "not_audio", "short", "ok"}
    /\ ImportOutcomes \subseteq {"cancel", "unreadable", "ok"}
    /\ SourceFrames \subseteq Nat
    /\ SourceRates \subseteq Nat \ {0}
    /\ FileDurations \subseteq Nat

(***************************************************************************)
(* A VutuPartialsData.  "id" names the object itself, so that a pointer to *)
(* it is its id, 0 for nullptr.  "from" is the sample content analysed, 0  *)
(* for imported partials.  A duration is a ratio: frames and rate.  "span" *)
(* is the part of it (in multiples of 1/Den) that the partials cover.      *)
(***************************************************************************)
VutuPartials == [id : Nat, any : BOOLEAN, from : Nat, sourceFile : Nat,
                 sourceDuration : Nat \X (Nat \ {0}), span : 0..Den,
                 fundamental : Fundamentals \cup {<<0>>}]

EmptyPartials(id) ==
    [id |-> id, any |-> FALSE, from |-> 0, sourceFile |-> 0,
     sourceDuration |-> <<0, 1>>, span |-> 0, fundamental |-> <<0>>]

LorisPartials == [of : Nat, any : BOOLEAN]

\* _lorisToVutuPartials and _sumuToLorisPartials: each form holds what the
\* other one does.
LorisOf(p) == [of |-> p.id, any |-> p.any]

ControllerTypeOK ==
    /\ vutuPartials \in VutuPartials
    /\ lorisPartials \in LorisPartials
    /\ ctlParams \in Params
    /\ sourceFileLoaded \in Nat
    /\ nextId \in Nat
    /\ alive \in BOOLEAN

(***************************************************************************)
(* What the controller sends.                                              *)
(***************************************************************************)
EnabledState(button, source, loris, synth) ==
    \/ button \in {"play_source", "analyze"} /\ Usable(source)
    \/ button \in {"synthesize", "export"} /\ loris.any
    \/ button \in {"play_synth", "export_synth"} /\ synth.frames > 0

\* Mutant: the last button is forgotten.
ButtonEnableStatesButLast(source, loris, synth) ==
    [i \in 1..5 |->
        LET b == <<"play_source", "analyze", "synthesize", "export",
                   "play_synth">>[i]
        IN  SetEnabled(b, EnabledState(b, source, loris, synth))]

ButtonEnableStates(source, loris, synth) ==
    LET Enable(button) ==
            SetEnabled(button, EnabledState(button, source, loris, synth))
    IN  <<Enable("play_source"), Enable("analyze"), Enable("synthesize"),
          Enable("export"), Enable("play_synth"), Enable("export_synth")>>

Receive(type) == IsNext(ctlMail, type) /\ ctlMail' = Tail(ctlMail)
Command(cmd) == Receive("do") /\ Head(ctlMail).cmd = cmd

Send(toProc, toView) ==
    /\ procMail' = procMail \o toProc
    /\ viewMail' = viewMail \o toView

\* broadcastParam(): the view is told not to send the value back.
ParamMsgs(p, v) == <<SetParam(p, v, TRUE)>>

\* The interval becomes the whole of what has been loaded.
\* Mutant: the new value is not broadcast.
IntervalResetSilently == <<>>
IntervalReset == ParamMsgs("analysis_interval", FullInterval)

\* broadcastPartialsData(), once the partials have been replaced.
\* Mutant: it comes before that.
PartialsBroadcastEarly == SetPartials(vutuPartials.id)
PartialsBroadcast == SetPartials(vutuPartials'.id)

\* clear(_sourceSample) and _clearSynthesizedSample().
\* Mutants: the sample is kept.
KeptSource == sourceSample
ClearedSource == NoSample
KeptSynth == synthSample
ClearedSynth == NoSample

(***************************************************************************)
(* "set_param" and "set_prop".                                             *)
(***************************************************************************)
CtlSetParam ==
    /\ Receive("set_param")
    /\ LET m == Head(ctlMail) IN
       /\ ctlParams' = [ctlParams EXCEPT ![m.param] = m.value]
       /\ Send(ParamMsgs(m.param, m.value), ParamMsgs(m.param, m.value))
    /\ UNCHANGED <<samples, vutuPartials, lorisPartials, sourceFileLoaded,
                   nextId, alive>>

CtlSetTime ==
    /\ Receive("time")
    /\ Send(<<>>, <<Head(ctlMail)>>)
    /\ UNCHANGED <<samples, ctlVars>>

(***************************************************************************)
(* "do/open".  loadSampleFromPath() fails, but remembers the file's name,  *)
(* if libsndfile cannot open it; it also fails, having replaced the        *)
(* sample, if fewer frames can be read than the file promises.  Whatever   *)
(* happened, everything is broadcast and the interval is reset.            *)
(***************************************************************************)
\* Mutant: the name is lost when the dialog is cancelled.
FilePickedLosingName(outcome) == IF outcome = "cancel" THEN 0 ELSE nextId
FilePicked(outcome) == IF outcome = "cancel" THEN sourceFileLoaded ELSE nextId

LoadedSample(outcome, frames, rate) ==
    IF outcome \in {"short", "ok"}
    THEN [id |-> nextId, frames |-> frames, rate |-> rate]
    ELSE sourceSample

CtlOpen ==
    /\ Command("open")
    /\ \E outcome \in LoadOutcomes, frames \in SourceFrames, rate \in SourceRates :
       /\ sourceFileLoaded' = FilePicked(outcome)
       /\ sourceSample' = LoadedSample(outcome, frames, rate)
       /\ vutuPartials' = IF outcome = "ok" THEN EmptyPartials(nextId)
                                            ELSE vutuPartials
       /\ lorisPartials' = IF outcome = "ok" THEN LorisOf(vutuPartials')
                                             ELSE lorisPartials
       /\ synthSample' = IF outcome = "ok" THEN ClearedSynth ELSE synthSample
    /\ nextId' = nextId + 1
    /\ ctlParams' = [ctlParams EXCEPT !["analysis_interval"] = FullInterval]
    /\ LET data == <<SetData("source"), PartialsBroadcast, SetData("synth")>>
       IN  Send(data \o IntervalReset,
                data \o ButtonEnableStates(sourceSample', lorisPartials', synthSample')
                     \o IntervalReset)
    /\ UNCHANGED alive

(***************************************************************************)
(* "do/analyze".  Loris may find no partials at all, and cutHighs() and    *)
(* cleanOutliers() may discard those it found.                             *)
(***************************************************************************)
\* Mutant: the bounds are swapped.
SpanSwapped(interval) == interval[1] - interval[2]
Span(interval) == interval[2] - interval[1]

Analyzed(id, any) ==
    [id |-> id, any |-> any, from |-> sourceSample.id,
     sourceFile |-> sourceFileLoaded,
     sourceDuration |-> <<sourceSample.frames, sourceSample.rate>>,
     span |-> Span(ctlParams["analysis_interval"]), fundamental |-> <<0>>]

CtlAnalyze ==
    /\ Command("analyze")
    /\ \/ vutuPartials' = EmptyPartials(nextId)
       \/ /\ sourceSample.frames > 0
          /\ \E any \in BOOLEAN : vutuPartials' = Analyzed(nextId, any)
    /\ lorisPartials' = LorisOf(vutuPartials')
    /\ synthSample' = ClearedSynth
    /\ nextId' = nextId + 1
    /\ LET data == <<PartialsBroadcast, SetData("synth")>>
       IN  Send(data, data \o ButtonEnableStates(sourceSample, lorisPartials', synthSample'))
    /\ UNCHANGED <<sourceSample, ctlParams, sourceFileLoaded, alive>>

(***************************************************************************)
(* "do/synthesize".  The output is as long as the analysis interval is     *)
(* now, cut or zero-padded, unless Loris renders nothing.                  *)
(***************************************************************************)
SynthFrames(duration, span) ==
    (duration[1] * span * SampleRate) \div (duration[2] * Den)

Synthesized ==
    [id |-> lorisPartials.of, rate |-> SampleRate,
     frames |-> SynthFrames(vutuPartials.sourceDuration,
                            Span(ctlParams["analysis_interval"]))]

CtlSynthesize ==
    /\ Command("synthesize")
    /\ \/ synthSample' = ClearedSynth
       \/ lorisPartials.any /\ synthSample' = Synthesized
    /\ LET data == <<SetData("synth")>>
       IN  Send(data, data \o ButtonEnableStates(sourceSample, lorisPartials, synthSample'))
    /\ UNCHANGED <<sourceSample, ctlVars>>

(***************************************************************************)
(* "do/import".  loadVutuPartialsFromFile() dereferences its result even   *)
(* when the file could not be read, which ends the program.                *)
(***************************************************************************)
ImportedPartials(any, duration, fundamental) ==
    [EmptyPartials(nextId) EXCEPT !.any = any, !.sourceDuration = <<duration, 1>>,
                                  !.span = Den, !.fundamental = fundamental]

ImportPartials(any, duration, fundamental) ==
    /\ vutuPartials' = ImportedPartials(any, duration, fundamental)
    /\ lorisPartials' = LorisOf(vutuPartials')
    /\ sourceSample' = ClearedSource
    /\ synthSample' = ClearedSynth
    /\ nextId' = nextId + 1
    /\ ctlParams' = [p \in ParamNames |-> IF p = "fundamental" THEN fundamental
                                                               ELSE FullInterval]
    /\ LET params == ParamMsgs("fundamental", fundamental)
                     \o IntervalReset
           data == <<SetData("source"), PartialsBroadcast, SetData("synth")>>
       IN  Send(data \o params,
                data \o ButtonEnableStates(sourceSample', lorisPartials', synthSample')
                     \o params)
    /\ UNCHANGED <<sourceFileLoaded, alive>>

CtlImport ==
    /\ Command("import")
    /\ \/ /\ "cancel" \in ImportOutcomes
          /\ UNCHANGED <<procMail, viewMail, samples, ctlVars>>
       \/ /\ "unreadable" \in ImportOutcomes
          /\ alive' = FALSE
          /\ UNCHANGED <<procMail, viewMail, samples, vutuPartials,
                         lorisPartials, ctlParams, sourceFileLoaded, nextId>>
       \/ /\ "ok" \in ImportOutcomes
          /\ \E any \in BOOLEAN, d \in FileDurations, f \in Fundamentals :
                 ImportPartials(any, d, f)

(***************************************************************************)
(* "do/export" notes the fundamental in the partials that it saves (the    *)
(* dialog may be cancelled); "do/export_synth" changes nothing but a file. *)
(***************************************************************************)
CtlExport ==
    /\ Command("export")
    /\ \/ UNCHANGED vutuPartials
       \/ /\ vutuPartials.any
          /\ vutuPartials' = [vutuPartials EXCEPT
                                  !.fundamental = ctlParams["fundamental"]]
    /\ UNCHANGED <<procMail, viewMail, samples, lorisPartials, ctlParams,
                   sourceFileLoaded, nextId, alive>>

CtlExportSynth ==
    /\ Command("export_synth")
    /\ UNCHANGED <<procMail, viewMail, samples, ctlVars>>

(***************************************************************************)
(* Transport: "do/toggle_play_*" from the view, "do/playback_*" from the   *)
(* processor.  The time that the latter resets is that of a widget which   *)
(* does not exist.                                                         *)
(***************************************************************************)
CtlToggle ==
    /\ \/ Command("toggle_play_source") /\ Send(<<Toggle("source")>>, <<>>)
       \/ Command("toggle_play_synth") /\ Send(<<Toggle("synth")>>, <<>>)
    /\ UNCHANGED <<samples, ctlVars>>

CtlStarted ==
    /\ Receive("playback_started")
    /\ Send(<<>>, <<SetText(Head(ctlMail).which, "stop")>>)
    /\ UNCHANGED <<samples, ctlVars>>

\* Mutant: only one of the two buttons is reset.
PlayTextOfSource == <<SetText("source", "play")>>
PlayTexts == <<SetText("source", "play"), SetText("synth", "play")>>

CtlStopped ==
    /\ Receive("playback_stopped")
    /\ Send(<<>>, PlayTexts)
    /\ UNCHANGED <<samples, ctlVars>>

ControllerNext ==
    \/ CtlSetParam \/ CtlSetTime
    \/ CtlOpen \/ CtlAnalyze \/ CtlSynthesize
    \/ CtlImport \/ CtlExport \/ CtlExportSynth
    \/ CtlToggle \/ CtlStarted \/ CtlStopped
=============================================================================
