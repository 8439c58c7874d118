--------------------------- MODULE VutuAppProofs ----------------------------
(***************************************************************************)
(* Theorems about VutuApp, for every value of its constants.               *)
(***************************************************************************)
EXTENDS VutuApp, SequenceTheorems, TLAPS
-----------------------------------------------------------------------------
(***************************************************************************)
(* What the actors send is made of messages.                               *)
(***************************************************************************)
\* Short sequences, as the actors send them.
LEMMA ShortSeqs ==
    ASSUME NEW S
    PROVE  /\ <<>> \in Seq(S)
           /\ \A x \in S : <<x>> \in Seq(S)
           /\ \A x, y \in S : <<x, y>> \in Seq(S)
           /\ \A x, y, z \in S : <<x, y, z>> \in Seq(S)
OBVIOUS

\* A parameter with a value of its own makes a message.
LEMMA ParamMsgType ==
    ASSUME NEW p \in ParamNames, NEW v \in ParamValues(p), NEW b \in BOOLEAN
    PROVE  SetParam(p, v, b) \in ParamMsg
BY DEF SetParam, ParamMsg, ParamNames, ParamValues

\* Setting a parameter to a value of its own leaves proper parameters.
LEMMA ParamSet ==
    ASSUME NEW f \in Params, NEW p \in ParamNames, NEW v \in ParamValues(p)
    PROVE  [f EXCEPT ![p] = v] \in Params
BY DEF Params, ParamNames, ParamValues

\* The value in a message is one of the parameter it names.
LEMMA ParamMsgFields ==
    ASSUME NEW m \in ParamMsg
    PROVE  m.param \in ParamNames /\ m.value \in ParamValues(m.param)
BY DEF ParamMsg

\* The interval that open and import set is one a user may set.
LEMMA FullIntervalType == FullInterval \in ParamValues("analysis_interval")
BY ParamAssumption DEF ParamValues

\* setButtonEnableStates() sends messages that the view handles.
LEMMA EnableStatesType ==
    ASSUME NEW s \in Sample, NEW l \in LorisPartials, NEW y \in Sample
    PROVE  ButtonEnableStates(s, l, y) \in Seq(ViewMsg)
<1>1. \A b \in Buttons : EnabledState(b, s, l, y) \in BOOLEAN
  BY DEF EnabledState
<1>2. \A b \in Buttons : SetEnabled(b, EnabledState(b, s, l, y)) \in ViewMsg
  BY <1>1 DEF SetEnabled, ViewMsg
<1> QED
  BY <1>2 DEF ButtonEnableStates, Buttons

\* Pointers to data may be sent to the view and to the processor.
LEMMA DataMsgTypes ==
    /\ \A w \in Playable : SetData(w) \in ViewMsg /\ SetData(w) \in ProcMsg
    /\ \A n \in Nat : SetPartials(n) \in ViewMsg /\ SetPartials(n) \in ProcMsg
BY DEF SetData, SetPartials, ViewMsg, ProcMsg, DataMsg, PartialsMsg
-----------------------------------------------------------------------------
(***************************************************************************)
(* The controller keeps to the types.                                      *)
(***************************************************************************)
\* What the controller sends leaves the mailboxes well typed.
LEMMA SendTypes ==
    ASSUME ActorsTypeOK, NEW a \in Seq(ProcMsg), NEW b \in Seq(ViewMsg), Send(a, b)
    PROVE  procMail' \in Seq(ProcMsg) /\ viewMail' \in Seq(ViewMsg)
BY ConcatProperties DEF Send, ActorsTypeOK

\* What the controller takes from its mailbox, and what it leaves there.
LEMMA ReceiveTypes ==
    ASSUME ActorsTypeOK, NEW type, Receive(type)
    PROVE  /\ ctlMail' \in Seq(CtlMsg)
           /\ Head(ctlMail) \in CtlMsg
           /\ Head(ctlMail).type = type
BY HeadTailProperties DEF Receive, IsNext, ActorsTypeOK

\* A "set_param" names a parameter and one of its values.
LEMMA ReceivedParam ==
    ASSUME ActorsTypeOK, Receive("set_param")
    PROVE  Head(ctlMail) \in ParamMsg
<1>1. Head(ctlMail) \in CtlMsg /\ Head(ctlMail).type = "set_param"
  BY ReceiveTypes
<1> QED
  BY <1>1 DEF CtlMsg, DoMsg, TimeMsg

\* A cleared sample is a sample.
LEMMA NoSampleType == NoSample \in Sample
BY DEF NoSample, Sample

\* A parameter set and broadcast.
LEMMA CtlSetParamTypes ==
    ASSUME ActorsTypeOK, ControllerTypeOK, CtlSetParam
    PROVE  ActorsTypeOK' /\ ControllerTypeOK'
<1> DEFINE m == Head(ctlMail)
<1>1. m.param \in ParamNames /\ m.value \in ParamValues(m.param)
  BY ReceivedParam, ParamMsgFields DEF CtlSetParam
<1>2. SetParam(m.param, m.value, TRUE) \in ParamMsg
  BY <1>1, ParamMsgType
<1>3. /\ ParamMsgs(m.param, m.value) \in Seq(ProcMsg)
      /\ ParamMsgs(m.param, m.value) \in Seq(ViewMsg)
  <2>1. /\ SetParam(m.param, m.value, TRUE) \in ProcMsg
        /\ SetParam(m.param, m.value, TRUE) \in ViewMsg
    BY <1>2 DEF ProcMsg, ViewMsg
  <2> QED
    BY <2>1, ShortSeqs DEF ParamMsgs
<1>4. procMail' \in Seq(ProcMsg) /\ viewMail' \in Seq(ViewMsg)
  BY <1>3, SendTypes DEF CtlSetParam
<1>5. ctlParams' \in Params
  BY <1>1, ParamSet DEF CtlSetParam, ControllerTypeOK
<1>6. ctlMail' \in Seq(CtlMsg)
  BY ReceiveTypes DEF CtlSetParam
<1> QED
  BY <1>4, <1>5, <1>6 DEF CtlSetParam, ActorsTypeOK, ControllerTypeOK, samples

\* The actions that pass something on, or only note something.
LEMMA CtlRelayTypes ==
    ASSUME ActorsTypeOK, ControllerTypeOK,
           CtlSetTime \/ CtlExport \/ CtlExportSynth \/ CtlToggle \/ CtlStarted
               \/ CtlStopped
    PROVE  ActorsTypeOK' /\ ControllerTypeOK'
<1>1. ctlMail' \in Seq(CtlMsg) /\ Head(ctlMail) \in CtlMsg
  BY ReceiveTypes DEF CtlSetTime, CtlExport, CtlExportSynth, CtlToggle,
     CtlStarted, CtlStopped, Command
<1>2. CASE CtlSetTime
  <2>1. Head(ctlMail) \in ViewMsg
    BY <1>1, <1>2, ReceiveTypes
       DEF CtlSetTime, CtlMsg, ViewMsg, DoMsg, ParamMsg
  <2>2. procMail' \in Seq(ProcMsg) /\ viewMail' \in Seq(ViewMsg)
    <3>1. Send(<<>>, <<Head(ctlMail)>>)
      BY <1>2 DEF CtlSetTime
    <3>2. <<>> \in Seq(ProcMsg) /\ <<Head(ctlMail)>> \in Seq(ViewMsg)
      BY <2>1, ShortSeqs
    <3> QED
      BY <3>1, <3>2, SendTypes
  <2> QED
    BY <1>1, <1>2, <2>2
       DEF CtlSetTime, ActorsTypeOK, ControllerTypeOK, samples, ctlVars
<1>3. CASE CtlExport
  <2>1. vutuPartials' \in VutuPartials
    <3>1. ctlParams["fundamental"] \in Fundamentals
      BY DEF ControllerTypeOK, Params, ParamNames, ParamValues
    <3> QED
      BY <1>3, <3>1 DEF CtlExport, ControllerTypeOK, VutuPartials
  <2> QED
    BY <1>1, <1>3, <2>1 DEF CtlExport, ActorsTypeOK, ControllerTypeOK, samples
<1>4. CASE CtlExportSynth
  BY <1>1, <1>4 DEF CtlExportSynth, ActorsTypeOK, ControllerTypeOK, samples, ctlVars
<1>5. CASE CtlToggle
  <2>1. \A w \in Playable : <<Toggle(w)>> \in Seq(ProcMsg)
    BY DEF Toggle, ProcMsg
  <2>2. PICK w \in Playable : Send(<<Toggle(w)>>, <<>>)
    BY <1>5 DEF CtlToggle, Playable
  <2>3. procMail' \in Seq(ProcMsg) /\ viewMail' \in Seq(ViewMsg)
    <3>1. <<>> \in Seq(ViewMsg)
      BY ShortSeqs
    <3> QED
      BY <2>1, <2>2, <3>1, SendTypes
  <2> QED
    BY <1>1, <1>5, <2>3
       DEF CtlToggle, ActorsTypeOK, ControllerTypeOK, samples, ctlVars
<1>6. CASE CtlStarted
  <2>1. Head(ctlMail).which \in Playable
    BY <1>1, <1>6, ReceiveTypes
       DEF CtlStarted, CtlMsg, DoMsg, ParamMsg, TimeMsg
  <2>2. SetText(Head(ctlMail).which, "stop") \in ViewMsg
    BY <2>1 DEF SetText, ViewMsg
  <2>3. procMail' \in Seq(ProcMsg) /\ viewMail' \in Seq(ViewMsg)
    <3>1. Send(<<>>, <<SetText(Head(ctlMail).which, "stop")>>)
      BY <1>6 DEF CtlStarted
    <3>2. /\ <<>> \in Seq(ProcMsg)
          /\ <<SetText(Head(ctlMail).which, "stop")>> \in Seq(ViewMsg)
      BY <2>2, ShortSeqs
    <3> QED
      BY <3>1, <3>2, SendTypes
  <2> QED
    BY <1>1, <1>6, <2>3
       DEF CtlStarted, ActorsTypeOK, ControllerTypeOK, samples, ctlVars
<1>7. CASE CtlStopped
  <2>1. PlayTexts \in Seq(ViewMsg)
    <3>1. SetText("source", "play") \in ViewMsg /\ SetText("synth", "play") \in ViewMsg
      BY DEF SetText, ViewMsg, Playable
    <3> QED
      BY <3>1, ShortSeqs DEF PlayTexts
  <2>2. procMail' \in Seq(ProcMsg) /\ viewMail' \in Seq(ViewMsg)
    <3>1. Send(<<>>, PlayTexts)
      BY <1>7 DEF CtlStopped
    <3>2. <<>> \in Seq(ProcMsg)
      BY ShortSeqs
    <3> QED
      BY <2>1, <3>1, <3>2, SendTypes
  <2> QED
    BY <1>1, <1>7, <2>2
       DEF CtlStopped, ActorsTypeOK, ControllerTypeOK, samples, ctlVars
<1> QED
  BY <1>2, <1>3, <1>4, <1>5, <1>6, <1>7

\* The number of frames synthesized is a natural number.
LEMMA SynthFramesType ==
    ASSUME NEW d \in Nat \X (Nat \ {0}), NEW span \in 0..Den
    PROVE  SynthFrames(d, span) \in Nat
<1>1. d[1] \in Nat /\ d[2] \in Nat \ {0} /\ Den \in Nat \ {0} /\ span \in Nat
      /\ SampleRate \in Nat
  BY FrameAssumption
<1>2. d[1] * span \in Nat /\ d[2] * Den \in Nat \ {0}
  BY <1>1
<1>3. d[1] * span * SampleRate \in Nat
  BY <1>1, <1>2
<1>4. \A x \in Nat, y \in Nat \ {0} : x \div y \in Nat
  OBVIOUS
<1> QED
  BY <1>2, <1>3, <1>4 DEF SynthFrames

\* The length of an interval.
LEMMA SpanType ==
    ASSUME NEW iv \in Intervals
    PROVE  Span(iv) \in 0..Den
<1>1. iv \in (0..Den) \X (0..Den) /\ iv[1] <= iv[2]
  BY ParamAssumption
<1> QED
  BY <1>1, FrameAssumption DEF Span

\* The values of the two parameters.
LEMMA IntervalParam ==
    ASSUME NEW f \in Params
    PROVE  f["analysis_interval"] \in Intervals /\ f["fundamental"] \in Fundamentals
BY DEF Params, ParamNames, ParamValues

\* _clearPartialsData() makes partials.
LEMMA EmptyPartialsType ==
    ASSUME NEW n \in Nat
    PROVE  EmptyPartials(n) \in VutuPartials
<1>1. <<0, 1>> \in Nat \X (Nat \ {0})
  OBVIOUS
<1>2. 0 \in 0..Den
  BY FrameAssumption
<1> QED
  BY <1>1, <1>2 DEF EmptyPartials, VutuPartials

\* Their Loris form.
LEMMA LorisType ==
    ASSUME NEW p \in VutuPartials
    PROVE  LorisOf(p) \in LorisPartials
BY DEF LorisOf, LorisPartials, VutuPartials

\* Messages that give a parameter its value.
LEMMA ParamMsgsType ==
    ASSUME NEW p \in ParamNames, NEW v \in ParamValues(p)
    PROVE  ParamMsgs(p, v) \in Seq(ProcMsg) /\ ParamMsgs(p, v) \in Seq(ViewMsg)
<1>1. SetParam(p, v, TRUE) \in ParamMsg
  BY ParamMsgType
<1>2. SetParam(p, v, TRUE) \in ProcMsg /\ SetParam(p, v, TRUE) \in ViewMsg
  BY <1>1 DEF ProcMsg, ViewMsg
<1> QED
  BY <1>2, ShortSeqs DEF ParamMsgs

\* The reset of the interval is a proper broadcast.
LEMMA IntervalResetType ==
    /\ IntervalReset \in Seq(ProcMsg)
    /\ IntervalReset \in Seq(ViewMsg)
BY FullIntervalType, ParamMsgsType DEF IntervalReset, ParamNames

\* Messages with the data that an action has changed.
LEMMA DataSeqs ==
    ASSUME NEW n \in Nat
    PROVE  /\ <<SetData("source"), SetPartials(n), SetData("synth")>> \in Seq(ProcMsg)
           /\ <<SetData("source"), SetPartials(n), SetData("synth")>> \in Seq(ViewMsg)
           /\ <<SetPartials(n), SetData("synth")>> \in Seq(ProcMsg)
           /\ <<SetPartials(n), SetData("synth")>> \in Seq(ViewMsg)
           /\ <<SetData("synth")>> \in Seq(ProcMsg)
           /\ <<SetData("synth")>> \in Seq(ViewMsg)
<1>1. /\ SetData("source") \in ProcMsg /\ SetData("synth") \in ProcMsg
      /\ SetData("source") \in ViewMsg /\ SetData("synth") \in ViewMsg
      /\ SetPartials(n) \in ProcMsg /\ SetPartials(n) \in ViewMsg
  BY DataMsgTypes DEF Playable
<1> QED
  BY <1>1, ShortSeqs

\* Messages sent after others.
LEMMA ConcatType ==
    ASSUME NEW S, NEW a \in Seq(S), NEW b \in Seq(S)
    PROVE  a \o b \in Seq(S)
BY ConcatProperties

\* "do/open", whatever it comes to.
LEMMA CtlOpenTypes ==
    ASSUME ActorsTypeOK, ControllerTypeOK, CtlOpen
    PROVE  ActorsTypeOK' /\ ControllerTypeOK'
<1>1. ctlMail' \in Seq(CtlMsg)
  BY ReceiveTypes DEF CtlOpen, Command
<1>2. PICK outcome \in LoadOutcomes, frames \in SourceFrames, rate \in SourceRates :
         /\ sourceFileLoaded' = FilePicked(outcome)
         /\ sourceSample' = LoadedSample(outcome, frames, rate)
         /\ vutuPartials' = IF outcome = "ok" THEN EmptyPartials(nextId)
                                              ELSE vutuPartials
         /\ lorisPartials' = IF outcome = "ok" THEN LorisOf(vutuPartials')
                                               ELSE lorisPartials
         /\ synthSample' = IF outcome = "ok" THEN ClearedSynth ELSE synthSample
  BY DEF CtlOpen
<1>3. frames \in Nat /\ rate \in Nat \ {0}
  BY <1>2, OutcomeAssumption
<1>4. sourceSample' \in Sample
  BY <1>2, <1>3 DEF LoadedSample, Sample, ActorsTypeOK, ControllerTypeOK
<1>5. vutuPartials' \in VutuPartials
  BY <1>2, EmptyPartialsType DEF ControllerTypeOK
<1>6. lorisPartials' \in LorisPartials
  BY <1>2, <1>5, LorisType DEF ControllerTypeOK
<1>7. synthSample' \in Sample
  BY <1>2, NoSampleType DEF ClearedSynth, ActorsTypeOK
<1>8. sourceFileLoaded' \in Nat /\ nextId' \in Nat /\ alive' \in BOOLEAN
  BY <1>2 DEF CtlOpen, FilePicked, ControllerTypeOK
<1>9. ctlParams' \in Params
  BY FullIntervalType, ParamSet DEF CtlOpen, ControllerTypeOK, ParamNames
<1>10. procMail' \in Seq(ProcMsg) /\ viewMail' \in Seq(ViewMsg)
  <2> DEFINE data == <<SetData("source"), PartialsBroadcast, SetData("synth")>>
             states == ButtonEnableStates(sourceSample', lorisPartials', synthSample')
  <2>1. data \in Seq(ProcMsg) /\ data \in Seq(ViewMsg)
    BY <1>5, DataSeqs DEF PartialsBroadcast, VutuPartials
  <2>2. states \in Seq(ViewMsg)
    BY <1>4, <1>6, <1>7, EnableStatesType
  <2>3. Send(data \o IntervalReset, data \o states \o IntervalReset)
    BY DEF CtlOpen
  <2> HIDE DEF data, states
  <2>4. data \o IntervalReset \in Seq(ProcMsg)
    BY <2>1, IntervalResetType, ConcatType
  <2>5. data \o states \in Seq(ViewMsg)
    BY <2>1, <2>2, ConcatType
  <2>6. data \o states \o IntervalReset \in Seq(ViewMsg)
    BY <2>5, IntervalResetType, ConcatType
  <2> QED
    BY <2>3, <2>4, <2>6, SendTypes
<1> QED
  BY <1>1, <1>4, <1>5, <1>6, <1>7, <1>8, <1>9, <1>10 DEF ActorsTypeOK, ControllerTypeOK

\* "do/analyze", whether or not partials are found.
LEMMA CtlAnalyzeTypes ==
    ASSUME ActorsTypeOK, ControllerTypeOK, CtlAnalyze
    PROVE  ActorsTypeOK' /\ ControllerTypeOK'
<1>1. ctlMail' \in Seq(CtlMsg)
  BY ReceiveTypes DEF CtlAnalyze, Command
<1>2. vutuPartials' \in VutuPartials
  <2>1. CASE vutuPartials' = EmptyPartials(nextId)
    BY <2>1, EmptyPartialsType DEF ControllerTypeOK
  <2>2. CASE \E any \in BOOLEAN : vutuPartials' = Analyzed(nextId, any)
    <3>1. PICK any \in BOOLEAN : vutuPartials' = Analyzed(nextId, any)
      BY <2>2
    <3>2. Span(ctlParams["analysis_interval"]) \in 0..Den
      BY IntervalParam, SpanType DEF ControllerTypeOK
    <3>3. /\ <<sourceSample.frames, sourceSample.rate>> \in Nat \X (Nat \ {0})
          /\ sourceSample.id \in Nat
      BY DEF ActorsTypeOK, Sample
    <3> QED
      BY <3>1, <3>2, <3>3 DEF Analyzed, VutuPartials, ControllerTypeOK
  <2> QED
    BY <2>1, <2>2 DEF CtlAnalyze
<1>3. lorisPartials' \in LorisPartials
  BY <1>2, LorisType DEF CtlAnalyze
<1>4. synthSample' \in Sample
  BY NoSampleType DEF CtlAnalyze, ClearedSynth
<1>5. procMail' \in Seq(ProcMsg) /\ viewMail' \in Seq(ViewMsg)
  <2> DEFINE data == <<PartialsBroadcast, SetData("synth")>>
             states == ButtonEnableStates(sourceSample, lorisPartials', synthSample')
  <2>1. data \in Seq(ProcMsg) /\ data \in Seq(ViewMsg)
    BY <1>2, DataSeqs DEF PartialsBroadcast, VutuPartials
  <2>2. states \in Seq(ViewMsg)
    BY <1>3, <1>4, EnableStatesType DEF ActorsTypeOK
  <2>3. Send(data, data \o states)
    BY DEF CtlAnalyze
  <2> HIDE DEF data, states
  <2>4. data \o states \in Seq(ViewMsg)
    BY <2>1, <2>2, ConcatType
  <2> QED
    BY <2>1, <2>3, <2>4, SendTypes
<1> QED
  BY <1>1, <1>2, <1>3, <1>4, <1>5 DEF CtlAnalyze, ActorsTypeOK, ControllerTypeOK

\* "do/synthesize": the length computed is one.
LEMMA CtlSynthesizeTypes ==
    ASSUME ActorsTypeOK, ControllerTypeOK, CtlSynthesize
    PROVE  ActorsTypeOK' /\ ControllerTypeOK'
<1>1. ctlMail' \in Seq(CtlMsg)
  BY ReceiveTypes DEF CtlSynthesize, Command
<1>2. synthSample' \in Sample
  <2>1. CASE synthSample' = ClearedSynth
    BY <2>1, NoSampleType DEF ClearedSynth
  <2>2. CASE synthSample' = Synthesized
    <3>1. Span(ctlParams["analysis_interval"]) \in 0..Den
      BY IntervalParam, SpanType DEF ControllerTypeOK
    <3>2. vutuPartials.sourceDuration \in Nat \X (Nat \ {0}) /\ lorisPartials.of \in Nat
      BY DEF ControllerTypeOK, VutuPartials, LorisPartials
    <3> QED
      BY <2>2, <3>1, <3>2, SynthFramesType, FrameAssumption DEF Synthesized, Sample
  <2> QED
    BY <2>1, <2>2 DEF CtlSynthesize
<1>3. procMail' \in Seq(ProcMsg) /\ viewMail' \in Seq(ViewMsg)
  <2> DEFINE data == <<SetData("synth")>>
             states == ButtonEnableStates(sourceSample, lorisPartials, synthSample')
  <2>1. data \in Seq(ProcMsg) /\ data \in Seq(ViewMsg)
    BY DataSeqs
  <2>2. states \in Seq(ViewMsg)
    BY <1>2, EnableStatesType DEF ActorsTypeOK, ControllerTypeOK
  <2>3. Send(data, data \o states)
    BY DEF CtlSynthesize
  <2> HIDE DEF data, states
  <2>4. data \o states \in Seq(ViewMsg)
    BY <2>1, <2>2, ConcatType
  <2> QED
    BY <2>1, <2>3, <2>4, SendTypes
<1> QED
  BY <1>1, <1>2, <1>3 DEF CtlSynthesize, ActorsTypeOK, ControllerTypeOK, ctlVars

\* What an imported file gives the controller.
LEMMA ImportTypes ==
    ASSUME ActorsTypeOK, ControllerTypeOK, ctlMail' \in Seq(CtlMsg),
           NEW any \in BOOLEAN, NEW d \in FileDurations, NEW f \in Fundamentals,
           ImportPartials(any, d, f)
    PROVE  ActorsTypeOK' /\ ControllerTypeOK'
<1>1. vutuPartials' \in VutuPartials
  <2>1. EmptyPartials(nextId) \in VutuPartials
    BY EmptyPartialsType DEF ControllerTypeOK
  <2>2. <<d, 1>> \in Nat \X (Nat \ {0}) /\ Den \in 0..Den
    BY OutcomeAssumption, FrameAssumption
  <2> QED
    BY <2>1, <2>2 DEF ImportPartials, ImportedPartials, VutuPartials, EmptyPartials
<1>2. lorisPartials' \in LorisPartials
  BY <1>1, LorisType DEF ImportPartials
<1>3. sourceSample' \in Sample /\ synthSample' \in Sample
  BY NoSampleType DEF ImportPartials, ClearedSource, ClearedSynth
<1>4. ctlParams' \in Params
  BY FullIntervalType DEF ImportPartials, Params, ParamNames, ParamValues
<1>5. nextId' \in Nat
  BY DEF ImportPartials, ControllerTypeOK
<1>6. procMail' \in Seq(ProcMsg) /\ viewMail' \in Seq(ViewMsg)
  <2> DEFINE params == ParamMsgs("fundamental", f) \o IntervalReset
             data == <<SetData("source"), PartialsBroadcast, SetData("synth")>>
             states == ButtonEnableStates(sourceSample', lorisPartials', synthSample')
  <2>1. data \in Seq(ProcMsg) /\ data \in Seq(ViewMsg)
    BY <1>1, DataSeqs DEF PartialsBroadcast, VutuPartials
  <2>2. states \in Seq(ViewMsg)
    BY <1>2, <1>3, EnableStatesType
  <2>3. /\ ParamMsgs("fundamental", f) \in Seq(ProcMsg)
        /\ ParamMsgs("fundamental", f) \in Seq(ViewMsg)
    BY ParamMsgsType DEF ParamNames, ParamValues
  <2>4. params \in Seq(ProcMsg) /\ params \in Seq(ViewMsg)
    BY <2>3, IntervalResetType, ConcatType
  <2>5. Send(data \o params, data \o states \o params)
    BY DEF ImportPartials
  <2> HIDE DEF data, states, params
  <2>6. data \o params \in Seq(ProcMsg)
    BY <2>1, <2>4, ConcatType
  <2>7. data \o states \in Seq(ViewMsg)
    BY <2>1, <2>2, ConcatType
  <2>8. data \o states \o params \in Seq(ViewMsg)
    BY <2>4, <2>7, ConcatType
  <2> QED
    BY <2>5, <2>6, <2>8, SendTypes
<1> QED
  BY <1>1, <1>2, <1>3, <1>4, <1>5, <1>6
     DEF ImportPartials, ActorsTypeOK, ControllerTypeOK

\* "do/import", also when it is cancelled or ends the program.
LEMMA CtlImportTypes ==
    ASSUME ActorsTypeOK, ControllerTypeOK, CtlImport
    PROVE  ActorsTypeOK' /\ ControllerTypeOK'
<1>1. ctlMail' \in Seq(CtlMsg)
  BY ReceiveTypes DEF CtlImport, Command
<1>2. CASE UNCHANGED <<procMail, viewMail, samples, ctlVars>>
  BY <1>1, <1>2 DEF ActorsTypeOK, ControllerTypeOK, samples, ctlVars
<1>3. CASE /\ alive' = FALSE
           /\ UNCHANGED <<procMail, viewMail, samples, vutuPartials,
                          lorisPartials, ctlParams, sourceFileLoaded, nextId>>
  BY <1>1, <1>3 DEF ActorsTypeOK, ControllerTypeOK, samples
<1>4. CASE \E any \in BOOLEAN, d \in FileDurations, f \in Fundamentals :
               ImportPartials(any, d, f)
  BY <1>1, <1>4, ImportTypes
<1> QED
  BY <1>2, <1>3, <1>4 DEF CtlImport

\* VutuController::onMessage as a whole.
LEMMA ControllerTypes ==
    ASSUME ActorsTypeOK, ControllerTypeOK, ControllerNext
    PROVE  ActorsTypeOK' /\ ControllerTypeOK'
BY CtlSetParamTypes, CtlRelayTypes, CtlOpenTypes, CtlAnalyzeTypes,
   CtlSynthesizeTypes, CtlImportTypes DEF ControllerNext
-----------------------------------------------------------------------------
(***************************************************************************)
(* So do the processor, the view and the user.                             *)
(***************************************************************************)
\* A quotient of naturals is one.
LEMMA DivType == \A x \in Nat, y \in Nat \ {0} : x \div y \in Nat
OBVIOUS

\* Resampling gives a sample of some length.
LEMMA ResampledType ==
    ASSUME NEW s \in Sample
    PROVE  ResampledFrames(s) \in Nat
<1>1. s.frames \in Nat /\ s.rate \in Nat \ {0} /\ SampleRate \in Nat
  BY FrameAssumption DEF Sample
<1>2. s.frames * SampleRate \in Nat
  BY <1>1
<1> QED
  BY <1>1, <1>2, DivType DEF ResampledFrames

\* An interval's bounds are frames.
LEMMA FramesType ==
    ASSUME NEW frames \in Nat, NEW iv \in Intervals
    PROVE  StartFrame(frames, iv) \in Nat /\ EndFrame(frames, iv) \in Nat
<1>1. iv[1] \in Nat /\ iv[2] \in Nat /\ Den \in Nat \ {0}
  BY ParamAssumption, FrameAssumption
<1>2. frames * iv[1] \in Nat /\ frames * iv[2] \in Nat
  BY <1>1
<1> QED
  BY <1>1, <1>2, DivType DEF StartFrame, EndFrame

\* What the processor appends to the mailbox of the controller.
LEMMA TellTypes ==
    ASSUME ActorsTypeOK, NEW a \in Seq(CtlMsg), Tell(a)
    PROVE  ctlMail' \in Seq(CtlMsg)
BY ConcatProperties DEF Tell, ActorsTypeOK

\* What the processor tells the controller.
LEMMA TellSeqs ==
    ASSUME NEW w \in Playable, NEW b \in BOOLEAN
    PROVE  /\ <<Stopped>> \in Seq(CtlMsg)
           /\ <<Started(w)>> \in Seq(CtlMsg)
           /\ <<Time(w, b)>> \in Seq(CtlMsg)
           /\ <<Stopped, Time("source", TRUE), Time("synth", TRUE)>> \in Seq(CtlMsg)
<1>1. Stopped \in CtlMsg /\ Started(w) \in CtlMsg
  BY DEF Stopped, Started, CtlMsg
<1>2. \A x \in Playable, c \in BOOLEAN : Time(x, c) \in CtlMsg
  BY DEF Time, TimeMsg, CtlMsg
<1>3. Time("source", TRUE) \in CtlMsg /\ Time("synth", TRUE) \in CtlMsg
  BY <1>2 DEF Playable
<1> QED
  BY <1>1, <1>2, <1>3, ShortSeqs

\* What the processor takes from its mailbox, and what it leaves there.
LEMMA HandleTypes ==
    ASSUME ActorsTypeOK, NEW type, Handle(type)
    PROVE  /\ procMail' \in Seq(ProcMsg)
           /\ Head(procMail) \in ProcMsg
           /\ Head(procMail).type = type
BY HeadTailProperties DEF Handle, IsNext, ActorsTypeOK

\* VutuProcessor::onMessage as a whole.
LEMMA ProcessorMainTypes ==
    ASSUME ActorsTypeOK, ProcessorTypeOK, ProcessorMain
    PROVE  ActorsTypeOK' /\ ProcessorTypeOK'
<1>1. CASE ProcSetParam
  <2>1. procMail' \in Seq(ProcMsg) /\ Head(procMail) \in ParamMsg
    BY <1>1, HandleTypes
       DEF ProcSetParam, ProcMsg, DataMsg, PartialsMsg
  <2>2. procParams' \in Params
    BY <1>1, <2>1, ParamMsgFields, ParamSet DEF ProcSetParam, ProcessorTypeOK
  <2> QED
    BY <1>1, <2>1, <2>2 DEF ProcSetParam, ActorsTypeOK, ProcessorTypeOK, samples
<1>2. CASE ProcSetData
  <2>1. procMail' \in Seq(ProcMsg)
    BY <1>2, HandleTypes DEF ProcSetData
  <2>2. ctlMail' \in Seq(CtlMsg)
    BY <1>2, TellTypes, TellSeqs DEF ProcSetData, Playable
  <2>3. Resample(sourceSample) \in Sample
    <3>1. ResampledFrames(sourceSample) \in Nat
      BY ResampledType DEF ActorsTypeOK
    <3> QED
      BY <3>1, FrameAssumption DEF Resample, Sample, ActorsTypeOK, ProcessorTypeOK
  <2>4. procSource' \in Sample /\ synthKnown' \in BOOLEAN
    BY <1>2, <2>3 DEF ProcSetData, ProcessorTypeOK
  <2> QED
    BY <1>2, <2>1, <2>2, <2>4
       DEF ProcSetData, ActorsTypeOK, ProcessorTypeOK, samples
<1>3. CASE ProcIgnorePartials
  <2>1. procMail' \in Seq(ProcMsg)
    BY <1>3, HandleTypes DEF ProcIgnorePartials
  <2> QED
    BY <1>3, <2>1
       DEF ProcIgnorePartials, ActorsTypeOK, ProcessorTypeOK, samples, procVars
<1>4. CASE ProcToggle
  <2>1. procMail' \in Seq(ProcMsg) /\ Head(procMail).which \in Playable
    <3>1. /\ procMail' \in Seq(ProcMsg)
          /\ Head(procMail) \in ProcMsg
          /\ Head(procMail).type = "toggle_play"
      BY <1>4, HandleTypes DEF ProcToggle
    <3> QED
      BY <3>1 DEF ProcMsg, ParamMsg, DataMsg, PartialsMsg
  <2>2. ctlMail' \in Seq(CtlMsg)
    <3>1. CASE Tell(<<Stopped, Time("source", TRUE), Time("synth", TRUE)>>)
      BY <3>1, TellTypes, TellSeqs DEF Playable
    <3>2. CASE UNCHANGED ctlMail
      BY <3>2 DEF ActorsTypeOK
    <3> QED
      BY <1>4, <3>1, <3>2 DEF ProcToggle
  <2>3. playbackState' \in Playable \cup {"off"} /\ toggling' \in Playable \cup {"none"}
    BY <1>4, <2>1 DEF ProcToggle
  <2>4. playbackSampleIdx' \in Nat
    BY <1>4 DEF ProcToggle, ProcessorTypeOK
  <2> QED
    BY <1>4, <2>1, <2>2, <2>3, <2>4
       DEF ProcToggle, ActorsTypeOK, ProcessorTypeOK, samples
<1>5. CASE ProcToggleSet
  BY <1>5 DEF ProcToggleSet, ActorsTypeOK, ProcessorTypeOK, mail, samples
<1>6. CASE ProcToggleStart
  <2>1. arming \in Playable
    BY <1>6 DEF ProcToggleStart, ProcessorTypeOK
  <2>2. ctlMail' \in Seq(CtlMsg)
    BY <1>6, <2>1, TellTypes, TellSeqs DEF ProcToggleStart
  <2>3. playbackSampleIdx' \in Nat
    <3>1. StartFrame(procSource.frames, procParams["analysis_interval"]) \in Nat
      BY IntervalParam, FramesType DEF ProcessorTypeOK, Sample
    <3> QED
      BY <1>6, <3>1 DEF ProcToggleStart, StartOf
  <2> QED
    BY <1>6, <2>2, <2>3
       DEF ProcToggleStart, ActorsTypeOK, ProcessorTypeOK, samples
<1> QED
  BY <1>1, <1>2, <1>3, <1>4, <1>5, <1>6 DEF ProcessorMain

\* processVector() as a whole.
LEMMA ProcessorAudioTypes ==
    ASSUME ActorsTypeOK, ProcessorTypeOK, ProcessorAudio
    PROVE  ActorsTypeOK' /\ ProcessorTypeOK'
<1>1. CASE VectorSilent
  BY <1>1 DEF VectorSilent, ActorsTypeOK, ProcessorTypeOK, mail, samples, procVars
<1>2. CASE VectorBegin
  <2>1. playbackState \in Playable
    BY <1>2 DEF VectorBegin, ProcessorTypeOK
  <2>2. FrameEndOf(playbackState) \in Nat
    <3>1. EndFrame(procSource.frames, procParams["analysis_interval"]) \in Nat
      BY IntervalParam, FramesType DEF ProcessorTypeOK, Sample
    <3>2. EndFrame(synthSample.frames, FullInterval) \in Nat
      BY FramesType, ParamAssumption DEF ActorsTypeOK, Sample
    <3> QED
      BY <3>1, <3>2 DEF FrameEndOf
  <2> QED
    BY <1>2, <2>1, <2>2
       DEF VectorBegin, ActorsTypeOK, ProcessorTypeOK, AudioPc, mail, samples
<1>3. CASE VectorLoad
  <2>1. playbackSampleIdx' \in Nat
    BY <1>3, FrameAssumption, ProcessorAssumption
       DEF VectorLoad, AtMost, ProcessorTypeOK
  <2> QED
    BY <1>3, <2>1
       DEF VectorLoad, ActorsTypeOK, ProcessorTypeOK, AudioPc, mail, samples
<1>4. CASE VectorCheck
  BY <1>4 DEF VectorCheck, ActorsTypeOK, ProcessorTypeOK, AudioPc, mail, samples
<1>5. CASE VectorStop
  <2>1. ctlMail' \in Seq(CtlMsg)
    BY <1>5, TellTypes, TellSeqs DEF VectorStop, Playable
  <2> QED
    BY <1>5, <2>1
       DEF VectorStop, ActorsTypeOK, ProcessorTypeOK, AudioPc, samples
<1>6. CASE VectorReport
  <2>1. ctlMail' \in Seq(CtlMsg)
    BY <1>6, TellTypes, TellSeqs DEF VectorReport, ProcessorTypeOK
  <2> QED
    BY <1>6, <2>1
       DEF VectorReport, ActorsTypeOK, ProcessorTypeOK, AudioPc, Playable, samples
<1> QED
  BY <1>1, <1>2, <1>3, <1>4, <1>5, <1>6 DEF ProcessorAudio

\* What the view takes from its mailbox, and what it leaves there.
LEMMA ViewHandleTypes ==
    ASSUME ActorsTypeOK, NEW type, ViewHandle(type)
    PROVE  /\ viewMail' \in Seq(ViewMsg)
           /\ Head(viewMail) \in ViewMsg
           /\ Head(viewMail).type = type
BY HeadTailProperties DEF ViewHandle, IsNext, ActorsTypeOK

\* The type of a message for the view tells its fields.
LEMMA ViewMsgFields ==
    ASSUME NEW m \in ViewMsg
    PROVE  /\ m.type = "do" => m \in DoMsg
           /\ m.type = "set_data" => m \in DataMsg
           /\ m.type = "set_partials_data" => m \in PartialsMsg
           /\ m.type = "enabled" => m.on \in BOOLEAN
           /\ m.type = "text" => m.text \in {"play", "stop"}
           /\ m.type = "time" => m.atZero \in BOOLEAN
<1>1. CASE m \in DoMsg \cup ParamMsg \cup DataMsg \cup PartialsMsg
  BY <1>1 DEF DoMsg, ParamMsg, DataMsg, PartialsMsg
<1>2. CASE m \in TimeMsg
  BY <1>2 DEF TimeMsg
<1>3. CASE m \in [type : {"enabled"}, button : Buttons, on : BOOLEAN]
  BY <1>3
<1>4. CASE m \in [type : {"text"}, which : Playable, text : {"play", "stop"}]
  BY <1>4
<1> QED
  BY <1>1, <1>2, <1>3, <1>4 DEF ViewMsg

\* VutuView::onMessage as a whole.
LEMMA ViewTypes ==
    ASSUME ActorsTypeOK, ViewTypeOK, ViewNext
    PROVE  ActorsTypeOK' /\ ViewTypeOK'
<1>1. CASE ViewSetParam
  <2> DEFINE m == Head(viewMail)
  <2>1. viewMail' \in Seq(ViewMsg) /\ m \in ParamMsg
    BY <1>1, ViewHandleTypes
       DEF ViewSetParam, ViewMsg, DoMsg, DataMsg, PartialsMsg, TimeMsg
  <2>2. viewParams' \in Params
    BY <1>1, <2>1, ParamMsgFields, ParamSet DEF ViewSetParam, ViewTypeOK
  <2>3. ctlMail' \in Seq(CtlMsg)
    <3>1. m \in CtlMsg
      BY <2>1 DEF CtlMsg
    <3>2. Forward(m) \in Seq(CtlMsg)
      BY <3>1, ShortSeqs DEF Forward
    <3> QED
      BY <1>1, <3>2, ConcatType DEF ViewSetParam, ActorsTypeOK
  <2> QED
    BY <1>1, <2>1, <2>2, <2>3 DEF ViewSetParam, ActorsTypeOK, ViewTypeOK, samples
<1>2. CASE ViewSetData
  <2>1. viewMail' \in Seq(ViewMsg) /\ Head(viewMail) \in DataMsg
    <3>1. /\ viewMail' \in Seq(ViewMsg)
          /\ Head(viewMail) \in ViewMsg
          /\ Head(viewMail).type = "set_data"
      BY <1>2, ViewHandleTypes DEF ViewSetData
    <3> QED
      BY <3>1, ViewMsgFields
  <2> QED
    BY <1>2, <2>1 DEF ViewSetData, ActorsTypeOK, ViewTypeOK, DataMsg, samples
<1>3. CASE ViewSetPartials
  <2>1. viewMail' \in Seq(ViewMsg) /\ Head(viewMail) \in PartialsMsg
    <3>1. /\ viewMail' \in Seq(ViewMsg)
          /\ Head(viewMail) \in ViewMsg
          /\ Head(viewMail).type = "set_partials_data"
      BY <1>3, ViewHandleTypes DEF ViewSetPartials
    <3> QED
      BY <3>1, ViewMsgFields
  <2> QED
    BY <1>3, <2>1 DEF ViewSetPartials, ActorsTypeOK, ViewTypeOK, PartialsMsg, samples
<1>4. CASE ViewForward
  <2>1. viewMail' \in Seq(ViewMsg) /\ Head(viewMail) \in DoMsg
    <3>1. /\ viewMail' \in Seq(ViewMsg)
          /\ Head(viewMail) \in ViewMsg
          /\ Head(viewMail).type = "do"
      BY <1>4, ViewHandleTypes DEF ViewForward
    <3> QED
      BY <3>1, ViewMsgFields
  <2>2. ctlMail' \in Seq(CtlMsg)
    BY <1>4, <2>1, AppendProperties DEF ViewForward, ActorsTypeOK, CtlMsg
  <2> QED
    BY <1>4, <2>1, <2>2 DEF ViewForward, ActorsTypeOK, ViewTypeOK, viewVars, samples
<1>5. CASE ViewSetProp
  <2> DEFINE m == Head(viewMail)
  <2>1. viewMail' \in Seq(ViewMsg) /\ m \in ViewMsg
    BY <1>5, ViewHandleTypes DEF ViewSetProp
  <2>2. CASE ViewHandle("enabled") /\ enabled' = [enabled EXCEPT ![m.button] = m.on]
                                   /\ UNCHANGED <<playText, atZero>>
    <3>1. m.on \in BOOLEAN
      <4>1. m.type = "enabled"
        BY <2>2, ViewHandleTypes
      <4> QED
        BY <2>1, <4>1, ViewMsgFields
    <3> QED
      BY <1>5, <2>1, <2>2, <3>1 DEF ViewSetProp, ActorsTypeOK, ViewTypeOK, samples
  <2>3. CASE ViewHandle("text") /\ playText' = [playText EXCEPT ![m.which] = m.text]
                                /\ UNCHANGED <<enabled, atZero>>
    <3>1. m.text \in {"play", "stop"}
      <4>1. m.type = "text"
        BY <2>3, ViewHandleTypes
      <4> QED
        BY <2>1, <4>1, ViewMsgFields
    <3> QED
      BY <1>5, <2>1, <2>3, <3>1 DEF ViewSetProp, ActorsTypeOK, ViewTypeOK, samples
  <2>4. CASE ViewHandle("time") /\ atZero' = [atZero EXCEPT ![m.which] = m.atZero]
                                /\ UNCHANGED <<enabled, playText>>
    <3>1. m.atZero \in BOOLEAN
      <4>1. m.type = "time"
        BY <2>4, ViewHandleTypes
      <4> QED
        BY <2>1, <4>1, ViewMsgFields
    <3> QED
      BY <1>5, <2>1, <2>4, <3>1 DEF ViewSetProp, ActorsTypeOK, ViewTypeOK, samples
  <2> QED
    BY <1>5, <2>2, <2>3, <2>4 DEF ViewSetProp
<1> QED
  BY <1>1, <1>2, <1>3, <1>4, <1>5 DEF ViewNext

\* What the user does.
LEMMA UserTypes ==
    ASSUME ActorsTypeOK, inputs \in Nat, User
    PROVE  ActorsTypeOK' /\ inputs' \in Nat
<1>1. inputs' \in Nat /\ UNCHANGED <<procMail, samples>>
  BY DEF User, UserClicks, UserTurns, UserPressesO, UserGives
<1>2. \A cmd \in Commands : Do(cmd) \in CtlMsg /\ Do(cmd) \in ViewMsg
  BY DEF Do, DoMsg, CtlMsg, ViewMsg
<1>3. CASE UserClicks
  <2>1. PICK cmd \in UserCommands : Click(cmd)
    BY <1>3 DEF UserClicks
  <2>2. viewMail' \in Seq(ViewMsg)
    BY <1>2, <2>1, UserAssumption, AppendProperties DEF Click, ActorsTypeOK
  <2> QED
    BY <1>1, <1>3, <2>2 DEF UserClicks, ActorsTypeOK, samples
<1>4. CASE UserTurns
  <2>1. PICK p \in ParamNames : \E v \in UserValues \cap ParamValues(p) : Turn(p, v)
    BY <1>4 DEF UserTurns
  <2>2. PICK v \in UserValues \cap ParamValues(p) : Turn(p, v)
    BY <2>1
  <2>3. SetParam(p, v, FALSE) \in ViewMsg
    BY ParamMsgType DEF ViewMsg
  <2>4. viewMail' \in Seq(ViewMsg)
    BY <2>2, <2>3, AppendProperties DEF Turn, ActorsTypeOK
  <2> QED
    BY <1>1, <1>4, <2>4 DEF UserTurns, ActorsTypeOK, samples
<1>5. CASE UserPressesO
  <2>1. ctlMail' \in Seq(CtlMsg)
    BY <1>2, <1>5, AppendProperties DEF UserPressesO, ActorsTypeOK, Commands
  <2> QED
    BY <1>1, <1>5, <2>1 DEF UserPressesO, ActorsTypeOK, samples
<1> QED
  BY <1>3, <1>4, <1>5 DEF User
-----------------------------------------------------------------------------
\* main() leaves everything with its type.
LEMMA InitTypes == Init => TypeOK
<1> SUFFICES ASSUME Init PROVE TypeOK
  OBVIOUS
<1>1. InitParams \in Params
  BY FullIntervalType, ParamAssumption DEF InitParams, Params, ParamNames, ParamValues
<1>2. NoSample \in Sample /\ EmptyPartials(0) \in VutuPartials
      /\ LorisOf(EmptyPartials(0)) \in LorisPartials
  BY NoSampleType, EmptyPartialsType, LorisType
<1>3. BroadcastParams \in Seq(ProcMsg) /\ BroadcastParams \in Seq(ViewMsg)
  <2>1. \A p \in ParamNames : InitParams[p] \in ParamValues(p)
    BY <1>1 DEF Params
  <2>2. \A p \in ParamNames : /\ ParamMsgs(p, InitParams[p]) \in Seq(ProcMsg)
                              /\ ParamMsgs(p, InitParams[p]) \in Seq(ViewMsg)
    BY <2>1, ParamMsgsType
  <2> QED
    BY <2>2, ConcatType DEF BroadcastParams, ParamNames
<1>4. ActorsTypeOK
  <2>1. <<>> \in Seq(CtlMsg)
    BY ShortSeqs
  <2>2. ButtonEnableStates(sourceSample, lorisPartials, synthSample) \in Seq(ViewMsg)
    BY <1>2, EnableStatesType DEF Init
  <2>3. BroadcastParams \o ButtonEnableStates(sourceSample, lorisPartials, synthSample)
            \in Seq(ViewMsg)
    BY <1>3, <2>2, ConcatType
  <2> QED
    BY <1>2, <1>3, <2>1, <2>3 DEF Init, ActorsTypeOK
<1>5. ControllerTypeOK
  BY <1>1, <1>2 DEF Init, ControllerTypeOK
<1>6. ProcessorTypeOK
  BY <1>1, <1>2 DEF Init, ProcessorTypeOK, AudioPc, Playable
<1>7. ViewTypeOK
  BY <1>1 DEF Init, ViewTypeOK, Playable
<1> QED
  BY <1>4, <1>5, <1>6, <1>7 DEF TypeOK, Init

\* No step of the application breaks a type.
LEMMA StepTypes == TypeOK /\ [Next]_vars => TypeOK'
<1> SUFFICES ASSUME TypeOK, [Next]_vars PROVE TypeOK'
  OBVIOUS
<1> USE DEF TypeOK
<1>1. CASE Controller
  BY <1>1, ControllerTypes
     DEF Controller, ProcessorTypeOK, ViewTypeOK, procVars, viewVars
<1>2. CASE View
  BY <1>2, ViewTypes DEF View, ControllerTypeOK, ProcessorTypeOK, ctlVars, procVars
<1>3. CASE Processor
  BY <1>3, ProcessorMainTypes
     DEF Processor, ControllerTypeOK, ViewTypeOK, ctlVars, viewVars
<1>4. CASE Audio
  BY <1>4, ProcessorAudioTypes
     DEF Audio, ControllerTypeOK, ViewTypeOK, ctlVars, viewVars
<1>5. CASE User
  <2>1. UNCHANGED <<ctlVars, procVars, viewVars>>
    BY <1>5 DEF User, UserClicks, UserTurns, UserPressesO, UserGives
  <2> QED
    BY <1>5, <2>1, UserTypes
       DEF ControllerTypeOK, ProcessorTypeOK, ViewTypeOK, ctlVars, procVars, viewVars
<1>6. CASE UNCHANGED vars
  BY <1>6 DEF vars, ActorsTypeOK, ControllerTypeOK, ProcessorTypeOK, ViewTypeOK,
     mail, samples, ctlVars, procVars, viewVars
<1> QED
  BY <1>1, <1>2, <1>3, <1>4, <1>5, <1>6 DEF Next

\* Every variable always has its type, and every mailbox holds only messages
\* that its actor handles.
THEOREM TypeCorrect == Spec => []TypeOK
<1> QED
  BY InitTypes, StepTypes, PTL DEF Spec
-----------------------------------------------------------------------------
(***************************************************************************)
(* The controller's data fit together.  The property is inductive: every   *)
(* action that replaces the partials also remakes their Loris form and     *)
(* clears the synthesized sample.                                          *)
(***************************************************************************)
\* Data that do not change go on fitting together.
LEMMA SameData ==
    ASSUME DataConsistent, UNCHANGED <<vutuPartials, lorisPartials, synthSample>>
    PROVE  DataConsistent'
BY DEF DataConsistent, LorisOf

\* New partials, their Loris form and nothing synthesized from them yet.
LEMMA FreshData ==
    ASSUME lorisPartials' = LorisOf(vutuPartials'), synthSample' = ClearedSynth
    PROVE  DataConsistent'
BY DEF DataConsistent, LorisOf, ClearedSynth, NoSample

\* The controller, data consistent before, leaves them so.
LEMMA ControllerData ==
    ASSUME TypeOK, DataConsistent, ControllerNext
    PROVE  DataConsistent'
<1>1. CASE CtlSetParam
  BY <1>1, SameData DEF CtlSetParam, samples
<1>2. CASE CtlSetTime \/ CtlToggle \/ CtlStarted \/ CtlStopped \/ CtlExportSynth
  BY <1>2, SameData
     DEF CtlSetTime, CtlToggle, CtlStarted, CtlStopped, CtlExportSynth, samples,
         ctlVars
<1>3. CASE CtlOpen
  <2>1. PICK outcome \in LoadOutcomes :
           /\ vutuPartials' = IF outcome = "ok" THEN EmptyPartials(nextId)
                                                ELSE vutuPartials
           /\ lorisPartials' = IF outcome = "ok" THEN LorisOf(vutuPartials')
                                                 ELSE lorisPartials
           /\ synthSample' = IF outcome = "ok" THEN ClearedSynth ELSE synthSample
    BY <1>3 DEF CtlOpen
  <2>2. CASE outcome = "ok"
    BY <2>1, <2>2, FreshData
  <2>3. CASE outcome # "ok"
    BY <2>1, <2>3, SameData
  <2> QED
    BY <2>2, <2>3
<1>4. CASE CtlAnalyze
  BY <1>4, FreshData DEF CtlAnalyze
<1>5. CASE CtlSynthesize
  <2>1. synthSample' = ClearedSynth \/ synthSample'.id = lorisPartials.of
    BY <1>5 DEF CtlSynthesize, Synthesized
  <2>2. lorisPartials.of = vutuPartials.id
    BY DEF DataConsistent, LorisOf
  <2> QED
    BY <1>5, <2>1, <2>2
       DEF CtlSynthesize, DataConsistent, ClearedSynth, NoSample, ctlVars, LorisOf
<1>6. CASE CtlImport
  <2>1. CASE UNCHANGED <<vutuPartials, lorisPartials, synthSample>>
    BY <2>1, SameData
  <2>2. CASE \E any \in BOOLEAN, d \in FileDurations, f \in Fundamentals :
                 ImportPartials(any, d, f)
    BY <2>2, FreshData DEF ImportPartials
  <2> QED
    BY <1>6, <2>1, <2>2 DEF CtlImport, samples, ctlVars
<1>7. CASE CtlExport
  <2>1. vutuPartials'.id = vutuPartials.id /\ vutuPartials'.any = vutuPartials.any
    BY <1>7 DEF CtlExport, TypeOK, ControllerTypeOK, VutuPartials
  <2> QED
    BY <1>7, <2>1 DEF CtlExport, DataConsistent, LorisOf, samples
<1> QED
  BY <1>1, <1>2, <1>3, <1>4, <1>5, <1>6, <1>7 DEF ControllerNext

\* Nobody but the controller changes the controller's data.
LEMMA OthersKeepData ==
    ASSUME [Next]_vars, ~Controller
    PROVE  UNCHANGED <<samples, vutuPartials, lorisPartials, sourceFileLoaded,
                       ctlParams, nextId, alive>>
<1>1. CASE View
  BY <1>1 DEF View, ViewNext, ViewSetParam, ViewSetData, ViewSetPartials, ViewForward,
     ViewSetProp, ctlVars
<1>2. CASE Processor
  BY <1>2 DEF Processor, ProcessorMain, ProcSetParam, ProcSetData,
     ProcIgnorePartials, ProcToggle, ProcToggleSet, ProcToggleStart, mail, ctlVars
<1>3. CASE Audio
  BY <1>3 DEF Audio, ProcessorAudio, VectorSilent, VectorBegin, VectorLoad,
     VectorCheck, VectorStop, VectorReport, ctlVars
<1>4. CASE User
  BY <1>4 DEF User, UserClicks, UserTurns, UserPressesO, UserGives, ctlVars
<1>5. CASE UNCHANGED vars
  BY <1>5 DEF vars, ctlVars
<1> QED
  BY <1>1, <1>2, <1>3, <1>4, <1>5 DEF Next

\* Vutu's and Loris's partials are always of the same analysis or import, and
\* audio that has been synthesized was made from those partials, whatever
\* opening, analysing, synthesizing and importing have come to.
THEOREM DataIsConsistent == Spec => []DataConsistent
<1>1. Init => DataConsistent
  BY DEF Init, DataConsistent, LorisOf, EmptyPartials, NoSample
<1>2. TypeOK /\ DataConsistent /\ [Next]_vars => DataConsistent'
  <2> SUFFICES ASSUME TypeOK, DataConsistent, [Next]_vars PROVE DataConsistent'
    OBVIOUS
  <2>1. CASE Controller
    BY <2>1, ControllerData DEF Controller
  <2>2. CASE ~Controller
    BY <2>2, OthersKeepData, SameData DEF samples
  <2> QED
    BY <2>1, <2>2
<1> QED
  BY <1>1, <1>2, TypeCorrect, PTL DEF Spec
-----------------------------------------------------------------------------
(***************************************************************************)
(* Where the partials come from.  A source that cannot be read to its end  *)
(* replaces the previous one without its partials, hence the assumptions.  *)
(***************************************************************************)
\* So do partials and source.
LEMMA SamePartials ==
    ASSUME UNCHANGED <<vutuPartials, sourceSample, sourceFileLoaded>>
    PROVE  /\ PartialsOfSource => PartialsOfSource'
           /\ PartialsNameSource => PartialsNameSource'
BY DEF PartialsOfSource, PartialsNameSource, Usable

\* The actions of the controller that may change the partials or the source.
LEMMA PartialsSteps ==
    ASSUME TypeOK, ControllerNext
    PROVE  \/ UNCHANGED <<vutuPartials, sourceSample, sourceFileLoaded>>
           \/ CtlOpen \/ CtlAnalyze \/ CtlExport
           \/ \E any \in BOOLEAN, d \in FileDurations, f \in Fundamentals :
                  ImportPartials(any, d, f)
<1>1. CASE CtlSetParam
  BY <1>1 DEF CtlSetParam, samples
<1>2. CASE CtlSetTime \/ CtlToggle \/ CtlStarted \/ CtlStopped \/ CtlExportSynth
  BY <1>2 DEF CtlSetTime, CtlToggle, CtlStarted, CtlStopped, CtlExportSynth, samples,
     ctlVars
<1>3. CASE CtlSynthesize
  BY <1>3 DEF CtlSynthesize, ctlVars
<1>4. CASE CtlImport
  BY <1>4 DEF CtlImport, samples, ctlVars
<1> QED
  BY <1>1, <1>2, <1>3, <1>4 DEF ControllerNext

\* Exporting does not touch where the partials come from.
LEMMA ExportKeeps ==
    ASSUME TypeOK, CtlExport
    PROVE  /\ vutuPartials'.any = vutuPartials.any
           /\ vutuPartials'.from = vutuPartials.from
           /\ vutuPartials'.sourceFile = vutuPartials.sourceFile
           /\ UNCHANGED <<sourceSample, sourceFileLoaded>>
BY DEF CtlExport, TypeOK, ControllerTypeOK, VutuPartials, samples

\* If no sound file ends early, partials that the program has beside a source
\* sample are the partials of that sample.
THEOREM PartialsAreOfSource ==
    ASSUME "short" \notin LoadOutcomes
    PROVE  Spec => []PartialsOfSource
<1>1. Init => PartialsOfSource
  BY DEF Init, PartialsOfSource, EmptyPartials
<1>2. TypeOK /\ PartialsOfSource /\ [Next]_vars => PartialsOfSource'
  <2> SUFFICES ASSUME TypeOK, PartialsOfSource, [Next]_vars PROVE PartialsOfSource'
    OBVIOUS
  <2>1. CASE ~Controller
    BY <2>1, OthersKeepData, SamePartials DEF samples
  <2>2. CASE Controller
    <3>1. CASE UNCHANGED <<vutuPartials, sourceSample, sourceFileLoaded>>
      BY <3>1, SamePartials
    <3>2. CASE CtlOpen
      <4>1. PICK outcome \in LoadOutcomes, frames \in SourceFrames, rate \in SourceRates :
               /\ sourceSample' = LoadedSample(outcome, frames, rate)
               /\ vutuPartials' = IF outcome = "ok" THEN EmptyPartials(nextId)
                                                    ELSE vutuPartials
        BY <3>2 DEF CtlOpen
      <4>2. CASE outcome = "ok"
        BY <4>1, <4>2 DEF PartialsOfSource, EmptyPartials
      <4>3. CASE outcome # "ok"
        BY <4>1, <4>3, OutcomeAssumption DEF LoadedSample, PartialsOfSource, Usable
      <4> QED
        BY <4>2, <4>3
    <3>3. CASE CtlAnalyze
      BY <3>3 DEF CtlAnalyze, PartialsOfSource, EmptyPartials, Analyzed
    <3>4. CASE CtlExport
      BY <3>4, ExportKeeps DEF PartialsOfSource, Usable
    <3>5. CASE \E any \in BOOLEAN, d \in FileDurations, f \in Fundamentals :
                   ImportPartials(any, d, f)
      BY <3>5 DEF ImportPartials, PartialsOfSource, ClearedSource, NoSample, Usable
    <3> QED
      BY <2>2, <3>1, <3>2, <3>3, <3>4, <3>5, PartialsSteps DEF Controller
  <2> QED
    BY <2>1, <2>2
<1> QED
  BY <1>1, <1>2, TypeCorrect, PTL DEF Spec

\* The name that analysed partials will carry is that of the source.
NameInv == Usable(sourceSample) => sourceFileLoaded = sourceSample.id

\* If only sound files are picked, partials carry the name of the file whose
\* sound was analysed, although name and sample are set by different steps.
THEOREM PartialsAreNamed ==
    ASSUME "not_audio" \notin LoadOutcomes
    PROVE  Spec => []PartialsNameSource
<1> DEFINE Inv == PartialsNameSource /\ NameInv
<1>1. Init => Inv
  BY DEF Init, PartialsNameSource, NameInv, EmptyPartials, NoSample, Usable
<1>2. TypeOK /\ Inv /\ [Next]_vars => Inv'
  <2> SUFFICES ASSUME TypeOK, Inv, [Next]_vars PROVE Inv'
    OBVIOUS
  <2>1. CASE ~Controller
    BY <2>1, OthersKeepData, SamePartials DEF samples, NameInv, Usable
  <2>2. CASE Controller
    <3>1. CASE UNCHANGED <<vutuPartials, sourceSample, sourceFileLoaded>>
      BY <3>1, SamePartials DEF NameInv, Usable
    <3>2. CASE CtlOpen
      <4>1. PICK outcome \in LoadOutcomes, frames \in SourceFrames, rate \in SourceRates :
               /\ sourceFileLoaded' = FilePicked(outcome)
               /\ sourceSample' = LoadedSample(outcome, frames, rate)
               /\ vutuPartials' = IF outcome = "ok" THEN EmptyPartials(nextId)
                                                    ELSE vutuPartials
        BY <3>2 DEF CtlOpen
      <4>2. PartialsNameSource'
        BY <4>1 DEF PartialsNameSource, EmptyPartials
      <4>3. CASE outcome = "cancel"
        BY <4>1, <4>2, <4>3 DEF FilePicked, LoadedSample, NameInv, Usable
      <4>4. CASE outcome \in {"short", "ok"}
        BY <4>1, <4>2, <4>4 DEF FilePicked, LoadedSample, NameInv
      <4> QED
        BY <4>3, <4>4, OutcomeAssumption
    <3>3. CASE CtlAnalyze
      BY <3>3 DEF CtlAnalyze, PartialsNameSource, NameInv, EmptyPartials, Analyzed, Usable
    <3>4. CASE CtlExport
      BY <3>4, ExportKeeps DEF PartialsNameSource, NameInv, Usable
    <3>5. CASE \E any \in BOOLEAN, d \in FileDurations, f \in Fundamentals :
                   ImportPartials(any, d, f)
      BY <3>5 DEF ImportPartials, ImportedPartials, EmptyPartials, PartialsNameSource,
         NameInv, ClearedSource, NoSample, Usable
    <3> QED
      BY <2>2, <3>1, <3>2, <3>3, <3>4, <3>5, PartialsSteps DEF Controller
  <2> QED
    BY <2>1, <2>2
<1> QED
  BY <1>1, <1>2, TypeCorrect, PTL DEF Spec
=============================================================================
