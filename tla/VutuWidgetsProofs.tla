-------------------------- MODULE VutuWidgetsProofs --------------------------
(***************************************************************************)
(* What the displays show: the analysis interval never gets too short and  *)
(* comes to be the same everywhere, and the pictures come to be of the     *)
(* controller's data, however wide the window, the brackets and the moves  *)
(* of the mouse are.                                                       *)
(***************************************************************************)
EXTENDS VutuWidgets, VutuReplicaProofs

\* The intervals that are at least two brackets long in a window of some size.
Wide == {iv \in (0..Den) \X (0..Den) : \E size \in Sizes : iv[1] + Gap[size] <= iv[2]}

\* AmongBoth for the view's messages.
LEMMA AmongMail ==
    ASSUME NEW a \in Seq(ViewMsg), NEW b \in Seq(ViewMsg), NEW kind
    PROVE  Among(a \o b, kind) = {} <=> Among(a, kind) = {} /\ Among(b, kind) = {}
BY AmongBoth

\* Whichever control is moved, and however far, whatever the interval was:
\* bumping the other one and clamping both gives one that is long enough.
LEMMA BumpedIsApart ==
    ASSUME NEW iv \in (0..Den) \X (0..Den), NEW control \in {"left", "right"},
           NEW delta \in Int, NEW gap \in 1..Den
    PROVE  /\ Bumped(iv, control, delta, gap) \in (0..Den) \X (0..Den)
           /\ Bumped(iv, control, delta, gap)[1] + gap <= Bumped(iv, control, delta, gap)[2]
<1>1. iv[1] \in Int /\ iv[2] \in Int /\ Den \in Nat
  BY FrameAssumption
<1>2. \A a, b \in Int : a + gap <= b =>
          /\ Clamp(a, 0, Den - gap) \in 0..Den /\ Clamp(b, gap, Den) \in 0..Den
          /\ Clamp(a, 0, Den - gap) + gap <= Clamp(b, gap, Den)
  BY <1>1 DEF Clamp
<1> DEFINE left == iv[1] + IF control = "left" THEN delta ELSE 0
           right == iv[2] + IF control = "right" THEN delta ELSE 0
           near == left > right - gap
           a == IF control = "right" /\ near THEN right - gap ELSE left
           b == IF control = "left" /\ near THEN left + gap ELSE right
<1>3. a \in Int /\ b \in Int /\ a + gap <= b
  <2>1. CASE control = "left"
    BY <1>1, <2>1
  <2>2. CASE control = "right"
    BY <1>1, <2>2
  <2> QED
    BY <2>1, <2>2
<1>4. Bumped(iv, control, delta, gap) = <<Clamp(a, 0, Den - gap), Clamp(b, gap, Den)>>
  BY DEF Bumped
<1> HIDE DEF a, b
<1> QED
  BY <1>2, <1>3, <1>4

\* So a drag leaves two brackets of the present window room.
LEMMA DragMakesRoom ==
    ASSUME WidgetsTypeOK, interval \in Wide, DragMove
    PROVE  interval' \in Wide /\ interval'[1] + Gap[bounds] <= interval'[2]
<1>1. PICK delta \in Moves : interval' = Dragged(interval, drag, delta)
  BY DEF DragMove
<1>2. /\ interval \in (0..Den) \X (0..Den) /\ drag \in {"left", "right"} /\ delta \in Int
      /\ bounds \in Sizes /\ Gap[bounds] \in 1..Den
  BY WidgetAssumption DEF Wide, WidgetsTypeOK, DragMove
<1>3. /\ interval' \in (0..Den) \X (0..Den)
      /\ interval'[1] + Gap[bounds] <= interval'[2]
  BY <1>1, <1>2, BumpedIsApart DEF Dragged
<1> QED
  BY <1>2, <1>3 DEF Wide

\* The whole is wide.
LEMMA FullIsWide == FullInterval \in Wide
<1>1. PICK size \in Sizes : Gap[size] \in 1..Den
  BY WidgetAssumption
<1> QED
  BY <1>1, FrameAssumption DEF FullInterval, Wide
-----------------------------------------------------------------------------
(***************************************************************************)
(* The mouse.  All that a drag does to the rest of the program is that a   *)
(* value of the user's comes last in the view's mailbox.                   *)
(***************************************************************************)
Drag(value) ==
    /\ SendInterval(value)
    /\ inputs' \in Nat
    /\ UNCHANGED <<ctlMail, procMail, samples, ctlVars, procVars, viewVars>>

\* It is a message like those of any widget.
LEMMA DragSends ==
    ASSUME TypeOK, NEW value \in Intervals, SendInterval(value)
    PROVE  \E m \in UserMsg : /\ m \in UserKind("analysis_interval")
                              /\ m = SetParam("analysis_interval", value, FALSE)
                              /\ <<m>> \in Seq(ViewMsg)
                              /\ viewMail' = viewMail \o <<m>>
<1> DEFINE m == SetParam("analysis_interval", value, FALSE)
<1>1. m \in ParamMsg
  BY ParamMsgType DEF ParamNames, ParamValues
<1>2. m \in UserKind("analysis_interval") /\ m \in UserMsg
  BY <1>1 DEF SetParam, UserKind, UserMsg
<1>3. <<m>> \in Seq(ViewMsg) /\ m \in ViewMsg
  BY <1>2, UserMsgKinds DEF UserMsg, ViewMsg
<1>4. viewMail' = viewMail \o <<m>>
  BY <1>3, AppendIsConcat DEF SendInterval, TypeOK, ActorsTypeOK
<1> QED
  BY <1>2, <1>3, <1>4

\* The types stay as they are.
LEMMA DragTypes ==
    ASSUME TypeOK, NEW value \in Intervals, Drag(value)
    PROVE  TypeOK'
<1>1. PICK m \in UserMsg : <<m>> \in Seq(ViewMsg) /\ viewMail' = viewMail \o <<m>>
  BY DragSends DEF Drag
<1>2. viewMail' \in Seq(ViewMsg)
  BY <1>1, ConcatType DEF TypeOK, ActorsTypeOK
<1> QED
  BY <1>2 DEF Drag, TypeOK, ActorsTypeOK, ControllerTypeOK, ProcessorTypeOK, ViewTypeOK,
     samples, ctlVars, procVars, viewVars

\* What the user does with a display is a drag; all else is as without displays.
Undragged ==
    \/ Controller \/ View \/ Processor \/ Audio
    \/ UserClicks \/ UserPressesO
    \/ UNCHANGED vars

\* Without a drag, the displays only watch the steps of the application.
LEMMA UndraggedIsStep == Undragged => [Next]_vars
BY DEF Undragged, Next, User

\* What anyone does with the mailboxes and the replicas, be it with the mouse.
LEMMA WidgetsSteps ==
    ASSUME WidgetsTypeOK, Wide \subseteq Intervals, interval \in Wide,
           [WidgetsNext]_allVars
    PROVE  \/ Undragged
           \/ \E value \in Wide : Drag(value)
           \/ inputs' \in Nat /\ UNCHANGED <<mail, samples, ctlVars, procVars, viewVars>>
<1> TypeOK
  BY DEF WidgetsTypeOK
<1>1. CASE Others \/ WidgetsView
  BY <1>1 DEF Others, WidgetsView, Undragged
<1>2. CASE DragDown \/ DragUp
  <2>1. Drag(interval)
    BY <1>2 DEF DragDown, DragUp, SendEnd, UserGives, Drag, TypeOK
  <2> QED
    BY <2>1
<1>3. CASE DragMove
  <2>2. interval' \in Wide
    BY <1>3, DragMakesRoom
  <2>3. Drag(interval')
    BY <1>3 DEF DragMove, UserGives, Drag, TypeOK
  <2> QED
    BY <2>2, <2>3
<1>4. CASE Layout
  BY <1>4 DEF Layout, UserGives, mail, TypeOK
<1>5. CASE Displays \/ UNCHANGED allVars
  BY <1>5 DEF Displays, RedrawPartials, Animate, allVars, Undragged
<1> QED
  BY <1>1, <1>2, <1>3, <1>4, <1>5 DEF WidgetsNext
-----------------------------------------------------------------------------
(***************************************************************************)
(* The lengths of intervals, of those on their way as well.                *)
(***************************************************************************)
WideMsg == {m \in CtlMsg \cup ProcMsg \cup ViewMsg :
                m \in ParamKind("analysis_interval") => m.value \in Wide}

\* Messages of other types say nothing of intervals.
Plain == (CtlMsg \cup ProcMsg \cup ViewMsg) \ ParamMsg

BoxesAreWide == /\ ctlMail \in Seq(WideMsg)
                /\ procMail \in Seq(WideMsg)
                /\ viewMail \in Seq(WideMsg)

WideInv == BoxesAreWide /\ AnyInterval \subseteq Wide

\* So they are no danger.
LEMMA PlainIsWide ==
    ASSUME NEW T, T \subseteq Plain, NEW box \in Seq(T)
    PROVE  box \in Seq(WideMsg)
<1>1. Plain \subseteq WideMsg
  BY DEF Plain, WideMsg, ParamKind
<1> QED
  BY <1>1, SeqMonotonic

\* What the types of data, partials and enable states are.
LEMMA DataArePlain == /\ DataMsg \cup PartialsMsg \subseteq Plain
                      /\ EnabledMsg \subseteq Plain
                      /\ DoMsg \subseteq Plain
BY DEF Plain, ParamMsg, DataMsg, PartialsMsg, EnabledMsg, DoMsg, ViewMsg

\* A parameter's new value, if it is not a narrow interval.
LEMMA ParamMsgIsWide ==
    ASSUME NEW p \in ParamNames, NEW v \in ParamValues(p), NEW b \in BOOLEAN,
           p = "analysis_interval" => v \in Wide
    PROVE  <<SetParam(p, v, b)>> \in Seq(WideMsg)
<1>1. SetParam(p, v, b) \in ParamMsg
  BY ParamMsgType
<1>2. SetParam(p, v, b) \in WideMsg
  BY <1>1 DEF WideMsg, CtlMsg, ParamKind, SetParam
<1> QED
  BY <1>2, ShortSeqs

\* The controller passes on what it is sent, or announces the whole.
LEMMA ControllerStaysWide ==
    ASSUME TypeOK, WideInv, ControllerNext
    PROVE  /\ BoxesAreWide'
           /\ ctlParams'["analysis_interval"] \in Wide
<1> DEFINE m == Head(ctlMail)
<1>1. m \in WideMsg /\ ctlMail' \in Seq(WideMsg)
  BY ControllerReceives, HeadTailProperties DEF WideInv, BoxesAreWide
<1>2. ASSUME NEW a \in Seq(WideMsg), NEW b \in Seq(WideMsg), Send(a, b)
      PROVE  BoxesAreWide'
  BY <1>1, <1>2, ConcatType DEF Send, WideInv, BoxesAreWide
<1>3. ctlParams["analysis_interval"] \in Wide
  BY DEF WideInv, AnyInterval
<1>4. IntervalReset \in Seq(WideMsg)
  BY FullIsWide, FullIntervalType, ParamMsgIsWide DEF IntervalReset, ParamMsgs, ParamNames
<1>5. /\ sourceSample \in Sample /\ synthSample \in Sample /\ lorisPartials \in LorisPartials
      /\ sourceSample' \in Sample /\ synthSample' \in Sample
      /\ lorisPartials' \in LorisPartials /\ vutuPartials'.id \in Nat
  BY ControllerTypes DEF TypeOK, ActorsTypeOK, ControllerTypeOK, VutuPartials
<1>6. \A s, l, y : ButtonEnableStates(s, l, y) \in Seq(WideMsg)
  <2>1. \A s, l, y : ButtonEnableStates(s, l, y) \in Seq(EnabledMsg)
    BY EnabledSays DEF Buttons
  <2> QED
    BY <2>1, DataArePlain, PlainIsWide
<1>7. /\ <<SetData("source"), PartialsBroadcast, SetData("synth")>> \in Seq(WideMsg)
      /\ <<PartialsBroadcast, SetData("synth")>> \in Seq(WideMsg)
      /\ <<SetData("synth")>> \in Seq(WideMsg)
  <2>1. \A n \in Nat :
            /\ <<SetData("source"), SetPartials(n), SetData("synth")>>
                   \in Seq(DataMsg \cup PartialsMsg)
            /\ <<SetPartials(n), SetData("synth")>> \in Seq(DataMsg \cup PartialsMsg)
            /\ <<SetData("synth")>> \in Seq(DataMsg)
    BY DataSays
  <2>2. DataMsg \subseteq Plain /\ DataMsg \cup PartialsMsg \subseteq Plain
    BY DataArePlain
  <2> QED
    BY <1>5, <2>1, <2>2, PlainIsWide DEF PartialsBroadcast
<1>8. CASE CtlSetParam
  <2>1. m \in ParamMsg /\ m.param \in ParamNames /\ m.value \in ParamValues(m.param)
    BY <1>8, ReceivedParam, ParamMsgFields DEF CtlSetParam, TypeOK
  <2>2. m.param = "analysis_interval" => m.value \in Wide
    BY <1>1, <2>1 DEF WideMsg, ParamKind
  <2>3. ParamMsgs(m.param, m.value) \in Seq(WideMsg)
    BY <2>1, <2>2, ParamMsgIsWide DEF ParamMsgs
  <2>4. ctlParams'["analysis_interval"] \in Wide
    BY <1>3, <1>8, <2>2 DEF CtlSetParam, TypeOK, ControllerTypeOK, Params, ParamNames
  <2>5. Send(ParamMsgs(m.param, m.value), ParamMsgs(m.param, m.value))
    BY <1>8 DEF CtlSetParam
  <2> QED
    BY <1>2, <2>3, <2>4, <2>5
<1>9. CASE CtlSetTime \/ CtlToggle \/ CtlStarted \/ CtlStopped \/ CtlExport \/ CtlExportSynth
  <2>1. PICK a \in Seq(ProcMsg \ Replicated), b \in Seq(ViewMsg \ Replicated) : Send(a, b)
    BY <1>9, RelaySends
  <2>2. ProcMsg \ Replicated \subseteq Plain /\ ViewMsg \ Replicated \subseteq Plain
    BY DEF Replicated, Plain
  <2>3. a \in Seq(WideMsg) /\ b \in Seq(WideMsg)
    BY <2>2, PlainIsWide
  <2>4. ctlParams' = ctlParams
    BY <1>9 DEF CtlSetTime, CtlToggle, CtlStarted, CtlStopped, CtlExport, CtlExportSynth,
       ctlVars
  <2> QED
    BY <1>2, <1>3, <2>1, <2>3, <2>4
<1>10. CASE CtlOpen
  <2>1. ctlParams'["analysis_interval"] = FullInterval
    BY <1>10 DEF CtlOpen, TypeOK, ControllerTypeOK, Params, ParamNames
  <2> DEFINE data == <<SetData("source"), PartialsBroadcast, SetData("synth")>>
             states == ButtonEnableStates(sourceSample', lorisPartials', synthSample')
  <2>2. Send(data \o IntervalReset, data \o states \o IntervalReset)
    BY <1>10 DEF CtlOpen
  <2>3. data \in Seq(WideMsg) /\ states \in Seq(WideMsg)
    BY <1>6, <1>7
  <2> HIDE DEF data, states
  <2>4. data \o IntervalReset \in Seq(WideMsg) /\ data \o states \in Seq(WideMsg)
    BY <1>4, <2>3, ConcatType
  <2>5. data \o states \o IntervalReset \in Seq(WideMsg)
    BY <1>4, <2>4, ConcatType
  <2> QED
    BY <1>2, <2>1, <2>2, <2>4, <2>5, FullIsWide
<1>11. CASE CtlAnalyze
  <2>1. ctlParams' = ctlParams
    BY <1>11 DEF CtlAnalyze
  <2> DEFINE data == <<PartialsBroadcast, SetData("synth")>>
             states == ButtonEnableStates(sourceSample, lorisPartials', synthSample')
  <2>2. Send(data, data \o states)
    BY <1>11 DEF CtlAnalyze
  <2>3. data \in Seq(WideMsg) /\ states \in Seq(WideMsg)
    BY <1>6, <1>7
  <2> HIDE DEF data, states
  <2>4. data \o states \in Seq(WideMsg)
    BY <2>3, ConcatType
  <2> QED
    BY <1>2, <1>3, <2>1, <2>2, <2>3, <2>4
<1>12. CASE CtlSynthesize
  <2>1. ctlParams' = ctlParams
    BY <1>12 DEF CtlSynthesize, ctlVars
  <2> DEFINE data == <<SetData("synth")>>
             states == ButtonEnableStates(sourceSample, lorisPartials, synthSample')
  <2>2. Send(data, data \o states)
    BY <1>12 DEF CtlSynthesize
  <2>3. data \in Seq(WideMsg) /\ states \in Seq(WideMsg)
    BY <1>6, <1>7
  <2> HIDE DEF data, states
  <2>4. data \o states \in Seq(WideMsg)
    BY <2>3, ConcatType
  <2> QED
    BY <1>2, <1>3, <2>1, <2>2, <2>3, <2>4
<1>13. CASE CtlImport
  <2>1. CASE UNCHANGED <<procMail, viewMail, ctlParams>>
    BY <1>1, <1>3, <2>1 DEF WideInv, BoxesAreWide
  <2>2. CASE \E any \in BOOLEAN, d \in FileDurations, f \in Fundamentals :
                 ImportPartials(any, d, f)
    <3>1. PICK any \in BOOLEAN, d \in FileDurations, f \in Fundamentals :
                 ImportPartials(any, d, f)
      BY <2>2
    <3> DEFINE data == <<SetData("source"), PartialsBroadcast, SetData("synth")>>
               states == ButtonEnableStates(sourceSample', lorisPartials', synthSample')
               first == ParamMsgs("fundamental", f)
               params == first \o IntervalReset
    <3>2. Send(data \o params, data \o states \o params)
      BY <3>1 DEF ImportPartials
    <3>3. first \in Seq(WideMsg)
      BY ParamMsgIsWide DEF ParamMsgs, ParamNames, ParamValues
    <3>4. data \in Seq(WideMsg) /\ states \in Seq(WideMsg) /\ params \in Seq(WideMsg)
      <4> HIDE DEF first
      <4> QED
        BY <1>4, <1>6, <1>7, <3>3, ConcatType
    <3>5. ctlParams'["analysis_interval"] = FullInterval
      BY <3>1 DEF ImportPartials, ParamNames
    <3> HIDE DEF data, states, params
    <3>6. data \o params \in Seq(WideMsg) /\ data \o states \in Seq(WideMsg)
      BY <3>4, ConcatType
    <3>7. data \o states \o params \in Seq(WideMsg)
      BY <3>4, <3>6, ConcatType
    <3> QED
      BY <1>2, <3>2, <3>5, <3>6, <3>7, FullIsWide
  <2> QED
    BY <1>13, <2>1, <2>2 DEF CtlImport, ctlVars
<1> QED
  BY <1>8, <1>9, <1>10, <1>11, <1>12, <1>13 DEF ControllerNext

\* A value is taken from a mailbox, and none is shorter than two brackets.
LEMMA TakenIsWide ==
    ASSUME NEW box \in Seq(WideMsg), box # <<>>
    PROVE  /\ Head(box) \in WideMsg /\ Tail(box) \in Seq(WideMsg)
           /\ Head(box) \in ParamMsg /\ Head(box).param = "analysis_interval"
                  => Head(box).value \in Wide
BY HeadTailProperties DEF WideMsg, ParamKind

\* A replica that takes over what a message says.
LEMMA SetIsWide ==
    ASSUME NEW f \in Params, f["analysis_interval"] \in Wide, NEW m \in ParamMsg,
           m.param = "analysis_interval" => m.value \in Wide
    PROVE  [f EXCEPT ![m.param] = m.value]["analysis_interval"] \in Wide
BY DEF Params, ParamNames

\* Nobody makes an interval of his own, except for the display.
LEMMA StepStaysWide ==
    ASSUME TypeOK, WideInv, Undragged, interval' \in Wide
    PROVE  WideInv'
<1> USE UndraggedIsStep DEF WideInv, AnyInterval
<1>1. CASE Controller
  <2>1. BoxesAreWide' /\ ctlParams'["analysis_interval"] \in Wide
    BY <1>1, ControllerStaysWide DEF Controller
  <2> QED
    BY <1>1, <2>1 DEF Controller, procVars, viewVars
<1>2. CASE ~Controller
  <2>1. ctlParams' = ctlParams
    BY <1>2, OthersKeepData
  <2>2. procMail' \in Seq(WideMsg) /\ procParams'["analysis_interval"] \in Wide
    <3>1. procParams \in Params
      BY DEF TypeOK, ProcessorTypeOK
    <3> QED
      BY <1>2, <3>1, ProcMailSteps, TakenIsWide, SetIsWide DEF BoxesAreWide
  <2>3. /\ viewMail' \in Seq(WideMsg) /\ ctlMail' \in Seq(WideMsg)
        /\ viewParams'["analysis_interval"] \in Wide
    <3>1. CASE View
      <4>1. viewParams \in Params
        BY DEF TypeOK, ViewTypeOK
      <4>2. /\ viewMail # <<>> /\ viewMail' = Tail(viewMail)
            /\ Head(viewMail) \in WideMsg
        BY <3>1, ViewTakes, TakenIsWide DEF BoxesAreWide
      <4>3. ctlMail \o <<Head(viewMail)>> \in Seq(WideMsg)
        BY <4>2, ShortSeqs, ConcatType DEF BoxesAreWide
      <4>4. viewParams'["analysis_interval"] \in Wide
        BY <3>1, <4>1, ViewTakes, TakenIsWide, SetIsWide DEF BoxesAreWide
      <4> QED
        BY <3>1, <4>2, <4>3, <4>4, ViewTakes, TakenIsWide DEF BoxesAreWide
    <3>2. CASE Processor \/ Audio
      <4>1. PICK c \in Seq(CtlMsg \ ParamMsg) : ctlMail' = ctlMail \o c
        BY <3>2, ProcessorReports
      <4>2. c \in Seq(WideMsg)
        <5>1. CtlMsg \ ParamMsg \subseteq Plain
          BY DEF Plain
        <5> QED
          BY <5>1, PlainIsWide
      <4>3. ctlMail' \in Seq(WideMsg)
        BY <4>1, <4>2, ConcatType DEF BoxesAreWide
      <4>4. UNCHANGED <<viewMail, viewVars>>
        BY <3>2 DEF Processor, ProcessorMain, ProcSetParam, ProcSetData,
           ProcIgnorePartials, ProcToggle, ProcToggleSet, ProcToggleStart, Audio,
           ProcessorAudio,
           VectorSilent, VectorBegin, VectorLoad, VectorCheck, VectorStop,
           VectorReport, mail
      <4> QED
        BY <4>3, <4>4 DEF BoxesAreWide, viewVars
    <3>3. CASE UserClicks \/ UserPressesO
      <4>1. \A cmd \in Commands : Do(cmd) \in WideMsg
        <5>1. \A cmd \in Commands : Do(cmd) \in DoMsg
          BY DEF Do, DoMsg
        <5> QED
          BY <5>1, DataArePlain DEF Plain, WideMsg, ParamKind
      <4>2. UserCommands \subseteq Commands /\ "open" \in Commands
        BY UserAssumption DEF Commands
      <4>3. \A cmd \in Commands : /\ Append(viewMail, Do(cmd)) \in Seq(WideMsg)
                                   /\ Append(ctlMail, Do(cmd)) \in Seq(WideMsg)
        BY <4>1, AppendProperties DEF BoxesAreWide
      <4>4. UserClicks => viewMail' \in Seq(WideMsg) /\ ctlMail' \in Seq(WideMsg)
        BY <4>2, <4>3 DEF UserClicks, Click, BoxesAreWide
      <4>5. UserPressesO => viewMail' \in Seq(WideMsg) /\ ctlMail' \in Seq(WideMsg)
        BY <4>2, <4>3 DEF UserPressesO, BoxesAreWide
      <4> QED
        BY <3>3, <4>4, <4>5 DEF UserClicks, UserPressesO, UserGives, viewVars
    <3>4. CASE UNCHANGED vars
      BY <3>4 DEF BoxesAreWide, vars, mail, viewVars
    <3> QED
      BY <1>2, <3>1, <3>2, <3>3, <3>4 DEF Undragged
  <2> QED
    BY <2>1, <2>2, <2>3 DEF BoxesAreWide
<1> QED
  BY <1>1, <1>2

\* The mouse is moved: the display has its new interval sent, wide as it is.
LEMMA DragStaysWide ==
    ASSUME TypeOK, WideInv, NEW value \in Wide, value \in Intervals, Drag(value),
           interval' \in Wide
    PROVE  WideInv'
<1>1. <<SetParam("analysis_interval", value, FALSE)>> \in Seq(WideMsg)
  BY ParamMsgIsWide DEF ParamNames, ParamValues
<1>2. viewMail' \in Seq(WideMsg)
  BY <1>1, DragSends, ConcatType DEF Drag, WideInv, BoxesAreWide
<1> QED
  BY <1>2 DEF Drag, WideInv, BoxesAreWide, AnyInterval, ctlVars, procVars, viewVars

\* The display's own interval: moved by the mouse, or taken from the view.
LEMMA IntervalIsWide ==
    ASSUME WidgetsTypeOK, WideInv, [WidgetsNext]_allVars
    PROVE  interval' \in Wide
<1>1. interval \in Wide
  BY DEF WideInv, AnyInterval
<1>2. CASE DragMove
  BY <1>1, <1>2, DragMakesRoom
<1>3. CASE WidgetsView
  <2>1. viewMail # <<>> /\ Head(viewMail) \in ViewMsg
    BY <1>3, ViewTakes, HeadTailProperties DEF WidgetsView, WidgetsTypeOK, TypeOK, ActorsTypeOK
  <2>2. Head(viewMail).type = "set_param" => Head(viewMail) \in ParamMsg
    BY <2>1, KindOfType
  <2>3. Head(viewMail) \in ParamMsg /\ Head(viewMail).param = "analysis_interval"
            => Head(viewMail).value \in Wide
    BY <2>1, TakenIsWide DEF WideInv, BoxesAreWide
  <2> QED
    BY <1>1, <1>3, <2>2, <2>3 DEF WidgetsView, TakenBySource
<1>4. CASE Others \/ Displays \/ Layout \/ UNCHANGED allVars
  BY <1>1, <1>4 DEF Others, Displays, Layout, RedrawPartials, Animate, dragVars, allVars
<1>5. CASE DragDown \/ DragUp
  BY <1>1, <1>5 DEF DragDown, DragUp
<1> QED
  BY <1>2, <1>3, <1>4, <1>5 DEF WidgetsNext
-----------------------------------------------------------------------------
(***************************************************************************)
(* Types, and lengths of intervals.                                        *)
(***************************************************************************)
\* The whole, with which everything starts, is wide.
LEMMA StartsWide ==
    ASSUME Wide \subseteq Intervals, Init, WidgetsInit
    PROVE  WidgetsTypeOK /\ WideInv
<1>1. TypeOK /\ InitParams \in Params /\ ctlParams = InitParams
  BY InitTypes DEF TypeOK, ControllerTypeOK, Init
<1>2. InitParams["analysis_interval"] = FullInterval
  BY DEF InitParams, ParamNames
<1>3. AnyInterval \subseteq Wide /\ interval \in Wide
  BY <1>2, FullIsWide DEF AnyInterval, Init, WidgetsInit
<1>4. WidgetsTypeOK
  BY <1>1, <1>3, NoSampleType DEF WidgetsTypeOK, WidgetsInit
<1>5. BoxesAreWide
  <2>1. BroadcastParams \in Seq(WideMsg)
    <3>1. ASSUME NEW p \in ParamNames
          PROVE  ParamMsgs(p, InitParams[p]) \in Seq(WideMsg)
      <4>1. InitParams[p] \in ParamValues(p)
        BY <1>1 DEF Params
      <4>2. p = "analysis_interval" => InitParams[p] \in Wide
        BY <1>2, FullIsWide
      <4> QED
        BY <4>1, <4>2, ParamMsgIsWide DEF ParamMsgs
    <3> QED
      BY <3>1, ConcatType DEF BroadcastParams, ParamNames
  <2>2. ButtonEnableStates(sourceSample, lorisPartials, synthSample) \in Seq(WideMsg)
    BY InitBox, DataArePlain, PlainIsWide
  <2>3. BroadcastParams \o ButtonEnableStates(sourceSample, lorisPartials, synthSample)
            \in Seq(WideMsg)
    BY <2>1, <2>2, ConcatType
  <2>4. ctlMail \in Seq(WideMsg)
    BY ShortSeqs DEF Init
  <2> QED
    BY <2>1, <2>3, <2>4, InitBox DEF BoxesAreWide
<1> QED
  BY <1>3, <1>4, <1>5 DEF WideInv

\* The displays keep to their types, and to wide intervals.
LEMMA StaysWide ==
    ASSUME Wide \subseteq Intervals, WidgetsTypeOK, WideInv, [WidgetsNext]_allVars
    PROVE  WidgetsTypeOK' /\ WideInv'
<1>1. TypeOK /\ interval \in Wide /\ interval' \in Wide
  BY IntervalIsWide DEF WidgetsTypeOK, WideInv, AnyInterval
<1>2. TypeOK' /\ WideInv'
  <2>1. CASE Undragged
    BY <1>1, <2>1, UndraggedIsStep, StepTypes, StepStaysWide
  <2>2. CASE \E value \in Wide : Drag(value)
    BY <1>1, <2>2, DragTypes, DragStaysWide DEF WidgetsTypeOK
  <2>3. CASE inputs' \in Nat /\ UNCHANGED <<mail, samples, ctlVars, procVars, viewVars>>
    BY <1>1, <2>3 DEF WideInv, BoxesAreWide, AnyInterval, TypeOK, ActorsTypeOK,
       ControllerTypeOK, ProcessorTypeOK, ViewTypeOK, mail, samples, ctlVars, procVars,
       viewVars
  <2> QED
    BY <1>1, <2>1, <2>2, <2>3, WidgetsSteps
<1>3. /\ bounds' \in Sizes /\ redrawTimer' \in BOOLEAN /\ partialsDirty' \in BOOLEAN
      /\ drag' \in {"none", "left", "right"}
  BY DEF WidgetsTypeOK, WidgetsNext, Others, WidgetsView, Displays, DragDown, DragMove,
     DragUp, Layout, RedrawPartials, Animate, dragVars, pictureVars, allVars, NeedsLayer
<1>4. CASE Animate
  <2>1. layer' \in [size : Sizes \cup {0}, ptr : Nat]
    BY <1>4 DEF Animate, WidgetsTypeOK, TypeOK, ViewTypeOK
  <2>2. \A w \in Playable : Drawn(w) \in Sample
    BY NoSampleType DEF Drawn, SampleIn, WidgetsTypeOK, TypeOK, ActorsTypeOK
  <2>3. picture' \in [Playable -> Sample] /\ sampleDirty' \in [Playable -> BOOLEAN]
    BY <1>4, <2>2 DEF Animate, WidgetsTypeOK
  <2> QED
    BY <1>1, <1>2, <1>3, <2>1, <2>3 DEF WidgetsTypeOK
<1>5. CASE ~Animate
  <2>1. layer' = layer /\ picture' = picture
    BY <1>5 DEF WidgetsNext, Others, WidgetsView, Displays, DragDown, DragMove, DragUp,
       Layout, RedrawPartials, pictureVars, allVars
  <2>2. sampleDirty' \in [Playable -> BOOLEAN]
    BY <1>5 DEF WidgetsTypeOK, WidgetsNext, Others, WidgetsView, Displays, DragDown,
       DragMove, DragUp, Layout, RedrawPartials, pictureVars, allVars, Dirtied
  <2> QED
    BY <1>1, <1>2, <1>3, <2>1, <2>2 DEF WidgetsTypeOK
<1> QED
  BY <1>4, <1>5

\* Whatever window and displays do, what they keep has its type; a picture is
\* of a sample, and a layer has no size that the window never had.
THEOREM WidgetsTypes ==
    ASSUME Wide \subseteq Intervals
    PROVE  WidgetsStarted => []WidgetsTypeOK
<1>1. Init /\ WidgetsInit => WidgetsTypeOK /\ WideInv
  BY StartsWide
<1>2. WidgetsTypeOK /\ WideInv /\ [WidgetsNext]_allVars => WidgetsTypeOK' /\ WideInv'
  BY StaysWide
<1> QED
  BY <1>1, <1>2, PTL DEF WidgetsStarted

\* Started with the whole as the interval, however its two ends are dragged,
\* bumped and clamped (SampleDisplay::processGUIEvent), the window is resized
\* and values cross each other meanwhile, no copy of it is ever shorter than
\* two brackets are in a window of some size, nor leaves the window.
THEOREM IntervalsStayWide ==
    ASSUME Wide \subseteq Intervals
    PROVE  WidgetsStarted => []GapKept
<1>1. Init /\ WidgetsInit => WidgetsTypeOK /\ WideInv
  BY StartsWide
<1>2. WidgetsTypeOK /\ WideInv /\ [WidgetsNext]_allVars => WidgetsTypeOK' /\ WideInv'
  BY StaysWide
<1>3. WideInv => GapKept
  BY DEF WideInv, GapKept, Wide
<1> QED
  BY <1>1, <1>2, <1>3, PTL DEF WidgetsStarted

\* While a control is held, what comes from the controller moves neither
\* (Widget "engaged"), and what moves one leaves two brackets of the window as
\* it is now between them: however short it was, for all sizes of windows,
\* all widths of brackets and all moves of the mouse.
THEOREM IntervalsAreRestored ==
    ASSUME Wide \subseteq Intervals
    PROVE  WidgetsStarted => GapRestored
<1> DEFINE Restores == drag # "none" /\ interval' # interval
                           => interval'[1] + Gap[bounds] <= interval'[2]
<1>1. Init /\ WidgetsInit => WidgetsTypeOK /\ WideInv
  BY StartsWide
<1>2. WidgetsTypeOK /\ WideInv /\ [WidgetsNext]_allVars => WidgetsTypeOK' /\ WideInv'
  BY StaysWide
<1>3. ASSUME WidgetsTypeOK, WideInv, [WidgetsNext]_allVars
      PROVE  Restores
  <2>1. CASE DragMove
    <3>1. interval \in Wide
      BY <1>3 DEF WideInv, AnyInterval
    <3> QED
      BY <1>3, <2>1, <3>1, DragMakesRoom
  <2>2. CASE WidgetsView
    BY <2>2 DEF WidgetsView, TakenBySource
  <2>3. CASE Others \/ Displays \/ DragDown \/ DragUp \/ Layout \/ UNCHANGED allVars
    BY <2>3 DEF Others, Displays, RedrawPartials, Animate, DragDown, DragUp, Layout,
       dragVars, allVars
  <2> QED
    BY <1>3, <2>1, <2>2, <2>3 DEF WidgetsNext
<1>4. WidgetsTypeOK /\ WideInv /\ [WidgetsNext]_allVars => [Restores]_allVars
  BY <1>3
<1> QED
  BY <1>1, <1>2, <1>4, PTL DEF WidgetsStarted, GapRestored
-----------------------------------------------------------------------------
(***************************************************************************)
(* The replicas, while the display sends values of its own.                *)
(***************************************************************************)
Replicas == ViewPartialsCurrent /\ ProcParamsCurrent /\ ViewParamsCurrent

\* One message is of a kind, or it is not.
LEMMA AmongOne ==
    ASSUME NEW m, NEW kind
    PROVE  Among(<<m>>, kind) = {} <=> m \notin kind
<1>1. Len(<<m>>) = 1 /\ <<m>>[1] = m
  OBVIOUS
<1>2. Among(<<m>>, kind) = {i \in {1} : m \in kind}
  BY <1>1 DEF Among
<1> QED
  BY <1>2

\* A drag concerns neither partials nor processor, and what it says is on its
\* way to the controller.
LEMMA DragKeepsReplicas ==
    ASSUME TypeOK, Replicas, NEW value \in Intervals, Drag(value)
    PROVE  Replicas'
<1>1. PICK m \in UserMsg : /\ m \in UserKind("analysis_interval")
                           /\ <<m>> \in Seq(ViewMsg)
                           /\ viewMail' = viewMail \o <<m>>
  BY DragSends DEF Drag
<1>2. /\ viewMail \in Seq(ViewMsg) /\ procMail \in Seq(ProcMsg) /\ ctlMail \in Seq(CtlMsg)
      /\ viewMail' \in Seq(ViewMsg)
  BY DragTypes DEF TypeOK, ActorsTypeOK
<1>3. UNCHANGED <<ctlMail, procMail, vutuPartials, viewPartials, ctlParams, procParams,
                  viewParams>>
  BY DEF Drag, ctlVars, procVars, viewVars
<1>4. ViewPartialsCurrent'
  <2>1. Comes(viewMail, PartialsMsg, PartialsGood(vutuPartials.id),
              viewPartials = vutuPartials.id)
    <3>1. ViewPartialsCurrent
      BY DEF Replicas
    <3>2. /\ At(viewMail, "set_partials_data") = Among(viewMail, PartialsMsg)
          /\ \A n : \A i \in Among(viewMail, PartialsMsg) :
                 viewMail[i] \in PartialsGood(n) <=> viewMail[i].ptr = n
      BY <1>2, SaidOfPartials
    <3> QED
      BY <3>1, <3>2 DEF ViewPartialsCurrent, Comes, LastOf
  <2>2. Among(<<m>>, PartialsMsg) = {}
    BY UserMsgKinds
  <2>3. Comes(viewMail', PartialsMsg, PartialsGood(vutuPartials.id),
              viewPartials = vutuPartials.id)
    BY <1>1, <1>2, <2>1, <2>2, ComesBefore
  <2>4. /\ At(viewMail', "set_partials_data") = Among(viewMail', PartialsMsg)
        /\ \A n : \A i \in Among(viewMail', PartialsMsg) :
               viewMail'[i] \in PartialsGood(n) <=> viewMail'[i].ptr = n
    BY <1>2, SaidOfPartials
  <2> QED
    BY <1>3, <2>3, <2>4 DEF ViewPartialsCurrent, Comes, LastOf
<1>5. ProcParamsCurrent'
  BY <1>3 DEF Replicas, ProcParamsCurrent, ParamPlaces, At
<1>6. ViewParamsCurrent'
  <2>1. SUFFICES ASSUME NEW p \in ParamNames,
                        ~FromUser(viewMail', p), ~FromUser(ctlMail', p)
                 PROVE  Comes(viewMail', ParamKind(p), ParamGood(ctlParams[p]),
                              viewParams[p] = ctlParams[p])
    <3>1. \A p \in ParamNames :
              /\ ParamPlaces(viewMail', p) = Among(viewMail', ParamKind(p))
              /\ \A v : \A i \in Among(viewMail', ParamKind(p)) :
                     viewMail'[i] \in ParamGood(v) <=> viewMail'[i].value = v
      BY <1>2, SaidOfParams
    <3> QED
      BY <1>3, <3>1 DEF ViewParamsCurrent, Comes, LastOf
  <2>2. Among(viewMail', UserKind(p)) = {}
    BY <1>2, <2>1, UserAsAmong
  <2>3. Among(viewMail, UserKind(p)) = {} /\ Among(<<m>>, UserKind(p)) = {}
    <3>1. Among(viewMail \o <<m>>, UserKind(p)) = {}
      BY <1>1, <2>2
    <3> QED
      BY <1>1, <1>2, <3>1, AmongMail
  <2>4. m \notin ParamKind(p)
    <3>1. m \notin UserKind(p)
      BY <2>3, AmongOne
    <3> QED
      BY <1>1, <3>1 DEF UserKind, ParamKind
  <2>5. Comes(viewMail, ParamKind(p), ParamGood(ctlParams[p]),
              viewParams[p] = ctlParams[p])
    <3>1. ~FromUser(viewMail, p)
      BY <1>2, <2>3, UserAsAmong
    <3>2. ~FromUser(ctlMail, p)
      BY <1>3, <2>1
    <3>3. /\ ParamPlaces(viewMail, p) = Among(viewMail, ParamKind(p))
          /\ \A v : \A i \in Among(viewMail, ParamKind(p)) :
                 viewMail[i] \in ParamGood(v) <=> viewMail[i].value = v
      BY <1>2, SaidOfParams
    <3> QED
      BY <3>1, <3>2, <3>3 DEF Replicas, ViewParamsCurrent, Comes, LastOf
  <2>6. Among(<<m>>, ParamKind(p)) = {}
    BY <2>4, AmongOne
  <2> QED
    BY <1>1, <1>2, <2>5, <2>6, ComesBefore
<1> QED
  BY <1>4, <1>5, <1>6 DEF Replicas

\* All but the view and the mouse only add to what the view has to handle.
LEMMA OthersOnlySend ==
    ASSUME TypeOK, Others
    PROVE  /\ \E b \in Seq(ViewMsg) : viewMail' = viewMail \o b
           /\ UNCHANGED viewVars
<1>1. viewMail \in Seq(ViewMsg) /\ viewMail \o <<>> = viewMail /\ <<>> \in Seq(ViewMsg)
  BY ShortSeqs, ConcatEmptySeq DEF TypeOK, ActorsTypeOK
<1>2. CASE Controller
  BY <1>2, ControllerTells DEF Controller, AllTold, Send
<1>3. CASE Processor
  BY <1>1, <1>3 DEF Processor, ProcessorMain, ProcSetParam, ProcSetData,
     ProcIgnorePartials, ProcToggle, ProcToggleSet, ProcToggleStart, mail
<1>4. CASE Audio
  BY <1>1, <1>4 DEF Audio, ProcessorAudio, VectorSilent, VectorBegin, VectorLoad,
     VectorCheck, VectorStop, VectorReport, mail
<1>5. CASE UserPressesO
  BY <1>1, <1>5 DEF UserPressesO, UserGives
<1>6. CASE UserClicks
  <2>1. \A cmd \in UserCommands : Do(cmd) \in ViewMsg
    BY UserAssumption DEF Do, DoMsg, ViewMsg
  <2>2. \A cmd \in UserCommands :
            /\ <<Do(cmd)>> \in Seq(ViewMsg)
            /\ Append(viewMail, Do(cmd)) = viewMail \o <<Do(cmd)>>
    BY <1>1, <2>1, ShortSeqs, AppendIsConcat
  <2> QED
    BY <1>6, <2>2 DEF UserClicks, UserGives, Click
<1> QED
  BY <1>2, <1>3, <1>4, <1>5, <1>6 DEF Others

\* The display's own interval is the one that the view has, unless it is being
\* dragged or the view has a value for it.
Shown ==
    \/ drag # "none"
    \/ interval = viewParams["analysis_interval"]
    \/ Among(viewMail, ParamKind("analysis_interval")) # {}

AgreeInv == WidgetsTypeOK /\ WideInv /\ Replicas /\ Shown

\* When a drag ends its last value is sent; a value that arrives later than
\* that is shown.
LEMMA ShownStays ==
    ASSUME Wide \subseteq Intervals, AgreeInv, [WidgetsNext]_allVars
    PROVE  Shown'
<1> DEFINE kind == ParamKind("analysis_interval")
<1>1. viewMail \in Seq(ViewMsg) /\ TypeOK /\ interval \in Intervals
  BY DEF AgreeInv, WidgetsTypeOK, TypeOK, ActorsTypeOK
<1>2. CASE WidgetsView
  <2>1. /\ viewMail # <<>> /\ viewMail' = Tail(viewMail)
        /\ viewParams' = IF Head(viewMail) \in ParamMsg
                         THEN [viewParams EXCEPT ![Head(viewMail).param] =
                                   Head(viewMail).value]
                         ELSE viewParams
    BY <1>1, <1>2, ViewTakes DEF WidgetsView
  <2>2. Head(viewMail) \in ViewMsg
    BY <1>1, <2>1, HeadTailProperties
  <2>3. Head(viewMail).type = "set_param" <=> Head(viewMail) \in ParamMsg
    BY <2>2, KindOfType
  <2>4. drag' = drag
    BY <1>2 DEF WidgetsView
  <2>5. CASE Head(viewMail) \in kind
    <3>1. viewParams'["analysis_interval"] = Head(viewMail).value
      BY <1>1, <2>1, <2>5 DEF ParamKind, TypeOK, ViewTypeOK, Params, ParamNames
    <3>2. drag = "none" => interval' = Head(viewMail).value
      BY <1>2, <2>3, <2>5 DEF WidgetsView, TakenBySource, ParamKind
    <3> QED
      BY <2>4, <3>1, <3>2 DEF Shown
  <2>6. CASE Head(viewMail) \notin kind
    <3>1. viewParams'["analysis_interval"] = viewParams["analysis_interval"]
      BY <1>1, <2>1, <2>6 DEF ParamKind, TypeOK, ViewTypeOK, Params, ParamNames
    <3>2. interval' = interval
      BY <1>2, <2>3, <2>6 DEF WidgetsView, TakenBySource, ParamKind
    <3>3. Among(viewMail, kind) # {} => Among(viewMail', kind) # {}
      BY <1>1, <2>1, <2>6, AmongTail
    <3> QED
      BY <2>4, <3>1, <3>2, <3>3 DEF Shown, AgreeInv
  <2> QED
    BY <2>5, <2>6
<1>3. CASE DragDown \/ DragMove
  BY <1>3 DEF DragDown, DragMove, Shown
<1>4. CASE DragUp
  <2>1. PICK m \in UserMsg : /\ m \in UserKind("analysis_interval")
                             /\ <<m>> \in Seq(ViewMsg)
                             /\ viewMail' = viewMail \o <<m>>
    BY <1>1, <1>4, DragSends DEF DragUp, SendEnd
  <2>2. Among(<<m>>, kind) # {}
    <3>1. m \in kind
      BY <2>1 DEF UserKind, ParamKind
    <3> QED
      BY <3>1, AmongOne
  <2>3. Among(viewMail', kind) # {}
    BY <1>1, <2>1, <2>2, AmongBoth
  <2> QED
    BY <2>3 DEF Shown
<1>5. CASE Others
  <2>1. UNCHANGED <<drag, interval>>
    BY <1>5 DEF Others, dragVars
  <2>2. PICK b \in Seq(ViewMsg) : viewMail' = viewMail \o b
    BY <1>1, <1>5, OthersOnlySend
  <2>3. Among(viewMail, kind) # {} => Among(viewMail', kind) # {}
    BY <1>1, <2>2, AmongBoth
  <2>4. viewParams' = viewParams
    BY <1>1, <1>5, OthersOnlySend DEF viewVars
  <2> QED
    BY <2>1, <2>3, <2>4 DEF Shown, AgreeInv
<1>6. CASE Layout \/ Displays \/ UNCHANGED allVars
  BY <1>6 DEF Layout, UserGives, Displays, RedrawPartials, Animate, vars, mail, viewVars,
     dragVars, allVars, Shown, AgreeInv
<1> QED
  BY <1>2, <1>3, <1>4, <1>5, <1>6 DEF WidgetsNext

\* At first all have the whole.
LEMMA StartsAgreed ==
    ASSUME Wide \subseteq Intervals, Init, WidgetsInit
    PROVE  AgreeInv
<1>1. interval = viewParams["analysis_interval"]
  BY DEF Init, WidgetsInit
<1>2. Replicas
  BY ViewPartialsStay, ProcParamsStay, ViewParamsStay DEF Replicas
<1> QED
  BY <1>1, <1>2, StartsWide DEF AgreeInv, Shown

\* No step gets them to disagree for good.
LEMMA StaysAgreed ==
    ASSUME Wide \subseteq Intervals, AgreeInv, [WidgetsNext]_allVars
    PROVE  AgreeInv'
<1>1. WidgetsTypeOK /\ TypeOK /\ interval \in Wide /\ Replicas
  BY DEF AgreeInv, WidgetsTypeOK, WideInv, AnyInterval
<1>2. WidgetsTypeOK' /\ WideInv'
  BY StaysWide DEF AgreeInv
<1>3. Replicas'
  <2>1. CASE Undragged
    BY <1>1, <2>1, UndraggedIsStep, ViewPartialsStay, ProcParamsStay, ViewParamsStay
       DEF Replicas
  <2>2. CASE \E value \in Wide : Drag(value)
    BY <1>1, <2>2, DragKeepsReplicas
  <2>3. CASE UNCHANGED <<mail, samples, ctlVars, procVars, viewVars>>
    <3>1. UNCHANGED <<ctlMail, procMail, viewMail, vutuPartials, viewPartials,
                      ctlParams, procParams, viewParams>>
      BY <2>3 DEF mail, ctlVars, procVars, viewVars
    <3>2. ViewPartialsCurrent'
      BY <1>1, <3>1 DEF Replicas, ViewPartialsCurrent
    <3>3. ProcParamsCurrent'
      BY <1>1, <3>1 DEF Replicas, ProcParamsCurrent
    <3>4. ViewParamsCurrent'
      BY <1>1, <3>1 DEF Replicas, ViewParamsCurrent
    <3> QED
      BY <3>2, <3>3, <3>4 DEF Replicas
  <2> QED
    BY <1>1, <2>1, <2>2, <2>3, WidgetsSteps
<1> QED
  BY <1>2, <1>3, ShownStays DEF AgreeInv

\* An empty mailbox has nothing to say of a parameter.
LEMMA NothingSaid == \A p : ParamPlaces(<<>>, p) = {} /\ ~FromUser(<<>>, p)
BY DEF ParamPlaces, FromUser, At

\* The display takes no values while its interval is dragged, although open and
\* import reset it meanwhile, and values of an earlier drag come back.  Still,
\* once everything has been handled and the control is let go, display, view,
\* controller and processor have the same interval.
THEOREM IntervalsComeToAgree ==
    ASSUME Wide \subseteq Intervals
    PROVE  WidgetsStarted => []IntervalsAgree
<1>1. Init /\ WidgetsInit => AgreeInv
  BY StartsAgreed
<1>2. AgreeInv /\ [WidgetsNext]_allVars => AgreeInv'
  BY StaysAgreed
<1>3. AgreeInv => IntervalsAgree
  <2> SUFFICES ASSUME AgreeInv, drag = "none", mail = <<<<>>, <<>>, <<>>>>
               PROVE  AnyInterval = {interval}
    BY DEF IntervalsAgree
  <2>1. ctlMail = <<>> /\ procMail = <<>> /\ viewMail = <<>>
    BY DEF mail
  <2>2. interval = viewParams["analysis_interval"]
    BY <2>1 DEF AgreeInv, Shown, Among
  <2>3. ViewParamsCurrent /\ ProcParamsCurrent
    BY DEF AgreeInv, Replicas
  <2>4. viewParams["analysis_interval"] = ctlParams["analysis_interval"]
    BY <2>1, <2>3, NothingSaid DEF ViewParamsCurrent, ParamNames
  <2>5. procParams["analysis_interval"] = ctlParams["analysis_interval"]
    BY <2>1, <2>3, NothingSaid DEF ProcParamsCurrent, ParamNames
  <2> QED
    BY <2>2, <2>4, <2>5 DEF AnyInterval
<1> QED
  BY <1>1, <1>2, <1>3, PTL DEF WidgetsStarted
-----------------------------------------------------------------------------
(***************************************************************************)
(* The pictures.                                                           *)
(***************************************************************************)
\* The messages that have a display painted again, as the property says them
\* and as kinds.
PartialsPainted ==
    \/ partialsDirty
    \/ Among(viewMail, PartialsMsg) # {}
    \/ layer.ptr = vutuPartials.id

SamplePainted(w) ==
    \/ sampleDirty[w]
    \/ Among(viewMail, DataKind(w)) # {}
    \/ picture[w] = Drawn(w)

\* Pointers still to be handed to a display, by type and as a kind.
LEMMA PaintedAsKinds ==
    ASSUME NEW box \in Seq(ViewMsg)
    PROVE  /\ At(box, "set_partials_data") # {} <=> Among(box, PartialsMsg) # {}
           /\ \A w \in Playable : (\E i \in At(box, "set_data") : box[i].what = w)
                                      <=> Among(box, DataKind(w)) # {}
<1>1. /\ At(box, "set_partials_data") = Among(box, PartialsMsg)
      /\ \A w \in Playable : {i \in At(box, "set_data") : box[i].what = w}
                                 = Among(box, DataKind(w))
  BY PlacesAreKinds
<1> QED
  BY <1>1

\* What is among messages is among them and others after them.
LEMMA ThenMore ==
    ASSUME NEW a \in Seq(ViewMsg), NEW b \in Seq(ViewMsg), NEW kind,
           Among(a, kind) # {}
    PROVE  a \o b \in Seq(ViewMsg) /\ Among(a \o b, kind) # {}
<1>1. a \o b \in Seq(ViewMsg)
  BY ConcatType
<1>2. Among(a \o b, kind) # {}
  BY AmongBoth
<1> QED
  BY <1>1, <1>2

\* The pointers to the samples, too, are announced whenever these change.
LEMMA SamplesTold ==
    ASSUME TypeOK, ControllerNext, NEW w \in Playable
    PROVE  SampleIn(w)' = SampleIn(w) \/ Among(viewMail', DataKind(w)) # {}
<1> DEFINE two == <<PartialsBroadcast, SetData("synth")>>
           three == <<SetData("source"), PartialsBroadcast, SetData("synth")>>
<1>1. vutuPartials'.id \in Nat /\ viewMail \in Seq(ViewMsg)
  BY ControllerTypes DEF TypeOK, ActorsTypeOK, ControllerTypeOK, VutuPartials
<1>2. SetData(w) \in DataKind(w)
  BY DEF SetData, DataMsg, DataKind
<1>3. ASSUME NEW data \in Seq(ViewMsg), NEW rest \in Seq(ViewMsg),
             Among(data, DataKind(w)) # {},
             viewMail' = viewMail \o (data \o rest)
      PROVE  Among(viewMail', DataKind(w)) # {}
  <2>1. data \o rest \in Seq(ViewMsg) /\ Among(data \o rest, DataKind(w)) # {}
    BY <1>3, ThenMore
  <2>2. Among(viewMail \o (data \o rest), DataKind(w)) # {}
    BY <1>1, <2>1, AmongMail
  <2> QED
    BY <1>3, <2>2
<1>4. /\ two \in Seq(ViewMsg) /\ three \in Seq(ViewMsg)
      /\ <<SetData("synth")>> \in Seq(ViewMsg)
  BY <1>1, DataSeqs DEF PartialsBroadcast
<1>5. /\ Among(three, DataKind(w)) # {}
      /\ w = "synth" => Among(two, DataKind(w)) # {}
      /\ w = "synth" => Among(<<SetData("synth")>>, DataKind(w)) # {}
  <2>1. /\ Len(three) = 3 /\ three[1] = SetData("source") /\ three[3] = SetData("synth")
        /\ Len(two) = 2 /\ two[2] = SetData("synth")
        /\ Len(<<SetData("synth")>>) = 1 /\ <<SetData("synth")>>[1] = SetData("synth")
    OBVIOUS
  <2> QED
    BY <1>2, <2>1 DEF Among, Playable
<1>6. \A s \in Sample, l \in LorisPartials, y \in Sample :
          ButtonEnableStates(s, l, y) \in Seq(ViewMsg)
  BY EnableStatesType
<1>7. /\ sourceSample \in Sample /\ sourceSample' \in Sample /\ synthSample' \in Sample
      /\ lorisPartials \in LorisPartials /\ lorisPartials' \in LorisPartials
  BY ControllerTypes DEF TypeOK, ActorsTypeOK, ControllerTypeOK
<1> HIDE DEF two, three
<1>8. CASE CtlOpen
  <2> DEFINE states == ButtonEnableStates(sourceSample', lorisPartials', synthSample')
  <2>1. viewMail' = viewMail \o (three \o states \o IntervalReset)
    BY <1>8 DEF CtlOpen, Send, three
  <2>2. states \in Seq(ViewMsg)
    BY <1>6, <1>7
  <2> HIDE DEF states
  <2>3. three \o states \in Seq(ViewMsg) /\ Among(three \o states, DataKind(w)) # {}
    BY <1>4, <1>5, <2>2, ThenMore
  <2> QED
    BY <1>3, <2>1, <2>3, IntervalResetType
<1>9. CASE CtlAnalyze
  <2> DEFINE states == ButtonEnableStates(sourceSample, lorisPartials', synthSample')
  <2>1. viewMail' = viewMail \o (two \o states) /\ sourceSample' = sourceSample
    BY <1>9 DEF CtlAnalyze, Send, two
  <2>2. states \in Seq(ViewMsg)
    BY <1>6, <1>7
  <2> HIDE DEF states
  <2> QED
    BY <1>3, <1>4, <1>5, <2>1, <2>2 DEF SampleIn, Playable
<1>10. CASE CtlSynthesize
  <2> DEFINE states == ButtonEnableStates(sourceSample, lorisPartials, synthSample')
             data == <<SetData("synth")>>
  <2>1. viewMail' = viewMail \o (data \o states) /\ sourceSample' = sourceSample
    BY <1>10 DEF CtlSynthesize, Send
  <2>2. states \in Seq(ViewMsg)
    BY <1>6, <1>7
  <2>3. data \in Seq(ViewMsg) /\ (w = "synth" => Among(data, DataKind(w)) # {})
    BY <1>4, <1>5
  <2> HIDE DEF states, data
  <2> QED
    BY <1>3, <2>1, <2>2, <2>3 DEF SampleIn, Playable
<1>11. CASE CtlImport
  <2>1. CASE \E any \in BOOLEAN, d \in FileDurations, f \in Fundamentals :
                 ImportPartials(any, d, f)
    <3>1. PICK any \in BOOLEAN, d \in FileDurations, f \in Fundamentals :
                 ImportPartials(any, d, f)
      BY <2>1
    <3> DEFINE states == ButtonEnableStates(sourceSample', lorisPartials', synthSample')
               params == ParamMsgs("fundamental", f) \o IntervalReset
    <3>2. viewMail' = viewMail \o (three \o states \o params)
      BY <3>1 DEF ImportPartials, Send, three
    <3>3. params \in Seq(ViewMsg)
      <4>1. ParamMsgs("fundamental", f) \in Seq(ViewMsg)
        BY ParamMsgsType DEF ParamNames, ParamValues
      <4> QED
        BY <4>1, IntervalResetType, ConcatType
    <3>4. states \in Seq(ViewMsg)
      BY <1>6, <1>7
    <3> HIDE DEF states, params
    <3>5. three \o states \in Seq(ViewMsg) /\ Among(three \o states, DataKind(w)) # {}
      BY <1>4, <1>5, <3>4, ThenMore
    <3> QED
      BY <1>3, <3>2, <3>3, <3>5
  <2> QED
    BY <1>11, <2>1 DEF CtlImport, samples, SampleIn
<1>12. CASE CtlSetParam \/ CtlSetTime \/ CtlToggle \/ CtlStarted \/ CtlStopped
            \/ CtlExport \/ CtlExportSynth
  BY <1>12 DEF CtlSetParam, CtlSetTime, CtlToggle, CtlStarted, CtlStopped, CtlExport,
     CtlExportSynth, samples, SampleIn
<1> QED
  BY <1>8, <1>9, <1>10, <1>11, <1>12 DEF ControllerNext

\* What is kept beside the display of the interval.
PictureInv ==
    AgreeInv /\ PartialsPainted /\ \A w \in Playable : SamplePainted(w)

\* Painting is what makes a picture current, of the partials and the samples
\* that the view has been told of.
LEMMA AnimatePaints ==
    ASSUME PictureInv, Animate
    PROVE  PartialsPainted' /\ \A w \in Playable : SamplePainted(w)'
<1>1. UNCHANGED <<viewMail, viewPartials, vutuPartials, samplesShown, sourceSample,
                  synthSample>>
  BY DEF Animate, vars, mail, samples, ctlVars, viewVars
<1>2. viewMail \in Seq(ViewMsg) /\ ViewPartialsCurrent
  BY DEF PictureInv, AgreeInv, Replicas, WidgetsTypeOK, TypeOK, ActorsTypeOK
<1>3. PartialsPainted'
  <2>1. CASE partialsDirty
    <3>1. layer'.ptr = viewPartials
      BY <2>1 DEF Animate
    <3>2. Among(viewMail, PartialsMsg) # {} \/ viewPartials = vutuPartials.id
      BY <1>2, SaidOfPartials DEF ViewPartialsCurrent
    <3> QED
      BY <1>1, <3>1, <3>2 DEF PartialsPainted
  <2>2. CASE ~partialsDirty
    <3>1. layer' = layer
      BY <2>2 DEF Animate
    <3> QED
      BY <1>1, <2>2, <3>1 DEF PictureInv, PartialsPainted
  <2> QED
    BY <2>1, <2>2
<1>4. ASSUME NEW w \in Playable
      PROVE  SamplePainted(w)'
  <2>1. Drawn(w)' = Drawn(w)
    BY <1>1 DEF Drawn, SampleIn
  <2>2. picture'[w] = IF sampleDirty[w] THEN Drawn(w) ELSE picture[w]
    BY DEF Animate
  <2>3. SamplePainted(w)
    BY DEF PictureInv
  <2> QED
    BY <1>1, <2>1, <2>2, <2>3 DEF SamplePainted
<1> QED
  BY <1>3, <1>4

\* A display is told of what the view is told of, and gets dirty by it.
LEMMA ViewDirties ==
    ASSUME PictureInv, WidgetsView
    PROVE  PartialsPainted' /\ \A w \in Playable : SamplePainted(w)'
<1> DEFINE m == Head(viewMail)
<1>1. TypeOK /\ View /\ viewMail \in Seq(ViewMsg)
  BY DEF WidgetsView, PictureInv, AgreeInv, WidgetsTypeOK, TypeOK, ActorsTypeOK
<1>2. /\ viewMail # <<>> /\ viewMail' = Tail(viewMail)
      /\ samplesShown' = IF m \in DataMsg THEN samplesShown \cup {m.what} ELSE samplesShown
  BY <1>1, ViewTakes
<1>3. /\ m.type = "set_data" <=> m \in DataMsg
      /\ m.type = "set_partials_data" <=> m \in PartialsMsg
  <2>1. m \in ViewMsg
    BY <1>1, <1>2, HeadTailProperties
  <2> QED
    BY <2>1, KindOfType
<1>4. UNCHANGED <<sourceSample, synthSample, vutuPartials, layer, picture>>
  BY <1>1 DEF WidgetsView, View, ViewNext, ViewSetParam, ViewSetData, ViewSetPartials,
     ViewForward, ViewSetProp, samples, ctlVars
<1>5. /\ partialsDirty' = (partialsDirty \/ m.type = "set_partials_data")
      /\ sampleDirty' = [w \in Playable |-> Dirtied(m, w)]
  BY DEF WidgetsView
<1>6. PartialsPainted'
  <2>1. CASE m \in PartialsMsg
    BY <1>3, <1>5, <2>1 DEF PartialsPainted
  <2>2. CASE m \notin PartialsMsg
    <3>1. Among(viewMail, PartialsMsg) # {} => Among(viewMail', PartialsMsg) # {}
      BY <1>1, <1>2, <2>2, AmongTail
    <3>2. PartialsPainted
      BY DEF PictureInv
    <3> QED
      BY <1>4, <1>5, <3>1, <3>2 DEF PartialsPainted
  <2> QED
    BY <2>1, <2>2
<1>7. ASSUME NEW w \in Playable
      PROVE  SamplePainted(w)'
  <2>1. CASE m \in DataKind(w)
    <3>1. sampleDirty'[w]
      BY <1>3, <1>5, <2>1 DEF Dirtied, DataKind
    <3> QED
      BY <3>1 DEF SamplePainted
  <2>2. CASE m \notin DataKind(w)
    <3>1. Among(viewMail, DataKind(w)) # {} => Among(viewMail', DataKind(w)) # {}
      BY <1>1, <1>2, <2>2, AmongTail
    <3>2. Drawn(w)' = Drawn(w)
      <4>1. w \in samplesShown' <=> w \in samplesShown
        BY <1>2, <2>2 DEF DataKind
      <4> QED
        BY <1>4, <4>1 DEF Drawn, SampleIn
    <3>3. sampleDirty[w] => sampleDirty'[w]
      BY <1>5 DEF Dirtied
    <3>4. SamplePainted(w)
      BY DEF PictureInv
    <3> QED
      BY <1>4, <3>1, <3>2, <3>3, <3>4 DEF SamplePainted
  <2> QED
    BY <2>1, <2>2
<1> QED
  BY <1>6, <1>7

\* Whoever else replaces what is painted tells the view.
LEMMA OthersTell ==
    ASSUME PictureInv, Others
    PROVE  PartialsPainted' /\ \A w \in Playable : SamplePainted(w)'
<1>1. TypeOK /\ viewMail \in Seq(ViewMsg)
  BY DEF PictureInv, AgreeInv, WidgetsTypeOK, TypeOK, ActorsTypeOK
<1>2. UNCHANGED <<partialsDirty, layer, sampleDirty, picture, samplesShown>>
  <2>1. UNCHANGED viewVars
    BY <1>1, OthersOnlySend
  <2> QED
    BY <2>1 DEF Others, pictureVars, viewVars
<1>3. \A kind : Among(viewMail, kind) # {} => Among(viewMail', kind) # {}
  <2>1. PICK b \in Seq(ViewMsg) : viewMail' = viewMail \o b
    BY <1>1, OthersOnlySend
  <2> QED
    BY <1>1, <2>1, AmongBoth
<1>4. /\ vutuPartials'.id = vutuPartials.id \/ Among(viewMail', PartialsMsg) # {}
      /\ \A w \in Playable : SampleIn(w)' = SampleIn(w)
                             \/ Among(viewMail', DataKind(w)) # {}
  <2>1. CASE Controller
    <3>1. PICK b \in Seq(ViewMsg) : viewMail' = viewMail \o b /\ PartialsTold(b)
      BY <1>1, <2>1, ControllerTells DEF Controller, AllTold, Send
    <3>2. vutuPartials'.id = vutuPartials.id \/ Among(b, PartialsMsg) # {}
      BY <3>1 DEF PartialsTold, Comes
    <3>3. vutuPartials'.id = vutuPartials.id \/ Among(viewMail', PartialsMsg) # {}
      BY <1>1, <3>1, <3>2, AmongBoth
    <3> QED
      BY <1>1, <2>1, <3>3, SamplesTold DEF Controller
  <2>2. CASE ~Controller
    <3>1. [Next]_vars
      BY <2>2 DEF Others, Next, User
    <3>2. UNCHANGED <<vutuPartials, samples>>
      BY <1>1, <2>2, <3>1, OthersKeepData
    <3> QED
      BY <3>2 DEF samples, SampleIn
  <2> QED
    BY <2>1, <2>2
<1>5. PartialsPainted'
  BY <1>2, <1>3, <1>4 DEF PictureInv, PartialsPainted
<1>6. ASSUME NEW w \in Playable
      PROVE  SamplePainted(w)'
  <2>1. SamplePainted(w)
    BY DEF PictureInv
  <2>2. SampleIn(w)' = SampleIn(w) => Drawn(w)' = Drawn(w)
    BY <1>2 DEF Drawn
  <2> QED
    BY <1>2, <1>3, <1>4, <2>1, <2>2 DEF SamplePainted
<1> QED
  BY <1>5, <1>6

\* The mouse and the window replace nothing of what is painted.
LEMMA MouseLeavesPictures ==
    ASSUME PictureInv, DragDown \/ DragMove \/ DragUp \/ Layout \/ RedrawPartials
                           \/ UNCHANGED allVars
    PROVE  PartialsPainted' /\ \A w \in Playable : SamplePainted(w)'
<1>1. TypeOK /\ viewMail \in Seq(ViewMsg) /\ interval \in Intervals
  BY DEF PictureInv, AgreeInv, WidgetsTypeOK, TypeOK, ActorsTypeOK
<1>2. UNCHANGED <<layer, sampleDirty, picture, samplesShown, samples, vutuPartials>>
  BY DEF DragDown, DragMove, DragUp, Layout, RedrawPartials, UserGives, allVars,
     pictureVars, vars, ctlVars, viewVars
<1>3. partialsDirty => partialsDirty'
  BY DEF DragDown, DragMove, DragUp, Layout, RedrawPartials, allVars, pictureVars
<1>4. \A kind : Among(viewMail, kind) # {} => Among(viewMail', kind) # {}
  <2>1. \A x : SendInterval(x) => viewMail' = Append(viewMail, SetParam("analysis_interval", x, FALSE))
    BY DEF SendInterval
  <2>2. viewMail' = viewMail \/ \E x : viewMail' = Append(viewMail, x)
    BY <2>1 DEF DragDown, DragMove, DragUp, SendEnd, Layout, RedrawPartials, allVars,
       vars, mail
  <2>3. ASSUME NEW x, NEW kind, Among(viewMail, kind) # {}
        PROVE  Among(Append(viewMail, x), kind) # {}
    <3>1. PICK i \in 1..Len(viewMail) : viewMail[i] \in kind
      BY <2>3 DEF Among
    <3>2. /\ Len(Append(viewMail, x)) = Len(viewMail) + 1 /\ Len(viewMail) \in Nat
          /\ Append(viewMail, x)[i] = viewMail[i]
      BY <1>1
    <3>3. i \in 1..Len(Append(viewMail, x))
      BY <3>2
    <3> QED
      BY <3>1, <3>2, <3>3 DEF Among
  <2> QED
    BY <2>2, <2>3
<1>5. PartialsPainted'
  BY <1>2, <1>3, <1>4 DEF PictureInv, PartialsPainted
<1>6. ASSUME NEW w \in Playable
      PROVE  SamplePainted(w)'
  <2>1. SamplePainted(w) /\ Drawn(w)' = Drawn(w)
    BY <1>2 DEF PictureInv, Drawn, SampleIn, samples
  <2> QED
    BY <1>2, <1>4, <2>1 DEF SamplePainted
<1> QED
  BY <1>5, <1>6

\* What a display has painted is what the controller holds, unless it is about
\* to paint again or the view has still to be told: no data is replaced without
\* the display's being dirtied, and none is painted that the view was not given.
THEOREM PicturesAreCurrent ==
    ASSUME Wide \subseteq Intervals
    PROVE  WidgetsStarted => []PicturesCurrent
<1>1. Init /\ WidgetsInit => PictureInv
  BY StartsAgreed DEF PictureInv, PartialsPainted, SamplePainted, WidgetsInit
<1>2. PictureInv /\ [WidgetsNext]_allVars => PictureInv'
  <2> SUFFICES ASSUME PictureInv, [WidgetsNext]_allVars
               PROVE  PartialsPainted' /\ \A w \in Playable : SamplePainted(w)'
    BY StaysAgreed DEF PictureInv
  <2> QED
    BY AnimatePaints, ViewDirties, OthersTell, MouseLeavesPictures
       DEF WidgetsNext, Displays
<1>3. PictureInv => PicturesCurrent
  <2> SUFFICES ASSUME PictureInv PROVE PicturesCurrent
    OBVIOUS
  <2>1. viewMail \in Seq(ViewMsg)
    BY DEF PictureInv, AgreeInv, WidgetsTypeOK, TypeOK, ActorsTypeOK
  <2> QED
    BY <2>1, PaintedAsKinds DEF PictureInv, PartialsPainted, SamplePainted, PicturesCurrent
<1> QED
  BY <1>1, <1>2, <1>3, PTL DEF WidgetsStarted
=============================================================================
