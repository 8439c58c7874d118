------------------------ MODULE VutuTransportProofs -------------------------
(***************************************************************************)
(* The play buttons come to tell what plays.  A start or a stop is         *)
(* reported from the processor to the controller and from there to the     *)
(* view, so that two mailboxes stand between a sound and its button.       *)
(***************************************************************************)
EXTENDS VutuTransport, VutuPlayback, VutuReplicaProofs
-----------------------------------------------------------------------------
(***************************************************************************)
(* The reports.                                                            *)
(***************************************************************************)
StartMsg == [type : {"playback_started"}, which : Playable]
StopMsg == [type : {"playback_stopped"}]
TextMsg == [type : {"text"}, which : Playable, text : {"play", "stop"}]

\* What concerns the button of one sound, on its way to the controller and
\* to the view, and what of it says whether the sound is "on".
StartKind(w) == {m \in StartMsg \cup StopMsg : IsReport(m, w)}
StartGood(on) == {m \in StartMsg \cup StopMsg : m.type = "playback_started" <=> on}
TextKind(w) == {m \in TextMsg : m.which = w}
TextGood(on) == {m \in TextMsg : m.text = "stop" <=> on}

\* The button comes to say whether the sound is on, once the messages in the
\* controller's mailbox have been handled, and then those in the view's.
TextComes(view, text, w, on) ==
    Comes(view, TextKind(w), TextGood(on), text = "stop" <=> on)

ReportComes(ctl, view, text, w, on) ==
    Comes(ctl, StartKind(w), StartGood(on), TextComes(view, text, w, on))

\* A report in one mailbox or the other, as the property says it and as a kind.
LEMMA ReportsAreKinds ==
    ASSUME NEW w \in Playable
    PROVE  /\ \A m \in CtlMsg :
                  /\ IsReport(m, w) <=> m \in StartKind(w)
                  /\ m \in StartKind(w) =>
                         \A on : m \in StartGood(on) <=> (Reported(m) = "stop" <=> on)
           /\ \A m \in ViewMsg :
                  /\ IsReport(m, w) <=> m \in TextKind(w)
                  /\ m \in TextKind(w) =>
                         \A on : m \in TextGood(on) <=> (Reported(m) = "stop" <=> on)
<1>1. ASSUME NEW m \in CtlMsg
      PROVE  IsReport(m, w) <=> m \in StartKind(w)
  BY <1>1 DEF CtlMsg, DoMsg, ParamMsg, TimeMsg, StartMsg, StopMsg, StartKind, IsReport
<1>2. ASSUME NEW m \in ViewMsg
      PROVE  IsReport(m, w) <=> m \in TextKind(w)
  BY <1>2 DEF ViewMsg, DoMsg, ParamMsg, DataMsg, PartialsMsg, TimeMsg, TextMsg,
     TextKind, IsReport
<1>3. ASSUME NEW m \in StartKind(w), NEW on
      PROVE  m \in StartGood(on) <=> (Reported(m) = "stop" <=> on)
  BY <1>3 DEF StartKind, StartGood, StartMsg, StopMsg, Reported
<1>4. ASSUME NEW m \in TextKind(w), NEW on
      PROVE  m \in TextGood(on) <=> (Reported(m) = "stop" <=> on)
  BY <1>4 DEF TextKind, TextGood, TextMsg, Reported
<1> QED
  BY <1>1, <1>2, <1>3, <1>4

\* What comes, as the property says it.
Tells(ctl, view, text, w, on) ==
    \/ \E i \in ReportPlaces(ctl, w) :
           LastOf(ReportPlaces(ctl, w), i) /\ (Reported(ctl[i]) = "stop" <=> on)
    \/ /\ ReportPlaces(ctl, w) = {}
       /\ \/ \E i \in ReportPlaces(view, w) :
                 LastOf(ReportPlaces(view, w), i) /\ (Reported(view[i]) = "stop" <=> on)
          \/ ReportPlaces(view, w) = {} /\ (text = "stop" <=> on)

\* What comes, mailbox by mailbox, is what the property says of their messages.
LEMMA ToldAsComes ==
    ASSUME NEW ctl \in Seq(CtlMsg), NEW view \in Seq(ViewMsg), NEW text,
           NEW w \in Playable, NEW on, ReportComes(ctl, view, text, w, on)
    PROVE  Tells(ctl, view, text, w, on)
<1>1. /\ \A i \in 1..Len(ctl) : ctl[i] \in CtlMsg
      /\ \A i \in 1..Len(view) : view[i] \in ViewMsg
  BY ElementOfSeq
<1>2. /\ ReportPlaces(ctl, w) = Among(ctl, StartKind(w))
      /\ ReportPlaces(view, w) = Among(view, TextKind(w))
  BY <1>1, ReportsAreKinds DEF ReportPlaces, Among
<1>3. /\ \A i \in Among(ctl, StartKind(w)) :
             ctl[i] \in StartGood(on) => (Reported(ctl[i]) = "stop" <=> on)
      /\ \A i \in Among(view, TextKind(w)) :
             view[i] \in TextGood(on) => (Reported(view[i]) = "stop" <=> on)
  BY <1>1, ReportsAreKinds DEF Among
<1> QED
  BY <1>2, <1>3 DEF ReportComes, TextComes, Comes, Tells
-----------------------------------------------------------------------------
(***************************************************************************)
(* How reports travel, whatever the mailboxes hold.                        *)
(***************************************************************************)
\* The processor adds messages, of which the last of the kind tells whether
\* the sound is on now; without any, that has not changed.
LEMMA ReportSent ==
    ASSUME NEW ctl \in Seq(CtlMsg), NEW b \in Seq(CtlMsg), NEW view, NEW text,
           NEW w, NEW on, NEW now, ReportComes(ctl, view, text, w, on),
           Comes(b, StartKind(w), StartGood(now), now = on)
    PROVE  ReportComes(ctl \o b, view, text, w, now)
<1> DEFINE held == TextComes(view, text, w, now)
           kind == StartKind(w)
           good == StartGood(now)
           same == now = on
<1>1. same => Comes(ctl, kind, good, held) /\ (held => held)
  BY DEF ReportComes
<1>2. Comes(b, kind, good, same)
  OBVIOUS
<1> HIDE DEF held, kind, good, same
<1>3. Comes(ctl \o b, kind, good, held)
  BY <1>1, <1>2, ComesAfter
<1> QED
  BY <1>3 DEF ReportComes, held, kind, good

\* The controller turns a report that it takes from its mailbox into texts for
\* the view, and sends no texts otherwise.
LEMMA ReportRelayed ==
    ASSUME NEW ctl \in Seq(CtlMsg), ctl # <<>>, NEW view \in Seq(ViewMsg),
           NEW sent \in Seq(ViewMsg), NEW text, NEW w, NEW on,
           ReportComes(ctl, view, text, w, on),
           Head(ctl) \in StartKind(w) =>
               (Head(ctl) \in StartGood(on) =>
                    \E i \in Among(sent, TextKind(w)) :
                        LastOf(Among(sent, TextKind(w)), i) /\ sent[i] \in TextGood(on)),
           Head(ctl) \notin StartKind(w) => Among(sent, TextKind(w)) = {}
    PROVE  ReportComes(Tail(ctl), view \o sent, text, w, on)
<1> DEFINE before == TextComes(view, text, w, on)
           after == TextComes(view \o sent, text, w, on)
           shown == text = "stop" <=> on
           kind == TextKind(w)
           good == TextGood(on)
<1>1. Head(ctl) \in StartKind(w) /\ Head(ctl) \in StartGood(on) => after
  <2> SUFFICES ASSUME Head(ctl) \in StartKind(w), Head(ctl) \in StartGood(on)
               PROVE  after
    OBVIOUS
  <2> DEFINE no == on # on
  <2>1. Comes(sent, kind, good, no)
    BY DEF Comes
  <2>2. no => Comes(view, kind, good, shown) /\ (shown => shown)
    OBVIOUS
  <2> HIDE DEF kind, good, no, shown
  <2>3. Comes(view \o sent, kind, good, shown)
    BY <2>1, <2>2, ComesAfter
  <2> QED
    BY <2>3 DEF TextComes, kind, good, shown
<1>2. Head(ctl) \notin StartKind(w) /\ before => after
  BY ComesBefore DEF TextComes
<1>3. Comes(ctl, StartKind(w), StartGood(on), before)
  BY DEF ReportComes
<1> HIDE DEF before, after
<1>4. Comes(Tail(ctl), StartKind(w), StartGood(on), after)
  BY <1>1, <1>2, <1>3, ComesHandled
<1> QED
  BY <1>4 DEF ReportComes, after

\* The view takes a text to heart and adds no reports.
LEMMA ReportNoticed ==
    ASSUME NEW ctl \in Seq(CtlMsg), NEW b \in Seq(CtlMsg),
           NEW view \in Seq(ViewMsg), view # <<>>, NEW text, NEW new, NEW w, NEW on,
           ReportComes(ctl, view, text, w, on), Among(b, StartKind(w)) = {},
           new = IF Head(view) \in TextKind(w) THEN Head(view).text ELSE text
    PROVE  ReportComes(ctl \o b, Tail(view), new, w, on)
<1> DEFINE before == TextComes(view, text, w, on)
           after == TextComes(Tail(view), new, w, on)
           shown == text = "stop" <=> on
           shows == new = "stop" <=> on
           kind == TextKind(w)
           good == TextGood(on)
<1>1. before => after
  <2>1. Head(view) \in kind /\ Head(view) \in good => shows
    BY DEF TextGood
  <2>2. Head(view) \notin kind /\ shown => shows
    OBVIOUS
  <2>3. before => Comes(view, kind, good, shown)
    BY DEF TextComes
  <2> HIDE DEF shown, shows, kind, good, before
  <2>4. before => Comes(Tail(view), kind, good, shows)
    BY <2>1, <2>2, <2>3, ComesHandled
  <2> QED
    BY <2>4 DEF TextComes, shows, kind, good
<1>2. Comes(ctl, StartKind(w), StartGood(on), before)
  BY DEF ReportComes
<1> HIDE DEF before, after
<1>3. Comes(ctl, StartKind(w), StartGood(on), after)
  BY <1>1, <1>2 DEF Comes
<1>4. Comes(ctl \o b, StartKind(w), StartGood(on), after)
  BY <1>3, ComesBefore
<1> QED
  BY <1>4 DEF ReportComes, after

\* Inputs of the user, to view or controller, are no reports.
LEMMA InputGiven ==
    ASSUME NEW ctl \in Seq(CtlMsg), NEW b \in Seq(CtlMsg),
           NEW view \in Seq(ViewMsg), NEW c \in Seq(ViewMsg), NEW text, NEW w, NEW on,
           ReportComes(ctl, view, text, w, on),
           Among(b, StartKind(w)) = {}, Among(c, TextKind(w)) = {}
    PROVE  ReportComes(ctl \o b, view \o c, text, w, on)
<1> DEFINE before == TextComes(view, text, w, on)
           after == TextComes(view \o c, text, w, on)
<1>1. before => after
  BY ComesBefore DEF TextComes
<1>2. Comes(ctl, StartKind(w), StartGood(on), before)
  BY DEF ReportComes
<1> HIDE DEF before, after
<1>3. Comes(ctl, StartKind(w), StartGood(on), after)
  BY <1>1, <1>2 DEF Comes
<1>4. Comes(ctl \o b, StartKind(w), StartGood(on), after)
  BY <1>3, ComesBefore
<1> QED
  BY <1>4 DEF ReportComes, after
-----------------------------------------------------------------------------
(***************************************************************************)
(* What the actors send.                                                   *)
(***************************************************************************)
\* The user's inputs, times and announcements are no reports.
LEMMA OtherKinds ==
    ASSUME NEW w
    PROVE  /\ StartKind(w) \cap (UserMsg \cup TimeMsg) = {}
           /\ TextKind(w) \cap (UserMsg \cup TimeMsg \cup Replicated) = {}
<1>1. \A m \in StartKind(w) : m.type \in {"playback_started", "playback_stopped"}
  BY DEF StartKind, StartMsg, StopMsg
<1>2. \A m \in TextKind(w) : m.type = "text"
  BY DEF TextKind, TextMsg
<1>3. \A m \in UserMsg \cup TimeMsg : m.type \in {"do", "set_param", "time"}
  BY DEF UserMsg, DoMsg, ParamMsg, TimeMsg
<1>4. \A m \in Replicated : m.type # "text"
  BY DEF Replicated, ParamMsg, DataMsg, PartialsMsg, EnabledMsg
<1> QED
  BY <1>1, <1>2, <1>3, <1>4

\* Whatever data it changes, the controller sends the view announcements only.
LEMMA AnnouncementsOnly ==
    ASSUME TypeOK, CtlSetParam \/ CtlOpen \/ CtlAnalyze \/ CtlSynthesize \/ CtlImport
    PROVE  \E c \in Seq(Replicated) : viewMail' = viewMail \o c
<1> DEFINE states == ButtonEnableStates(sourceSample', lorisPartials', synthSample')
           three == <<SetData("source"), PartialsBroadcast, SetData("synth")>>
           two == <<PartialsBroadcast, SetData("synth")>>
           one == <<SetData("synth")>>
<1>1. ActorsTypeOK' /\ ControllerTypeOK'
  BY CtlSetParamTypes, CtlOpenTypes, CtlAnalyzeTypes, CtlSynthesizeTypes, CtlImportTypes
     DEF TypeOK
<1>2. vutuPartials'.id \in Nat
  BY <1>1 DEF ControllerTypeOK, VutuPartials
<1>3. /\ ParamMsg \subseteq Replicated /\ EnabledMsg \subseteq Replicated
      /\ DataMsg \subseteq Replicated /\ DataMsg \cup PartialsMsg \subseteq Replicated
  BY DEF Replicated
<1>4. states \in Seq(Replicated)
  <2>1. "export" \in Buttons
    BY DEF Buttons
  <2>2. states \in Seq(EnabledMsg)
    BY <2>1, EnabledSays
  <2> QED
    BY <1>3, <2>2, SeqMonotonic
<1>5. three \in Seq(Replicated) /\ two \in Seq(Replicated) /\ one \in Seq(Replicated)
  <2>1. /\ three \in Seq(DataMsg \cup PartialsMsg) /\ two \in Seq(DataMsg \cup PartialsMsg)
        /\ one \in Seq(DataMsg)
    BY <1>2, DataSays DEF PartialsBroadcast
  <2> HIDE DEF three, two, one
  <2> QED
    BY <1>3, <2>1, SeqMonotonic
<1>6. ASSUME NEW p \in ParamNames, NEW v \in ParamValues(p)
      PROVE  ParamMsgs(p, v) \in Seq(Replicated)
  BY <1>3, ParamSeqs, SeqMonotonic
<1>7. IntervalReset \in Seq(Replicated)
  BY <1>6, FullIntervalType DEF IntervalReset, ParamNames
<1>8. CASE CtlSetParam
  <2>1. Head(ctlMail).param \in ParamNames
        /\ Head(ctlMail).value \in ParamValues(Head(ctlMail).param)
    BY <1>8, ReceivedParam, ParamMsgFields DEF CtlSetParam, TypeOK
  <2> QED
    BY <1>6, <1>8, <2>1 DEF CtlSetParam, Send
<1>9. CASE CtlOpen
  <2>1. viewMail' = viewMail \o (three \o states \o IntervalReset)
    BY <1>9 DEF CtlOpen, Send
  <2> HIDE DEF three, states
  <2>2. three \o states \o IntervalReset \in Seq(Replicated)
    BY <1>4, <1>5, <1>7, ConcatType
  <2> QED
    BY <2>1, <2>2
<1>10. CASE CtlAnalyze
  <2>1. viewMail' = viewMail \o (two \o states)
    BY <1>10 DEF CtlAnalyze, Send
  <2> HIDE DEF two, states
  <2> QED
    BY <1>4, <1>5, <2>1, ConcatType
<1>11. CASE CtlSynthesize
  <2>1. viewMail' = viewMail \o (one \o states)
    BY <1>11 DEF CtlSynthesize, Send, ctlVars
  <2> HIDE DEF one, states
  <2> QED
    BY <1>4, <1>5, <2>1, ConcatType
<1>12. CASE CtlImport
  <2>1. CASE viewMail' = viewMail
    <3>1. viewMail' = viewMail \o <<>> /\ <<>> \in Seq(Replicated)
      BY <2>1, ShortSeqs, ConcatEmptySeq DEF TypeOK, ActorsTypeOK
    <3> QED
      BY <3>1
  <2>2. CASE \E any \in BOOLEAN, d \in FileDurations, f \in Fundamentals :
                 ImportPartials(any, d, f)
    <3>1. PICK any \in BOOLEAN, d \in FileDurations, f \in Fundamentals :
                 ImportPartials(any, d, f)
      BY <2>2
    <3> DEFINE first == ParamMsgs("fundamental", f)
    <3>2. first \in Seq(Replicated)
      BY <1>6 DEF ParamNames, ParamValues
    <3>3. viewMail' = viewMail \o (three \o states \o (first \o IntervalReset))
      BY <3>1 DEF ImportPartials, Send
    <3> HIDE DEF three, states, first
    <3>4. three \o states \o (first \o IntervalReset) \in Seq(Replicated)
      BY <1>4, <1>5, <1>7, <3>2, ConcatType
    <3> QED
      BY <3>3, <3>4
  <2> QED
    BY <1>12, <2>1, <2>2 DEF CtlImport
<1> QED
  BY <1>8, <1>9, <1>10, <1>11, <1>12
-----------------------------------------------------------------------------
(***************************************************************************)
(* The invariant.                                                          *)
(***************************************************************************)
\* A sound plays once its start has been reported.
Playing(w) == arming = "none" /\ playbackState = w

\* What togglePlaybackState() has done so far.
Armed ==
    /\ toggling # "none" => playbackState = "off" /\ arming = "none"
    /\ arming # "none" => arming = playbackState

\* What the button of each sound comes to say, mailbox by mailbox.
ButtonsTell ==
    \A w \in Playable : ReportComes(ctlMail, viewMail, playText[w], w, Playing(w))

\* That is what the property says.
LEMMA TellsIsTold == TypeOK /\ ButtonsTell => ButtonsTold
<1> SUFFICES ASSUME TypeOK, ButtonsTell, NEW w \in Playable
             PROVE  Tells(ctlMail, viewMail, playText[w], w, Playing(w))
  BY DEF ButtonsTold, Tells, Playing
<1>1. ReportComes(ctlMail, viewMail, playText[w], w, Playing(w))
  BY DEF ButtonsTell
<1>2. ctlMail \in Seq(CtlMsg) /\ viewMail \in Seq(ViewMsg)
  BY DEF TypeOK, ActorsTypeOK
<1> QED
  BY <1>1, <1>2, ToldAsComes

\* Unless it starts within a vector, a sound that is being started is not
\* stopped by the end of another one.
LEMMA StaysArmed ==
    ASSUME ~StartOverlaps, TypeOK, Armed, [Next]_vars
    PROVE  Armed'
<1>1. CASE UNCHANGED procVars
  BY <1>1 DEF Armed, procVars
<1>2. CASE Controller \/ View \/ User \/ UNCHANGED vars
  <2>1. UNCHANGED procVars
    BY <1>2 DEF Controller, View, User, UserClicks, UserTurns, UserPressesO, UserGives,
       vars
  <2> QED
    BY <1>1, <2>1
<1>3. CASE Processor
  <2>1. CASE ProcToggle
    BY <2>1 DEF ProcToggle, Handle, NotToggling, Armed
  <2>2. CASE ~ProcToggle
    BY <1>1, <1>3, <2>2 DEF Processor, ProcessorMain, ProcSetParam, ProcSetData,
       ProcIgnorePartials, ProcToggleSet, ProcToggleStart, Handle, NotToggling, Armed
  <2> QED
    BY <2>1, <2>2
<1>4. CASE Audio
  <2>1. CASE VectorStop
    BY <2>1 DEF VectorStop, StartOverlaps, Armed
  <2>2. CASE ~VectorStop
    <3>1. UNCHANGED <<playbackState, toggling, arming>>
      BY <1>4, <2>2 DEF Audio, ProcessorAudio, VectorSilent, VectorBegin, VectorLoad,
         VectorCheck, VectorReport, procVars
    <3> QED
      BY <3>1 DEF Armed
  <2> QED
    BY <2>1, <2>2
<1> QED
  BY <1>2, <1>3, <1>4 DEF Next
-----------------------------------------------------------------------------
(***************************************************************************)
(* Step by step: the button of any one sound.                              *)
(***************************************************************************)
\* The controller relays reports.
LEMMA ControllerStep ==
    ASSUME TypeOK, Controller, NEW w \in Playable, NEW text, NEW on,
           ReportComes(ctlMail, viewMail, text, w, on)
    PROVE  ReportComes(ctlMail', viewMail', text, w, on)
<1> DEFINE m == Head(ctlMail)
<1>1. /\ ctlMail \in Seq(CtlMsg) /\ viewMail \in Seq(ViewMsg)
      /\ ctlMail # <<>> /\ ctlMail' = Tail(ctlMail)
  BY ControllerReceives DEF Controller, TypeOK, ActorsTypeOK
<1>2. ASSUME NEW type, Receive(type)
      PROVE  m.type = type /\ m \in CtlMsg
  BY <1>2, ReceiveTypes DEF TypeOK
<1>3. \A text1, text2 \in {"play", "stop"}, w1, w2 \in Playable :
          /\ <<SetText(w1, text1)>> \in Seq(ViewMsg)
          /\ <<SetText(w1, text1), SetText(w2, text2)>> \in Seq(ViewMsg)
          /\ SetText(w1, text1) \in TextMsg
          /\ SetText(w1, text1).which = w1 /\ SetText(w1, text1).text = text1
  <2>1. \A t \in {"play", "stop"}, v \in Playable :
            SetText(v, t) \in TextMsg /\ SetText(v, t) \in ViewMsg
    BY DEF SetText, TextMsg, ViewMsg
  <2> QED
    BY <2>1, ShortSeqs DEF SetText
<1>4. CASE CtlStarted
  <2>1. m.type = "playback_started" /\ m \in CtlMsg /\ m.which \in Playable
    <3>1. m.type = "playback_started" /\ m \in CtlMsg
      BY <1>2, <1>4 DEF CtlStarted
    <3> QED
      BY <3>1 DEF CtlMsg, DoMsg, ParamMsg, TimeMsg
  <2> DEFINE sent == <<SetText(m.which, "stop")>>
  <2>2. viewMail' = viewMail \o sent /\ sent \in Seq(ViewMsg)
    BY <1>3, <1>4, <2>1 DEF CtlStarted, Send
  <2>3. SetText(m.which, "stop") \in TextKind(w) <=> m.which = w
    BY <1>3, <2>1 DEF TextKind
  <2>4. m \in StartKind(w) <=> m.which = w
    BY <2>1, ReportsAreKinds DEF IsReport
  <2>5. m \in StartGood(on) => SetText(m.which, "stop") \in TextGood(on)
    BY <1>3, <2>1 DEF StartGood, TextGood
  <2>6. Len(sent) = 1 /\ sent[1] = SetText(m.which, "stop")
    OBVIOUS
  <2>7. Among(sent, TextKind(w)) = IF m.which = w THEN {1} ELSE {}
    BY <2>3, <2>6 DEF Among
  <2>8. m \in StartKind(w) =>
            (m \in StartGood(on) =>
                 \E i \in Among(sent, TextKind(w)) :
                     LastOf(Among(sent, TextKind(w)), i) /\ sent[i] \in TextGood(on))
    BY <2>4, <2>5, <2>6, <2>7 DEF LastOf
  <2>9. m \notin StartKind(w) => Among(sent, TextKind(w)) = {}
    BY <2>4, <2>7
  <2> HIDE DEF sent
  <2> QED
    BY <1>1, <2>2, <2>8, <2>9, ReportRelayed
<1>5. CASE CtlStopped
  <2>1. m.type = "playback_stopped" /\ m \in CtlMsg
    BY <1>2, <1>5 DEF CtlStopped
  <2>2. viewMail' = viewMail \o PlayTexts /\ PlayTexts \in Seq(ViewMsg)
    BY <1>3, <1>5 DEF CtlStopped, Send, PlayTexts, Playable
  <2>3. m \in StartKind(w)
    BY <2>1, ReportsAreKinds DEF IsReport
  <2>4. /\ Len(PlayTexts) = 2
        /\ PlayTexts[1] = SetText("source", "play")
        /\ PlayTexts[2] = SetText("synth", "play")
    BY DEF PlayTexts
  <2>5. /\ SetText("source", "play") \in TextKind(w) <=> w = "source"
        /\ SetText("synth", "play") \in TextKind(w) <=> w = "synth"
    BY <1>3 DEF TextKind, Playable
  <2>6. Among(PlayTexts, TextKind(w)) = IF w = "source" THEN {1} ELSE {2}
    BY <2>4, <2>5 DEF Among, Playable
  <2>7. m \in StartGood(on) => /\ SetText("source", "play") \in TextGood(on)
                               /\ SetText("synth", "play") \in TextGood(on)
    BY <1>3, <2>1 DEF StartGood, TextGood, Playable
  <2>8. m \in StartKind(w) =>
            (m \in StartGood(on) =>
                 \E i \in Among(PlayTexts, TextKind(w)) :
                     /\ LastOf(Among(PlayTexts, TextKind(w)), i)
                     /\ PlayTexts[i] \in TextGood(on))
    BY <2>4, <2>6, <2>7 DEF LastOf
  <2>9. m \notin StartKind(w) => Among(PlayTexts, TextKind(w)) = {}
    BY <2>3
  <2> HIDE DEF m
  <2> QED
    BY <1>1, <2>2, <2>8, <2>9, ReportRelayed DEF m
<1>6. CASE ~CtlStarted /\ ~CtlStopped
  <2>1. m \notin StartKind(w)
    <3>1. m.type \in {"do", "set_param", "time"}
      BY <1>2, <1>6 DEF Controller, ControllerNext, CtlSetParam, CtlSetTime, CtlOpen,
         CtlAnalyze, CtlSynthesize, CtlImport, CtlExport, CtlExportSynth, CtlToggle, Command
    <3> QED
      BY <3>1 DEF StartKind, StartMsg, StopMsg
  <2>2. PICK c \in Seq(ViewMsg) : viewMail' = viewMail \o c /\ Among(c, TextKind(w)) = {}
    <3>1. CASE CtlSetParam \/ CtlOpen \/ CtlAnalyze \/ CtlSynthesize \/ CtlImport
      <4>1. PICK c \in Seq(Replicated) : viewMail' = viewMail \o c
        BY <3>1, AnnouncementsOnly
      <4>2. Replicated \subseteq ViewMsg
        BY DEF Replicated, ViewMsg, EnabledMsg
      <4>3. c \in Seq(ViewMsg) /\ Among(c, TextKind(w)) = {}
        BY <4>2, SeqMonotonic, OtherKinds, NoneAmong
      <4> QED
        BY <4>1, <4>3
    <3>2. CASE CtlSetTime
      <4>1. m \in TimeMsg
        BY <1>2, <3>2 DEF CtlSetTime, CtlMsg, DoMsg, ParamMsg
      <4>2. <<m>> \in Seq(ViewMsg) /\ <<m>> \in Seq(TimeMsg)
        BY <4>1, ShortSeqs DEF ViewMsg
      <4> HIDE DEF m
      <4>3. Among(<<m>>, TextKind(w)) = {}
        <5>1. TimeMsg \cap TextKind(w) = {}
          BY OtherKinds
        <5> QED
          BY <4>2, <5>1, NoneAmong
      <4> QED
        BY <3>2, <4>2, <4>3 DEF CtlSetTime, Send, m
    <3>3. CASE CtlExport \/ CtlExportSynth \/ CtlToggle
      <4>1. viewMail' = viewMail \o <<>>
        BY <1>1, <3>3, ConcatEmptySeq DEF CtlExport, CtlExportSynth, CtlToggle, Send
      <4>2. <<>> \in Seq(ViewMsg) /\ Among(<<>>, TextKind(w)) = {}
        BY ShortSeqs DEF Among
      <4> QED
        BY <4>1, <4>2
    <3> QED
      BY <1>6, <3>1, <3>2, <3>3 DEF Controller, ControllerNext
  <2> QED
    BY <1>1, <2>1, <2>2, ReportRelayed
<1> QED
  BY <1>4, <1>5, <1>6
\* The view gives a text to the button it is for.
LEMMA ViewStep ==
    ASSUME TypeOK, View, NEW w \in Playable, NEW on,
           ReportComes(ctlMail, viewMail, playText[w], w, on)
    PROVE  ReportComes(ctlMail', viewMail', playText'[w], w, on)
<1> DEFINE m == Head(viewMail)
<1>1. /\ ctlMail \in Seq(CtlMsg) /\ viewMail \in Seq(ViewMsg)
      /\ viewMail # <<>> /\ viewMail' = Tail(viewMail)
      /\ ctlMail' = IF m \in UserMsg THEN ctlMail \o <<m>> ELSE ctlMail
  BY ViewTakes DEF TypeOK, ActorsTypeOK
<1>2. ASSUME NEW type, ViewHandle(type)
      PROVE  m.type = type /\ m \in ViewMsg
  BY <1>2, ViewHandleTypes DEF TypeOK
<1>3. playText'[w] = IF m \in TextKind(w) THEN m.text ELSE playText[w]
  <2>1. CASE UNCHANGED playText /\ m.type # "text"
    BY <2>1 DEF TextKind, TextMsg
  <2>2. CASE ViewHandle("text") /\ playText' = [playText EXCEPT ![m.which] = m.text]
    <3>1. m.type = "text" /\ m \in ViewMsg
      BY <1>2, <2>2
    <3>2. m \in TextMsg
      BY <3>1 DEF ViewMsg, DoMsg, ParamMsg, DataMsg, PartialsMsg, TimeMsg, TextMsg
    <3>3. m \in TextKind(w) <=> m.which = w
      BY <3>2 DEF TextKind
    <3>4. playText \in [Playable -> {"play", "stop"}]
      BY DEF TypeOK, ViewTypeOK
    <3> HIDE DEF m
    <3> QED
      BY <2>2, <3>3, <3>4
  <2>3. CASE ViewSetProp
    <3>1. \/ ViewHandle("text") /\ playText' = [playText EXCEPT ![m.which] = m.text]
          \/ ViewHandle("enabled") /\ UNCHANGED playText
          \/ ViewHandle("time") /\ UNCHANGED playText
      BY <2>3 DEF ViewSetProp
    <3> HIDE DEF m
    <3>2. CASE ViewHandle("enabled") /\ UNCHANGED playText
      BY <1>2, <2>1, <3>2
    <3>3. CASE ViewHandle("time") /\ UNCHANGED playText
      BY <1>2, <2>1, <3>3
    <3> QED
      BY <2>2, <3>1, <3>2, <3>3
  <2>4. CASE ViewSetParam \/ ViewSetData \/ ViewSetPartials \/ ViewForward
    <3>1. m.type \in {"set_param", "set_data", "set_partials_data", "do"}
      BY <1>2, <2>4 DEF ViewSetParam, ViewSetData, ViewSetPartials, ViewForward
    <3>2. UNCHANGED playText
      BY <2>4 DEF ViewSetParam, ViewSetData, ViewSetPartials, ViewForward, viewVars
    <3> HIDE DEF m
    <3> QED
      BY <2>1, <3>1, <3>2
  <2> QED
    BY <2>3, <2>4 DEF View, ViewNext
<1>4. PICK b \in Seq(CtlMsg) : ctlMail' = ctlMail \o b /\ Among(b, StartKind(w)) = {}
  <2>1. CASE m \in UserMsg
    <3>1. UserMsg \subseteq CtlMsg
      BY DEF UserMsg, CtlMsg
    <3>2. <<m>> \in Seq(UserMsg) /\ <<m>> \in Seq(CtlMsg)
      BY <2>1, <3>1, ShortSeqs
    <3>3. UserMsg \cap StartKind(w) = {}
      BY OtherKinds
    <3> HIDE DEF m
    <3>4. Among(<<m>>, StartKind(w)) = {}
      BY <3>2, <3>3, NoneAmong
    <3> QED
      BY <1>1, <2>1, <3>2, <3>4
  <2>2. CASE m \notin UserMsg
    <3>1. ctlMail' = ctlMail \o <<>>
      BY <1>1, <2>2, ConcatEmptySeq
    <3>2. <<>> \in Seq(CtlMsg) /\ Among(<<>>, StartKind(w)) = {}
      BY ShortSeqs DEF Among
    <3> QED
      BY <3>1, <3>2
  <2> QED
    BY <2>1, <2>2
<1> DEFINE new == playText'[w]
<1>5. new = IF Head(viewMail) \in TextKind(w) THEN Head(viewMail).text ELSE playText[w]
  BY <1>3
<1> HIDE DEF new
<1>6. ReportComes(ctlMail \o b, Tail(viewMail), new, w, on)
  BY <1>1, <1>4, <1>5, ReportNoticed
<1> QED
  BY <1>1, <1>4, <1>6 DEF new

\* The user's inputs are no reports, wherever they go.
LEMMA UserStep ==
    ASSUME TypeOK, User, NEW w \in Playable, NEW text, NEW on,
           ReportComes(ctlMail, viewMail, text, w, on)
    PROVE  ReportComes(ctlMail', viewMail', text, w, on)
<1>1. ctlMail \in Seq(CtlMsg) /\ viewMail \in Seq(ViewMsg)
  BY DEF TypeOK, ActorsTypeOK
<1>2. /\ ctlMail \o <<>> = ctlMail /\ viewMail \o <<>> = viewMail
      /\ <<>> \in Seq(CtlMsg) /\ <<>> \in Seq(ViewMsg)
      /\ Among(<<>>, StartKind(w)) = {} /\ Among(<<>>, TextKind(w)) = {}
  BY <1>1, ShortSeqs, ConcatEmptySeq DEF Among
<1>3. ASSUME NEW u \in UserMsg
      PROVE  /\ Append(viewMail, u) = viewMail \o <<u>> /\ <<u>> \in Seq(ViewMsg)
             /\ Append(ctlMail, u) = ctlMail \o <<u>> /\ <<u>> \in Seq(CtlMsg)
             /\ Among(<<u>>, StartKind(w)) = {} /\ Among(<<u>>, TextKind(w)) = {}
  <2>1. u \in ViewMsg /\ u \in CtlMsg
    BY DEF UserMsg, ViewMsg, CtlMsg
  <2>2. <<u>> \in Seq(ViewMsg) /\ <<u>> \in Seq(CtlMsg) /\ <<u>> \in Seq(UserMsg)
    BY <2>1, ShortSeqs
  <2>3. UserMsg \cap StartKind(w) = {} /\ UserMsg \cap TextKind(w) = {}
    BY OtherKinds
  <2>4. Among(<<u>>, StartKind(w)) = {} /\ Among(<<u>>, TextKind(w)) = {}
    BY <2>2, <2>3, NoneAmong
  <2> QED
    BY <1>1, <2>1, <2>2, <2>4, AppendIsConcat
<1>4. CASE UserPressesO
  <2>1. Do("open") \in UserMsg
    BY DEF Do, DoMsg, Commands, UserMsg
  <2>2. ctlMail' = ctlMail \o <<Do("open")>> /\ viewMail' = viewMail \o <<>>
    BY <1>2, <1>3, <1>4, <2>1 DEF UserPressesO
  <2>3. <<Do("open")>> \in Seq(CtlMsg) /\ Among(<<Do("open")>>, StartKind(w)) = {}
    BY <1>3, <2>1
  <2> QED
    BY <1>1, <1>2, <2>2, <2>3, InputGiven
<1>5. CASE UserClicks \/ UserTurns
  <2>1. \E u \in UserMsg : viewMail' = Append(viewMail, u)
    <3>1. CASE UserClicks
      <4>1. PICK cmd \in UserCommands : viewMail' = Append(viewMail, Do(cmd))
        BY <3>1 DEF UserClicks, Click
      <4>2. Do(cmd) \in UserMsg
        BY <4>1, UserAssumption DEF Do, UserMsg, DoMsg
      <4> QED
        BY <4>1, <4>2
    <3>2. CASE UserTurns
      <4>1. PICK p \in ParamNames :
                \E v \in UserValues \cap ParamValues(p) : Turn(p, v)
        BY <3>2 DEF UserTurns
      <4>2. PICK v \in UserValues \cap ParamValues(p) : Turn(p, v)
        BY <4>1
      <4>3. SetParam(p, v, FALSE) \in ParamMsg
        BY ParamMsgType
      <4>4. SetParam(p, v, FALSE) \in UserMsg
        BY <4>3 DEF SetParam, UserMsg
      <4> QED
        BY <4>2, <4>4 DEF Turn
    <3> QED
      BY <1>5, <3>1, <3>2
  <2>2. PICK u \in UserMsg : viewMail' = viewMail \o <<u>>
    BY <1>3, <2>1
  <2>3. ctlMail' = ctlMail \o <<>>
    BY <1>2, <1>5 DEF UserClicks, UserTurns
  <2>4. <<u>> \in Seq(ViewMsg) /\ Among(<<u>>, TextKind(w)) = {}
    BY <1>3
  <2> QED
    BY <1>1, <1>2, <2>2, <2>3, <2>4, InputGiven
<1> QED
  BY <1>4, <1>5 DEF User

\* Processor and audio thread report every start and every stop.
LEMMA ProcessorTells ==
    ASSUME TypeOK, Armed, Processor \/ Audio, NEW w \in Playable
    PROVE  \/ UNCHANGED ctlMail /\ Playing(w)' = Playing(w)
           \/ \E b \in Seq(CtlMsg) :
                  /\ ctlMail' = ctlMail \o b
                  /\ Comes(b, StartKind(w), StartGood(Playing(w)'),
                           Playing(w)' = Playing(w))
<1>1. Playing(w)' = (arming' = "none" /\ playbackState' = w)
  BY DEF Playing
<1>2. w # "off" /\ w # "none"
  BY DEF Playable
<1>3. \A v \in Playable : /\ Stopped \in StartKind(w) /\ Stopped \in CtlMsg
                          /\ Started(v) \in CtlMsg
                          /\ Started(v) \in StartKind(w) <=> v = w
                          /\ Started(v) \in StartMsg
                          /\ Started(v).type = "playback_started"
  BY DEF Stopped, Started, StartKind, StartMsg, StopMsg, CtlMsg, IsReport
<1>4. \A v \in Playable, z \in BOOLEAN :
          Time(v, z) \in CtlMsg /\ Time(v, z) \in TimeMsg /\ Time(v, z) \notin StartKind(w)
  BY OtherKinds DEF Time, TimeMsg, CtlMsg
<1> DEFINE now == Playing(w)'
           same == now = Playing(w)
<1>5. ~now => Stopped \in StartGood(now)
  BY DEF Stopped, StartGood, StopMsg
<1>6. CASE ProcToggleStart
  <2>1. arming \in Playable /\ arming = playbackState /\ arming # "none"
    BY <1>6 DEF ProcToggleStart, Armed, TypeOK, ProcessorTypeOK
  <2>2. ctlMail' = ctlMail \o <<Started(arming)>>
    BY <1>6 DEF ProcToggleStart, Tell
  <2>3. now <=> arming = w
    BY <1>1, <1>6, <2>1 DEF ProcToggleStart
  <2>4. ~Playing(w)
    BY <2>1 DEF Playing
  <2>5. now \in BOOLEAN /\ Playing(w) \in BOOLEAN
    BY <1>1 DEF Playing
  <2>6. Started(arming) \in StartKind(w) => Started(arming) \in StartGood(now)
    BY <1>3, <2>1, <2>3 DEF StartGood
  <2>7. Started(arming) \in StartKind(w) \/ same
    BY <1>3, <2>1, <2>3, <2>4, <2>5
  <2>8. <<Started(arming)>> \in Seq(CtlMsg)
    BY <1>3, <2>1, ShortSeqs
  <2> HIDE DEF now, same
  <2>9. Comes(<<Started(arming)>>, StartKind(w), StartGood(now), same)
    BY <2>6, <2>7, SingleComes
  <2> QED
    BY <2>2, <2>8, <2>9 DEF now, same
<1>7. CASE (ProcSetData \/ VectorStop) /\ ~now
  <2>1. ctlMail' = ctlMail \o <<Stopped>>
    BY <1>7 DEF ProcSetData, VectorStop, Tell
  <2>2. <<Stopped>> \in Seq(CtlMsg)
    BY <1>3, ShortSeqs DEF Playable
  <2>3. Stopped \in StartGood(now) /\ Stopped \in StartKind(w)
    BY <1>3, <1>5, <1>7
  <2> HIDE DEF now, same
  <2>4. Comes(<<Stopped>>, StartKind(w), StartGood(now), same)
    BY <2>3, SingleComes
  <2> QED
    BY <2>1, <2>2, <2>4 DEF now, same
<1>8. CASE ProcToggle
  <2>1. ~now
    <3>1. playbackState' = "off"
      BY <1>8 DEF ProcToggle
    <3> QED
      BY <1>1, <1>2, <3>1
  <2>2. CASE playbackState = "off"
    BY <1>1, <1>2, <1>8, <2>1, <2>2 DEF ProcToggle, Playing
  <2>3. CASE playbackState # "off"
    <3> DEFINE b == <<Stopped, Time("source", TRUE), Time("synth", TRUE)>>
    <3>1. ctlMail' = ctlMail \o b
      BY <1>8, <2>3 DEF ProcToggle, Tell
    <3>2. b \in Seq(CtlMsg)
      BY <1>3, <1>4, ShortSeqs DEF Playable
    <3>3. /\ Time("source", TRUE) \notin StartKind(w)
          /\ Time("synth", TRUE) \notin StartKind(w)
      BY <1>4 DEF Playable
    <3>4. /\ Len(b) = 3 /\ b[1] = Stopped /\ b[2] = Time("source", TRUE)
          /\ b[3] = Time("synth", TRUE)
      OBVIOUS
    <3> HIDE DEF b
    <3>5. Among(b, StartKind(w)) = {1}
      <4>1. Stopped \in StartKind(w)
        BY <1>3
      <4>2. \A i \in 1..3 : b[i] \in StartKind(w) <=> i = 1
        <5>1. \A i \in 1..3 : i = 1 \/ i = 2 \/ i = 3
          OBVIOUS
        <5>2. b[1] \in StartKind(w) /\ b[2] \notin StartKind(w) /\ b[3] \notin StartKind(w)
          BY <3>3, <3>4, <4>1
        <5> QED
          BY <5>1, <5>2
      <4> QED
        BY <3>4, <4>2 DEF Among
    <3>6. b[1] \in StartGood(now)
      BY <1>5, <2>1, <3>4
    <3> HIDE DEF now, same
    <3>7. Comes(b, StartKind(w), StartGood(now), same)
      BY <3>5, <3>6 DEF Comes, LastOf
    <3> QED
      BY <3>1, <3>2, <3>7 DEF now, same
  <2> QED
    BY <2>2, <2>3
<1>9. CASE VectorReport
  <2>1. PICK z \in BOOLEAN : ctlMail' = ctlMail \o <<Time(audio.which, z)>>
    BY <1>9 DEF VectorReport, Tell
  <2>2. audio.which \in Playable
    BY DEF TypeOK, ProcessorTypeOK
  <2>3. <<Time(audio.which, z)>> \in Seq(CtlMsg)
    BY <1>4, <2>2, ShortSeqs
  <2>4. Time(audio.which, z) \notin StartKind(w)
    BY <1>4, <2>2
  <2>5. same
    BY <1>1, <1>9 DEF VectorReport, Playing
  <2> HIDE DEF now, same
  <2>6. Comes(<<Time(audio.which, z)>>, StartKind(w), StartGood(now), same)
    BY <2>4, <2>5, SingleComes
  <2> QED
    BY <2>1, <2>3, <2>6 DEF now, same
<1>10. CASE ProcToggleSet
  BY <1>1, <1>2, <1>10 DEF ProcToggleSet, Armed, Playing, mail
<1>11. CASE UNCHANGED <<ctlMail, arming, playbackState>>
  BY <1>1, <1>11 DEF Playing
<1>12. (ProcSetData \/ VectorStop) => ~now
  BY <1>1, <1>2 DEF ProcSetData, VectorStop
<1> HIDE DEF now
<1>13. CASE Processor
  BY <1>6, <1>7, <1>8, <1>10, <1>11, <1>12, <1>13 DEF Processor, ProcessorMain, ProcSetParam,
     ProcIgnorePartials, procVars
<1>14. CASE Audio
  BY <1>7, <1>9, <1>11, <1>12, <1>14 DEF Audio, ProcessorAudio, VectorSilent, VectorBegin,
     VectorLoad, VectorCheck, mail, procVars
<1> QED
  BY <1>13, <1>14
-----------------------------------------------------------------------------
\* Nothing plays at first, and all buttons say so.
LEMMA FirstTells == Init => Armed /\ ButtonsTell
<1> SUFFICES ASSUME Init, NEW w \in Playable
             PROVE  Armed /\ ReportComes(ctlMail, viewMail, playText[w], w, Playing(w))
  BY DEF Armed, ButtonsTell, Init
<1>1. Armed /\ ~Playing(w)
  BY DEF Init, Armed, Playing, Playable
<1>2. playText[w] = "play"
  BY DEF Init
<1>3. Among(ctlMail, StartKind(w)) = {}
  BY DEF Init, Among
<1>4. Among(viewMail, TextKind(w)) = {}
  <2>1. /\ \A p \in ParamNames : InitParams[p] \in ParamValues(p)
        /\ "analysis_interval" \in ParamNames /\ "fundamental" \in ParamNames
    BY ParamAssumption DEF InitParams, ParamNames, ParamValues
  <2> DEFINE interval == ParamMsgs("analysis_interval", InitParams["analysis_interval"])
             fundamental == ParamMsgs("fundamental", InitParams["fundamental"])
             states == ButtonEnableStates(sourceSample, lorisPartials, synthSample)
  <2>2. interval \in Seq(ParamMsg) /\ fundamental \in Seq(ParamMsg)
    BY <2>1, ParamSeqs
  <2>3. "export" \in Buttons
    BY DEF Buttons
  <2>4. states \in Seq(EnabledMsg)
    BY <2>3, EnabledSays
  <2>5. viewMail = interval \o fundamental \o states
    BY DEF Init, BroadcastParams
  <2>6. ParamMsg \subseteq Replicated /\ EnabledMsg \subseteq Replicated
    BY DEF Replicated
  <2> HIDE DEF interval, fundamental, states
  <2>7. /\ interval \in Seq(Replicated) /\ fundamental \in Seq(Replicated)
        /\ states \in Seq(Replicated)
    BY <2>2, <2>4, <2>6, SeqMonotonic
  <2>8. viewMail \in Seq(Replicated)
    BY <2>5, <2>7, ConcatType
  <2>9. Replicated \cap TextKind(w) = {}
    BY OtherKinds
  <2> QED
    BY <2>8, <2>9, NoneAmong
<1> QED
  BY <1>1, <1>2, <1>3, <1>4 DEF ReportComes, TextComes, Comes

\* Every step keeps each button told.
LEMMA StaysTold ==
    ASSUME TypeOK, Armed, ButtonsTell, [Next]_vars
    PROVE  ButtonsTell'
<1> SUFFICES ASSUME NEW w \in Playable
             PROVE  ReportComes(ctlMail', viewMail', playText'[w], w, Playing(w)')
  BY DEF ButtonsTell
<1>1. ReportComes(ctlMail, viewMail, playText[w], w, Playing(w))
  BY DEF ButtonsTell
<1>2. Controller \/ View \/ User \/ UNCHANGED vars => Playing(w)' = Playing(w)
  BY DEF Controller, View, User, UserClicks, UserTurns, UserPressesO, UserGives, vars,
     procVars, Playing
<1>3. CASE Controller
  <2>1. UNCHANGED playText
    BY <1>3 DEF Controller, viewVars
  <2> QED
    BY <1>1, <1>2, <1>3, <2>1, ControllerStep
<1>4. CASE View
  BY <1>1, <1>2, <1>4, ViewStep
<1>5. CASE User
  <2>1. UNCHANGED playText
    BY <1>5 DEF User, UserClicks, UserTurns, UserPressesO, UserGives, viewVars
  <2> QED
    BY <1>1, <1>2, <1>5, <2>1, UserStep
<1>6. CASE Processor \/ Audio
  <2>1. UNCHANGED <<viewMail, playText>>
    <3>1. Processor => UNCHANGED <<viewMail, viewVars>>
      BY DEF Processor, ProcessorMain, ProcSetParam, ProcSetData, ProcIgnorePartials,
         ProcToggle, ProcToggleSet, ProcToggleStart, mail
    <3>2. Audio => UNCHANGED <<viewMail, viewVars>>
      BY DEF Audio, ProcessorAudio, VectorSilent, VectorBegin, VectorLoad, VectorCheck,
         VectorStop, VectorReport, mail
    <3> QED
      BY <1>6, <3>1, <3>2 DEF viewVars
  <2>2. CASE UNCHANGED ctlMail /\ Playing(w)' = Playing(w)
    BY <1>1, <2>1, <2>2
  <2>3. CASE \E b \in Seq(CtlMsg) :
                 /\ ctlMail' = ctlMail \o b
                 /\ Comes(b, StartKind(w), StartGood(Playing(w)'),
                          Playing(w)' = Playing(w))
    <3>1. PICK b \in Seq(CtlMsg) :
                 /\ ctlMail' = ctlMail \o b
                 /\ Comes(b, StartKind(w), StartGood(Playing(w)'),
                          Playing(w)' = Playing(w))
      BY <2>3
    <3>2. ctlMail \in Seq(CtlMsg)
      BY DEF TypeOK, ActorsTypeOK
    <3>3. ReportComes(ctlMail \o b, viewMail, playText[w], w, Playing(w)')
      BY <1>1, <3>1, <3>2, ReportSent
    <3> QED
      BY <2>1, <3>1, <3>3
  <2> QED
    BY <1>6, <2>2, <2>3, ProcessorTells
<1>7. CASE UNCHANGED vars
  BY <1>1, <1>2, <1>7 DEF vars, mail, viewVars
<1> QED
  BY <1>3, <1>4, <1>5, <1>6, <1>7 DEF Next

\* What the last report on its way to a play button says, or what the button
\* shows if there is none, is whether its sound plays: no start, stop, new
\* sample or end of a sound goes unreported, though the audio thread may run
\* within any handler.  If a button ever comes to be wrong, it is because
\* playback was started within a vector.
THEOREM PlayButtonsAreTold ==
    Spec /\ []~StartOverlaps => []ButtonsTold
<1>1. Init => Armed /\ ButtonsTell
  BY FirstTells
<1>2. TypeOK /\ Armed /\ ButtonsTell /\ ~StartOverlaps /\ [Next]_vars
          => Armed' /\ ButtonsTell'
  BY StaysArmed, StaysTold
<1>3. TypeOK /\ ButtonsTell => ButtonsTold
  BY TellsIsTold
<1> QED
  BY <1>1, <1>2, <1>3, TypeCorrect, PTL DEF Spec
=============================================================================
