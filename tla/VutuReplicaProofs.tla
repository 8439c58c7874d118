------------------------- MODULE VutuReplicaProofs --------------------------
(***************************************************************************)
(* The replicas that view and processor keep of the controller's data come *)
(* to be what the controller holds, however many messages are on their way *)
(* and in whatever order the actors handle theirs.                         *)
(***************************************************************************)
EXTENDS VutuAppProofs
-----------------------------------------------------------------------------
(***************************************************************************)
(* What a mailbox brings.  A receiver keeps what the last message of a     *)
(* kind said, or what it held before if there is none.                     *)
(***************************************************************************)
Among(box, kind) == {i \in 1..Len(box) : box[i] \in kind}

\* What is held comes to be good: the last message of the kind is a good one,
\* or there is none and what is held is good already.
Comes(box, kind, good, held) ==
    \/ Among(box, kind) = {} /\ held
    \/ \E i \in Among(box, kind) :
           LastOf(Among(box, kind), i) /\ box[i] \in good

\* A message of another kind says nothing.
LEMMA NoneAmong ==
    ASSUME NEW T, NEW box \in Seq(T), NEW kind, T \cap kind = {}
    PROVE  Among(box, kind) = {}
BY ElementOfSeq DEF Among

\* So what is held stays good.
LEMMA SilentComes ==
    ASSUME NEW T, NEW box \in Seq(T), NEW kind, T \cap kind = {}, NEW good,
           NEW held, held
    PROVE  Comes(box, kind, good, held)
BY NoneAmong DEF Comes

\* A message of the kind on its own.
LEMMA SingleComes ==
    ASSUME NEW m, NEW kind, NEW good, NEW held, m \in kind => m \in good,
           m \in kind \/ held
    PROVE  Comes(<<m>>, kind, good, held)
<1>1. Len(<<m>>) = 1 /\ <<m>>[1] = m
  OBVIOUS
<1>2. Among(<<m>>, kind) = IF m \in kind THEN {1} ELSE {}
  BY <1>1 DEF Among
<1> QED
  BY <1>1, <1>2 DEF Comes, LastOf

\* Two messages, of which the second decides if both are of the kind.
LEMMA PairComes ==
    ASSUME NEW a, NEW b, NEW kind, NEW good, NEW held,
           b \in kind => b \in good,
           b \notin kind => (a \in kind => a \in good) /\ (a \in kind \/ held)
    PROVE  Comes(<<a, b>>, kind, good, held)
<1>1. Len(<<a, b>>) = 2 /\ <<a, b>>[1] = a /\ <<a, b>>[2] = b
  OBVIOUS
<1>2. Among(<<a, b>>, kind) = {i \in 1..2 : <<a, b>>[i] \in kind}
  BY <1>1 DEF Among
<1>3. CASE b \in kind
  <2>1. 2 \in Among(<<a, b>>, kind) /\ \A j \in Among(<<a, b>>, kind) : j <= 2
    BY <1>1, <1>2, <1>3
  <2> QED
    BY <1>1, <1>3, <2>1 DEF Comes, LastOf
<1>4. CASE b \notin kind /\ a \in kind
  <2>1. 1 \in Among(<<a, b>>, kind) /\ \A j \in Among(<<a, b>>, kind) : j <= 1
    BY <1>1, <1>2, <1>4
  <2> QED
    BY <1>1, <1>4, <2>1 DEF Comes, LastOf
<1>5. CASE b \notin kind /\ a \notin kind
  <2>1. Among(<<a, b>>, kind) = {}
    BY <1>1, <1>2, <1>5
  <2> QED
    BY <1>5, <2>1 DEF Comes
<1> QED
  BY <1>3, <1>4, <1>5

\* The places of a kind in two mailboxes, one after the other.
LEMMA AmongConcat ==
    ASSUME NEW S, NEW a \in Seq(S), NEW b \in Seq(S), NEW kind,
           NEW c, c = a \o b
    PROVE  /\ \A i \in Among(a, kind) : i \in Among(c, kind)
           /\ \A j \in Among(b, kind) : Len(a) + j \in Among(c, kind)
           /\ \A k \in Among(c, kind) :
                  k \in Among(a, kind) \/ k - Len(a) \in Among(b, kind)
<1>1. Len(a) \in Nat /\ Len(b) \in Nat
  OBVIOUS
<1>2. /\ Len(c) = Len(a) + Len(b)
      /\ \A i \in 1..Len(a) + Len(b) :
             c[i] = IF i <= Len(a) THEN a[i] ELSE b[i - Len(a)]
  BY ConcatProperties
<1>3. \A i \in 1..Len(a) : i \in 1..Len(a) + Len(b) /\ c[i] = a[i]
  BY <1>1, <1>2
<1>4. \A j \in 1..Len(b) : Len(a) + j \in 1..Len(a) + Len(b) /\ c[Len(a) + j] = b[j]
  BY <1>1, <1>2
<1>5. \A k \in 1..Len(a) + Len(b) :
          \/ k \in 1..Len(a) /\ c[k] = a[k]
          \/ k - Len(a) \in 1..Len(b) /\ c[k] = b[k - Len(a)]
  BY <1>1, <1>2
<1> QED
  BY <1>2, <1>3, <1>4, <1>5 DEF Among

\* Messages of other kinds that are added do not change what comes.
LEMMA ComesBefore ==
    ASSUME NEW S, NEW a \in Seq(S), NEW b \in Seq(S), NEW kind,
           NEW good, NEW held, Comes(a, kind, good, held), Among(b, kind) = {}
    PROVE  Comes(a \o b, kind, good, held)
<1> SUFFICES ASSUME NEW c, c = a \o b PROVE Comes(c, kind, good, held)
  OBVIOUS
<1>1. Len(a) \in Nat /\ Among(a, kind) \subseteq 1..Len(a) /\ Len(b) \in Nat
  BY DEF Among
<1>2. /\ \A i \in Among(a, kind) : i \in Among(c, kind)
      /\ \A k \in Among(c, kind) :
             k \in Among(a, kind) \/ k - Len(a) \in Among(b, kind)
  BY AmongConcat
<1>3. \A i \in Among(a, kind) : c[i] = a[i]
  BY <1>1, ConcatProperties
<1>4. Among(c, kind) = Among(a, kind)
  BY <1>2
<1> QED
  BY <1>3, <1>4 DEF Comes

\* Messages that are added decide, if one of the kind is among them; if not,
\* those before them do.
LEMMA ComesAfter ==
    ASSUME NEW S, NEW a \in Seq(S), NEW b \in Seq(S), NEW kind,
           NEW good, NEW held, NEW now, NEW same, Comes(b, kind, good, same),
           same => Comes(a, kind, good, held) /\ (held => now)
    PROVE  Comes(a \o b, kind, good, now)
<1> SUFFICES ASSUME NEW c, c = a \o b PROVE Comes(c, kind, good, now)
  OBVIOUS
<1>1. /\ Len(a) \in Nat /\ Among(a, kind) \subseteq 1..Len(a)
      /\ Len(b) \in Nat /\ Among(b, kind) \subseteq 1..Len(b)
      /\ Among(c, kind) \subseteq Int
  BY DEF Among
<1>2. /\ \A i \in Among(a, kind) : i \in Among(c, kind)
      /\ \A j \in Among(b, kind) : Len(a) + j \in Among(c, kind)
      /\ \A k \in Among(c, kind) :
             k \in Among(a, kind) \/ k - Len(a) \in Among(b, kind)
  BY AmongConcat
<1>3. CASE \E j \in Among(b, kind) : LastOf(Among(b, kind), j) /\ b[j] \in good
  <2>1. PICK j \in Among(b, kind) : LastOf(Among(b, kind), j) /\ b[j] \in good
    BY <1>3
  <2>2. c[Len(a) + j] = b[j]
    BY <1>1, ConcatProperties
  <2>3. Len(a) + j \in Among(c, kind) /\ c[Len(a) + j] \in good
    BY <1>2, <2>1, <2>2
  <2>4. \A k \in Among(c, kind) : k <= Len(a) + j
    BY <1>1, <1>2, <2>1 DEF LastOf
  <2> QED
    BY <2>3, <2>4 DEF Comes, LastOf
<1>4. CASE Among(b, kind) = {} /\ same
  <2>1. Comes(c, kind, good, held)
    BY <1>4, ComesBefore
  <2> QED
    BY <1>4, <2>1 DEF Comes
<1> QED
  BY <1>3, <1>4 DEF Comes

\* What is in neither of two mailboxes is not in them together; what is in
\* one of them is.
LEMMA AmongBoth ==
    ASSUME NEW S, NEW a \in Seq(S), NEW b \in Seq(S), NEW kind
    PROVE  Among(a \o b, kind) = {} <=> Among(a, kind) = {} /\ Among(b, kind) = {}
BY AmongConcat

\* Handling the first message, the receiver holds what it says if it is of
\* the kind, and keeps what it held if not.
LEMMA ComesHandled ==
    ASSUME NEW S, NEW box \in Seq(S), box # <<>>, NEW kind, NEW good,
           NEW held, NEW now, Comes(box, kind, good, held),
           Head(box) \in kind /\ Head(box) \in good => now,
           Head(box) \notin kind /\ held => now
    PROVE  Comes(Tail(box), kind, good, now)
<1>1. /\ Len(box) \in Nat /\ Len(Tail(box)) = Len(box) - 1
      /\ Head(box) = box[1]
      /\ \A i \in 1..Len(box) - 1 : Tail(box)[i] = box[i + 1]
  BY HeadTailProperties
<1>2. \A i \in Among(Tail(box), kind) : i + 1 \in Among(box, kind) /\ i \in Nat
  BY <1>1 DEF Among
<1>3. \A k \in Among(box, kind) : k = 1 \/ k - 1 \in Among(Tail(box), kind)
  BY <1>1 DEF Among
<1>4. CASE Among(Tail(box), kind) = {}
  <2>1. Among(box, kind) = IF Head(box) \in kind THEN {1} ELSE {}
    <3>1. Len(box) # 0
      BY EmptySeq
    <3>2. 1 \in Among(box, kind) <=> Head(box) \in kind
      BY <1>1, <3>1 DEF Among
    <3> QED
      BY <1>3, <1>4, <3>2
  <2>2. now
    BY <1>1, <2>1 DEF Comes
  <2> QED
    BY <1>4, <2>2 DEF Comes
<1>5. CASE Among(Tail(box), kind) # {}
  <2>1. PICK k \in Among(box, kind) : LastOf(Among(box, kind), k) /\ box[k] \in good
    BY <1>2, <1>5 DEF Comes
  <2>2. PICK i \in Among(Tail(box), kind) : TRUE
    BY <1>5
  <2>3. k # 1 /\ k \in Nat
    BY <1>2, <2>1, <2>2 DEF LastOf, Among
  <2>4. k - 1 \in Among(Tail(box), kind)
    BY <1>3, <2>1, <2>3
  <2>5. Tail(box)[k - 1] \in good
    BY <1>1, <2>1, <2>3, <2>4 DEF Among
  <2>6. \A j \in Among(Tail(box), kind) : j <= k - 1
    BY <1>2, <2>1, <2>3 DEF LastOf
  <2> QED
    BY <2>4, <2>5, <2>6 DEF Comes, LastOf
<1> QED
  BY <1>4, <1>5

\* Whatever happens to a mailbox but an announcement: nothing, messages of
\* other kinds, or the receiver's handling the first message.
LEMMA ComesAnyway ==
    ASSUME NEW S, NEW box \in Seq(S), NEW next, NEW kind, NEW good,
           NEW held, NEW now, Comes(box, kind, good, held),
           \/ next = box /\ (held => now)
           \/ /\ held => now
              /\ \E b \in Seq(S) : next = box \o b /\ Among(b, kind) = {}
           \/ /\ box # <<>> /\ next = Tail(box)
              /\ Head(box) \in kind /\ Head(box) \in good => now
              /\ Head(box) \notin kind /\ held => now
    PROVE  Comes(next, kind, good, now)
<1>1. CASE next = box /\ (held => now)
  BY <1>1 DEF Comes
<1>2. CASE /\ held => now
           /\ \E b \in Seq(S) : next = box \o b /\ Among(b, kind) = {}
  <2>1. PICK b \in Seq(S) : next = box \o b /\ Among(b, kind) = {}
    BY <1>2
  <2>2. Comes(box, kind, good, now)
    BY <1>2 DEF Comes
  <2> QED
    BY <2>1, <2>2, ComesBefore
<1>3. CASE /\ box # <<>> /\ next = Tail(box)
           /\ Head(box) \in kind /\ Head(box) \in good => now
           /\ Head(box) \notin kind /\ held => now
  BY <1>3, ComesHandled
<1> QED
  BY <1>1, <1>2, <1>3
-----------------------------------------------------------------------------
(***************************************************************************)
(* The kinds of messages that the replicas are kept by.                    *)
(***************************************************************************)
EnabledMsg == [type : {"enabled"}, button : Buttons, on : BOOLEAN]

ParamKind(p) == {m \in ParamMsg : m.param = p}
ParamGood(v) == {m \in ParamMsg : m.value = v}
UserKind(p) == {m \in ParamMsg : m.param = p /\ ~m.fromController}
PartialsGood(ptr) == {m \in PartialsMsg : m.ptr = ptr}
EnabledKind(b) == {m \in EnabledMsg : m.button = b}
EnabledGood(on) == {m \in EnabledMsg : m.on = on}
DataKind(what) == {m \in DataMsg : m.what = what}

\* Its type says which kind a message is of, whoever it is for.
LEMMA KindOfType ==
    ASSUME NEW m \in CtlMsg \cup ProcMsg \cup ViewMsg
    PROVE  /\ m.type = "set_param" <=> m \in ParamMsg
           /\ m.type = "set_data" <=> m \in DataMsg
           /\ m.type = "set_partials_data" <=> m \in PartialsMsg
           /\ m.type = "enabled" <=> m \in EnabledMsg
<1>1. CASE m \in DoMsg \cup ParamMsg \cup DataMsg
  BY <1>1 DEF DoMsg, ParamMsg, DataMsg, PartialsMsg, EnabledMsg
<1>2. CASE m \in PartialsMsg \cup TimeMsg \cup EnabledMsg
  BY <1>2 DEF ParamMsg, DataMsg, PartialsMsg, TimeMsg, EnabledMsg
<1>3. CASE m \in [type : {"text"}, which : Playable, text : {"play", "stop"}]
                 \cup [type : {"toggle_play"}, which : Playable]
  BY <1>3 DEF ParamMsg, DataMsg, PartialsMsg, EnabledMsg
<1>4. CASE m \in [type : {"playback_started"}, which : Playable]
                 \cup [type : {"playback_stopped"}]
  BY <1>4 DEF ParamMsg, DataMsg, PartialsMsg, EnabledMsg
<1> QED
  BY <1>1, <1>2, <1>3, <1>4 DEF CtlMsg, ProcMsg, ViewMsg, EnabledMsg

\* No message is of two of these types.
LEMMA KindsDiffer ==
    /\ ParamMsg \cap (DataMsg \cup PartialsMsg \cup EnabledMsg) = {}
    /\ EnabledMsg \cap (DataMsg \cup PartialsMsg) = {}
    /\ DataMsg \cap PartialsMsg = {}
BY DEF ParamMsg, DataMsg, PartialsMsg, EnabledMsg

\* The places of messages, as the properties say them and as a kind.
LEMMA PlacesAreKinds ==
    ASSUME NEW box \in Seq(CtlMsg) \cup Seq(ProcMsg) \cup Seq(ViewMsg)
    PROVE  /\ \A p \in ParamNames : ParamPlaces(box, p) = Among(box, ParamKind(p))
           /\ At(box, "set_partials_data") = Among(box, PartialsMsg)
           /\ \A b \in Buttons : {i \in At(box, "enabled") : box[i].button = b}
                                     = Among(box, EnabledKind(b))
           /\ \A w \in Playable : {i \in At(box, "set_data") : box[i].what = w}
                                      = Among(box, DataKind(w))
<1>1. \A i \in 1..Len(box) : box[i] \in CtlMsg \cup ProcMsg \cup ViewMsg
  BY ElementOfSeq
<1>2. \A i \in 1..Len(box) :
          /\ box[i].type = "set_param" <=> box[i] \in ParamMsg
          /\ box[i].type = "set_data" <=> box[i] \in DataMsg
          /\ box[i].type = "set_partials_data" <=> box[i] \in PartialsMsg
          /\ box[i].type = "enabled" <=> box[i] \in EnabledMsg
  BY <1>1, KindOfType
<1> QED
  BY <1>2 DEF ParamPlaces, At, Among, ParamKind, EnabledKind, DataKind
-----------------------------------------------------------------------------
(***************************************************************************)
(* The pieces of which the controller's announcements are made.            *)
(***************************************************************************)
\* A parameter's value is announced, whoever the others are.
LEMMA ParamSays ==
    ASSUME NEW p \in ParamNames, NEW v \in ParamValues(p), NEW q, NEW w, NEW held,
           q = p => v = w, q # p => held
    PROVE  Comes(ParamMsgs(p, v), ParamKind(q), ParamGood(w), held)
<1>1. SetParam(p, v, TRUE) \in ParamMsg
  BY ParamMsgType
<1>2. SetParam(p, v, TRUE).param = p /\ SetParam(p, v, TRUE).value = v
  BY DEF SetParam
<1> QED
  BY <1>1, <1>2, SingleComes DEF ParamMsgs, ParamKind, ParamGood

\* Parameters announce nothing else.
LEMMA ParamSeqs ==
    ASSUME NEW p \in ParamNames, NEW v \in ParamValues(p)
    PROVE  ParamMsgs(p, v) \in Seq(ParamMsg)
BY ParamMsgType, ShortSeqs DEF ParamMsgs

\* Pointers to data announce the partials and the source, and nothing else.
LEMMA DataSays ==
    ASSUME NEW n \in Nat, NEW held
    PROVE  /\ <<SetData("source"), SetPartials(n), SetData("synth")>>
                  \in Seq(DataMsg \cup PartialsMsg)
           /\ <<SetPartials(n), SetData("synth")>> \in Seq(DataMsg \cup PartialsMsg)
           /\ <<SetData("synth")>> \in Seq(DataMsg)
           /\ Comes(<<SetPartials(n), SetData("synth")>>, PartialsMsg,
                    PartialsGood(n), held)
           /\ Comes(<<SetData("source"), SetPartials(n), SetData("synth")>>,
                    PartialsMsg, PartialsGood(n), held)
           /\ Among(<<SetData("source"), SetPartials(n), SetData("synth")>>,
                    DataKind("source")) # {}
<1>1. /\ SetData("source") \in DataMsg /\ SetData("synth") \in DataMsg
      /\ SetPartials(n) \in PartialsMsg /\ SetPartials(n).ptr = n
      /\ SetData("source").what = "source"
  BY DEF SetData, SetPartials, DataMsg, PartialsMsg, Playable
<1>2. SetData("source") \notin PartialsMsg /\ SetData("synth") \notin PartialsMsg
  BY <1>1, KindsDiffer
<1>3. SetPartials(n) \in PartialsGood(n) /\ SetData("source") \in DataKind("source")
  BY <1>1 DEF PartialsGood, DataKind
<1> DEFINE three == <<SetData("source"), SetPartials(n), SetData("synth")>>
<1>4. Comes(<<SetPartials(n), SetData("synth")>>, PartialsMsg, PartialsGood(n), held)
  BY <1>1, <1>2, <1>3, PairComes
<1>5. Comes(three, PartialsMsg, PartialsGood(n), held)
  <2>1. /\ Len(three) = 3 /\ three[1] = SetData("source")
        /\ three[2] = SetPartials(n) /\ three[3] = SetData("synth")
    OBVIOUS
  <2>2. Among(three, PartialsMsg) = {2}
    BY <1>1, <1>2, <2>1 DEF Among
  <2> QED
    BY <1>3, <2>1, <2>2 DEF Comes, LastOf
<1>6. 1 \in Among(three, DataKind("source"))
  BY <1>3 DEF Among
<1>7. /\ three \in Seq(DataMsg \cup PartialsMsg)
      /\ <<SetPartials(n), SetData("synth")>> \in Seq(DataMsg \cup PartialsMsg)
      /\ <<SetData("synth")>> \in Seq(DataMsg)
  BY <1>1, ShortSeqs
<1>8. Among(three, DataKind("source")) # {}
  BY <1>6
<1> QED
  BY <1>4, <1>5, <1>7, <1>8

\* The enable states say of each button whether it is to be enabled.
LEMMA EnabledSays ==
    ASSUME NEW s, NEW l, NEW y, NEW b \in Buttons, NEW held
    PROVE  /\ ButtonEnableStates(s, l, y) \in Seq(EnabledMsg)
           /\ Comes(ButtonEnableStates(s, l, y), EnabledKind(b),
                    EnabledGood(EnabledState(b, s, l, y)), held)
<1> DEFINE names == <<"play_source", "analyze", "synthesize", "export", "play_synth",
                      "export_synth">>
           box == ButtonEnableStates(s, l, y)
<1>1. \A c \in Buttons : EnabledState(c, s, l, y) \in BOOLEAN
  BY DEF EnabledState
<1>2. /\ Len(box) = 6
      /\ \A i \in 1..6 : names[i] \in Buttons
      /\ \A i \in 1..6 : box[i] = SetEnabled(names[i], EnabledState(names[i], s, l, y))
  BY DEF ButtonEnableStates, Buttons
<1>3. \A i \in 1..6 : box[i] \in EnabledMsg /\ box[i].button = names[i]
  BY <1>1, <1>2 DEF SetEnabled, EnabledMsg
<1>4. box \in Seq(EnabledMsg)
  BY <1>1 DEF ButtonEnableStates, SetEnabled, EnabledMsg, Buttons
<1>5. PICK i \in 1..6 : names[i] = b /\ \A j \in 1..6 : names[j] = b => j = i
  BY DEF Buttons
<1> HIDE DEF names, box
<1>6. Among(box, EnabledKind(b)) = {i}
  BY <1>2, <1>3, <1>5 DEF Among, EnabledKind
<1>7. box[i] \in EnabledGood(EnabledState(b, s, l, y))
  BY <1>1, <1>2, <1>3, <1>5 DEF SetEnabled, EnabledGood
<1>8. Comes(box, EnabledKind(b), EnabledGood(EnabledState(b, s, l, y)), held)
  BY <1>6, <1>7 DEF Comes, LastOf
<1> QED
  BY <1>4, <1>8 DEF box
-----------------------------------------------------------------------------
(***************************************************************************)
(* What the controller announces: each of its data that it changes, and    *)
(* each parameter value that it was sent, changed or not.                  *)
(***************************************************************************)
ParamsTold(box) ==
    \A p \in ParamNames :
        Comes(box, ParamKind(p), ParamGood(ctlParams'[p]),
              ctlParams'[p] = ctlParams[p] /\ Head(ctlMail) \notin ParamKind(p))

PartialsTold(box) ==
    Comes(box, PartialsMsg, PartialsGood(vutuPartials'.id),
          vutuPartials'.id = vutuPartials.id)

EnabledTold(box) ==
    \A b \in Buttons :
        LET old == EnabledState(b, sourceSample, lorisPartials, synthSample)
            new == EnabledState(b, sourceSample', lorisPartials', synthSample')
        IN  Comes(box, EnabledKind(b), EnabledGood(new), new = old)

SourceTold(box) ==
    Among(box, DataKind("source")) # {} \/ sourceSample' = sourceSample

AllTold ==
    \E a \in Seq(ProcMsg), b \in Seq(ViewMsg) :
        /\ Send(a, b)
        /\ ParamsTold(a) /\ ParamsTold(b)
        /\ PartialsTold(b) /\ EnabledTold(b) /\ SourceTold(a)

\* An announcement before or after messages of other kinds.
LEMMA ComesWithin ==
    ASSUME NEW S, NEW a \in Seq(S), NEW b \in Seq(S), NEW kind, NEW good, NEW held
    PROVE  /\ Comes(a, kind, good, held) /\ Among(b, kind) = {}
                  => Comes(a \o b, kind, good, held)
           /\ Comes(b, kind, good, held) /\ Among(a, kind) = {}
                  => Comes(a \o b, kind, good, held)
<1>1. ASSUME Comes(a, kind, good, held), Among(b, kind) = {}
      PROVE  Comes(a \o b, kind, good, held)
  BY <1>1, ComesBefore
<1>2. ASSUME Comes(b, kind, good, held), Among(a, kind) = {}
      PROVE  Comes(a \o b, kind, good, held)
  <2>1. held => Comes(a, kind, good, held)
    BY <1>2 DEF Comes
  <2> QED
    BY <1>2, <2>1, ComesAfter
<1> QED
  BY <1>1, <1>2

\* A parameter that the controller is sent, it passes on.
LEMMA SetParamTells ==
    ASSUME TypeOK, CtlSetParam
    PROVE  AllTold
<1> DEFINE m == Head(ctlMail)
           box == ParamMsgs(m.param, m.value)
<1>1. m \in ParamMsg /\ m.param \in ParamNames /\ m.value \in ParamValues(m.param)
  BY ReceivedParam, ParamMsgFields DEF CtlSetParam, TypeOK
<1>2. box \in Seq(ParamMsg) /\ box \in Seq(ProcMsg) /\ box \in Seq(ViewMsg)
  BY <1>1, ParamSeqs, ParamMsgsType
<1>3. Send(box, box)
  BY DEF CtlSetParam
<1>4. ctlParams' = [ctlParams EXCEPT ![m.param] = m.value] /\ ctlParams \in Params
  BY DEF CtlSetParam, TypeOK, ControllerTypeOK
<1>5. \A q \in ParamNames :
          ctlParams'[q] = IF q = m.param THEN m.value ELSE ctlParams[q]
  BY <1>4 DEF Params
<1>6. ParamsTold(box)
  <2> SUFFICES ASSUME NEW q \in ParamNames
               PROVE  Comes(box, ParamKind(q), ParamGood(ctlParams'[q]),
                            ctlParams'[q] = ctlParams[q] /\ m \notin ParamKind(q))
    BY DEF ParamsTold
  <2>1. q # m.param => ctlParams'[q] = ctlParams[q] /\ m \notin ParamKind(q)
    BY <1>5 DEF ParamKind
  <2> HIDE DEF m
  <2> QED
    BY <1>1, <1>5, <2>1, ParamSays
<1>7. vutuPartials' = vutuPartials /\ sourceSample' = sourceSample
      /\ lorisPartials' = lorisPartials /\ synthSample' = synthSample
  BY DEF CtlSetParam, samples
<1> HIDE DEF box
<1>8. PartialsTold(box)
  BY <1>2, <1>7, KindsDiffer, SilentComes DEF PartialsTold
<1>9. EnabledTold(box)
  <2>1. \A b \in Buttons : ParamMsg \cap EnabledKind(b) = {}
    BY KindsDiffer DEF EnabledKind
  <2> QED
    BY <1>2, <1>7, <2>1, SilentComes DEF EnabledTold
<1> QED
  BY <1>2, <1>3, <1>6, <1>7, <1>8, <1>9 DEF AllTold, SourceTold

\* Data, enable states and the parameters that go with them, announced one
\* after the other, to the view and, but for the enable states, to the
\* processor.
LEMMA DataTells ==
    ASSUME NEW data \in Seq(DataMsg \cup PartialsMsg),
           NEW params \in Seq(ParamMsg), ParamsTold(params),
           NEW states, states = ButtonEnableStates(sourceSample', lorisPartials', synthSample'),
           PartialsTold(data), SourceTold(data),
           sourceSample' \in Sample, synthSample' \in Sample, lorisPartials' \in LorisPartials,
           Send(data \o params, data \o states \o params)
    PROVE  AllTold
<1>1. /\ data \in Seq(ProcMsg) /\ data \in Seq(ViewMsg)
      /\ params \in Seq(ProcMsg) /\ params \in Seq(ViewMsg)
      /\ states \in Seq(ViewMsg) /\ states \in Seq(EnabledMsg)
  <2>1. /\ DataMsg \cup PartialsMsg \subseteq ProcMsg /\ ParamMsg \subseteq ProcMsg
        /\ DataMsg \cup PartialsMsg \subseteq ViewMsg /\ ParamMsg \subseteq ViewMsg
    BY DEF ProcMsg, ViewMsg
  <2>2. states \in Seq(ViewMsg)
    BY EnableStatesType
  <2>3. states \in Seq(EnabledMsg)
    BY EnabledSays DEF Buttons
  <2> QED
    BY <2>1, <2>2, <2>3, SeqMonotonic
<1>2. /\ data \o params \in Seq(ProcMsg)
      /\ data \o states \in Seq(ViewMsg) /\ data \o states \o params \in Seq(ViewMsg)
  BY <1>1, ConcatType
<1>3. \A p \in ParamNames : /\ (DataMsg \cup PartialsMsg) \cap ParamKind(p) = {}
                            /\ EnabledMsg \cap ParamKind(p) = {}
  BY KindsDiffer DEF ParamKind
<1>4. \A b \in Buttons : /\ (DataMsg \cup PartialsMsg) \cap EnabledKind(b) = {}
                         /\ ParamMsg \cap EnabledKind(b) = {}
  BY KindsDiffer DEF EnabledKind
<1>5. ParamMsg \cap PartialsMsg = {} /\ EnabledMsg \cap PartialsMsg = {}
  BY KindsDiffer
<1>6. ParamsTold(data \o params) /\ ParamsTold(data \o states \o params)
  <2> SUFFICES ASSUME NEW p \in ParamNames, NEW good, NEW held,
                      Comes(params, ParamKind(p), good, held)
               PROVE  /\ Comes(data \o params, ParamKind(p), good, held)
                      /\ Comes(data \o states \o params, ParamKind(p), good, held)
    BY DEF ParamsTold
  <2>1. Among(data, ParamKind(p)) = {} /\ Among(states, ParamKind(p)) = {}
    BY <1>1, <1>3, NoneAmong
  <2>2. Among(data \o states, ParamKind(p)) = {}
    BY <1>1, <2>1, AmongBoth
  <2>3. Comes(data \o params, ParamKind(p), good, held)
    BY <1>1, <2>1, ComesWithin
  <2>4. Comes(data \o states \o params, ParamKind(p), good, held)
    BY <1>1, <1>2, <2>2, ComesWithin
  <2> QED
    BY <2>3, <2>4
<1>7. PartialsTold(data \o states \o params)
  <2> DEFINE good == PartialsGood(vutuPartials'.id)
             same == vutuPartials'.id = vutuPartials.id
  <2>1. Comes(data, PartialsMsg, good, same)
    BY DEF PartialsTold
  <2>2. Among(states, PartialsMsg) = {} /\ Among(params, PartialsMsg) = {}
    BY <1>1, <1>5, NoneAmong
  <2> HIDE DEF good, same
  <2>3. Comes(data \o states, PartialsMsg, good, same)
    BY <1>1, <2>1, <2>2, ComesWithin
  <2>4. Comes(data \o states \o params, PartialsMsg, good, same)
    BY <1>1, <1>2, <2>2, <2>3, ComesWithin
  <2> QED
    BY <2>4 DEF PartialsTold, good, same
<1>8. EnabledTold(data \o states \o params)
  <2>1. ASSUME NEW b \in Buttons, NEW good, NEW held,
               Comes(states, EnabledKind(b), good, held)
        PROVE  Comes(data \o states \o params, EnabledKind(b), good, held)
    <3>1. Among(data, EnabledKind(b)) = {} /\ Among(params, EnabledKind(b)) = {}
      BY <1>1, <1>4, NoneAmong
    <3>2. Comes(data \o states, EnabledKind(b), good, held)
      BY <1>1, <2>1, <3>1, ComesWithin
    <3> QED
      BY <1>1, <1>2, <3>1, <3>2, ComesWithin
  <2> QED
    BY <2>1, EnabledSays DEF EnabledTold
<1>9. SourceTold(data \o params)
  BY <1>1, AmongBoth DEF SourceTold
<1> QED
  BY <1>2, <1>6, <1>7, <1>8, <1>9 DEF AllTold

\* Commands and reports are no parameters.
LEMMA NotParam ==
    ASSUME NEW type, Receive(type), type # "set_param"
    PROVE  Head(ctlMail) \notin ParamMsg
BY DEF Receive, IsNext, ParamMsg

\* Who sends no parameters says that none has changed.
LEMMA NoParamsTold ==
    ASSUME Head(ctlMail) \notin ParamMsg, ctlParams' = ctlParams
    PROVE  ParamsTold(<<>>)
<1>1. \A p : Among(<<>>, ParamKind(p)) = {}
  BY DEF Among
<1> QED
  BY <1>1 DEF ParamsTold, Comes, ParamKind

Replicated == ParamMsg \cup DataMsg \cup PartialsMsg \cup EnabledMsg

\* Messages of other types say that nothing has changed.
LEMMA QuietTells ==
    ASSUME Head(ctlMail) \notin ParamMsg, NEW a \in Seq(ProcMsg \ Replicated),
           NEW b \in Seq(ViewMsg \ Replicated), Send(a, b),
           UNCHANGED <<sourceSample, synthSample, lorisPartials, ctlParams>>,
           vutuPartials'.id = vutuPartials.id
    PROVE  AllTold
<1>1. a \in Seq(ProcMsg) /\ b \in Seq(ViewMsg)
  BY SeqMonotonic
<1>2. /\ Among(b, PartialsMsg) = {}
      /\ \A p : Among(a, ParamKind(p)) = {} /\ Among(b, ParamKind(p)) = {}
      /\ \A c : Among(b, EnabledKind(c)) = {}
  <2>1. /\ PartialsMsg \subseteq Replicated
        /\ \A p : ParamKind(p) \subseteq Replicated
        /\ \A c : EnabledKind(c) \subseteq Replicated
    BY DEF Replicated, ParamKind, EnabledKind
  <2>2. ASSUME NEW kind, kind \subseteq Replicated
        PROVE  Among(a, kind) = {} /\ Among(b, kind) = {}
    BY <2>2, NoneAmong
  <2> QED
    BY <2>1, <2>2
<1>3. ParamsTold(a) /\ ParamsTold(b)
  BY <1>2 DEF ParamsTold, Comes, ParamKind
<1>4. PartialsTold(b)
  BY <1>2 DEF PartialsTold, Comes
<1>5. EnabledTold(b)
  BY <1>2 DEF EnabledTold, Comes
<1> QED
  BY <1>1, <1>3, <1>4, <1>5 DEF AllTold, SourceTold

\* Times, toggles, reports and exports send nothing that a replica is kept by.
LEMMA RelaySends ==
    ASSUME TypeOK,
           CtlSetTime \/ CtlToggle \/ CtlStarted \/ CtlStopped \/ CtlExport \/ CtlExportSynth
    PROVE  \E a \in Seq(ProcMsg \ Replicated), b \in Seq(ViewMsg \ Replicated) : Send(a, b)
<1> DEFINE toProc == ProcMsg \ Replicated
           toView == ViewMsg \ Replicated
<1>1. <<>> \in Seq(toProc) /\ <<>> \in Seq(toView)
  BY ShortSeqs
<1>2. CASE CtlSetTime
  <2>1. Head(ctlMail) \in TimeMsg
    <3>1. Head(ctlMail) \in CtlMsg /\ Head(ctlMail).type = "time"
      BY <1>2, ReceiveTypes DEF CtlSetTime, TypeOK
    <3> QED
      BY <3>1 DEF CtlMsg, DoMsg, ParamMsg
  <2>2. Head(ctlMail) \in toView
    BY <2>1 DEF ViewMsg, TimeMsg, Replicated, ParamMsg, DataMsg, PartialsMsg, EnabledMsg
  <2>3. <<Head(ctlMail)>> \in Seq(toView)
    BY <2>2, ShortSeqs
  <2> QED
    BY <1>1, <1>2, <2>3 DEF CtlSetTime
<1>3. CASE CtlToggle
  <2>1. \A w \in Playable : Toggle(w) \in toProc
    BY DEF Toggle, ProcMsg, Replicated, ParamMsg, DataMsg, PartialsMsg, EnabledMsg
  <2>2. \A w \in Playable : <<Toggle(w)>> \in Seq(toProc)
    BY <2>1, ShortSeqs
  <2> QED
    BY <1>1, <1>3, <2>2 DEF CtlToggle, Playable
<1>4. CASE CtlStarted \/ CtlStopped
  <2>1. \A w \in Playable, text \in {"play", "stop"} : SetText(w, text) \in toView
    BY DEF SetText, ViewMsg, Replicated, ParamMsg, DataMsg, PartialsMsg, EnabledMsg
  <2>2. CtlStarted => Head(ctlMail).which \in Playable
    <3>1. CtlStarted => Head(ctlMail) \in CtlMsg
                        /\ Head(ctlMail).type = "playback_started"
      BY ReceiveTypes DEF CtlStarted, TypeOK
    <3> QED
      BY <3>1 DEF CtlMsg, DoMsg, ParamMsg, TimeMsg
  <2>3. PlayTexts \in Seq(toView)
    BY <2>1, ShortSeqs DEF PlayTexts, Playable
  <2>4. CtlStarted => <<SetText(Head(ctlMail).which, "stop")>> \in Seq(toView)
    BY <2>1, <2>2, ShortSeqs
  <2> QED
    BY <1>1, <1>4, <2>3, <2>4 DEF CtlStarted, CtlStopped
<1>5. CASE CtlExport \/ CtlExportSynth
  <2>1. procMail' = procMail /\ viewMail' = viewMail
    BY <1>5 DEF CtlExport, CtlExportSynth
  <2>2. Send(<<>>, <<>>)
    BY <2>1, ConcatEmptySeq DEF Send, TypeOK, ActorsTypeOK
  <2> QED
    BY <1>1, <2>2
<1> QED
  BY <1>2, <1>3, <1>4, <1>5

\* Times, toggles, reports and exports concern none of the replicas.
LEMMA RelayTells ==
    ASSUME TypeOK,
           CtlSetTime \/ CtlToggle \/ CtlStarted \/ CtlStopped \/ CtlExport \/ CtlExportSynth
    PROVE  AllTold
<1>1. UNCHANGED <<sourceSample, synthSample, lorisPartials, ctlParams>>
  BY DEF CtlSetTime, CtlToggle, CtlStarted, CtlStopped, CtlExport, CtlExportSynth,
     samples, ctlVars
<1>2. vutuPartials'.id = vutuPartials.id
  BY DEF CtlSetTime, CtlToggle, CtlStarted, CtlStopped, CtlExport, CtlExportSynth,
     ctlVars, TypeOK, ControllerTypeOK, VutuPartials
<1>3. Head(ctlMail) \notin ParamMsg
  BY NotParam DEF CtlSetTime, CtlToggle, CtlStarted, CtlStopped, CtlExport,
     CtlExportSynth, Command
<1>4. \E a \in Seq(ProcMsg \ Replicated), b \in Seq(ViewMsg \ Replicated) : Send(a, b)
  BY RelaySends
<1> QED
  BY <1>1, <1>2, <1>3, <1>4, QuietTells

\* "do/open" announces everything, and resets the interval.
LEMMA OpenTells ==
    ASSUME TypeOK, CtlOpen
    PROVE  AllTold
<1> DEFINE data == <<SetData("source"), PartialsBroadcast, SetData("synth")>>
           states == ButtonEnableStates(sourceSample', lorisPartials', synthSample')
<1>1. ActorsTypeOK' /\ ControllerTypeOK'
  BY CtlOpenTypes DEF TypeOK
<1>2. /\ sourceSample' \in Sample /\ synthSample' \in Sample
      /\ lorisPartials' \in LorisPartials /\ vutuPartials'.id \in Nat
  BY <1>1 DEF ActorsTypeOK, ControllerTypeOK, VutuPartials
<1>3. data \in Seq(DataMsg \cup PartialsMsg) /\ PartialsTold(data) /\ SourceTold(data)
  BY <1>2, DataSays DEF PartialsBroadcast, PartialsTold, SourceTold
<1>4. IntervalReset \in Seq(ParamMsg)
  BY FullIntervalType, ParamSeqs DEF IntervalReset, ParamNames
<1>5. ParamsTold(IntervalReset)
  <2>1. \A q \in ParamNames : ctlParams'[q] = IF q = "analysis_interval" THEN FullInterval
                                                                        ELSE ctlParams[q]
    BY DEF CtlOpen, TypeOK, ControllerTypeOK, Params
  <2>2. Head(ctlMail) \notin ParamMsg
    BY NotParam DEF CtlOpen, Command
  <2>3. ASSUME NEW q \in ParamNames, NEW held,
               q # "analysis_interval" => held
        PROVE  Comes(IntervalReset, ParamKind(q), ParamGood(ctlParams'[q]), held)
    BY <2>1, <2>3, FullIntervalType, ParamSays DEF IntervalReset, ParamNames
  <2> QED
    BY <2>1, <2>2, <2>3 DEF ParamsTold, ParamKind
<1>6. Send(data \o IntervalReset, data \o states \o IntervalReset)
  BY DEF CtlOpen
<1> HIDE DEF data, states
<1> QED
  BY <1>2, <1>3, <1>4, <1>5, <1>6, DataTells DEF states

\* "do/analyze" and "do/synthesize" announce no parameters.
LEMMA UnparametrizedTells ==
    ASSUME NEW data \in Seq(DataMsg \cup PartialsMsg),
           Head(ctlMail) \notin ParamMsg, ctlParams' = ctlParams,
           NEW states, states = ButtonEnableStates(sourceSample', lorisPartials', synthSample'),
           PartialsTold(data), SourceTold(data),
           sourceSample' \in Sample, synthSample' \in Sample,
           lorisPartials' \in LorisPartials, Send(data, data \o states)
    PROVE  AllTold
<1>1. data \in Seq(ViewMsg) /\ states \in Seq(ViewMsg)
  <2>1. DataMsg \cup PartialsMsg \subseteq ViewMsg
    BY DEF ViewMsg
  <2> QED
    BY <2>1, EnableStatesType, SeqMonotonic
<1>2. data \o <<>> = data /\ data \o states \o <<>> = data \o states
  BY <1>1, ConcatType, ConcatEmptySeq
<1>3. ParamsTold(<<>>) /\ <<>> \in Seq(ParamMsg)
  BY NoParamsTold, ShortSeqs
<1>4. Send(data \o <<>>, data \o states \o <<>>)
  BY <1>2
<1> QED
  BY <1>3, <1>4, DataTells

\* "do/analyze" announces the new partials.
LEMMA AnalyzeTells ==
    ASSUME TypeOK, CtlAnalyze
    PROVE  AllTold
<1> DEFINE data == <<PartialsBroadcast, SetData("synth")>>
           states == ButtonEnableStates(sourceSample', lorisPartials', synthSample')
<1>1. ActorsTypeOK' /\ ControllerTypeOK'
  BY CtlAnalyzeTypes DEF TypeOK
<1>2. /\ sourceSample' \in Sample /\ synthSample' \in Sample
      /\ lorisPartials' \in LorisPartials /\ vutuPartials'.id \in Nat
  BY <1>1 DEF ActorsTypeOK, ControllerTypeOK, VutuPartials
<1>3. UNCHANGED <<sourceSample, ctlParams>>
  BY DEF CtlAnalyze
<1>4. data \in Seq(DataMsg \cup PartialsMsg) /\ PartialsTold(data) /\ SourceTold(data)
  BY <1>2, <1>3, DataSays DEF PartialsBroadcast, PartialsTold, SourceTold
<1>5. Head(ctlMail) \notin ParamMsg
  BY NotParam DEF CtlAnalyze, Command
<1>6. Send(data, data \o states)
  BY <1>3 DEF CtlAnalyze
<1> HIDE DEF data, states
<1> QED
  BY <1>2, <1>3, <1>4, <1>5, <1>6, UnparametrizedTells DEF states

\* "do/synthesize" announces the new sample.
LEMMA SynthesizeTells ==
    ASSUME TypeOK, CtlSynthesize
    PROVE  AllTold
<1> DEFINE data == <<SetData("synth")>>
           states == ButtonEnableStates(sourceSample', lorisPartials', synthSample')
<1>1. ActorsTypeOK' /\ ControllerTypeOK'
  BY CtlSynthesizeTypes DEF TypeOK
<1>2. /\ sourceSample' \in Sample /\ synthSample' \in Sample
      /\ lorisPartials' \in LorisPartials
  BY <1>1 DEF ActorsTypeOK, ControllerTypeOK
<1>3. UNCHANGED <<sourceSample, ctlParams, vutuPartials, lorisPartials>>
  BY DEF CtlSynthesize, ctlVars
<1>4. data \in Seq(DataMsg)
  BY DataSays
<1>5. data \in Seq(DataMsg \cup PartialsMsg)
  BY <1>4, SeqMonotonic
<1>6. PartialsTold(data)
  <2>1. Among(data, PartialsMsg) = {}
    BY <1>4, KindsDiffer, NoneAmong
  <2> QED
    BY <1>3, <2>1 DEF PartialsTold, Comes
<1>7. Head(ctlMail) \notin ParamMsg
  BY NotParam DEF CtlSynthesize, Command
<1>8. Send(data, data \o states)
  BY <1>3 DEF CtlSynthesize
<1> HIDE DEF data, states
<1> QED
  BY <1>2, <1>3, <1>5, <1>6, <1>7, <1>8, UnparametrizedTells DEF states, SourceTold

\* "do/import" announces everything and both parameters, or nothing if it was
\* cancelled or has ended the program.
LEMMA ImportTells ==
    ASSUME TypeOK, CtlImport
    PROVE  AllTold
<1>1. Head(ctlMail) \notin ParamMsg
  BY NotParam DEF CtlImport, Command
<1>2. CASE UNCHANGED <<procMail, viewMail, samples, vutuPartials, lorisPartials, ctlParams>>
  <2>1. Send(<<>>, <<>>)
    BY <1>2, ConcatEmptySeq DEF Send, TypeOK, ActorsTypeOK
  <2>2. <<>> \in Seq(ProcMsg \ Replicated) /\ <<>> \in Seq(ViewMsg \ Replicated)
    BY ShortSeqs
  <2> QED
    BY <1>1, <1>2, <2>1, <2>2, QuietTells DEF samples
<1>3. CASE \E any \in BOOLEAN, d \in FileDurations, f \in Fundamentals :
               ImportPartials(any, d, f)
  <2>1. PICK any \in BOOLEAN, d \in FileDurations, f \in Fundamentals :
               ImportPartials(any, d, f)
    BY <1>3
  <2> DEFINE data == <<SetData("source"), PartialsBroadcast, SetData("synth")>>
             states == ButtonEnableStates(sourceSample', lorisPartials', synthSample')
             first == ParamMsgs("fundamental", f)
             params == first \o IntervalReset
  <2>2. ActorsTypeOK' /\ ControllerTypeOK'
    BY CtlImportTypes DEF TypeOK
  <2>3. /\ sourceSample' \in Sample /\ synthSample' \in Sample
        /\ lorisPartials' \in LorisPartials /\ vutuPartials'.id \in Nat
    BY <2>2 DEF ActorsTypeOK, ControllerTypeOK, VutuPartials
  <2>4. data \in Seq(DataMsg \cup PartialsMsg) /\ PartialsTold(data) /\ SourceTold(data)
    BY <2>3, DataSays DEF PartialsBroadcast, PartialsTold, SourceTold
  <2>5. first \in Seq(ParamMsg) /\ IntervalReset \in Seq(ParamMsg)
    BY FullIntervalType, ParamSeqs DEF IntervalReset, ParamNames, ParamValues
  <2>6. params \in Seq(ParamMsg)
    BY <2>5, ConcatType
  <2>7. ParamsTold(params)
    <3>1. /\ ctlParams'["fundamental"] = f
          /\ ctlParams'["analysis_interval"] = FullInterval
      BY <2>1 DEF ImportPartials, ParamNames
    <3>2. ASSUME NEW held
          PROVE  Comes(params, ParamKind("fundamental"), ParamGood(f), held)
      <4>1. Comes(first, ParamKind("fundamental"), ParamGood(f), held)
        BY ParamSays DEF ParamNames, ParamValues
      <4>2. Among(IntervalReset, ParamKind("fundamental")) = {}
        BY DEF IntervalReset, ParamMsgs, SetParam, Among, ParamKind
      <4> HIDE DEF first
      <4> QED
        BY <2>5, <4>1, <4>2, ComesWithin
    <3>3. ASSUME NEW held
          PROVE  Comes(params, ParamKind("analysis_interval"),
                       ParamGood(FullInterval), held)
      <4>1. Comes(IntervalReset, ParamKind("analysis_interval"),
                  ParamGood(FullInterval), held)
        BY FullIntervalType, ParamSays DEF IntervalReset, ParamNames
      <4>2. Among(first, ParamKind("analysis_interval")) = {}
        BY DEF ParamMsgs, SetParam, Among, ParamKind
      <4> HIDE DEF first
      <4> QED
        BY <2>5, <4>1, <4>2, ComesWithin
    <3> HIDE DEF params
    <3> QED
      BY <3>1, <3>2, <3>3 DEF ParamsTold, ParamNames
  <2>8. Send(data \o params, data \o states \o params)
    BY <2>1 DEF ImportPartials
  <2> HIDE DEF data, states, params
  <2> QED
    BY <2>3, <2>4, <2>6, <2>7, <2>8, DataTells DEF states
<1> QED
  BY <1>2, <1>3 DEF CtlImport, ctlVars

\* Whatever the controller does, it announces it.
LEMMA ControllerTells ==
    ASSUME TypeOK, ControllerNext
    PROVE  AllTold
BY SetParamTells, RelayTells, OpenTells, AnalyzeTells, SynthesizeTells, ImportTells
   DEF ControllerNext
-----------------------------------------------------------------------------
(***************************************************************************)
(* What the others do with the mailboxes and the replicas.                 *)
(***************************************************************************)
\* The processor alone takes messages from its mailbox; a parameter or a
\* pointer to the source that it takes, it takes to heart.
LEMMA ProcMailSteps ==
    ASSUME TypeOK, [Next]_vars, ~Controller
    PROVE  \/ UNCHANGED <<procMail, procParams, procSource>>
           \/ /\ procMail # <<>> /\ procMail' = Tail(procMail)
              /\ procParams' = IF Head(procMail) \in ParamMsg
                               THEN [procParams EXCEPT ![Head(procMail).param] =
                                         Head(procMail).value]
                               ELSE procParams
              /\ procSource' = IF Head(procMail) \in DataKind("source")
                               THEN Resample(sourceSample)
                               ELSE procSource
<1> DEFINE m == Head(procMail)
<1>1. CASE View \/ Audio \/ User \/ UNCHANGED vars
  <2>1. View => UNCHANGED <<procMail, procVars>>
    BY DEF View, ViewNext, ViewSetParam, ViewSetData, ViewSetPartials, ViewForward,
       ViewSetProp
  <2>2. Audio => UNCHANGED <<procMail, procParams, procSource>>
    BY DEF Audio, ProcessorAudio, VectorSilent, VectorBegin, VectorLoad, VectorCheck,
       VectorStop, VectorReport, mail, procVars
  <2>3. User => UNCHANGED <<procMail, procVars>>
    BY DEF User, UserClicks, UserTurns, UserPressesO, UserGives
  <2> QED
    BY <1>1, <2>1, <2>2, <2>3 DEF procVars, vars, mail
<1>2. CASE ProcToggleSet \/ ProcToggleStart
  BY <1>2 DEF ProcToggleSet, ProcToggleStart, mail
<1>3. ASSUME NEW type, Handle(type)
      PROVE  /\ procMail # <<>> /\ procMail' = Tail(procMail)
             /\ m.type = type
             /\ type = "set_param" <=> m \in ParamMsg
             /\ type = "set_data" <=> m \in DataMsg
  <2>1. m \in ProcMsg /\ m.type = type
    BY <1>3, HandleTypes DEF TypeOK
  <2> QED
    BY <1>3, <2>1, KindOfType DEF Handle, IsNext
<1> HIDE DEF m
<1>4. CASE ProcSetParam
  BY <1>3, <1>4, KindsDiffer DEF ProcSetParam, DataKind, m
<1>5. CASE ProcSetData
  <2>1. m \in DataMsg /\ m \notin ParamMsg
    BY <1>3, <1>5, KindsDiffer DEF ProcSetData
  <2>2. m \in DataKind("source") <=> m.what = "source"
    BY <2>1 DEF DataKind
  <2> QED
    BY <1>3, <1>5, <2>1, <2>2 DEF ProcSetData, m
<1>6. CASE ProcIgnorePartials \/ ProcToggle
  <2>1. m \notin ParamMsg /\ m \notin DataKind("source")
    BY <1>3, <1>6 DEF ProcIgnorePartials, ProcToggle, DataKind
  <2> QED
    BY <1>3, <1>6, <2>1 DEF ProcIgnorePartials, ProcToggle, procVars, m
<1> QED
  BY <1>1, <1>2, <1>4, <1>5, <1>6 DEF Next, Processor, ProcessorMain

\* What the user does ends up in the view's mailbox, as a message that is not
\* the controller's.
UserMsg == DoMsg \cup {m \in ParamMsg : ~m.fromController}

\* The view takes a message from its mailbox and heeds it; if it is the user's,
\* the view passes it on.
LEMMA ViewTakes ==
    ASSUME TypeOK, View
    PROVE  /\ viewMail # <<>> /\ viewMail' = Tail(viewMail)
           /\ viewParams' = IF Head(viewMail) \in ParamMsg
                            THEN [viewParams EXCEPT ![Head(viewMail).param] =
                                      Head(viewMail).value]
                            ELSE viewParams
           /\ viewPartials' = IF Head(viewMail) \in PartialsMsg
                              THEN Head(viewMail).ptr ELSE viewPartials
           /\ samplesShown' = IF Head(viewMail) \in DataMsg
                              THEN samplesShown \cup {Head(viewMail).what}
                              ELSE samplesShown
           /\ enabled' = IF Head(viewMail) \in EnabledMsg
                         THEN [enabled EXCEPT ![Head(viewMail).button] =
                                   Head(viewMail).on]
                         ELSE enabled
           /\ ctlMail' = IF Head(viewMail) \in UserMsg
                         THEN ctlMail \o <<Head(viewMail)>> ELSE ctlMail
<1> DEFINE m == Head(viewMail)
<1>1. ASSUME NEW type, ViewHandle(type)
      PROVE  /\ viewMail # <<>> /\ viewMail' = Tail(viewMail) /\ m.type = type
             /\ type = "set_param" <=> m \in ParamMsg
             /\ type = "set_data" <=> m \in DataMsg
             /\ type = "set_partials_data" <=> m \in PartialsMsg
             /\ type = "enabled" <=> m \in EnabledMsg
             /\ type = "do" => m \in DoMsg
  <2>1. m \in ViewMsg /\ m.type = type
    BY <1>1, ViewHandleTypes DEF TypeOK
  <2> QED
    BY <1>1, <2>1, KindOfType, ViewMsgFields DEF ViewHandle, IsNext
<1> HIDE DEF m
<1>2. ctlMail \in Seq(CtlMsg) /\ ctlMail \o <<>> = ctlMail
  BY ConcatEmptySeq DEF TypeOK, ActorsTypeOK
<1>3. m \in UserMsg => m.type \in {"do", "set_param"}
  BY DEF UserMsg, DoMsg, ParamMsg
<1>4. CASE ViewSetParam
  <2>1. ctlMail' = ctlMail \o Forward(m) /\ ViewHandle("set_param")
    BY <1>4 DEF ViewSetParam, m
  <2>2. m \in UserMsg <=> ~m.fromController
    BY <1>1, <2>1 DEF UserMsg, DoMsg
  <2>3. ctlMail' = IF m \in UserMsg THEN ctlMail \o <<m>> ELSE ctlMail
    BY <1>2, <2>1, <2>2 DEF Forward
  <2> QED
    BY <1>1, <1>4, <2>3 DEF ViewSetParam, m
<1>5. CASE ViewSetData
  BY <1>1, <1>3, <1>5 DEF ViewSetData, m
<1>6. CASE ViewForward
  <2>1. m \in UserMsg /\ m \in CtlMsg
    BY <1>1, <1>6 DEF ViewForward, UserMsg, CtlMsg
  <2>2. ctlMail' = ctlMail \o <<m>>
    BY <1>2, <1>6, <2>1, AppendIsConcat DEF ViewForward, m
  <2> QED
    BY <1>1, <1>6, <2>1, <2>2 DEF ViewForward, viewVars, m
<1>7. CASE ViewSetPartials
  BY <1>1, <1>3, <1>7 DEF ViewSetPartials, m
<1>8. CASE ViewSetProp
  BY <1>1, <1>3, <1>8 DEF ViewSetProp, m
<1> QED
  BY <1>4, <1>5, <1>6, <1>7, <1>8 DEF View, ViewNext, m

\* The view alone takes messages from its mailbox; the user's inputs come last.
LEMMA ViewMailSteps ==
    ASSUME TypeOK, [Next]_vars, ~Controller
    PROVE  \/ UNCHANGED <<viewMail, viewParams, viewPartials, enabled>>
           \/ /\ UNCHANGED <<viewParams, viewPartials, enabled>>
              /\ \E m \in UserMsg : viewMail' = viewMail \o <<m>>
           \/ /\ viewMail # <<>> /\ viewMail' = Tail(viewMail)
              /\ viewParams' = IF Head(viewMail) \in ParamMsg
                               THEN [viewParams EXCEPT ![Head(viewMail).param] =
                                         Head(viewMail).value]
                               ELSE viewParams
              /\ viewPartials' = IF Head(viewMail) \in PartialsMsg
                                 THEN Head(viewMail).ptr ELSE viewPartials
              /\ enabled' = IF Head(viewMail) \in EnabledMsg
                            THEN [enabled EXCEPT ![Head(viewMail).button] =
                                      Head(viewMail).on]
                            ELSE enabled
              /\ ctlMail' = IF Head(viewMail) \in UserMsg
                            THEN ctlMail \o <<Head(viewMail)>> ELSE ctlMail
<1>1. CASE Processor \/ Audio \/ UNCHANGED vars
  <2>1. Processor => UNCHANGED <<viewMail, viewVars>>
    BY DEF Processor, ProcessorMain, ProcSetParam, ProcSetData, ProcIgnorePartials,
       ProcToggle, ProcToggleSet, ProcToggleStart, mail
  <2>2. Audio => UNCHANGED <<viewMail, viewVars>>
    BY DEF Audio, ProcessorAudio, VectorSilent, VectorBegin, VectorLoad, VectorCheck,
       VectorStop, VectorReport, mail
  <2> QED
    BY <1>1, <2>1, <2>2 DEF viewVars, vars, mail
<1>2. CASE User
  <2>1. \A c \in UserCommands : Do(c) \in UserMsg
    BY UserAssumption DEF Do, UserMsg, DoMsg
  <2>2. ASSUME NEW p \in ParamNames, NEW v \in ParamValues(p)
        PROVE  SetParam(p, v, FALSE) \in UserMsg
    <3>1. SetParam(p, v, FALSE) \in ParamMsg
      BY ParamMsgType
    <3>2. ~SetParam(p, v, FALSE).fromController
      BY DEF SetParam
    <3> QED
      BY <3>1, <3>2 DEF UserMsg
  <2>3. viewMail' = viewMail \/ \E u \in UserMsg : viewMail' = Append(viewMail, u)
    BY <1>2, <2>1, <2>2 DEF User, UserClicks, UserTurns, UserPressesO, Click, Turn
  <2>4. \A u \in UserMsg : Append(viewMail, u) = viewMail \o <<u>>
    <3>1. \A u \in UserMsg : u \in ViewMsg
      BY DEF UserMsg, ViewMsg
    <3> QED
      BY <3>1, AppendIsConcat DEF TypeOK, ActorsTypeOK
  <2>5. UNCHANGED <<viewParams, viewPartials, enabled>>
    BY <1>2 DEF User, UserClicks, UserTurns, UserPressesO, UserGives, viewVars
  <2> QED
    BY <2>3, <2>4, <2>5
<1>3. CASE View
  BY <1>3, ViewTakes
<1> QED
  BY <1>1, <1>2, <1>3 DEF Next
-----------------------------------------------------------------------------
(***************************************************************************)
(* The replicas.  Each property is inductive as it is, types being right.  *)
(***************************************************************************)
\* What the properties say of the messages in a mailbox, said of a kind.
LEMMA SaidOfPartials ==
    ASSUME NEW box \in Seq(ViewMsg)
    PROVE  /\ At(box, "set_partials_data") = Among(box, PartialsMsg)
           /\ \A n : \A i \in Among(box, PartialsMsg) :
                  box[i] \in PartialsGood(n) <=> box[i].ptr = n
<1>1. At(box, "set_partials_data") = Among(box, PartialsMsg)
  BY PlacesAreKinds
<1>2. \A n : \A i \in Among(box, PartialsMsg) : box[i] \in PartialsGood(n) <=> box[i].ptr = n
  BY DEF Among, PartialsGood
<1> QED
  BY <1>1, <1>2

\* The same for the enable states.
LEMMA SaidOfEnabled ==
    ASSUME NEW box \in Seq(ViewMsg), NEW b \in Buttons
    PROVE  /\ {i \in At(box, "enabled") : box[i].button = b} = Among(box, EnabledKind(b))
           /\ \A on : \A i \in Among(box, EnabledKind(b)) :
                  box[i] \in EnabledGood(on) <=> box[i].on = on
<1>1. {i \in At(box, "enabled") : box[i].button = b} = Among(box, EnabledKind(b))
  BY PlacesAreKinds
<1>2. \A on : \A i \in Among(box, EnabledKind(b)) :
          box[i] \in EnabledGood(on) <=> box[i].on = on
  BY DEF Among, EnabledKind, EnabledGood
<1> QED
  BY <1>1, <1>2

\* The same for the parameters.
LEMMA SaidOfParams ==
    ASSUME NEW box \in Seq(ProcMsg) \cup Seq(ViewMsg), NEW p \in ParamNames
    PROVE  /\ ParamPlaces(box, p) = Among(box, ParamKind(p))
           /\ \A v : \A i \in Among(box, ParamKind(p)) :
                  box[i] \in ParamGood(v) <=> box[i].value = v
<1>1. ParamPlaces(box, p) = Among(box, ParamKind(p))
  BY PlacesAreKinds
<1>2. \A v : \A i \in Among(box, ParamKind(p)) : box[i] \in ParamGood(v) <=> box[i].value = v
  BY DEF Among, ParamKind, ParamGood
<1> QED
  BY <1>1, <1>2

\* main() has broadcast the parameters and the enable states, in that order.
LEMMA InitBox ==
    ASSUME Init
    PROVE  /\ BroadcastParams \in Seq(ParamMsg)
           /\ ButtonEnableStates(sourceSample, lorisPartials, synthSample)
                  \in Seq(EnabledMsg)
           /\ procMail = BroadcastParams
           /\ viewMail = BroadcastParams
                         \o ButtonEnableStates(sourceSample, lorisPartials, synthSample)
<1>1. TypeOK
  BY InitTypes
<1>2. ButtonEnableStates(sourceSample, lorisPartials, synthSample) \in Seq(EnabledMsg)
  BY <1>1, EnabledSays DEF TypeOK, ActorsTypeOK, ControllerTypeOK, Buttons
<1>3. ctlParams = InitParams /\ ctlParams \in Params
  BY <1>1 DEF Init, TypeOK, ControllerTypeOK
<1>4. \A p \in ParamNames : ParamMsgs(p, InitParams[p]) \in Seq(ParamMsg)
  BY <1>3, ParamSeqs DEF Params
<1>5. BroadcastParams \in Seq(ParamMsg)
  BY <1>4, ConcatType DEF BroadcastParams, ParamNames
<1> QED
  BY <1>2, <1>5 DEF Init

\* A message of the user's is none of the controller's that the view heeds.
LEMMA UserMsgKinds ==
    ASSUME NEW m \in UserMsg
    PROVE  /\ <<m>> \in Seq(ViewMsg)
           /\ Among(<<m>>, PartialsMsg) = {}
           /\ \A b : Among(<<m>>, EnabledKind(b)) = {}
<1>1. m \in ViewMsg /\ m \notin PartialsMsg /\ \A b : m \notin EnabledKind(b)
  BY DEF UserMsg, DoMsg, ParamMsg, PartialsMsg, ViewMsg, EnabledKind, EnabledMsg
<1> QED
  BY <1>1, ShortSeqs DEF Among

\* The pointer starts as the controller's, and each step keeps it so.
LEMMA ViewPartialsStay ==
    /\ Init => ViewPartialsCurrent
    /\ TypeOK /\ ViewPartialsCurrent /\ [Next]_vars => ViewPartialsCurrent'
<1>1. Init => ViewPartialsCurrent
  <2> SUFFICES ASSUME Init PROVE ViewPartialsCurrent
    OBVIOUS
  <2>1. TypeOK
    BY InitTypes
  <2>2. viewPartials = vutuPartials.id
    BY DEF Init, EmptyPartials
  <2>3. /\ Among(BroadcastParams, PartialsMsg) = {}
        /\ Among(ButtonEnableStates(sourceSample, lorisPartials, synthSample),
                 PartialsMsg) = {}
    BY InitBox, KindsDiffer, NoneAmong
  <2>4. Among(viewMail, PartialsMsg) = {}
    <3>1. /\ BroadcastParams \in Seq(ParamMsg \cup EnabledMsg)
          /\ ButtonEnableStates(sourceSample, lorisPartials, synthSample)
                 \in Seq(ParamMsg \cup EnabledMsg)
      BY InitBox, SeqMonotonic
    <3>2. Among(BroadcastParams
                \o ButtonEnableStates(sourceSample, lorisPartials, synthSample),
                PartialsMsg) = {}
      BY <2>3, <3>1, AmongBoth
    <3> QED
      BY <3>2, InitBox
  <2> QED
    BY <2>1, <2>2, <2>4, SaidOfPartials
       DEF TypeOK, ActorsTypeOK, ViewPartialsCurrent, Comes
<1>2. TypeOK /\ ViewPartialsCurrent /\ [Next]_vars => ViewPartialsCurrent'
  <2> SUFFICES ASSUME TypeOK, ViewPartialsCurrent, [Next]_vars PROVE ViewPartialsCurrent'
    OBVIOUS
  <2>1. ActorsTypeOK /\ ActorsTypeOK'
    BY StepTypes DEF TypeOK
  <2> DEFINE good == PartialsGood(vutuPartials.id)
             held == viewPartials = vutuPartials.id
             now == viewPartials' = vutuPartials'.id
  <2>2. viewMail \in Seq(ViewMsg) /\ Comes(viewMail, PartialsMsg, good, held)
    <3>1. viewMail \in Seq(ViewMsg)
      BY <2>1 DEF ActorsTypeOK
    <3>2. /\ At(viewMail, "set_partials_data") = Among(viewMail, PartialsMsg)
          /\ \A n : \A i \in Among(viewMail, PartialsMsg) :
                 viewMail[i] \in PartialsGood(n) <=> viewMail[i].ptr = n
      BY <3>1, SaidOfPartials
    <3> QED
      BY <3>1, <3>2 DEF ViewPartialsCurrent, Comes, LastOf
  <2>3. SUFFICES Comes(viewMail', PartialsMsg, PartialsGood(vutuPartials'.id), now)
    <3>1. viewMail' \in Seq(ViewMsg)
      BY <2>1 DEF ActorsTypeOK
    <3>2. /\ At(viewMail', "set_partials_data") = Among(viewMail', PartialsMsg)
          /\ \A n : \A i \in Among(viewMail', PartialsMsg) :
                 viewMail'[i] \in PartialsGood(n) <=> viewMail'[i].ptr = n
      BY <3>1, SaidOfPartials
    <3> QED
      BY <3>2 DEF ViewPartialsCurrent, Comes, LastOf
  <2>4. CASE Controller
    <3>1. PICK b \in Seq(ViewMsg) : viewMail' = viewMail \o b /\ PartialsTold(b)
      BY <2>4, ControllerTells DEF Controller, AllTold, Send
    <3> DEFINE same == vutuPartials'.id = vutuPartials.id
    <3>2. viewPartials' = viewPartials
      BY <2>4 DEF Controller, viewVars
    <3>3. Comes(b, PartialsMsg, PartialsGood(vutuPartials'.id), same)
      BY <3>1 DEF PartialsTold
    <3>4. same => Comes(viewMail, PartialsMsg, PartialsGood(vutuPartials'.id), held)
                  /\ (held => now)
      BY <2>2, <3>2
    <3> HIDE DEF same, held, now
    <3> QED
      BY <2>2, <3>1, <3>3, <3>4, ComesAfter
  <2>5. CASE ~Controller
    <3>1. vutuPartials' = vutuPartials
      BY <2>5, OthersKeepData
    <3>2. \/ viewMail' = viewMail /\ (held => now)
          \/ /\ held => now
             /\ \E b \in Seq(ViewMsg) : /\ viewMail' = viewMail \o b
                                        /\ Among(b, PartialsMsg) = {}
          \/ /\ viewMail # <<>> /\ viewMail' = Tail(viewMail)
             /\ Head(viewMail) \in PartialsMsg /\ Head(viewMail) \in good => now
             /\ Head(viewMail) \notin PartialsMsg /\ held => now
      BY <2>5, <3>1, ViewMailSteps, UserMsgKinds DEF PartialsGood
    <3> HIDE DEF good, held, now
    <3>3. Comes(viewMail', PartialsMsg, good, now)
      BY <2>2, <3>2, ComesAnyway
    <3> QED
      BY <3>1, <3>3 DEF good
  <2> QED
    BY <2>4, <2>5
<1> QED
  BY <1>1, <1>2

\* Unless the message with the new pointer is still in the view's mailbox, the
\* pointer by which the view draws partials is that of the object which the
\* controller owns: the view never keeps the pointer to one that was freed.
THEOREM ViewPartialsAreCurrent == Spec => []ViewPartialsCurrent
BY ViewPartialsStay, TypeCorrect, PTL DEF Spec

\* Every button comes to be enabled exactly if the controller has the data that
\* the button's command needs: of all the enable states on their way to the
\* view, the last of each button is of the data as they are.
THEOREM EnableStatesAreCurrent == Spec => []EnabledCurrent
<1>1. Init => EnabledCurrent
  <2> SUFFICES ASSUME Init PROVE EnabledCurrent
    OBVIOUS
  <2>1. TypeOK
    BY InitTypes
  <2> DEFINE states == ButtonEnableStates(sourceSample, lorisPartials, synthSample)
             on(b) == EnabledState(b, sourceSample, lorisPartials, synthSample)
  <2>2. ASSUME NEW b \in Buttons, NEW held
        PROVE  Comes(viewMail, EnabledKind(b), EnabledGood(on(b)), held)
    <3>1. Comes(states, EnabledKind(b), EnabledGood(on(b)), held)
      BY <2>1, EnabledSays DEF TypeOK, ActorsTypeOK, ControllerTypeOK
    <3>2. ParamMsg \cap EnabledKind(b) = {}
      BY KindsDiffer DEF EnabledKind
    <3>3. Among(BroadcastParams, EnabledKind(b)) = {}
      BY <3>2, InitBox, NoneAmong
    <3>4. /\ BroadcastParams \in Seq(ParamMsg \cup EnabledMsg)
          /\ states \in Seq(ParamMsg \cup EnabledMsg)
          /\ viewMail = BroadcastParams \o states
      BY InitBox, SeqMonotonic
    <3> HIDE DEF states
    <3> QED
      BY <3>1, <3>3, <3>4, ComesWithin
  <2>3. viewMail \in Seq(ViewMsg)
    BY <2>1 DEF TypeOK, ActorsTypeOK
  <2>4. \A b \in Buttons :
            Comes(viewMail, EnabledKind(b), EnabledGood(on(b)), enabled[b] = on(b))
    BY <2>2
  <2> QED
    BY <2>3, <2>4, SaidOfEnabled DEF EnabledCurrent, Comes, LastOf
<1>2. TypeOK /\ EnabledCurrent /\ [Next]_vars => EnabledCurrent'
  <2> SUFFICES ASSUME TypeOK, EnabledCurrent, [Next]_vars PROVE EnabledCurrent'
    OBVIOUS
  <2>1. ActorsTypeOK /\ ActorsTypeOK'
    BY StepTypes DEF TypeOK
  <2> DEFINE old(b) == EnabledState(b, sourceSample, lorisPartials, synthSample)
             new(b) == EnabledState(b, sourceSample', lorisPartials', synthSample')
  <2>2. /\ viewMail \in Seq(ViewMsg)
        /\ \A b \in Buttons :
               Comes(viewMail, EnabledKind(b), EnabledGood(old(b)), enabled[b] = old(b))
    <3>1. viewMail \in Seq(ViewMsg)
      BY <2>1 DEF ActorsTypeOK
    <3>2. ASSUME NEW b \in Buttons
          PROVE  Comes(viewMail, EnabledKind(b), EnabledGood(old(b)), enabled[b] = old(b))
      <4>1. /\ {i \in At(viewMail, "enabled") : viewMail[i].button = b}
                   = Among(viewMail, EnabledKind(b))
            /\ \A on : \A i \in Among(viewMail, EnabledKind(b)) :
                   viewMail[i] \in EnabledGood(on) <=> viewMail[i].on = on
        BY <3>1, SaidOfEnabled
      <4> QED
        BY <4>1 DEF EnabledCurrent, Comes, LastOf
    <3> QED
      BY <3>1, <3>2
  <2>3. SUFFICES ASSUME NEW b \in Buttons
                 PROVE  Comes(viewMail', EnabledKind(b), EnabledGood(new(b)),
                              enabled'[b] = new(b))
    <3>1. viewMail' \in Seq(ViewMsg)
      BY <2>1 DEF ActorsTypeOK
    <3>2. ASSUME NEW b \in Buttons
          PROVE  /\ {i \in At(viewMail', "enabled") : viewMail'[i].button = b}
                        = Among(viewMail', EnabledKind(b))
                 /\ \A on : \A i \in Among(viewMail', EnabledKind(b)) :
                        viewMail'[i] \in EnabledGood(on) <=> viewMail'[i].on = on
      BY <3>1, SaidOfEnabled
    <3> QED
      BY <3>2 DEF EnabledCurrent, Comes, LastOf
  <2> DEFINE held == enabled[b] = old(b)
             now == enabled'[b] = new(b)
  <2>4. CASE Controller
    <3>1. PICK c \in Seq(ViewMsg) : viewMail' = viewMail \o c /\ EnabledTold(c)
      BY <2>4, ControllerTells DEF Controller, AllTold, Send
    <3> DEFINE same == new(b) = old(b)
    <3>2. enabled' = enabled
      BY <2>4 DEF Controller, viewVars
    <3>3. Comes(c, EnabledKind(b), EnabledGood(new(b)), same)
      BY <3>1 DEF EnabledTold
    <3> HIDE DEF old, new
    <3>4. same => Comes(viewMail, EnabledKind(b), EnabledGood(new(b)), held)
                  /\ (held => now)
      BY <2>2, <3>2
    <3> HIDE DEF same, held
    <3>5. Comes(viewMail \o c, EnabledKind(b), EnabledGood(new(b)), now)
      <4> HIDE DEF now
      <4> QED
        BY <2>2, <3>3, <3>4, ComesAfter
    <3> QED
      BY <3>1, <3>5
  <2>5. CASE ~Controller
    <3>1. new(b) = old(b)
      BY <2>5, OthersKeepData DEF samples
    <3> HIDE DEF old, new
    <3> DEFINE good == EnabledGood(old(b))
    <3>2. \A m \in EnabledMsg :
              LET on == [enabled EXCEPT ![m.button] = m.on]
              IN  on[b] = IF m \in EnabledKind(b) THEN m.on ELSE enabled[b]
      BY DEF TypeOK, ViewTypeOK, EnabledKind
    <3>3. \/ viewMail' = viewMail /\ (held => now)
          \/ /\ held => now
             /\ \E c \in Seq(ViewMsg) : /\ viewMail' = viewMail \o c
                                        /\ Among(c, EnabledKind(b)) = {}
          \/ /\ viewMail # <<>> /\ viewMail' = Tail(viewMail)
             /\ Head(viewMail) \in EnabledKind(b) /\ Head(viewMail) \in good => now
             /\ Head(viewMail) \notin EnabledKind(b) /\ held => now
      BY <2>5, <3>1, <3>2, ViewMailSteps, UserMsgKinds DEF EnabledGood, EnabledKind
    <3>4. Comes(viewMail, EnabledKind(b), good, held)
      BY <2>2
    <3>5. Comes(viewMail', EnabledKind(b), good, now)
      <4> HIDE DEF good, held, now
      <4> QED
        BY <2>2, <3>3, <3>4, ComesAnyway
    <3> QED
      BY <3>1, <3>5
  <2> QED
    BY <2>4, <2>5
<1> QED
  BY <1>1, <1>2, TypeCorrect, PTL DEF Spec

\* The parameters as main() has set them are on their way, whoever holds what.
LEMMA InitParamsCome ==
    ASSUME Init, NEW p \in ParamNames, NEW held
    PROVE  Comes(BroadcastParams, ParamKind(p), ParamGood(ctlParams[p]), held)
<1> DEFINE a == ParamMsgs("analysis_interval", InitParams["analysis_interval"])
           b == ParamMsgs("fundamental", InitParams["fundamental"])
<1>1. ctlParams = InitParams /\ InitParams \in Params
  BY InitTypes DEF Init, TypeOK, ControllerTypeOK
<1>2. a \in Seq(ParamMsg) /\ b \in Seq(ParamMsg) /\ BroadcastParams = a \o b
  BY <1>1, ParamSeqs DEF Params, ParamNames, BroadcastParams
<1>3. CASE p = "fundamental"
  <2>1. Comes(b, ParamKind(p), ParamGood(ctlParams[p]), held)
    BY <1>1, <1>3, ParamSays DEF Params
  <2>2. Among(a, ParamKind(p)) = {}
    BY <1>3 DEF Among, ParamKind, ParamMsgs, SetParam
  <2> HIDE DEF a, b
  <2> QED
    BY <1>2, <2>1, <2>2, ComesWithin
<1>4. CASE p = "analysis_interval"
  <2>1. Comes(a, ParamKind(p), ParamGood(ctlParams[p]), held)
    BY <1>1, <1>4, ParamSays DEF Params
  <2>2. Among(b, ParamKind(p)) = {}
    BY <1>4 DEF Among, ParamKind, ParamMsgs, SetParam
  <2> HIDE DEF a, b
  <2> QED
    BY <1>2, <2>1, <2>2, ComesWithin
<1> QED
  BY <1>3, <1>4 DEF ParamNames

\* The processor is told at first, and again with each value that is set.
LEMMA ProcParamsStay ==
    /\ Init => ProcParamsCurrent
    /\ TypeOK /\ ProcParamsCurrent /\ [Next]_vars => ProcParamsCurrent'
<1>1. Init => ProcParamsCurrent
  <2> SUFFICES ASSUME Init PROVE ProcParamsCurrent
    OBVIOUS
  <2>1. procMail = BroadcastParams /\ procMail \in Seq(ProcMsg)
    BY InitTypes, InitBox DEF TypeOK, ActorsTypeOK
  <2>2. \A p \in ParamNames : Comes(procMail, ParamKind(p), ParamGood(ctlParams[p]),
                                    procParams[p] = ctlParams[p])
    BY <2>1, InitParamsCome
  <2> QED
    BY <2>1, <2>2, SaidOfParams DEF ProcParamsCurrent, Comes, LastOf
<1>2. TypeOK /\ ProcParamsCurrent /\ [Next]_vars => ProcParamsCurrent'
  <2> SUFFICES ASSUME TypeOK, ProcParamsCurrent, [Next]_vars PROVE ProcParamsCurrent'
    OBVIOUS
  <2>1. ActorsTypeOK /\ ActorsTypeOK'
    BY StepTypes DEF TypeOK
  <2>2. /\ procMail \in Seq(ProcMsg)
        /\ \A p \in ParamNames : Comes(procMail, ParamKind(p), ParamGood(ctlParams[p]),
                                       procParams[p] = ctlParams[p])
    <3>1. procMail \in Seq(ProcMsg)
      BY <2>1 DEF ActorsTypeOK
    <3>2. ASSUME NEW p \in ParamNames
          PROVE  Comes(procMail, ParamKind(p), ParamGood(ctlParams[p]),
                       procParams[p] = ctlParams[p])
      <4>1. /\ ParamPlaces(procMail, p) = Among(procMail, ParamKind(p))
            /\ \A v : \A i \in Among(procMail, ParamKind(p)) :
                   procMail[i] \in ParamGood(v) <=> procMail[i].value = v
        BY <3>1, SaidOfParams
      <4> QED
        BY <4>1 DEF ProcParamsCurrent, Comes, LastOf
    <3> QED
      BY <3>1, <3>2
  <2>3. SUFFICES ASSUME NEW p \in ParamNames
                 PROVE  Comes(procMail', ParamKind(p), ParamGood(ctlParams'[p]),
                              procParams'[p] = ctlParams'[p])
    <3>1. procMail' \in Seq(ProcMsg)
      BY <2>1 DEF ActorsTypeOK
    <3>2. \A p \in ParamNames :
              /\ ParamPlaces(procMail', p) = Among(procMail', ParamKind(p))
              /\ \A v : \A i \in Among(procMail', ParamKind(p)) :
                     procMail'[i] \in ParamGood(v) <=> procMail'[i].value = v
      BY <3>1, SaidOfParams
    <3> QED
      BY <3>2 DEF ProcParamsCurrent, Comes, LastOf
  <2> DEFINE held == procParams[p] = ctlParams[p]
             now == procParams'[p] = ctlParams'[p]
  <2>4. CASE Controller
    <3>1. PICK a \in Seq(ProcMsg) : procMail' = procMail \o a /\ ParamsTold(a)
      BY <2>4, ControllerTells DEF Controller, AllTold, Send
    <3> DEFINE same == ctlParams'[p] = ctlParams[p] /\ Head(ctlMail) \notin ParamKind(p)
    <3>2. procParams' = procParams
      BY <2>4 DEF Controller, procVars
    <3>3. Comes(a, ParamKind(p), ParamGood(ctlParams'[p]), same)
      BY <3>1 DEF ParamsTold
    <3>4. same => Comes(procMail, ParamKind(p), ParamGood(ctlParams'[p]), held)
                  /\ (held => now)
      BY <2>2, <3>2
    <3> HIDE DEF same, held
    <3>5. Comes(procMail \o a, ParamKind(p), ParamGood(ctlParams'[p]), now)
      <4> HIDE DEF now
      <4> QED
        BY <2>2, <3>3, <3>4, ComesAfter
    <3> QED
      BY <3>1, <3>5
  <2>5. CASE ~Controller
    <3>1. ctlParams' = ctlParams
      BY <2>5, OthersKeepData
    <3> DEFINE good == ParamGood(ctlParams[p])
    <3>2. \A m \in ParamMsg :
              LET set == [procParams EXCEPT ![m.param] = m.value]
              IN  set[p] = IF m \in ParamKind(p) THEN m.value ELSE procParams[p]
      BY DEF TypeOK, ProcessorTypeOK, Params, ParamKind
    <3>3. \/ procMail' = procMail /\ (held => now)
          \/ /\ procMail # <<>> /\ procMail' = Tail(procMail)
             /\ Head(procMail) \in ParamKind(p) /\ Head(procMail) \in good => now
             /\ Head(procMail) \notin ParamKind(p) /\ held => now
      BY <2>5, <3>1, <3>2, ProcMailSteps DEF ParamGood, ParamKind
    <3>4. Comes(procMail, ParamKind(p), good, held)
      BY <2>2
    <3>5. Comes(procMail', ParamKind(p), good, now)
      <4> HIDE DEF good, held, now
      <4> QED
        BY <2>2, <3>3, <3>4, ComesAnyway
    <3> QED
      BY <3>1, <3>5
  <2> QED
    BY <2>4, <2>5
<1> QED
  BY <1>1, <1>2

\* The processor comes to have every parameter value of the controller's, by
\* which it plays: no value is lost, and none is overtaken by an earlier one.
THEOREM ProcParamsAreCurrent == Spec => []ProcParamsCurrent
BY ProcParamsStay, TypeCorrect, PTL DEF Spec
-----------------------------------------------------------------------------
(***************************************************************************)
(* The view's parameters, which the user changes.  A value that the user   *)
(* has set is on its way, in the view's mailbox or in the controller's,    *)
(* until the controller has heard of it, and broadcasts it to the view.    *)
(***************************************************************************)
UserUnheard(p) ==
    Among(viewMail, UserKind(p)) # {} \/ Among(ctlMail, UserKind(p)) # {}

\* A value of the user's, as the property says it and as a kind.
LEMMA UserAsAmong ==
    ASSUME NEW box \in Seq(CtlMsg) \cup Seq(ViewMsg), NEW p \in ParamNames
    PROVE  FromUser(box, p) <=> Among(box, UserKind(p)) # {}
<1>1. ParamPlaces(box, p) = Among(box, ParamKind(p))
  BY PlacesAreKinds
<1>2. Among(box, UserKind(p)) = {i \in Among(box, ParamKind(p)) : ~box[i].fromController}
  BY DEF Among, UserKind, ParamKind
<1> QED
  BY <1>1, <1>2 DEF FromUser

\* Handling a message of another kind leaves those of a kind where they are.
LEMMA AmongTail ==
    ASSUME NEW S, NEW box \in Seq(S), box # <<>>, NEW kind, Head(box) \notin kind,
           Among(box, kind) # {}
    PROVE  Among(Tail(box), kind) # {}
<1>1. /\ Len(box) \in Nat /\ Len(Tail(box)) = Len(box) - 1
      /\ Head(box) = box[1]
      /\ \A i \in 1..Len(box) - 1 : Tail(box)[i] = box[i + 1]
  BY HeadTailProperties
<1>2. PICK k \in 1..Len(box) : box[k] \in kind
  BY DEF Among
<1>3. k # 1 /\ k \in Nat
  BY <1>1, <1>2
<1>4. k - 1 \in 1..Len(Tail(box)) /\ Tail(box)[k - 1] = box[k]
  BY <1>1, <1>2, <1>3
<1> QED
  BY <1>2, <1>4 DEF Among

\* The processor reports times, starts and stops, and no parameters.
LEMMA ProcessorReports ==
    ASSUME TypeOK, Processor \/ Audio
    PROVE  \E c \in Seq(CtlMsg \ ParamMsg) : ctlMail' = ctlMail \o c
<1> DEFINE Reports == CtlMsg \ ParamMsg
<1>1. ctlMail \o <<>> = ctlMail /\ <<>> \in Seq(Reports)
  BY ShortSeqs, ConcatEmptySeq DEF TypeOK, ActorsTypeOK
<1>2. \A w \in Playable, b \in BOOLEAN :
          Stopped \in Reports /\ Started(w) \in Reports /\ Time(w, b) \in Reports
  BY DEF Stopped, Started, Time, CtlMsg, TimeMsg, ParamMsg
<1> HIDE DEF Reports
<1>3. /\ \A w \in Playable, b \in BOOLEAN : /\ <<Stopped>> \in Seq(Reports)
                                           /\ <<Started(w)>> \in Seq(Reports)
                                           /\ <<Time(w, b)>> \in Seq(Reports)
      /\ <<Stopped, Time("source", TRUE), Time("synth", TRUE)>> \in Seq(Reports)
  BY <1>2, ShortSeqs DEF Playable
<1>4. UNCHANGED ctlMail \/ \E c \in Seq(Reports) : Tell(c)
  <2>1. Processor => UNCHANGED ctlMail \/ \E c \in Seq(Reports) : Tell(c)
    <3>1. ProcSetData \/ ProcToggle => UNCHANGED ctlMail \/ \E c \in Seq(Reports) : Tell(c)
      BY <1>3 DEF ProcSetData, ProcToggle, Playable
    <3>2. ProcToggleStart => arming \in Playable
      BY DEF ProcToggleStart, TypeOK, ProcessorTypeOK
    <3> QED
      BY <1>3, <3>1, <3>2 DEF Processor, ProcessorMain, ProcSetParam,
         ProcIgnorePartials, ProcToggleSet, ProcToggleStart, mail
  <2>2. Audio => UNCHANGED ctlMail \/ \E c \in Seq(Reports) : Tell(c)
    <3>1. audio.which \in Playable
      BY DEF TypeOK, ProcessorTypeOK
    <3> QED
      BY <1>3, <3>1 DEF Audio, ProcessorAudio, VectorSilent, VectorBegin, VectorLoad,
         VectorCheck, VectorStop, VectorReport, mail, Playable
  <2> QED
    BY <2>1, <2>2
<1> QED
  BY <1>1, <1>4 DEF Tell, Reports

\* The controller alone takes messages from its mailbox ...
LEMMA ControllerReceives ==
    ASSUME ControllerNext
    PROVE  ctlMail # <<>> /\ ctlMail' = Tail(ctlMail)
BY DEF ControllerNext, CtlSetParam, CtlSetTime, CtlOpen, CtlAnalyze, CtlSynthesize,
   CtlImport, CtlExport, CtlExportSynth, CtlToggle, CtlStarted, CtlStopped,
   Command, Receive, IsNext

\* ... and the others only add some.
LEMMA CtlMailGrows ==
    ASSUME TypeOK, [Next]_vars, ~Controller
    PROVE  \E c \in Seq(CtlMsg) : ctlMail' = ctlMail \o c
<1>1. ctlMail \in Seq(CtlMsg) /\ ctlMail \o <<>> = ctlMail /\ <<>> \in Seq(CtlMsg)
  BY ShortSeqs, ConcatEmptySeq DEF TypeOK, ActorsTypeOK
<1>2. CASE UNCHANGED ctlMail
  BY <1>1, <1>2
<1>3. CASE View
  <2>1. \A m \in UserMsg : <<m>> \in Seq(CtlMsg)
    <3>1. UserMsg \subseteq CtlMsg
      BY DEF UserMsg, CtlMsg
    <3> QED
      BY <3>1, ShortSeqs
  <2> QED
    BY <1>2, <1>3, <2>1, ViewTakes
<1>4. CASE User
  <2>1. CASE UserPressesO
    <3>1. Do("open") \in CtlMsg
      BY DEF Do, DoMsg, CtlMsg, Commands
    <3>2. <<Do("open")>> \in Seq(CtlMsg)
      BY <3>1, ShortSeqs
    <3> QED
      BY <1>1, <2>1, <3>1, <3>2, AppendIsConcat DEF UserPressesO
  <2> QED
    BY <1>2, <1>4, <2>1 DEF User, UserClicks, UserTurns
<1>5. CASE Processor \/ Audio
  <2>1. PICK c \in Seq(CtlMsg \ ParamMsg) : ctlMail' = ctlMail \o c
    BY <1>5, ProcessorReports
  <2>2. c \in Seq(CtlMsg)
    BY SeqMonotonic
  <2> QED
    BY <2>1, <2>2
<1> QED
  BY <1>2, <1>3, <1>4, <1>5 DEF Next, vars, mail

\* The view is told of each value that the controller has heard of.
LEMMA ViewParamsStay ==
    /\ Init => ViewParamsCurrent
    /\ TypeOK /\ ViewParamsCurrent /\ [Next]_vars => ViewParamsCurrent'
<1>1. Init => ViewParamsCurrent
  <2> SUFFICES ASSUME Init, NEW p \in ParamNames, NEW held
               PROVE  Comes(viewMail, ParamKind(p), ParamGood(ctlParams[p]), held)
    BY InitTypes, SaidOfParams DEF TypeOK, ActorsTypeOK, ViewParamsCurrent, Comes, LastOf
  <2> DEFINE states == ButtonEnableStates(sourceSample, lorisPartials, synthSample)
  <2>1. Comes(BroadcastParams, ParamKind(p), ParamGood(ctlParams[p]), held)
    BY InitParamsCome
  <2>2. EnabledMsg \cap ParamKind(p) = {}
    BY KindsDiffer DEF ParamKind
  <2>3. Among(states, ParamKind(p)) = {}
    BY <2>2, InitBox, NoneAmong
  <2>4. /\ BroadcastParams \in Seq(ParamMsg \cup EnabledMsg)
        /\ states \in Seq(ParamMsg \cup EnabledMsg)
        /\ viewMail = BroadcastParams \o states
    BY InitBox, SeqMonotonic
  <2> HIDE DEF states
  <2> QED
    BY <2>1, <2>3, <2>4, ComesWithin
<1>2. TypeOK /\ ViewParamsCurrent /\ [Next]_vars => ViewParamsCurrent'
  <2> SUFFICES ASSUME TypeOK, ViewParamsCurrent, [Next]_vars PROVE ViewParamsCurrent'
    OBVIOUS
  <2>1. ActorsTypeOK /\ ActorsTypeOK'
    BY StepTypes DEF TypeOK
  <2>2. SUFFICES ASSUME NEW p \in ParamNames, ~UserUnheard(p)'
                 PROVE  Comes(viewMail', ParamKind(p), ParamGood(ctlParams'[p]),
                              viewParams'[p] = ctlParams'[p])
    <3>1. viewMail' \in Seq(ViewMsg) /\ ctlMail' \in Seq(CtlMsg)
      BY <2>1 DEF ActorsTypeOK
    <3>2. \A p \in ParamNames :
              /\ ParamPlaces(viewMail', p) = Among(viewMail', ParamKind(p))
              /\ \A v : \A i \in Among(viewMail', ParamKind(p)) :
                     viewMail'[i] \in ParamGood(v) <=> viewMail'[i].value = v
      BY <3>1, SaidOfParams
    <3>3. \A p \in ParamNames :
              UserUnheard(p)' => FromUser(viewMail', p) \/ FromUser(ctlMail', p)
      BY <3>1, UserAsAmong DEF UserUnheard
    <3> QED
      BY <3>2, <3>3 DEF ViewParamsCurrent, Comes, LastOf
  <2> DEFINE held == viewParams[p] = ctlParams[p]
             now == viewParams'[p] = ctlParams'[p]
  <2>3. /\ viewMail \in Seq(ViewMsg) /\ ctlMail \in Seq(CtlMsg)
        /\ UserUnheard(p) \/ Comes(viewMail, ParamKind(p), ParamGood(ctlParams[p]), held)
    <3>1. viewMail \in Seq(ViewMsg) /\ ctlMail \in Seq(CtlMsg)
      BY <2>1 DEF ActorsTypeOK
    <3>2. /\ ParamPlaces(viewMail, p) = Among(viewMail, ParamKind(p))
          /\ \A v : \A i \in Among(viewMail, ParamKind(p)) :
                 viewMail[i] \in ParamGood(v) <=> viewMail[i].value = v
      BY <3>1, SaidOfParams
    <3>3. FromUser(viewMail, p) \/ FromUser(ctlMail, p) => UserUnheard(p)
      BY <3>1, UserAsAmong DEF UserUnheard
    <3> QED
      BY <3>1, <3>2, <3>3 DEF ViewParamsCurrent, Comes, LastOf
  <2>4. UserKind(p) \subseteq ParamKind(p)
    BY DEF UserKind, ParamKind
  <2>5. Among(viewMail', UserKind(p)) = {} /\ Among(ctlMail', UserKind(p)) = {}
    BY <2>2 DEF UserUnheard
  <2>6. CASE Controller
    <3>1. PICK b \in Seq(ViewMsg) : viewMail' = viewMail \o b /\ ParamsTold(b)
      BY <2>6, ControllerTells DEF Controller, AllTold, Send
    <3> DEFINE same == ctlParams'[p] = ctlParams[p] /\ Head(ctlMail) \notin ParamKind(p)
    <3>2. viewParams' = viewParams
      BY <2>6 DEF Controller, viewVars
    <3>3. Comes(b, ParamKind(p), ParamGood(ctlParams'[p]), same)
      BY <3>1 DEF ParamsTold
    <3>4. Among(viewMail, UserKind(p)) = {}
      BY <2>3, <2>5, <3>1, AmongBoth
    <3>5. ASSUME Head(ctlMail) \notin ParamKind(p)
          PROVE  Among(ctlMail, UserKind(p)) = {}
      <4>1. ctlMail # <<>> /\ ctlMail' = Tail(ctlMail)
        BY <2>6, ControllerReceives DEF Controller
      <4> QED
        BY <2>3, <2>4, <2>5, <3>5, <4>1, AmongTail
    <3>6. same => Comes(viewMail, ParamKind(p), ParamGood(ctlParams'[p]), held)
                  /\ (held => now)
      BY <2>3, <3>2, <3>4, <3>5 DEF UserUnheard
    <3> HIDE DEF same, held
    <3>7. Comes(viewMail \o b, ParamKind(p), ParamGood(ctlParams'[p]), now)
      <4> HIDE DEF now
      <4> QED
        BY <2>3, <3>3, <3>6, ComesAfter
    <3> QED
      BY <3>1, <3>7
  <2>7. CASE ~Controller
    <3>1. ctlParams' = ctlParams
      BY <2>7, OthersKeepData
    <3>2. Among(ctlMail, UserKind(p)) = {}
      <4>1. PICK c \in Seq(CtlMsg) : ctlMail' = ctlMail \o c
        BY <2>7, CtlMailGrows
      <4> QED
        BY <2>3, <2>5, <4>1, AmongBoth
    <3> DEFINE good == ParamGood(ctlParams[p])
    <3>3. \/ UNCHANGED <<viewMail, viewParams>>
          \/ /\ viewParams' = viewParams
             /\ \E m \in UserMsg : viewMail' = viewMail \o <<m>>
          \/ /\ viewMail # <<>> /\ viewMail' = Tail(viewMail)
             /\ viewParams' = IF Head(viewMail) \in ParamMsg
                              THEN [viewParams EXCEPT ![Head(viewMail).param] =
                                        Head(viewMail).value]
                              ELSE viewParams
             /\ ctlMail' = IF Head(viewMail) \in UserMsg
                           THEN ctlMail \o <<Head(viewMail)>> ELSE ctlMail
      BY <2>7, ViewMailSteps
    <3>4. CASE UNCHANGED <<viewMail, viewParams>>
      BY <2>3, <2>5, <3>1, <3>2, <3>4 DEF UserUnheard
    <3>5. CASE /\ viewParams' = viewParams
               /\ \E m \in UserMsg : viewMail' = viewMail \o <<m>>
      <4>1. PICK m \in UserMsg : viewMail' = viewMail \o <<m>>
        BY <3>5
      <4>2. <<m>> \in Seq(ViewMsg)
        BY UserMsgKinds
      <4>3. Among(viewMail, UserKind(p)) = {} /\ Among(<<m>>, UserKind(p)) = {}
        BY <2>3, <2>5, <4>1, <4>2, AmongBoth
      <4>4. m \notin UserKind(p)
        <5>1. Len(<<m>>) = 1 /\ <<m>>[1] = m
          OBVIOUS
        <5> QED
          BY <4>3, <5>1 DEF Among
      <4>5. Among(<<m>>, ParamKind(p)) = {}
        <5>1. m \notin ParamKind(p)
          BY <4>4 DEF UserMsg, UserKind, ParamKind, DoMsg, ParamMsg
        <5> QED
          BY <5>1 DEF Among
      <4>6. Comes(viewMail, ParamKind(p), good, held) /\ (held => now)
        BY <2>3, <3>1, <3>2, <3>5, <4>3 DEF UserUnheard
      <4>7. Comes(viewMail', ParamKind(p), good, now)
        <5> HIDE DEF good, held, now
        <5> QED
          BY <2>3, <4>1, <4>2, <4>5, <4>6, ComesAnyway
      <4> QED
        BY <3>1, <4>7
    <3>6. CASE /\ viewMail # <<>> /\ viewMail' = Tail(viewMail)
               /\ viewParams' = IF Head(viewMail) \in ParamMsg
                                THEN [viewParams EXCEPT ![Head(viewMail).param] =
                                          Head(viewMail).value]
                                ELSE viewParams
               /\ ctlMail' = IF Head(viewMail) \in UserMsg
                             THEN ctlMail \o <<Head(viewMail)>> ELSE ctlMail
      <4> DEFINE m == Head(viewMail)
      <4>1. m \notin UserKind(p)
        <5>1. SUFFICES ASSUME m \in UserKind(p) PROVE FALSE
          OBVIOUS
        <5>2. m \in UserMsg /\ m \in CtlMsg
          BY <5>1 DEF UserMsg, UserKind, CtlMsg
        <5>3. ctlMail' = ctlMail \o <<m>> /\ <<m>> \in Seq(CtlMsg)
          BY <3>6, <5>2, ShortSeqs
        <5>4. Among(<<m>>, UserKind(p)) = {}
          BY <2>3, <2>5, <5>3, AmongBoth
        <5>5. Len(<<m>>) = 1 /\ <<m>>[1] = m
          OBVIOUS
        <5> QED
          BY <5>1, <5>4, <5>5 DEF Among
      <4>2. Among(viewMail, UserKind(p)) = {}
        BY <2>3, <2>5, <3>6, <4>1, AmongTail
      <4>3. Comes(viewMail, ParamKind(p), good, held)
        BY <2>3, <3>2, <4>2 DEF UserUnheard
      <4>4. \A x \in ParamMsg :
                LET set == [viewParams EXCEPT ![x.param] = x.value]
                IN  set[p] = IF x \in ParamKind(p) THEN x.value ELSE viewParams[p]
        BY DEF TypeOK, ViewTypeOK, Params, ParamKind
      <4>5. /\ m \in ParamKind(p) /\ m \in good => now
            /\ m \notin ParamKind(p) /\ held => now
        BY <3>1, <3>6, <4>4 DEF ParamGood, ParamKind
      <4>6. Comes(viewMail', ParamKind(p), good, now)
        <5>1. viewMail # <<>> /\ viewMail' = Tail(viewMail)
          BY <3>6
        <5> HIDE DEF good, held, now
        <5>2. Comes(Tail(viewMail), ParamKind(p), good, now)
          BY <2>3, <4>3, <4>5, <5>1, ComesHandled
        <5> QED
          BY <5>1, <5>2
      <4> QED
        BY <3>1, <4>6
    <3> QED
      BY <3>3, <3>4, <3>5, <3>6
  <2> QED
    BY <2>6, <2>7
<1> QED
  BY <1>1, <1>2

\* Once no value that the user has set is on its way any more, the view comes
\* to show every parameter value that the controller has: a value which the
\* controller broadcasts while the user sets another is never the last word.
THEOREM ViewParamsAreCurrent == Spec => []ViewParamsCurrent
BY ViewParamsStay, TypeCorrect, PTL DEF Spec
-----------------------------------------------------------------------------
(***************************************************************************)
(* The processor's copy of the source.                                     *)
(***************************************************************************)
\* A new source to be told of, as the property says it and as a kind.
LEMMA PendingAsAmong ==
    ASSUME NEW box \in Seq(ProcMsg)
    PROVE  (\E i \in At(box, "set_data") : box[i].what = "source")
           <=> Among(box, DataKind("source")) # {}
<1>1. {i \in At(box, "set_data") : box[i].what = "source"} = Among(box, DataKind("source"))
  BY PlacesAreKinds DEF Playable
<1> QED
  BY <1>1

\* A step either leaves the processor with a new source still to be told of,
\* or has it copy the source, or changes neither source nor copy.
LEMMA SourceSteps ==
    ASSUME TypeOK, [Next]_vars, ~Pending("source")'
    PROVE  \/ procSource' = Resample(sourceSample) /\ sourceSample' = sourceSample
           \/ UNCHANGED <<procSource, sourceSample>> /\ ~Pending("source")
<1>1. ActorsTypeOK /\ ActorsTypeOK' /\ procMail \in Seq(ProcMsg)
  BY StepTypes DEF TypeOK, ActorsTypeOK
<1>2. /\ Among(procMail', DataKind("source")) = {}
      /\ Pending("source") <=> Among(procMail, DataKind("source")) # {}
  BY <1>1, PendingAsAmong DEF ActorsTypeOK, Pending
<1>3. CASE Controller
  <2>1. PICK a \in Seq(ProcMsg) : procMail' = procMail \o a /\ SourceTold(a)
    BY <1>3, ControllerTells DEF Controller, AllTold, Send
  <2>2. Among(procMail, DataKind("source")) = {} /\ Among(a, DataKind("source")) = {}
    BY <1>1, <1>2, <2>1, AmongBoth
  <2> QED
    BY <1>2, <1>3, <2>1, <2>2 DEF SourceTold, Controller, procVars
<1>4. CASE ~Controller
  <2>1. sourceSample' = sourceSample
    BY <1>4, OthersKeepData DEF samples
  <2>2. CASE Head(procMail) \notin DataKind("source") /\ procMail # <<>>
             /\ procMail' = Tail(procMail)
    <3>1. Among(procMail, DataKind("source")) = {}
      BY <1>1, <1>2, <2>2, AmongTail
    <3>2. procSource' = procSource \/ procMail' = procMail
      BY <1>4, <2>2, ProcMailSteps
    <3> QED
      BY <1>2, <1>4, <2>1, <2>2, <3>1, <3>2, ProcMailSteps
  <2> QED
    BY <1>2, <1>4, <2>1, <2>2, ProcMailSteps
<1> QED
  BY <1>3, <1>4

\* Unless it has still to be told of a new source, or none is loaded, the
\* processor's copy is of the source that is loaded, resampled in full.
THEOREM ProcSourceIsCurrent == Spec => []ProcSourceCurrent
<1>1. Init => ProcSourceCurrent
  BY DEF Init, ProcSourceCurrent, NoSample, Usable
<1>2. TypeOK /\ ProcSourceCurrent /\ [Next]_vars => ProcSourceCurrent'
  <2> SUFFICES ASSUME TypeOK, ProcSourceCurrent, [Next]_vars,
                      ~Pending("source")', Usable(sourceSample')
               PROVE  /\ procSource'.id = sourceSample'.id
                      /\ procSource'.frames = ResampledFrames(sourceSample')
    BY DEF ProcSourceCurrent
  <2>1. CASE procSource' = Resample(sourceSample) /\ sourceSample' = sourceSample
    BY <2>1 DEF Resample
  <2>2. CASE UNCHANGED <<procSource, sourceSample>> /\ ~Pending("source")
    BY <2>2 DEF ProcSourceCurrent
  <2> QED
    BY <2>1, <2>2, SourceSteps
<1> QED
  BY <1>1, <1>2, TypeCorrect, PTL DEF Spec
=============================================================================
