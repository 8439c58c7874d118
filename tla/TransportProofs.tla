--------------------------- MODULE TransportProofs --------------------------
(***************************************************************************)
(* What every implementation of Transport inherits: its buttons come to    *)
(* tell what plays.                                                        *)
(***************************************************************************)
EXTENDS Transport, SequenceTheorems, TLAPS

\* What is appended to a button's reports is what the button comes to show.
LEMMA LastAppended ==
    ASSUME NEW seq \in Seq(Texts), NEW text \in Texts
    PROVE  /\ Append(seq, text) \in Seq(Texts)
           /\ Append(seq, text) # <<>>
           /\ Append(seq, text)[Len(Append(seq, text))] = text
  OBVIOUS

\* Noticing the first report does not change the last one.
LEMMA LastKept ==
    ASSUME NEW seq \in Seq(Texts), seq # <<>>
    PROVE  /\ Tail(seq) \in Seq(Texts)
           /\ Head(seq) \in Texts
           /\ Tail(seq) = <<>> => seq[Len(seq)] = Head(seq)
           /\ Tail(seq) # <<>> => Tail(seq)[Len(Tail(seq))] = seq[Len(seq)]
<1>1. /\ Tail(seq) \in Seq(Texts)
      /\ Head(seq) \in Texts
      /\ Head(seq) = seq[1]
      /\ Len(Tail(seq)) = Len(seq) - 1
      /\ \A i \in 1..Len(Tail(seq)) : Tail(seq)[i] = seq[i + 1]
  BY HeadTailProperties
<1>2. Tail(seq) = <<>> <=> Len(Tail(seq)) = 0
  BY <1>1, EmptySeq
<1>3. Len(seq) \in Nat
  OBVIOUS
<1> QED
  BY <1>1, <1>2, <1>3

\* Nothing plays, nothing is asked for and nothing is on its way.
LEMMA TypeInit == Init => TypeOK
  BY DEF Init, TypeOK, Texts

\* Each action leaves every variable in its type.
LEMMA TypeStep == TypeOK /\ [Next]_vars => TypeOK'
<1> SUFFICES ASSUME TypeOK, [Next]_vars PROVE TypeOK'
  OBVIOUS
<1> USE DEF TypeOK
<1>1. ASSUME Answer PROVE Head(requests) \in Sounds /\ requests' \in Seq(Sounds)
  BY <1>1, HeadTailProperties DEF Answer
<1>2. ASSUME ReportStop PROVE reports' \in [Sounds -> Seq(Texts)]
  BY <1>2 DEF ReportStop, Texts
<1>3. CASE Request
  BY <1>3 DEF Request
<1>4. CASE Start
  <2>1. Head(requests) \in Sounds /\ requests' \in Seq(Sounds)
    BY <1>4, <1>1 DEF Start
  <2>2. Append(reports[Head(requests)], "stop") \in Seq(Texts)
    BY <2>1, LastAppended DEF Texts
  <2>3. reports' \in [Sounds -> Seq(Texts)]
    BY <1>4, <2>1, <2>2 DEF Start, ReportStart
  <2> QED
    BY <1>4, <2>1, <2>3 DEF Start
<1>5. CASE Refuse
  BY <1>5, <1>1 DEF Refuse
<1>6. CASE Stop
  BY <1>6, <1>2 DEF Stop
<1>7. CASE StopOnRequest
  BY <1>7, <1>1, <1>2 DEF StopOnRequest
<1>8. CASE Notice
  <2>1. PICK s \in Sounds :
            /\ reports[s] # <<>>
            /\ shown' = [shown EXCEPT ![s] = Head(reports[s])]
            /\ reports' = [reports EXCEPT ![s] = Tail(@)]
    BY <1>8 DEF Notice
  <2>2. Head(reports[s]) \in Texts /\ Tail(reports[s]) \in Seq(Texts)
    BY <2>1, LastKept
  <2> QED
    BY <1>8, <2>1, <2>2 DEF Notice
<1>9. CASE UNCHANGED vars
  BY <1>9 DEF vars
<1> QED
  BY <1>3, <1>4, <1>5, <1>6, <1>7, <1>8, <1>9 DEF Next

\* The buttons of a program that has just started offer to play.
LEMMA ToldInit ==
    ASSUME "off" \notin Sounds
    PROVE  Init => Told
  BY DEF Init, Told, Coming

\* What starts or stops is reported in the same step.
LEMMA ToldStep ==
    ASSUME "off" \notin Sounds
    PROVE  TypeOK /\ Told /\ [Next]_vars => Told'
<1> SUFFICES ASSUME TypeOK, Told, [Next]_vars PROVE Told'
  OBVIOUS
<1> USE DEF TypeOK
<1>1. ASSUME ReportStop, playing' = "off" PROVE Told'
  <2> SUFFICES ASSUME NEW s \in Sounds PROVE (Coming(s) = "stop" <=> playing = s)'
    BY DEF Told
  <2>1. reports'[s] = Append(reports[s], "play")
    BY <1>1 DEF ReportStop
  <2>2. Coming(s)' = "play"
    BY <2>1, LastAppended DEF Coming, Texts
  <2> QED
    BY <2>2, <1>1
<1>2. ASSUME UNCHANGED <<playing, reports, shown>> PROVE Told'
  BY <1>2 DEF Told, Coming
<1>3. CASE Start
  <2> DEFINE sound == Head(requests)
  <2>1. sound \in Sounds
    BY <1>3 DEF Start, Answer
  <2> SUFFICES ASSUME NEW s \in Sounds PROVE (Coming(s) = "stop" <=> playing = s)'
    BY DEF Told
  <2>2. CASE s = sound
    <3>1. reports'[s] = Append(reports[s], "stop")
      BY <1>3, <2>2 DEF Start, ReportStart
    <3>2. Coming(s)' = "stop"
      BY <3>1, LastAppended DEF Coming, Texts
    <3> QED
      BY <3>2, <2>2, <1>3 DEF Start
  <2>3. CASE s # sound
    <3>1. reports'[s] = reports[s] /\ shown'[s] = shown[s]
      BY <1>3, <2>3 DEF Start, ReportStart
    <3>2. Coming(s)' = Coming(s)
      BY <3>1 DEF Coming
    <3>3. Coming(s) # "stop"
      BY <1>3 DEF Start, Told
    <3> QED
      BY <3>2, <3>3, <2>3, <1>3 DEF Start
  <2> QED
    BY <2>2, <2>3
<1>4. CASE Notice
  <2>1. PICK t \in Sounds :
            /\ reports[t] # <<>>
            /\ shown' = [shown EXCEPT ![t] = Head(reports[t])]
            /\ reports' = [reports EXCEPT ![t] = Tail(@)]
    BY <1>4 DEF Notice
  <2> SUFFICES ASSUME NEW s \in Sounds PROVE (Coming(s) = "stop" <=> playing = s)'
    BY DEF Told
  <2>2. CASE s = t
    <3>1. reports'[s] = Tail(reports[s]) /\ shown'[s] = Head(reports[s])
      BY <2>1, <2>2
    <3>2. Coming(s)' = Coming(s)
      BY <3>1, <2>1, <2>2, LastKept DEF Coming
    <3> QED
      BY <3>2, <1>4 DEF Notice, Told
  <2>3. CASE s # t
    <3>1. reports'[s] = reports[s] /\ shown'[s] = shown[s]
      BY <2>1, <2>3
    <3> QED
      BY <3>1, <1>4 DEF Notice, Told, Coming
  <2> QED
    BY <2>2, <2>3
<1>5. CASE Request
  BY <1>5, <1>2 DEF Request
<1>6. CASE Refuse
  BY <1>6, <1>2 DEF Refuse
<1>7. CASE Stop
  BY <1>7, <1>1 DEF Stop
<1>8. CASE StopOnRequest
  BY <1>8, <1>1 DEF StopOnRequest
<1>9. CASE UNCHANGED vars
  BY <1>9, <1>2 DEF vars
<1> QED
  BY <1>3, <1>4, <1>5, <1>6, <1>7, <1>8, <1>9 DEF Next

\* Whatever sounds there are, and in whatever order requests, ends and
\* replacements come (togglePlaybackState, processVector, set_*_data): the
\* last thing each button is told is whether its sound plays.
THEOREM ButtonsAreTold ==
    ASSUME "off" \notin Sounds
    PROVE  Spec => []Told
<1>1. Init => TypeOK /\ Told
  BY TypeInit, ToldInit
<1>2. TypeOK /\ Told /\ [Next]_vars => (TypeOK /\ Told)'
  BY TypeStep, ToldStep
<1> QED
  BY <1>1, <1>2, PTL DEF Spec
=============================================================================
