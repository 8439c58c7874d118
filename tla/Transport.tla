----------------------------- MODULE Transport ------------------------------
(***************************************************************************)
(* What playback in Vutu promises, whoever carries it out: at most one     *)
(* sound plays; a request either starts the sound asked for or is refused, *)
(* or stops what plays; each start and stop is reported, and the reports   *)
(* reach each sound's button in order.                                     *)
(***************************************************************************)
EXTENDS Naturals, Sequences

CONSTANT Sounds    \* none of them is "off"

VARIABLES
    playing,    \* the sound that plays, or "off"
    requests,   \* the sounds whose button was pressed, not answered yet
    reports,    \* new texts for each button, not noticed yet
    shown       \* the text of each sound's button

vars == <<playing, requests, reports, shown>>

Texts == {"play", "stop"}

TypeOK ==
    /\ playing \in Sounds \cup {"off"}
    /\ requests \in Seq(Sounds)
    /\ reports \in [Sounds -> Seq(Texts)]
    /\ shown \in [Sounds -> Texts]

Init ==
    /\ playing = "off"
    /\ requests = <<>>
    /\ reports = [s \in Sounds |-> <<>>]
    /\ shown = [s \in Sounds |-> "play"]

ReportStart(sound) ==
    reports' = [reports EXCEPT ![sound] = Append(@, "stop")]

ReportStop == reports' = [s \in Sounds |-> Append(reports[s], "play")]

Answer == requests # <<>> /\ requests' = Tail(requests)

Request ==
    /\ \E s \in Sounds : requests' = Append(requests, s)
    /\ UNCHANGED <<playing, reports, shown>>

Start ==
    /\ playing = "off"
    /\ Answer
    /\ playing' = Head(requests)
    /\ ReportStart(Head(requests))
    /\ UNCHANGED shown

Refuse ==
    /\ playing = "off"
    /\ Answer
    /\ UNCHANGED <<playing, reports, shown>>

\* The sound has come to its end, is replaced, or gives way to another one.
\* If nothing plays it may be said once more.
Stop ==
    /\ playing' = "off"
    /\ ReportStop
    /\ UNCHANGED <<requests, shown>>

StopOnRequest ==
    /\ playing # "off"
    /\ Answer
    /\ playing' = "off"
    /\ ReportStop
    /\ UNCHANGED shown

Notice ==
    /\ \E s \in Sounds :
           /\ reports[s] # <<>>
           /\ shown' = [shown EXCEPT ![s] = Head(reports[s])]
           /\ reports' = [reports EXCEPT ![s] = Tail(@)]
    /\ UNCHANGED <<playing, requests>>

Next == Request \/ Start \/ Refuse \/ Stop \/ StopOnRequest \/ Notice

Spec == Init /\ [][Next]_vars

\* No request is left unanswered, no report unnoticed, and what plays ends.
Live ==
    /\ []<>(requests = <<>>)
    /\ \A s \in Sounds : []<>(reports[s] = <<>>)
    /\ []<>(playing = "off")

LiveSpec == Spec /\ Live
-----------------------------------------------------------------------------
\* What the button of a sound comes to show once the reports on their way
\* have arrived.
Coming(s) ==
    IF reports[s] = <<>> THEN shown[s] ELSE reports[s][Len(reports[s])]

\* That is "stop" exactly while the sound plays.
Told == \A s \in Sounds : Coming(s) = "stop" <=> playing = s
=============================================================================
