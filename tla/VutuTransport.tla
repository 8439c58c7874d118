--------------------------- MODULE VutuTransport ----------------------------
(***************************************************************************)
(* VutuApp implements Transport.  A request is a toggle on its way from    *)
(* button to view to controller to processor, or the one being carried     *)
(* out; a report is a message on its way back, through the controller.     *)
(***************************************************************************)
EXTENDS VutuApp

\* SelectSeq(box, IsRequest), as the sounds that are asked for.
IsRequest(m) ==
    \/ m.type = "toggle_play"
    \/ m.type = "do" /\ m.cmd \in {"toggle_play_source", "toggle_play_synth"}

Requested(m) ==
    IF m.type = "toggle_play" THEN m.which
    ELSE IF m.cmd = "toggle_play_source" THEN "source" ELSE "synth"

Mapped(seq, Op(_)) == [i \in 1..Len(seq) |-> Op(seq[i])]

RequestsIn(box) == Mapped(SelectSeq(box, IsRequest), Requested)

\* The new texts that reach a play button by way of these messages.
IsReport(m, which) ==
    \/ m.type \in {"text", "playback_started"} /\ m.which = which
    \/ m.type = "playback_stopped"

Reported(m) ==
    CASE m.type = "text" -> m.text
      [] m.type = "playback_started" -> "stop"
      [] m.type = "playback_stopped" -> "play"

ReportsIn(box, which) ==
    Mapped(SelectSeq(box, LAMBDA m : IsReport(m, which)), Reported)

\* While togglePlaybackState() starts a sample, it has not yet answered.
BeingAnswered ==
    IF NotToggling THEN <<>> ELSE <<IF arming = "none" THEN toggling ELSE arming>>

AsTransport == INSTANCE Transport WITH
    Sounds <- Playable,
    playing <- IF arming = "none" THEN playbackState ELSE "off",
    requests <- BeingAnswered \o RequestsIn(procMail) \o RequestsIn(ctlMail)
                    \o RequestsIn(viewMail),
    reports <- [w \in Playable |-> ReportsIn(viewMail, w) \o ReportsIn(ctlMail, w)],
    shown <- playText

\* Every step of the program is a step of Transport or none: however toggles,
\* new data and the end of a sample follow each other, nothing starts that
\* was not asked for, no two sounds play, and nothing goes unreported.
ImplementsTransport == AsTransport!Spec

\* What the last report on its way to a play button says, or what the button
\* shows if there is none, is whether its sound plays.
ReportPlaces(box, which) == {i \in 1..Len(box) : IsReport(box[i], which)}

ButtonsTold ==
    \A w \in Playable :
        LET late == ReportPlaces(ctlMail, w)
            early == ReportPlaces(viewMail, w)
            Tells(text) == text = "stop" <=> arming = "none" /\ playbackState = w
        IN  \/ \E i \in late : LastOf(late, i) /\ Tells(Reported(ctlMail[i]))
            \/ /\ late = {}
               /\ \/ \E i \in early : LastOf(early, i) /\ Tells(Reported(viewMail[i]))
                  \/ early = {} /\ Tells(playText[w])

\* Moreover each request is answered, each report noticed, and every
\* playback ends.
FulfilsTransport == AsTransport!LiveSpec
=============================================================================
