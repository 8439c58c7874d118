------------------------------ MODULE VutuView ------------------------------
(***************************************************************************)
(* VutuView: hands the pointers and properties that the controller sends   *)
(* to its widgets, and what the user does in the widgets to the            *)
(* controller.  One action per kind of message of VutuView::onMessage.     *)
(***************************************************************************)
EXTENDS VutuActors

VARIABLES
    viewParams,     \* the view's _params, and what its widgets show
    viewPartials,   \* the _pPartials of widget "partials"
    samplesShown,   \* the sample widgets that have been given a sample
    enabled,        \* property "enabled" of each button that has it set
    playText,       \* property "text" of the two play buttons
    atZero          \* property "playback_time" of the sample widgets is 0

viewVars == <<viewParams, viewPartials, samplesShown, enabled, playText, atZero>>

ViewTypeOK ==
    /\ viewParams \in Params
    /\ viewPartials \in Nat
    /\ samplesShown \subseteq Playable
    /\ enabled \in [Buttons -> BOOLEAN]
    /\ playText \in [Playable -> {"play", "stop"}]
    /\ atZero \in [Playable -> BOOLEAN]

ViewHandle(type) == IsNext(viewMail, type) /\ viewMail' = Tail(viewMail)

\* A value that does not come from the controller is sent on to it.
\* Mutant: none is.
ForwardNothing(m) == <<>>
Forward(m) == IF m.fromController THEN <<>> ELSE <<m>>

ViewSetParam ==
    /\ ViewHandle("set_param")
    /\ LET m == Head(viewMail) IN
       /\ viewParams' = [viewParams EXCEPT ![m.param] = m.value]
       /\ ctlMail' = ctlMail \o Forward(m)
    /\ UNCHANGED <<procMail, samples, viewPartials, samplesShown, enabled,
                   playText, atZero>>

ViewSetData ==
    /\ ViewHandle("set_data")
    /\ samplesShown' = samplesShown \cup {Head(viewMail).what}
    /\ UNCHANGED <<ctlMail, procMail, samples, viewParams, viewPartials,
                   enabled, playText, atZero>>

ViewSetPartials ==
    /\ ViewHandle("set_partials_data")
    /\ viewPartials' = Head(viewMail).ptr
    /\ UNCHANGED <<ctlMail, procMail, samples, viewParams, samplesShown,
                   enabled, playText, atZero>>

\* Any other "do" is the user's, and is sent on.
ViewForward ==
    /\ ViewHandle("do")
    /\ ctlMail' = Append(ctlMail, Head(viewMail))
    /\ UNCHANGED <<procMail, samples, viewVars>>

\* "widget/<name>/set_prop/<property>".
ViewSetProp ==
    /\ UNCHANGED <<ctlMail, procMail, samples, viewParams, viewPartials,
                   samplesShown>>
    /\ LET m == Head(viewMail) IN
       \/ /\ ViewHandle("enabled")
          /\ enabled' = [enabled EXCEPT ![m.button] = m.on]
          /\ UNCHANGED <<playText, atZero>>
       \/ /\ ViewHandle("text")
          /\ playText' = [playText EXCEPT ![m.which] = m.text]
          /\ UNCHANGED <<enabled, atZero>>
       \/ /\ ViewHandle("time")
          /\ atZero' = [atZero EXCEPT ![m.which] = m.atZero]
          /\ UNCHANGED <<enabled, playText>>

ViewNext ==
    \/ ViewSetParam \/ ViewSetData \/ ViewSetPartials \/ ViewForward
    \/ ViewSetProp

(***************************************************************************)
(* What the user does in a widget, as a message to the view.  The widget   *)
(* shows a parameter's new value at once.                                  *)
(***************************************************************************)
ButtonOf(cmd) ==
    CASE cmd = "toggle_play_source" -> "play_source"
      [] cmd = "toggle_play_synth" -> "play_synth"
      [] OTHER -> cmd

Click(cmd) ==
    /\ ButtonOf(cmd) \in Buttons => enabled[ButtonOf(cmd)]
    /\ viewMail' = Append(viewMail, Do(cmd))

\* The analysis interval is dragged in widget "source", once that has a sample.
Turn(param, value) ==
    /\ param = "analysis_interval" => "source" \in samplesShown
    /\ viewMail' = Append(viewMail, SetParam(param, value, FALSE))
=============================================================================
