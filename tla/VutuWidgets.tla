----------------------------- MODULE VutuWidgets -----------------------------
(***************************************************************************)
(* The displays of VutuView: the drag of the analysis interval in widget   *)
(* "source", and the pictures of the partials and of both samples, which   *)
(* are painted into layers of their own while the view is animated.        *)
(*                                                                         *)
(* The library's widgets take no values that are sent to them while they   *)
(* are "engaged".                                                          *)
(***************************************************************************)
EXTENDS VutuApp

CONSTANTS
    Gap,        \* 2*marginU by the size of the window: a bracket is as wide
                \* in all of them, so that a small one has the greater part
    Moves,      \* how far the mouse moves between two events, in 1/Den
    Sizes       \* sizes of the window, and so of the partials display

VARIABLES
    drag,           \* "source": currentDragControl_, "none" if not engaged
    interval,       \* "source": its value of analysis_interval
    bounds,         \* "partials": its size
    redrawTimer,    \* "partials": redrawTimer_ is running
    partialsDirty,  \* "partials": _partialsDirty
    layer,          \* "partials": the size of its layer, the object painted
    sampleDirty,    \* "source" and "synth": sampleDirty_
    picture         \* "source" and "synth": the sample painted

dragVars == <<drag, interval>>
pictureVars == <<bounds, redrawTimer, partialsDirty, layer, sampleDirty, picture>>
allVars == <<vars, dragVars, pictureVars>>

ASSUME WidgetAssumption ==
    /\ Gap \in [Sizes -> 1..Den]
    /\ Moves \subseteq Int
    /\ Sizes \subseteq Nat \ {0} /\ Sizes # {}

WidgetsTypeOK ==
    /\ TypeOK
    /\ drag \in {"none", "left", "right"}
    /\ interval \in Intervals
    /\ bounds \in Sizes
    /\ redrawTimer \in BOOLEAN
    /\ partialsDirty \in BOOLEAN
    /\ layer \in [size : Sizes \cup {0}, ptr : Nat]
    /\ sampleDirty \in [Playable -> BOOLEAN]
    /\ picture \in [Playable -> Sample]

\* The window has been laid out, nothing has been painted.
WidgetsInit ==
    /\ drag = "none"
    /\ interval = ctlParams["analysis_interval"]
    /\ bounds \in Sizes
    /\ redrawTimer = TRUE
    /\ partialsDirty = TRUE
    /\ layer = [size |-> 0, ptr |-> 0]
    /\ sampleDirty = [w \in Playable |-> TRUE]
    /\ picture = [w \in Playable |-> NoSample]

(***************************************************************************)
(* SampleDisplay::processGUIEvent().  Each event sends the value, whether  *)
(* or not it has changed: at its start and end, too.                       *)
(***************************************************************************)
Clamp(x, low, high) == IF x < low THEN low ELSE IF x > high THEN high ELSE x

\* Where the controls are once one of them has moved, with the least length
\* between them: it bumps the other.
Bumped(iv, control, delta, gap) ==
    LET left == iv[1] + IF control = "left" THEN delta ELSE 0
        right == iv[2] + IF control = "right" THEN delta ELSE 0
        near == left > right - gap
    IN  <<Clamp(IF control = "right" /\ near THEN right - gap ELSE left, 0, Den - gap),
          Clamp(IF control = "left" /\ near THEN left + gap ELSE right, gap, Den)>>

\* Mutants: a control may be moved out of the window; it does not bump the
\* other; brackets are measured in the widest window only.
DraggedOut(iv, control, delta) ==
    IF control = "left" THEN <<iv[1] + delta, iv[2]>> ELSE <<iv[1], iv[2] + delta>>
DraggedThrough(iv, control, delta) ==
    IF control = "left" THEN <<Clamp(iv[1] + delta, 0, Den - Gap[bounds]), iv[2]>>
                        ELSE <<iv[1], Clamp(iv[2] + delta, Gap[bounds], Den)>>
DraggedInWidest(iv, control, delta) ==
    LET widest == CHOOSE size \in Sizes : \A other \in Sizes : other <= size
    IN  Bumped(iv, control, delta, Gap[widest])
Dragged(iv, control, delta) == Bumped(iv, control, delta, Gap[bounds])

SendInterval(value) ==
    viewMail' = Append(viewMail, SetParam("analysis_interval", value, FALSE))

\* Mutant: the end of a drag is not sent.
SendNothing == UNCHANGED viewMail
SendEnd == SendInterval(interval)

\* The control grabbed is the one that is nearer to the mouse, wherever that is.
DragDown ==
    /\ UserGives
    /\ "source" \in samplesShown
    /\ drag = "none"
    /\ drag' \in {"left", "right"}
    /\ SendInterval(interval)
    /\ UNCHANGED <<ctlMail, interval, pictureVars>>

DragMove ==
    /\ UserGives
    /\ drag # "none"
    /\ \E delta \in Moves : interval' = Dragged(interval, drag, delta)
    /\ interval' # interval
    /\ SendInterval(interval')
    /\ UNCHANGED <<ctlMail, drag, pictureVars>>

DragUp ==
    /\ MainIsFree
    /\ drag # "none"
    /\ drag' = "none"
    /\ SendEnd
    /\ UNCHANGED <<ctlMail, procMail, samples, ctlVars, procVars, viewVars, inputs,
                   interval, pictureVars>>

(***************************************************************************)
(* The view lets its widgets have what it handles.                         *)
(***************************************************************************)
TakenBySource(m) ==
    IF m.type = "set_param" /\ m.param = "analysis_interval" /\ drag = "none"
    THEN m.value ELSE interval

\* receiveNamedRawPointer().  The pointer to a sample is always the same.
\* Mutant: only a new pointer is a reason to paint.
DirtiedWhenNew(m, w) ==
    sampleDirty[w] \/ (m.type = "set_data" /\ m.what = w /\ w \notin samplesShown)
Dirtied(m, w) == sampleDirty[w] \/ (m.type = "set_data" /\ m.what = w)

WidgetsView ==
    /\ View
    /\ LET m == Head(viewMail) IN
       /\ interval' = TakenBySource(m)
       /\ sampleDirty' = [w \in Playable |-> Dirtied(m, w)]
       /\ partialsDirty' = (partialsDirty \/ m.type = "set_partials_data")
    /\ UNCHANGED <<drag, bounds, redrawTimer, layer, picture>>

(***************************************************************************)
(* Pictures.  layoutView() resizes all widgets.  A layer of another size   *)
(* than the widget is replaced once resizing has paused for a while; that  *)
(* of a sample has a fixed size.                                           *)
(***************************************************************************)
\* Mutant: one layer is enough.
NeedsFirstLayer(size) == layer.size = 0
NeedsLayer(size) == layer.size # size

Layout ==
    /\ UserGives
    /\ bounds' \in Sizes \ {bounds}
    /\ redrawTimer' = (redrawTimer \/ NeedsLayer(bounds'))
    /\ UNCHANGED <<ctlMail, viewMail, dragVars, partialsDirty, layer, sampleDirty,
                   picture>>

RedrawPartials ==
    /\ alive
    /\ redrawTimer
    /\ redrawTimer' = FALSE
    /\ partialsDirty' = TRUE
    /\ UNCHANGED <<vars, dragVars, bounds, layer, sampleDirty, picture>>

\* What there is to paint of a sample.
SampleIn(w) == IF w = "source" THEN sourceSample ELSE synthSample

Drawn(w) ==
    IF w \in samplesShown /\ Usable(SampleIn(w)) THEN SampleIn(w) ELSE NoSample

Animate ==
    /\ MainIsFree
    /\ partialsDirty \/ \E w \in Playable : sampleDirty[w]
    /\ layer' = IF partialsDirty THEN [size |-> bounds, ptr |-> viewPartials] ELSE layer
    /\ picture' = [w \in Playable |-> IF sampleDirty[w] THEN Drawn(w) ELSE picture[w]]
    /\ partialsDirty' = FALSE
    /\ sampleDirty' = [w \in Playable |-> FALSE]
    /\ UNCHANGED <<vars, dragVars, bounds, redrawTimer>>

(***************************************************************************)
(* The whole.  Only one thing at a time is done with the mouse.            *)
(***************************************************************************)
Others ==
    /\ \/ Controller \/ Processor \/ Audio
       \/ UserPressesO
       \/ drag = "none" /\ UserClicks
    /\ UNCHANGED <<dragVars, pictureVars>>

Displays == RedrawPartials \/ Animate

WidgetsNext ==
    \/ Others \/ WidgetsView \/ Displays
    \/ DragDown \/ DragMove \/ DragUp \/ Layout

WidgetsFairness ==
    /\ WF_allVars(Controller /\ UNCHANGED <<dragVars, pictureVars>>)
    /\ WF_allVars(Processor /\ UNCHANGED <<dragVars, pictureVars>>)
    /\ WF_allVars(WidgetsView)
    /\ WF_allVars(RedrawPartials)
    /\ WF_allVars(Animate)
\* From the start of the program, whatever is scheduled.
WidgetsStarted == Init /\ WidgetsInit /\ [][WidgetsNext]_allVars
-----------------------------------------------------------------------------
AnyInterval ==
    {interval, viewParams["analysis_interval"], ctlParams["analysis_interval"],
     procParams["analysis_interval"]}

\* However the controls are dragged and bumped, and whatever is loaded
\* meanwhile, no interval anywhere is shorter than two brackets are in a window
\* of some size: a smaller window makes brackets wider, and moves no control.
GapKept ==
    \A iv \in AnyInterval : \E size \in Sizes : iv[1] + Gap[size] <= iv[2]

\* An interval that has become too short for the window is as long as two
\* brackets again once either control is moved; during a drag nothing else
\* changes it.
GapRestored ==
    [][drag # "none" /\ interval' # interval
           => interval'[1] + Gap[bounds] <= interval'[2]]_allVars

\* The display misses the values that are sent to it during a drag: open
\* resets the interval, other values come back.  Once everything has been
\* handled and the control is let go, all show and use the same interval.
IntervalsAgree ==
    drag = "none" /\ mail = <<<<>>, <<>>, <<>>>> => AnyInterval = {interval}

\* A picture is of what the controller holds, unless it is about to be
\* painted again or the view has still to be told.
PicturesCurrent ==
    /\ \/ partialsDirty \/ At(viewMail, "set_partials_data") # {}
       \/ layer.ptr = vutuPartials.id
    /\ \A w \in Playable :
           \/ sampleDirty[w]
           \/ \E i \in At(viewMail, "set_data") : viewMail[i].what = w
           \/ picture[w] = Drawn(w)

\* However the window is resized, while data is replaced and painted, in the
\* end the pictures are of the data and of the size there is.
EventuallyPainted ==
    <>[](/\ layer = [size |-> bounds, ptr |-> vutuPartials.id]
         /\ picture = [w \in Playable |-> Drawn(w)])
=============================================================================
