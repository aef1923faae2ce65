------------------------------- MODULE ChartView -------------------------------
(***************************************************************************)
(* What a user does to a chart with the mouse: panning, zooming, dragging  *)
(* the scales, drawing (frontend-chart/src/components/ClusterChart.tsx).   *)
(*                                                                         *)
(* The chart is a scroll container with a spacer as wide as all candles    *)
(* and a canvas that is drawn for visibleScrollLeft, a copy of the         *)
(* container's scrollLeft.  The handlers set both; the scroll event, which *)
(* comes later and only if scrollLeft changed, copies it again.            *)
(*                                                                         *)
(* Lengths are in a coarse unit.  A slot is the width of a candle with its *)
(* spacing.  The vertical direction is left out: scale and offset of       *)
(* prices follow the same gestures, and nothing else depends on them.  So  *)
(* are the coordinates of a drawing; which one a click hits is open.       *)
(*                                                                         *)
(* The pair is that of the first chart of Workspace.  Another one comes as *)
(* a property of the same component, which keeps all its state.            *)
(***************************************************************************)
EXTENDS Workspace, Integers, FiniteSetsExt

CONSTANTS
    Null,        \* no tool, no drawing, pointer outside
    Tools,       \* of the nine tools, one of each kind of gesture
    Ids,         \* bound: drawings on the chart at once, each named by its id
    MaxCandles,  \* bound: candles in the list
    Slots        \* bound: slot widths the zoom reaches, 2 .. 450 pixels and spacing in the code

ASSUME ChartViewAssumption ==
    /\ Tools \subseteq {"trend", "channel", "horizontal", "text"}
    /\ Null \notin Tools \union Ids \union Symbols \union Nat
    /\ MaxCandles \in Nat \ {0}
    /\ Max(Slots) \in Nat \ {0} /\ Slots = 1 .. Max(Slots)

VARIABLES
    candles,       \* how many candles the list holds
    slot,          \* candleWidth and candleSpacing
    fitted,        \* hasInitializedZoomRef: the pair the default zoom was set for, or Null
    scrollLeft,    \* of the container
    view,          \* visibleScrollLeft
    scrolled,      \* the scroll event is still to come
    pointer,       \* where the pointer is over the container, or Null
    button,        \* is the left button held
    pan, grabbed,  \* isDragging; startX and scrollLeft when it began, read during a pan only
    stretch,       \* isDraggingTimeScale with its anchor, or Null
    scaling,       \* a scale of the price panel, or a splitter, is dragged
    tool,          \* activeDrawingTool
    progress,      \* drawingInProgress: its id, type and stage, or Null
    drawings, selected, drag,  \* ids of the drawings, of the selected and of the dragged one
    adrift,        \* history: a pan, a stretch or a refit left view and scrollLeft apart
    leaked         \* history: which of "pan" and "drag" began with another gesture unfinished

scrollVars == <<scrollLeft, view, scrolled, adrift>>
gestureVars == <<pan, grabbed, stretch, scaling, leaked>>
drawingVars == <<tool, progress, drawings, selected, drag>>
listVars == <<candles, slot, fitted>>
chartVars == <<listVars, scrollVars, pointer, button, gestureVars, drawingVars>>

Left == 1   \* margin.left
Port == 3   \* clientWidth; up to 1000 pixels, so that the paddings alone fill it
Pad == 2    \* scrollRightPadding and margin.right, beyond the last candle
Back == 1   \* how far from the left edge the last candle's end is put

Clip(x, lo, hi) == Max({lo, Min({x, hi})})

(* How far the container scrolls; an empty list has no spacer. *)
Extent(n, s) == IF n = 0 THEN 0 ELSE Max({0, Left + n * s + Pad - Port})

(* Where the latest candle is in sight. *)
Latest(n, s) == Clip(Left + n * s - Back, 0, Extent(n, s))

Positions == 0 .. Port - 1

NotGrabbed == [x |-> 0, scroll |-> 0]

ChartTypeOK ==
    /\ candles \in 0 .. MaxCandles /\ slot \in Slots
    /\ fitted \in Symbols \union {Null}
    /\ scrollLeft \in 0 .. Extent(candles, slot) /\ view \in Int
    /\ scrolled \in BOOLEAN /\ adrift \in BOOLEAN /\ leaked \subseteq {"pan", "drag"}
    /\ pointer \in Positions \union {Null} /\ button \in BOOLEAN
    /\ pan \in BOOLEAN /\ grabbed \in [x : Positions, scroll : Nat]
    /\ stretch \in [x : Positions, slot : Slots, scroll : Nat] \union {Null}
    /\ scaling \in BOOLEAN
    /\ tool \in Tools \union {Null}
    /\ progress \in [id : Ids, type : Tools, stage : 0 .. 2] \union {Null}
    /\ drawings \subseteq Ids /\ selected \in drawings \union {Null} /\ drag \in Ids \union {Null}
--------------------------------------------------------------------------------
(* container.scrollLeft = x, where the content allows ext. *)
Scroll(x, ext) ==
    /\ scrollLeft' = Clip(x, 0, ext)
    /\ scrolled' = (scrolled \/ scrollLeft' # scrollLeft)

(* The scroll event. *)
OnScroll ==
    /\ scrolled
    /\ scrolled' = FALSE /\ view' = scrollLeft /\ adrift' = FALSE
    /\ UNCHANGED <<listVars, scrollLeft, pointer, button, gestureVars, drawingVars>>

(* The scroll bar, below the chart. *)
DragScrollBar(x) ==
    /\ pointer = Null /\ ~button
    /\ Scroll(x, Extent(candles, slot))
    /\ UNCHANGED <<listVars, view, adrift, pointer, button, gestureVars, drawingVars>>

(* The effect that goes to the latest candle of pair y: after a change of the pair, of the *)
(* length of the list, of the price range or of the size of the container.  For a pair that *)
(* has not had it, it sets the default zoom, forty candles in whatever width there is.  *)
(* scrollLeft is set before the spacer has followed: a wider candle does not get it further *)
(* than the old spacer reaches. *)
AutoScroll(n, y) == \E s \in IF fitted = y THEN {slot} ELSE Slots :
    /\ candles' = n /\ slot' = s /\ fitted' = y
    /\ Scroll(Clip(Latest(n, s), 0, Extent(n, slot)), Extent(n, s))
    /\ view' = Latest(n, s)
    /\ adrift' = (s > slot /\ view' # scrollLeft' /\ ~scrolled')

(* The list is loaded, extended by a candle or a page, or its range changes. *)
CandlesChange(n) ==
    /\ n > 0
    /\ AutoScroll(n, chart[0].symbol)
    /\ UNCHANGED <<pointer, button, gestureVars, drawingVars>>

(* Pair y is picked in the toolbar.  The candles of the previous one stay until the load of *)
(* the new one is answered; without candles the effect does nothing. *)
PairChange(y) ==
    /\ pointer = Null /\ ~button
    /\ \/ candles > 0 /\ AutoScroll(candles, y)
       \/ candles = 0 /\ UNCHANGED <<listVars, scrollVars>>
    /\ UNCHANGED <<pointer, button, gestureVars, drawingVars>>

(* A load failed: no spacer, no canvas. *)
CandlesGone ==
    /\ candles # 0
    /\ candles' = 0
    /\ Scroll(scrollLeft, 0)
    /\ UNCHANGED <<slot, fitted, view, adrift, pointer, button, gestureVars, drawingVars>>

(* handleZoom and handleResetZoom; the browser keeps scrollLeft within the new content. *)
ZoomButton(s) ==
    /\ pointer = Null /\ ~button
    /\ slot' = s
    /\ Scroll(scrollLeft, Extent(candles, s))
    /\ UNCHANGED <<candles, fitted, view, adrift, pointer, button, gestureVars, drawingVars>>

(* Where scrollLeft has to be for the point at x to stay, when it was at scroll under slot s. *)
Anchored(x, scroll, s, t) == Left - x + ((scroll + x - Left) * t) \div s

(* The wheel: the slot changes around the pointer.  The spacer is resized first. *)
WheelBeforeSpacer(s) ==
    LET next == Max({0, Anchored(pointer, scrollLeft, slot, s)})
    IN /\ pointer # Null /\ s # slot
       /\ slot' = s
       /\ scrollLeft' = Min({Clip(next, 0, Extent(candles, slot)), Extent(candles, s)})
       /\ scrolled' = (scrolled \/ scrollLeft' # scrollLeft)
       /\ view' = next
       /\ adrift' = FALSE
       /\ UNCHANGED <<candles, fitted, pointer, button, gestureVars, drawingVars>>

Wheel(s) ==
    LET next == Max({0, Anchored(pointer, scrollLeft, slot, s)})
    IN /\ pointer # Null /\ s # slot
       /\ slot' = s
       /\ Scroll(next, Extent(candles, s))
       /\ view' = next
       /\ adrift' = FALSE
       /\ UNCHANGED <<candles, fitted, pointer, button, gestureVars, drawingVars>>
--------------------------------------------------------------------------------
Fresh == Ids \ (drawings \union {selected, drag} \union
                (IF progress = Null THEN {} ELSE {progress.id}))

Waiting == progress # Null /\ progress.stage = 2

(* With a tool, inside the plot: the second click of a channel, a level at one click, or *)
(* the beginning of a drawing. *)
Draw ==
    /\ UNCHANGED <<selected, drag, gestureVars>>
    /\ \/ /\ Waiting
          /\ drawings' = drawings \union {progress.id}
          /\ progress' = Null /\ tool' = Null
       \/ /\ ~Waiting /\ tool = "horizontal"
          /\ \E id \in Fresh : drawings' = drawings \union {id}
          /\ tool' = Null
          /\ UNCHANGED progress
       \/ /\ ~Waiting /\ tool # "horizontal"
          /\ \E id \in Fresh :
               progress' = [id |-> id, type |-> tool, stage |-> IF tool = "channel" THEN 1 ELSE 0]
          /\ UNCHANGED <<tool, drawings>>

(* The gesture g begins; unfinished says that handleMouseUpOrLeave will see to another first. *)
Begun(g, unfinished) == (leaked \ {g}) \union (IF unfinished THEN {g} ELSE {})

(* Without one: the drawing that is hit, by a handle or its body, is selected and dragged. *)
Grab(id) ==
    /\ selected' = id /\ drag' = id
    /\ leaked' = Begun("drag", progress # Null)
    /\ UNCHANGED <<tool, progress, drawings, pan, grabbed, stretch, scaling>>

(* Neither: the time scale is stretched from here, or the chart is panned. *)
StretchOrPan(onTimeline) ==
    /\ IF onTimeline
         THEN /\ stretch' = [x |-> pointer, slot |-> slot, scroll |-> scrollLeft]
              /\ UNCHANGED <<pan, grabbed, leaked>>
         ELSE /\ pan' = TRUE /\ grabbed' = [x |-> pointer, scroll |-> scrollLeft]
              /\ leaked' = Begun("pan", progress # Null \/ drag # Null)
              /\ UNCHANGED stretch
    /\ UNCHANGED <<tool, progress, drawings, drag, scaling>>

(* handleMouseDown.  Position 0 is the left margin; without candles there is no canvas. *)
MouseDown(onTimeline) ==
    LET onPlot == candles > 0 /\ ~onTimeline /\ pointer >= Left
    IN /\ pointer # Null /\ ~button
       /\ button' = TRUE
       /\ \/ tool # Null /\ onPlot /\ Draw
          \/ tool = Null /\ onPlot /\ \E id \in drawings : Grab(id)
          \/ /\ ~(tool # Null /\ onPlot)
             /\ selected' = IF tool = Null /\ onPlot THEN Null ELSE selected
             /\ StretchOrPan(onTimeline)
       /\ UNCHANGED <<listVars, scrollVars, pointer>>

(* A press on the price panel or on a splitter, or anywhere else outside. *)
PressOutside(onScale) ==
    /\ pointer = Null /\ ~button
    /\ button' = TRUE /\ scaling' = onScale
    /\ UNCHANGED <<listVars, scrollVars, pointer, pan, grabbed, stretch, leaked, drawingVars>>
--------------------------------------------------------------------------------
(* The stretched time scale: the slot follows the pointer, its anchor stays where it was. *)
(* scrollLeft is set before the spacer has followed. *)
Stretch(s) ==
    LET next == Clip(Anchored(stretch.x, stretch.scroll, stretch.slot, s), 0, Extent(candles, s))
    IN /\ slot' = s
       /\ scrollLeft' = Min({Clip(next, 0, Extent(candles, slot)), Extent(candles, s)})
       /\ scrolled' = (scrolled \/ scrollLeft' # scrollLeft)
       /\ view' = next
       /\ adrift' = (view' # scrollLeft' /\ ~scrolled')

Pan(x) ==
    /\ Scroll(grabbed.scroll - (x - grabbed.x), Extent(candles, slot))
    /\ view' = grabbed.scroll - (x - grabbed.x)
    /\ adrift' = (view' # scrollLeft' /\ ~scrolled')
    /\ UNCHANGED slot

(* handleMouseMove, and the window's handler of a stretch, which has the last word. *)
MouseMove(x) ==
    LET drawn == (progress # Null \/ drag # Null) /\ candles > 0
    IN /\ x # pointer
       /\ pointer' = x
       /\ \/ stretch # Null /\ Stretch(Clip(stretch.slot + x - stretch.x, Min(Slots), Max(Slots)))
          \/ stretch = Null /\ pan /\ ~drawn /\ Pan(x)
          \/ stretch = Null /\ (drawn \/ ~pan) /\ UNCHANGED <<slot, scrollVars>>
       /\ UNCHANGED <<candles, fitted, button, gestureVars, drawingVars>>

(* A stretch goes on outside. *)
MoveOutside(s) ==
    /\ pointer = Null /\ stretch # Null
    /\ Stretch(s)
    /\ UNCHANGED <<candles, fitted, pointer, button, gestureVars, drawingVars>>

(* handleMouseUpOrLeave: a drawing is finished, or a channel goes on to its second click, or *)
(* a dragged drawing is let go, or a pan ends; the first that applies, and no other.  A text *)
(* is dropped when its prompt is cancelled. *)
UpOrLeave ==
    \/ /\ progress # Null /\ progress.stage = 1
       /\ progress' = [progress EXCEPT !.stage = 2]
       /\ UNCHANGED <<tool, drawings, drag, pan, grabbed, leaked>>
    \/ /\ progress # Null /\ progress.stage # 1
       /\ \/ drawings' = drawings \union {progress.id}
          \/ progress.type = "text" /\ UNCHANGED drawings
       /\ progress' = Null /\ tool' = Null
       /\ UNCHANGED <<drag, pan, grabbed, leaked>>
    \/ /\ progress = Null /\ drag # Null
       /\ drag' = Null /\ leaked' = leaked \ {"drag"}
       /\ UNCHANGED <<tool, progress, drawings, pan, grabbed>>
    \/ /\ progress = Null /\ drag = Null
       /\ pan' = FALSE /\ grabbed' = NotGrabbed /\ leaked' = leaked \ {"pan"}
       /\ UNCHANGED <<tool, progress, drawings, drag>>

MouseLeaveUnheard ==
    /\ pointer # Null
    /\ pointer' = Null
    /\ UNCHANGED <<listVars, scrollVars, button, gestureVars, drawingVars>>

MouseLeave ==
    /\ pointer # Null
    /\ pointer' = Null
    /\ UpOrLeave
    /\ UNCHANGED <<listVars, scrollVars, button, stretch, scaling, selected>>

(* Over the container both handlers hear of it, elsewhere the window's only. *)
MouseUp ==
    /\ button
    /\ button' = FALSE
    /\ stretch' = Null /\ scaling' = FALSE
    /\ \/ pointer # Null /\ UpOrLeave
       \/ pointer = Null /\ UNCHANGED <<tool, progress, drawings, drag, pan, grabbed, leaked>>
    /\ UNCHANGED <<listVars, scrollVars, pointer, selected>>
--------------------------------------------------------------------------------
SelectTool(t) ==
    /\ pointer = Null /\ ~button
    /\ tool' = IF tool = t THEN Null ELSE t
    /\ UNCHANGED <<listVars, scrollVars, pointer, button, gestureVars,
                   progress, drawings, selected, drag>>

ClearDrawings ==
    /\ pointer = Null /\ ~button /\ drawings # {}
    /\ drawings' = {} /\ selected' = Null
    /\ UNCHANGED <<listVars, scrollVars, pointer, button, gestureVars, tool, progress, drag>>

(* Delete or Backspace, at any time, in the middle of a drag too. *)
DeleteKey ==
    /\ selected # Null
    /\ drawings' = drawings \ {selected} /\ selected' = Null
    /\ UNCHANGED <<listVars, scrollVars, pointer, button, gestureVars, tool, progress, drag>>

ChartInit ==
    /\ candles = 0 /\ slot = Max(Slots) /\ fitted = Null
    /\ scrollLeft = 0 /\ view = 0 /\ scrolled = FALSE /\ adrift = FALSE
    /\ pointer = Null /\ button = FALSE
    /\ pan = FALSE /\ grabbed = NotGrabbed /\ stretch = Null /\ scaling = FALSE
    /\ tool = Null /\ progress = Null /\ drawings = {} /\ selected = Null /\ drag = Null
    /\ leaked = {}

ChartNext ==
    \/ OnScroll \/ CandlesGone \/ MouseLeave \/ MouseUp \/ ClearDrawings \/ DeleteKey
    \/ \E n \in 1 .. MaxCandles : CandlesChange(n)
    \/ \E x \in 0 .. Extent(candles, slot) : DragScrollBar(x)
    \/ \E s \in Slots : ZoomButton(s) \/ Wheel(s) \/ MoveOutside(s)
    \/ \E b \in BOOLEAN : MouseDown(b) \/ PressOutside(b)
    \/ \E x \in Positions : MouseMove(x)
    \/ \E t \in Tools : SelectTool(t)
--------------------------------------------------------------------------------
(* Nothing is dragged without the button: the up and leave events that are *)
(* spread over the container and the window end every gesture.  What       *)
(* escapes is a pan or the drag of a drawing that began while a channel    *)
(* waited for its second click, or a pan begun under such a drag:          *)
(* handleMouseUpOrLeave finishes the other one and returns, and the chart  *)
(* or the drawing goes on following the free pointer (ClusterChart.tsx:    *)
(* 1024, :1050).                                                           *)
GestureNeedsButton ==
    /\ (stretch # Null \/ scaling) => button
    /\ (progress # Null /\ progress.stage # 2) => button
    /\ drag # Null => button \/ "drag" \in leaked
    /\ pan => button \/ "pan" \in leaked

(* The canvas is drawn for the place the container is scrolled to, or will *)
(* be when the scroll event comes, whatever mixture of wheel, buttons,     *)
(* scroll bar, new candles, new pairs and resizes came before.  Three      *)
(* things can leave them apart: a pan beyond an end, for which there is    *)
(* nothing to scroll and no event, and a stretch, or the default zoom of   *)
(* a new pair, that wants to go where the spacer does not reach yet        *)
(* (ClusterChart.tsx:1007, ClusterChart.tsx:1614, ClusterChart.tsx:560).   *)
ScrollInStep == (candles > 0 /\ view # scrollLeft) => scrolled \/ adrift
================================================================================
