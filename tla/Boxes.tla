------------------------------- MODULE Boxes -------------------------------
(***************************************************************************)
(* Where the widgets of a window come to lie: horizontal and vertical      *)
(* boxes (egui/hbox.c, egui/vbox.c) in a window (egui/window.c). A change  *)
(* asks for a layout: each box on the way up works out what it needs at    *)
(* least and what it would like to have, the window takes a size, and the  *)
(* boxes lay out their children on the way down. The two kinds of boxes    *)
(* are mirror images; x and y are w and h as well.                         *)
(***************************************************************************)
EXTENDS Integers, Sequences, SequencesExt, FiniteSetsExt

CONSTANTS
    LaidWidget,     \* the widgets, boxes and the window
    LaidWindow,
    Outermost,      \* the box the window holds
    Main,           \* of each box: "x" of an hbox, "y" of a vbox
    Expand,         \* of each widget: the axes along which its maximum is 0
    MinSize,        \* of each widget that is no box: its minimum at first
    Build,          \* pairs <<box, child>>: what the program adds, in order
    Styles,         \* layout, spacing, border_width and align of each box, some choices of
    Fickle,         \* widgets that are shown and hidden
    Mobile,         \* widgets that are taken out and added
    Asks,           \* pairs <<widget, size>> a program asks for (bound)
    NewWidths,      \* pairs <<widget, width>> widgets come to need at least (bound)
    Windows,        \* sizes the user gives the window (bound)
    MaxChildren,    \* bound on child_num
    MaxSide,        \* bound on the sides of the window, which would grow without end
    MaxPending,     \* requests that wait in the event queue (bound)
    NoBox           \* NULL

Axis == {"x", "y"}
Box == DOMAIN Main
Leaf == DOMAIN MinSize
Sizes == [Axis -> Nat]
Nothing == [a \in Axis |-> 0]

ASSUME BoxesAssumption ==
    /\ Outermost \in Box
    /\ \A b \in Box : Main[b] \in Axis
    /\ \A w \in Leaf : MinSize[w] \in Sizes
    /\ \A pair \in Asks : pair[1] \in Leaf /\ pair[2] \in Sizes
    /\ \A pair \in NewWidths : pair[1] \in Leaf /\ pair[2] \in Nat
    /\ NoBox \notin LaidWidget
    /\ LaidWidget = Box \cup Leaf \cup {LaidWindow}

VARIABLES
    style,          \* the choice the program made
    boxes           \* everything else

boxesVars == <<style, boxes>>

-----------------------------------------------------------------------------
(* What a box needs                                                         *)

Other(axis) == IF axis = "x" THEN "y" ELSE "x"
Border(b) == style[b].border_width
Spacing(b) == style[b].spacing
Seen(s, b) == SelectSeq(s.kids[b], LAMBDA k : k \in s.visible)
Grows(ks, axis) == SelectSeq(ks, LAMBDA k : axis \in Expand[k])
Total(s, ks, axis) == FoldLeft(LAMBDA n, k : n + s.min[k][axis], 0, ks)

\* The spacing between children, hidden ones included, and around them
Gaps(s, b) ==
    (Spacing(b) * s.child_num[b]) +
        (IF style[b].layout \in {"SPREAD", "START_SPACING", "END_SPACING", "CENTER"}
         THEN Spacing(b) ELSE -Spacing(b))

\* __hbox_set_min
SetMin(s, b) ==
    LET m == Main[b]
        ks == Seen(s, b)
        all == Total(s, ks, m)
        broadest == Max({0} \cup {s.min[k][Other(m)] : k \in ToSet(ks)})
    IN  [s EXCEPT
            !.expand_min[b] = Total(s, Grows(ks, m), m),
            !.children_min[b] = all,
            !.min[b] = [a \in Axis |->
                (2 * Border(b)) + (IF a = m THEN Gaps(s, b) + all ELSE broadest)]]

\* What a child asks for, and of the others what they have
Wish(s, k, child, req) == IF k = child THEN req ELSE s.size[k]

\* get_expand_w along the box, get_expand_h across. Along the box a hidden child has
\* its say, too. A quotient by a minimum of 0 becomes the smallest integer on the
\* machines the toolkit is built for and is ignored.
ExpandAlong(s, b, child, req) ==
    LET m == Main[b]
        kids == {k \in ToSet(Grows(s.kids[b], m)) : s.min[k][m] > 0}
    IN  IF m \in Expand[b] /\ s.expand_min[b] > 0
        THEN Max({0} \cup
                 {(s.expand_min[b] * Wish(s, k, child, req)[m]) \div s.min[k][m] : k \in kids})
             + (2 * Border(b)) + Gaps(s, b) + s.children_min[b] - s.expand_min[b]
        ELSE s.min[b][m]
ExpandAcross(s, b, child, req) ==
    LET c == Other(Main[b]) IN
    IF c \in Expand[b]
    THEN Max({0} \cup {Wish(s, k, child, req)[c] : k \in ToSet(Seen(s, b))}) + (2 * Border(b))
    ELSE s.min[b][c]

-----------------------------------------------------------------------------
(* Laying out                                                               *)

Fixed(s, k, want) ==
    [a \in Axis |->
        IF want[a] < s.min[k][a] \/ a \notin Expand[k] THEN s.min[k][a] ELSE want[a]]

\* Division as in C
Quotient(n, d) == IF n < 0 THEN -((-n) \div d) ELSE n \div d

\* Where the first child comes, after the border, and what is left between two: left is
\* the room the children leave.
Leading(s, b, left) ==
    CASE style[b].layout = "EDGE" ->
            IF s.child_num[b] = 1 THEN Quotient(left + Spacing(b), 2) ELSE 0
      [] style[b].layout = "SPREAD" ->
            (IF left > 0 THEN left \div (s.child_num[b] + 1) ELSE 0) + Spacing(b)
      [] style[b].layout = "START" -> 0
      [] style[b].layout = "START_SPACING" -> Spacing(b)
      [] style[b].layout = "END" -> left
      [] style[b].layout = "END_SPACING" -> left + Spacing(b)
      [] style[b].layout = "CENTER" -> Quotient(left, 2) + Spacing(b)
Between(s, b, left) ==
    CASE style[b].layout = "EDGE" ->
            IF s.child_num[b] = 1 THEN left + Spacing(b)
            ELSE Quotient(left, s.child_num[b] - 1) + Spacing(b)
      [] style[b].layout = "SPREAD" -> Leading(s, b, left)
      [] OTHER -> Spacing(b)

Aligned(b, room) ==
    CASE style[b].align = "Start" -> 0
      [] style[b].align = "End" -> Max({room, -room})
      [] style[b].align = "Center" -> Max({Quotient(room, 2), Quotient(-room, 2)})

\* mutant: children that grow share what they need, not what those that grow need
ShareOfAll(s, b, k, inner, grow) ==
    [a \in Axis |->
        CASE a \notin Expand[k] -> s.min[k][a]
          [] a \in Expand[k] /\ a = Main[b] ->
                Quotient(grow * s.min[k][a], Max({1, s.children_min[b]}))
          [] OTHER -> inner[a]]

\* hbox_resize: what the children get
Share(s, b, k, inner, grow) ==
    [a \in Axis |->
        CASE a \notin Expand[k] -> s.min[k][a]
          [] a \in Expand[k] /\ a = Main[b] ->
                Quotient(grow * s.min[k][a], Max({1, s.expand_min[b]}))
          [] OTHER -> inner[a]]

\* egui_move_resize and widget_request_resize, which have a box lay out its children
RECURSIVE Resize(_, _, _)
Give(s, k, want) ==
    LET got == Fixed(s, k, want)
        t == [s EXCEPT !.size[k] = got]
    IN  IF k \in Box THEN Resize(t, k, got) ELSE t

\* hbox_resize: room is shared, then the children are placed one after the other
Resize(s, b, size) ==
    LET m == Main[b]
        ks == Seen(s, b)
        inner == [a \in Axis |->
            size[a] - (2 * Border(b)) - (IF a = m THEN Gaps(s, b) ELSE 0)]
        grow == inner[m] - (s.children_min[b] - s.expand_min[b])
        req == [k \in ToSet(ks) |-> Share(s, b, k, inner, grow)]
        left == inner[m] - FoldLeft(LAMBDA n, k : n + req[k][m], 0, ks)
        step == Between(s, b, left)
        Place(p, k) ==
            LET offset == p.offset[m]
                \* the last of the list goes one further, if there is room
                one == IF k = Last(s.kids[b]) /\ offset + req[k][m] < size[m] THEN 1 ELSE 0
                where == [a \in Axis |->
                    IF a = m THEN offset + one
                    ELSE Border(b) + Aligned(b, inner[a] - req[k][a])]
            IN  [offset |-> [p.offset EXCEPT ![m] = @ + req[k][m] + step],
                 state |-> Give([p.state EXCEPT !.at[k] = where], k, req[k])]
        start == [a \in Axis |-> Border(b) + (IF a = m THEN Leading(s, b, left) ELSE 0)]
        garbled == IF Grows(ks, m) # <<>> /\ s.expand_min[b] = 0
                   THEN s.garbled \cup {b} ELSE s.garbled \ {b}
        t == [s EXCEPT !.size[b] = size, !.garbled = garbled]
    IN  FoldLeft(Place, [offset |-> start, state |-> t], ks).state

Inside(b, size) == [a \in Axis |-> size[a] - (2 * Border(b))]
GiveContent(s) ==
    FoldLeft(LAMBDA t, k : Give(t, k, Inside(LaidWindow, t.size[LaidWindow])),
             s, s.kids[LaidWindow])

-----------------------------------------------------------------------------
(* Asking for a layout                                                      *)

\* window_request_layout
WindowLayout(s, req, grows) ==
    IF s.kids[LaidWindow] = <<>> THEN s
    ELSE LET k == Head(s.kids[LaidWindow])
             min == [a \in Axis |-> s.min[k][a] + (2 * Border(LaidWindow))]
         IN  GiveContent([s EXCEPT
                !.min[LaidWindow] = min,
                !.size[LaidWindow] = [a \in Axis |->
                    Max({min[a], IF grows THEN @[a] ELSE req[a] + (2 * Border(LaidWindow))})]])

\* __hbox_request_layout: fixed, only what needs more gets more. A box that is in no
\* window lays out itself.
RECURSIVE RequestLayout(_, _, _, _, _, _)
RequestLayout(s, b, child, req, fixed, add) ==
    LET t == SetMin(s, b)
        asks == add \/ ~fixed
        want == [a \in Axis |->
            CASE ~asks -> 0
              [] asks /\ a = Main[b] -> ExpandAlong(t, b, child, req)
              [] OTHER -> ExpandAcross(t, b, child, req)]
        parent == t.parent[b]
    IN  CASE parent = NoBox -> Resize(t, b, want)
          [] parent = LaidWindow -> WindowLayout(t, want, add \/ fixed)
          [] OTHER -> RequestLayout(t, parent, IF asks THEN b ELSE NoBox, want, fixed, add)

\* egui_request_layout on the container of w, if it is in one, as showing, hiding and
\* changes of w do
Relayout(s, w, child, req, fixed, add) ==
    CASE s.parent[w] = NoBox -> s
      [] s.parent[w] = LaidWindow -> WindowLayout(s, req, add \/ fixed)
      [] OTHER -> RequestLayout(s, s.parent[w], child, req, fixed, add)

\* egui_add and hbox_add
Added(s, b, w) ==
    RequestLayout([s EXCEPT
        !.size[w] = [a \in Axis |-> Max({@[a], s.min[w][a]})],
        !.parent[w] = b,
        !.kids[b] = Append(@, w),
        !.child_num[b] = @ + 1], b, NoBox, Nothing, FALSE, TRUE)

-----------------------------------------------------------------------------
(* What programs and users do                                               *)

Bare ==
    [visible |-> LaidWidget,
     parent |-> [w \in LaidWidget |-> IF w = Outermost THEN LaidWindow ELSE NoBox],
     kids |-> [b \in Box \cup {LaidWindow} |-> IF b = LaidWindow THEN <<Outermost>> ELSE <<>>],
     child_num |-> [b \in Box |-> 0], expand_min |-> [b \in Box |-> 0],
     children_min |-> [b \in Box |-> 0],
     min |-> [w \in LaidWidget |-> IF w \in Leaf THEN MinSize[w] ELSE Nothing],
     size |-> [w \in LaidWidget |-> Nothing], at |-> [w \in LaidWidget |-> Nothing],
     pending |-> <<>>, garbled |-> {}]

BoxesInit ==
    /\ style \in Styles
    /\ boxes = FoldLeft(LAMBDA s, pair : Added(s, pair[1], pair[2]), Bare, Build)

ShowBox(w, fixed) ==
    /\ w \notin boxes.visible
    /\ boxes' = Relayout([boxes EXCEPT !.visible = @ \cup {w}], w, NoBox, Nothing, fixed, FALSE)

HideBox(w, fixed) ==
    /\ w \in boxes.visible
    /\ boxes' = Relayout([boxes EXCEPT !.visible = @ \ {w}], w, NoBox, Nothing, fixed, FALSE)

\* A private event for the container of w
Posted(s, w, child, req, fixed) ==
    [s EXCEPT !.pending = Append(@, 
        [of |-> s.parent[w], child |-> child, req |-> req, fixed |-> fixed])]
RoomToAsk == Len(boxes.pending) < MaxPending

\* egui_show_async and egui_hide_async
Switch(w, fixed) ==
    /\ boxes.parent[w] # NoBox /\ RoomToAsk
    /\ LET seen == IF w \in boxes.visible THEN boxes.visible \ {w} ELSE boxes.visible \cup {w} IN
        boxes' = Posted([boxes EXCEPT !.visible = seen], w, NoBox, Nothing, fixed)

\* egui_request_resize of a widget in a container
AskSize(w, size) ==
    /\ boxes.parent[w] # NoBox /\ RoomToAsk
    /\ boxes' = Posted(boxes, w, w, [a \in Axis |-> Max({size[a], boxes.min[w][a]})], FALSE)

Dispatched(s, r) ==
    IF r.of = LaidWindow THEN WindowLayout(s, r.req, r.fixed)
    ELSE RequestLayout(s, r.of, r.child, r.req, r.fixed, FALSE)
LayoutEvent ==
    /\ boxes.pending # <<>>
    /\ boxes' = Dispatched([boxes EXCEPT !.pending = Tail(@)], Head(boxes.pending))

\* ddlist_add: an item that is added may need more room.
Needs(w, width) ==
    boxes' = Relayout([boxes EXCEPT !.min[w]["x"] = width], w, NoBox, Nothing, FALSE, TRUE)

\* egui_remove, with box_remove and bin_remove: child_num stays. A relayout goes to the
\* parent, which the widget has no longer, so it comes to nothing.
TakeOut(w) ==
    /\ boxes.parent[w] \in Box
    /\ boxes' = [boxes EXCEPT
        !.kids[boxes.parent[w]] = SelectSeq(@, LAMBDA k : k # w),
        !.parent[w] = NoBox]

PutIn(w, b) ==
    /\ boxes.parent[w] = NoBox
    /\ boxes.child_num[b] < MaxChildren
    /\ boxes' = Added(boxes, b, w)

\* window_resize: the window system tells a new size, no smaller than the hints.
UserResize(size) ==
    /\ \A a \in Axis : size[a] >= boxes.min[LaidWindow][a]
    /\ size # boxes.size[LaidWindow]
    /\ boxes' = GiveContent([boxes EXCEPT !.size[LaidWindow] = size])

BoxesNext ==
    /\ UNCHANGED style
    /\ \/ \E w \in Fickle, fixed \in BOOLEAN :
            ShowBox(w, fixed) \/ HideBox(w, fixed) \/ Switch(w, fixed)
       \/ \E pair \in Asks : AskSize(pair[1], pair[2])
       \/ \E pair \in NewWidths : Needs(pair[1], pair[2])
       \/ \E w \in Mobile : TakeOut(w) \/ \E b \in Box : PutIn(w, b)
       \/ \E size \in Windows : UserResize(size)
       \/ LayoutEvent
    /\ \A a \in Axis : boxes'.size[LaidWindow][a] <= MaxSide

BoxesSpec == BoxesInit /\ [][BoxesNext]_boxesVars

-----------------------------------------------------------------------------
(* Properties                                                               *)

\* The boxes on the screen: visible and in the window, with every box around them
RECURSIVE OnScreen(_)
OnScreen(w) ==
    w = LaidWindow \/ (w # NoBox /\ w \in boxes.visible /\ OnScreen(boxes.parent[w]))

End(k, a) == boxes.at[k][a] + boxes.size[k][a]

\* Every child that is shown lies in its box and has what it needs at least.
Within(b) ==
    \A k \in ToSet(Seen(boxes, b)), a \in Axis :
        /\ boxes.at[k][a] >= 0 /\ End(k, a) <= boxes.size[b][a]
        /\ boxes.size[k][a] >= boxes.min[k][a]

\* The children come in the order they were added in, and none covers another.
InOrder(b) ==
    LET ks == Seen(boxes, b) IN
    \A i \in 1..Len(ks) - 1 : End(ks[i], Main[b]) <= boxes.at[ks[i + 1]][Main[b]]

\* If one of them can grow they fill the box, but for what is lost by rounding, unless
\* the box has not heard of a child taken out.
Filled(b) ==
    LET m == Main[b]
        ks == Seen(boxes, b)
        grow == Grows(ks, m)
        used == (2 * Border(b)) + Gaps(boxes, b) +
                FoldLeft(LAMBDA n, k : n + boxes.size[k][m], 0, ks)
    IN  grow # <<>> /\ b \notin boxes.garbled /\ boxes.children_min[b] = Total(boxes, ks, m) =>
            used \in boxes.size[b][m] - Len(grow) + 1..boxes.size[b][m]

\* Once no request for a layout waits, the widgets lie as they should: the box the
\* window holds fills the window, and in every box on the screen the children shown
\* are within the box, none smaller than it may be, in order without covering one
\* another, and together they take the room there is. Requests come in any order
\* with hiding, showing, changes of what a widget needs, the user's own resizing and
\* children that move, and each box remembers sums over children that may be stale
\* (gui.c:597-767, hbox.c:126-386, window.c:279-436).
LaidOut ==
    boxes.pending = <<>> =>
        /\ boxes.size[Outermost] =
                Fixed(boxes, Outermost, Inside(LaidWindow, boxes.size[LaidWindow]))
        /\ \A b \in Box : OnScreen(b) => Within(b) /\ InOrder(b) /\ Filled(b)
=============================================================================
