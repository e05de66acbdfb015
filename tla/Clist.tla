------------------------------- MODULE Clist -------------------------------
(***************************************************************************)
(* The list widget of egui/clist.c with its scroll bar: items in a list,   *)
(* each with its index; the highlighted one; the offset of the view, with  *)
(* the item at its top kept as a pointer; and the adjust and the bar, which *)
(* the list sets and which set the list's offset in turn when they move.   *)
(***************************************************************************)
EXTENDS Integers, Sequences, SequencesExt, FiniteSetsExt

CONSTANTS
    Item,           \* addresses items may get
    NoItem,         \* NULL
    Heights,        \* heights of the view (bound)
    ItemHeights,    \* heights of items (bound), of which one is the first
    ItemHeight,
    BarSlots,       \* lengths of the bar's slot (bound)
    DragMin,        \* DRAG_SIZE_MIN
    Scale           \* 2^SCALE

ASSUME ClistAssumption ==
    /\ NoItem \notin Item
    /\ ItemHeight \in ItemHeights
    /\ ItemHeights \subseteq Nat \ {0}
    /\ Heights \subseteq Nat
    /\ DragMin \in Nat \ {0}
    /\ \A n \in BarSlots : n \in Nat /\ n > DragMin
    /\ Scale \in Nat \ {0}

VARIABLE clist

\* Of the list: items, their indexes, item_n, hlight, top, offset_y, ibar_h, view_h. Of
\* the adjust: value, min, max, step_inc. Of the bar: slot_size, steps, act_rn,
\* move_val. And of the history: what has happened to the items since top was looked up,
\* whether the bar's bounds changed since move_val was computed, and whether a pointer to
\* memory that was freed has been used.
ClistInit ==
    clist = [items |-> <<>>, index |-> [i \in Item |-> 0], item_n |-> 0, hlight |-> NoItem,
             top |-> NoItem, offset_y |-> 0, ibar_h |-> ItemHeight, view_h |-> 0,
             value |-> 0, min |-> 1, max |-> 1, step_inc |-> 0,
             slot_size |-> DragMin, steps |-> 0, act_rn |-> "none", move_val |-> -1,
             excuse |-> {}, late |-> {}, undefined |-> FALSE]

IndexToItem(s, id) ==
    LET at == {i \in DOMAIN s.items : s.index[s.items[i]] = id} IN
    IF at = {} THEN NoItem ELSE s.items[Min(at)]
Place(s, ibar) == SelectInSeq(s.items, LAMBDA i : i = ibar)
Height(s) == s.item_n * s.ibar_h
LookedUp(s) ==
    [s EXCEPT !.top = IndexToItem(s, s.offset_y \div s.ibar_h), !.excuse = {}]

-----------------------------------------------------------------------------
(* The adjust and the bar                                                   *)

DragSize(s) == Max({DragMin, (s.slot_size * s.min) \div s.max})
BarSpan(s) == s.slot_size - DragSize(s)
AdjSpan(s) == s.max - s.min

\* Steps of the bar for a value of the adjust, and the value for steps: fixed point, each
\* with the rest of its own division. Without a span the division is by zero; as an
\* unsigned number its quotient is 0 on the machines the toolkit is built for.
BarStep(s) == IF AdjSpan(s) = 0 THEN 0 ELSE (BarSpan(s) * Scale) \div AdjSpan(s)
StepsOf(s, value) == (value * BarStep(s)) + ((BarSpan(s) * Scale) - (BarStep(s) * AdjSpan(s)))
ValueOf(s) ==
    LET step == (AdjSpan(s) * Scale) \div BarSpan(s)
        recoup == (AdjSpan(s) * Scale) - (step * BarSpan(s))
    IN  (((s.steps \div Scale) * step) + recoup) \div Scale

\* clist_vadjust_update
Scrolled(s, value) == LookedUp([s EXCEPT !.offset_y = value])

\* __vscrollbar_update
Clamped(s, steps) == Max({0, Min({steps, BarSpan(s) * Scale})})

\* scrollbar_set, and scrollbar_reset: the list hears of it only when the bar moves.
Follow(s) ==
    LET steps == Clamped(s, StepsOf(s, s.value)) IN
    IF steps = s.steps THEN s ELSE Scrolled([s EXCEPT !.steps = steps], s.value)

\* egui_adjust_set_hook and egui_adjust_reset_hook
SetHook(s, value) ==
    LET v == Min({value, s.max - s.min}) IN
    IF v = s.value THEN s ELSE Follow([s EXCEPT !.value = v])
ResetHook(s, value, min, max, inc) ==
    Follow([s EXCEPT !.value = value, !.min = min, !.max = max, !.step_inc = inc,
                     !.late = IF s.move_val >= 0 THEN {"pending"} ELSE {}])

-----------------------------------------------------------------------------
(* The helpers of the list                                                  *)

\* set_hlight
SetHlight(s, ibar) ==
    LET pos == s.index[ibar] * s.ibar_h
        offset == IF pos < s.offset_y THEN pos
                  ELSE IF pos + s.ibar_h > s.offset_y + s.view_h THEN pos + s.ibar_h - s.view_h
                  ELSE IF Height(s) - s.offset_y < s.view_h /\ s.offset_y > 0
                  THEN Max({Height(s) - s.view_h, 0}) ELSE s.offset_y
    IN  SetHook(Scrolled([s EXCEPT !.hlight = ibar], offset), offset)

LoweredNot(s) == s.offset_y                                        \* mutant

Lowered(s) == Min({s.offset_y, Height(s) - s.view_h})

\* reset_adjust
ResetAdjust(s) ==
    IF Height(s) > s.view_h
    THEN LET offset == Lowered(s) IN
         ResetHook([s EXCEPT !.offset_y = offset,
                             !.excuse = IF offset = s.offset_y THEN @ ELSE @ \cup {"moved"}],
                   offset, s.view_h, Height(s), s.ibar_h)
    ELSE Scrolled(ResetHook(s, 0, 1, 1, 0), 0)

\* The items from the at-th on are numbered from first on.
Numbered(s, at, first) ==
    [s EXCEPT !.index = [i \in Item |-> IF Place(s, i) >= at
                                        THEN first + Place(s, i) - at ELSE @[i]],
              !.item_n = first + Len(s.items) + 1 - at]

\* point_to_item
PointToItem(s, y) ==
    IF s.top = NoItem THEN NoItem
    ELSE LET from == s.index[s.top]
             hit == Max({from, (y + s.offset_y) \div s.ibar_h})
             at == Place(s, s.top) + (hit - from)
         IN  IF at > Len(s.items) THEN NoItem ELSE s.items[at]

-----------------------------------------------------------------------------
(* What a program does with a list                                          *)

IfUnlit(s, ibar) == IF s.hlight = NoItem THEN SetHlight(s, ibar) ELSE s
With(at, ibar) ==
    [clist EXCEPT !.items = InsertAt(@, at, ibar),
                  !.excuse = IF clist.top = NoItem \/ at <= Place(clist, clist.top)
                             THEN @ \cup {"moved"} ELSE @]
New == Item \ ToSet(clist.items)

\* egui_clist_append
AppendItem(ibar) ==
    LET s == Numbered(With(Len(clist.items) + 1, ibar), Len(clist.items) + 1, clist.item_n)
    IN  clist' = ResetAdjust(IfUnlit([s EXCEPT !.top = IF @ = NoItem THEN ibar ELSE @], ibar))

\* egui_clist_insert: before the first item the program finds greater
InsertItem(ibar, at) ==
    LET first == IF at <= Len(clist.items) THEN clist.index[clist.items[at]] ELSE clist.item_n
    IN  clist' = ResetAdjust(IfUnlit(Numbered(With(at, ibar), at, first), ibar))

\* egui_clist_hlight_insert and egui_clist_hlight_insert_valist
HlightInsert(ibar, valist) ==
    LET at == IF clist.hlight = NoItem THEN 1 ELSE Place(clist, clist.hlight)
        s == [Numbered(With(at, ibar), 1, 0) EXCEPT !.hlight = ibar]
    IN  clist' = IF valist THEN ResetAdjust(SetHlight(s, ibar)) ELSE SetHlight(ResetAdjust(s), ibar)

\* __clist_delete
Heir(ibar) ==
    LET at == Place(clist, ibar) IN
    IF at < Len(clist.items) THEN clist.items[at + 1]
    ELSE IF at > 1 THEN clist.items[at - 1] ELSE NoItem
DeleteItem(ibar) ==
    LET heir == IF clist.hlight = ibar THEN Heir(ibar) ELSE clist.hlight
        at == Place(clist, ibar)
        cut == [clist EXCEPT !.items = RemoveAt(@, at), !.hlight = heir,
                             !.excuse = IF heir = NoItem THEN @ \cup {"deleted"} ELSE @,
                             !.top = IF clist.hlight = ibar /\ heir = NoItem THEN NoItem ELSE @]
        s == Numbered(cut, at, clist.index[ibar])
        freed == [s EXCEPT !.index[ibar] = 0]
    IN  clist' = ResetAdjust(IF heir = NoItem THEN freed ELSE SetHlight(freed, heir))

\* egui_clist_empty
EmptyList ==
    /\ clist.item_n # 0
    /\ clist' = [clist EXCEPT !.items = <<>>, !.index = [i \in Item |-> 0], !.top = NoItem,
                              !.hlight = NoItem, !.item_n = 0, !.offset_y = 0]

\* egui_clist_set_hlight, egui_clist_unset_hlight, egui_clist_set_item_height
GiveHlight(ibar) == clist' = SetHlight(clist, ibar)
UnsetHlight == clist' = [clist EXCEPT !.hlight = NoItem]
SetItemHeight(h) ==
    clist' = ResetAdjust([clist EXCEPT !.ibar_h = h, !.excuse = @ \cup {"moved"}])

-----------------------------------------------------------------------------
(* What the window system and the user do                                   *)

TopFreed(s) == s.top \notin ToSet(s.items) \cup {NoItem}
Undefined(s) == [s EXCEPT !.undefined = TRUE]

\* view_resize
ViewResize(h) ==
    LET s == ResetAdjust([clist EXCEPT !.view_h = h]) IN
    clist' = [s EXCEPT !.top = LookedUp([s EXCEPT !.offset_y = s.value]).top, !.excuse = {}]

\* vscrollbar_resize
BarResize(n) == clist' = Follow([clist EXCEPT !.slot_size = n])

\* view_lbuttondown and view_rbuttondown
Click(y) ==
    \/ TopFreed(clist) /\ clist' = Undefined(clist)
    \/ /\ ~TopFreed(clist)
       /\ PointToItem(clist, y) # NoItem
       /\ clist' = [clist EXCEPT !.hlight = PointToItem(clist, y)]

\* view_keydown
ViewKeyDown ==
    LET at == IF clist.hlight = NoItem THEN 1 ELSE Place(clist, clist.hlight) + 1 IN
    at <= Len(clist.items) /\ clist' = SetHlight(clist, clist.items[at])
ViewKeyUp ==
    LET at == IF clist.hlight = NoItem THEN Len(clist.items) ELSE Place(clist, clist.hlight) - 1 IN
    at >= 1 /\ clist' = SetHlight(clist, clist.items[at])

\* view_focus_in and view_focus_out
GotFocus(s) ==
    IF s.hlight # NoItem THEN s
    ELSE IF TopFreed(s) THEN Undefined(s) ELSE [s EXCEPT !.hlight = s.top]
ViewFocusIn == clist' = GotFocus(clist)
ViewFocusOut ==
    LET pos == clist.index[clist.hlight] * clist.ibar_h
        s == IF pos < clist.offset_y THEN [clist EXCEPT !.offset_y = pos, !.top = clist.hlight]
             ELSE Scrolled(clist, pos + clist.ibar_h - clist.view_h)
    IN  /\ clist.hlight # NoItem
        /\ \/ pos < clist.offset_y
           \/ pos + clist.ibar_h > clist.offset_y + clist.view_h
        /\ clist' = SetHook(s, s.offset_y)

\* scrollbar_lbuttondown on a button, by which the view may get the focus, and
\* timer_down_cb as long as it is held
BnMoved(bn) ==
    LET by == clist.step_inc * BarStep(clist) + StepsOf(clist, 0)
        s == [clist EXCEPT !.act_rn = bn,
                 !.steps = Clamped(clist, IF bn = "rn1" THEN @ - by ELSE @ + by)]
    IN  IF s.steps = clist.steps THEN s
        ELSE Scrolled([s EXCEPT !.value = ValueOf(s)], ValueOf(s))
BnDown(bn) ==
    \/ clist.act_rn = "none" /\ clist' \in {BnMoved(bn), GotFocus(BnMoved(bn))}
    \/ clist.act_rn = bn /\ clist' = BnMoved(bn)

\* scrollbar_lbuttondown on the drag, and scrollbar_mousemove
DragDown ==
    LET s == [clist EXCEPT !.act_rn = "drag"] IN
    clist.act_rn = "none" /\ clist' \in {s, GotFocus(s)}
DragMove(y) ==
    LET s == [clist EXCEPT !.steps = Clamped(clist, @ + y * Scale)] IN
    /\ clist.act_rn = "drag"
    /\ s.steps # clist.steps
    /\ clist' = [s EXCEPT !.move_val = ValueOf(s), !.late = @ \ {"pending"}]

\* timer_drag_cb, and scrollbar_lbuttonup
Dragged(s) ==
    IF s.move_val < 0 THEN s
    ELSE Scrolled([s EXCEPT !.value = s.move_val, !.move_val = -1,
                            !.late = IF "pending" \in @ THEN {"applied"} ELSE {}], s.move_val)
DragTimer == clist.act_rn = "drag" /\ clist' = Dragged(clist)
ButtonUp == clist.act_rn # "none" /\ clist' = [Dragged(clist) EXCEPT !.act_rn = "none"]

ClistNext ==
    ~clist.undefined /\ (
    \/ \E ibar \in New :
        \/ AppendItem(ibar)
        \/ \E at \in 1..Len(clist.items) + 1 : InsertItem(ibar, at)
        \/ \E valist \in BOOLEAN : HlightInsert(ibar, valist)
    \/ \E ibar \in ToSet(clist.items) : DeleteItem(ibar) \/ GiveHlight(ibar)
    \/ EmptyList \/ UnsetHlight \/ ViewKeyDown \/ ViewKeyUp \/ ViewFocusIn \/ ViewFocusOut
    \/ \E h \in ItemHeights : SetItemHeight(h)
    \/ \E h \in Heights : ViewResize(h)
    \/ \E n \in BarSlots : BarResize(n)
    \/ \E y \in 0..clist.view_h - 1 : Click(y)
    \/ \E bn \in {"rn1", "rn2"} : BnDown(bn)
    \/ \E y \in {-1, 1} : DragMove(y)
    \/ DragDown \/ DragTimer \/ ButtonUp )

ClistSpec == ClistInit /\ [][ClistNext]_clist

-----------------------------------------------------------------------------
(* Properties                                                               *)

\* After any changes of the items, keys, clicks and scrolling, in any order: the indexes
\* count the items; the highlighted item is one of them; the item at the top is the one
\* the offset says, so that a click hits what is drawn there; the offset keeps the view
\* within the list. Not so, as the code is: nothing looks up the item at the top, so
\* that it may be a wrong or a freed one, when an item comes before it, or is deleted
\* while none is highlighted, when the height of items changes or the offset is lowered,
\* and the bar happens to stay where it was; and a drag computes its value when the
\* pointer moves, and applies it later, even if the list has become shorter meanwhile.
ClistSound ==
    /\ clist.item_n = Len(clist.items)
    /\ \A i \in DOMAIN clist.items : clist.index[clist.items[i]] = i - 1
    /\ clist.hlight \in ToSet(clist.items) \cup {NoItem}
    /\ TopFreed(clist) \/ clist.undefined => "deleted" \in clist.excuse
    /\ clist.excuse = {} =>
        /\ clist.top = IndexToItem(clist, clist.offset_y \div clist.ibar_h)
        /\ \A y \in 0..clist.view_h - 1 :
            PointToItem(clist, y) = IndexToItem(clist, (y + clist.offset_y) \div clist.ibar_h)
    /\ clist.item_n # 0 /\ "applied" \notin clist.late =>
            clist.offset_y \in 0..Max({0, Height(clist) - clist.view_h})
=============================================================================
