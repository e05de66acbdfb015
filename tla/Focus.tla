-------------------------------- MODULE Focus --------------------------------
(***************************************************************************)
(* Which widget of a window has the keyboard: each container (GuiBin) of   *)
(* egui/bin.c points at the child that has the focus in it, and the        *)
(* widgets on the way down carry a status bit. The pointers decide where a *)
(* key goes, the bits what is drawn; clicks, keys, hiding, removing and    *)
(* the window system change both, in handlers of one thread.               *)
(***************************************************************************)
EXTENDS Naturals, Sequences, SequencesExt

CONSTANTS
    Widget,         \* the widgets, containers among them
    Bin,            \* the containers
    Window,         \* the one at the top, always visible
    Content,        \* its only child, a container that stays in it
    Kids,           \* the children each container has at first, in order
    Movable,        \* the widgets the program takes out and puts back
    NoWidget

ASSUME FocusAssumption ==
    /\ Bin \subseteq Widget /\ {Window, Content} \subseteq Bin
    /\ Kids \in [Bin -> Seq(Widget)] /\ Kids[Window] = <<Content>>
    /\ Movable \subseteq Widget \ Bin
    /\ NoWidget \notin Widget

VARIABLES
    kids,           \* the children of a container, in order
    focus,          \* bin->focus
    lit,            \* the widgets with GuiStatusFocus
    visible,        \* the widgets with GuiStatusVisible; all have GuiStatusActive
    windowFocus,    \* whether the window has the focus of the window system
    hiddenFocused,  \* history: the widgets hidden while their parent pointed at them
    strayed         \* history: the widgets with a bit set under a hidden container, or
                    \* kept when they were taken out

focusVars == <<kids, focus, lit, visible, windowFocus, hiddenFocused, strayed>>

FocusTypeOK ==
    /\ kids \in [Bin -> Seq(Widget)]
    /\ focus \in [Bin -> Widget \cup {NoWidget}]
    /\ lit \cup visible \cup hiddenFocused \cup strayed \subseteq Widget
    /\ windowFocus \in BOOLEAN

\* wid->parent, as a set
Above(w) == {p \in Bin : Contains(kids[p], w)}

\* WIDGET_STATUS_ACTIVE
Active(w) == w \in visible

CanFocusAny(w) == w \in Bin => kids[w] # <<>>                      \* mutant

\* bin_can_focus
RECURSIVE CanFocus(_)
CanFocus(w) ==
    /\ Active(w)
    /\ w \in Bin => \E k \in ToSet(kids[w]) : CanFocus(k)

\* Whether p and all above it are active
RECURSIVE Shown(_)
Shown(p) == Active(p) /\ \A q \in Above(p) : Shown(q)

\* The pointers and the bits, as the functions below change them
Now == [focus |-> focus, lit |-> lit]

-----------------------------------------------------------------------------
(* bin.c                                                                    *)

\* bin_unset_focus, the unset_focus of a container; other widgets have their own
RECURSIVE BinUnset(_, _)
BinUnset(s, w) ==
    IF w \notin Bin \/ s.focus[w] = NoWidget THEN s
    ELSE LET below == BinUnset(s, s.focus[w]) IN
         [below EXCEPT !.lit = @ \ {s.focus[w]}, !.focus[w] = NoWidget]

LeaveFlat(s, p) == [s EXCEPT !.lit = @ \ {s.focus[p]}]              \* mutant

\* The child with the focus in p loses its bit, and so do those below it.
Leave(s, p) ==
    IF s.focus[p] = NoWidget THEN s
    ELSE [BinUnset(s, s.focus[p]) EXCEPT !.lit = @ \ {s.focus[p]}]

Enter(s, p, w) == [s EXCEPT !.focus[p] = w, !.lit = @ \cup {w}]

\* bin_switch_focus: the containers above follow, as long as they are active
RECURSIVE SwitchFocus(_, _, _)
SwitchFocus(s, p, w) ==
    IF s.focus[p] = w THEN s
    ELSE LET left == Leave(s, p)
             above == IF Active(p) /\ Above(p) # {}
                      THEN SwitchFocus(left, CHOOSE q \in Above(p) : TRUE, p)
                      ELSE left
         IN  Enter(above, p, w)

\* next_child: one that can have the focus, beyond the one that has it; a tab takes
\* the nearest in order, an arrow the nearest in place (near, any of them).
Beyond(p, from, dir) ==
    LET at == IF from = NoWidget THEN 0 ELSE IndexFirstSubSeq(<<from>>, kids[p]) IN
    {w \in ToSet(kids[p]) :
        /\ CanFocus(w)
        /\ LET i == IndexFirstSubSeq(<<w>>, kids[p]) IN
           at = 0 \/ (IF dir = "next" THEN i > at ELSE i < at)}
NextChild(p, from, dir, near) ==
    LET far == Beyond(p, from, dir)
        ahead == SelectSeq(kids[p], LAMBDA w : w \in far)
    IN  IF far = {} THEN NoWidget
        ELSE IF near \cap far # {} THEN CHOOSE w \in near \cap far : TRUE
        ELSE IF dir = "next" THEN Head(ahead) ELSE Last(ahead)

\* key_set_focus, bin->focus being replaced as it is
RECURSIVE KeySetFocus(_, _, _, _)
KeySetFocus(s, p, dir, near) ==
    LET w == NextChild(p, NoWidget, dir, near) IN
    IF w = NoWidget THEN s
    ELSE LET set == [s EXCEPT !.focus[p] = w]
             down == IF w \in Bin THEN KeySetFocus(set, w, dir, near) ELSE set
         IN  [down EXCEPT !.lit = @ \cup {w}]

\* key_switch_focus, and whether it found a child
KeySwitch(s, p, dir, near) ==
    LET w == NextChild(p, s.focus[p], dir, near)
        set == [Leave(s, p) EXCEPT !.focus[p] = w]
        down == IF w \in Bin THEN KeySetFocus(set, w, dir, near) ELSE set
    IN  IF w = NoWidget THEN [done |-> FALSE, s |-> s]
        ELSE IF s.focus[p] = NoWidget
             THEN [done |-> TRUE, s |-> KeySetFocus(s, p, dir, near)]
             ELSE [done |-> TRUE, s |-> [down EXCEPT !.lit = @ \cup {w}]]

\* bin_keydown: the child with the focus first
RECURSIVE KeyDown(_, _, _, _)
KeyDown(s, p, dir, near) ==
    LET below == IF s.focus[p] \in Bin THEN KeyDown(s, s.focus[p], dir, near)
                 ELSE [done |-> FALSE, s |-> s]
    IN  IF below.done THEN below ELSE KeySwitch(s, p, dir, near)

\* The widgets the keys pass, from the content down
RECURSIVE PathFrom(_)
PathFrom(w) ==
    {w} \cup IF w \in Bin /\ focus[w] # NoWidget THEN PathFrom(focus[w]) ELSE {}
Path == PathFrom(Content)

-----------------------------------------------------------------------------
(* What happens to a window                                                 *)

FocusInit ==
    /\ kids = Kids
    /\ focus = [p \in Bin |-> NoWidget]
    /\ lit = {} /\ hiddenFocused = {} /\ strayed = {}
    /\ visible = Widget
    /\ windowFocus = FALSE

Becomes(s, stray) ==
    /\ focus' = s.focus
    /\ lit' = s.lit
    /\ strayed' = (strayed \cup stray) \cap s.lit
    /\ hiddenFocused' = {w \in hiddenFocused : \E p \in Bin : s.focus[p] = w}

\* egui_set_focus, by a click (bin_buttondown) or by the program
SetFocus(w) ==
    /\ Active(w)
    /\ \E p \in Above(w) : Becomes(SwitchFocus(Now, p, w), IF Shown(p) THEN {} ELSE {w})
    /\ UNCHANGED <<kids, visible, windowFocus>>

\* egui_unset_focus, of the child its container points at
Dropped(w) ==
    IF ~Active(w) THEN Now
    ELSE [BinUnset(Now, w) EXCEPT
            !.lit = @ \ {w},
            !.focus = [p \in Bin |-> IF p \in Above(w) THEN NoWidget ELSE @[p]]]
UnsetFocus(w) ==
    /\ \E p \in Above(w) : focus[p] = w
    /\ Becomes(Dropped(w), {})
    /\ UNCHANGED <<kids, visible, windowFocus>>

\* A key nobody else handles moves the focus; at the end of the window it starts again.
Key(dir, near) ==
    /\ windowFocus
    /\ LET k == KeyDown(Now, Content, dir, near) IN
       Becomes(IF k.done THEN k.s
               ELSE KeySetFocus(Leave(Now, Content), Content, dir, near),
               {})
    /\ UNCHANGED <<kids, visible, windowFocus>>

\* egui_hide: by the time it asks for the focus to be dropped the widget is not active.
Hide(w) ==
    /\ w \in visible \ {Window}
    /\ visible' = visible \ {w}
    /\ hiddenFocused' = hiddenFocused \cup {x \in {w} : \E p \in Above(w) : focus[p] = w}
    /\ UNCHANGED <<kids, focus, lit, windowFocus, strayed>>

\* egui_show
Show(w) ==
    /\ w \notin visible
    /\ visible' = visible \cup {w}
    /\ hiddenFocused' = hiddenFocused \ {w}
    /\ UNCHANGED <<kids, focus, lit, windowFocus, strayed>>

\* egui_remove, of a child that is a single widget: its bit stays.
RemoveChild(w) ==
    /\ w \in Movable /\ Above(w) # {}
    /\ kids' = [p \in Bin |-> IF p \in Above(w) THEN Remove(kids[p], w) ELSE kids[p]]
    /\ focus' = [p \in Bin |-> IF focus[p] = w THEN NoWidget ELSE focus[p]]
    /\ hiddenFocused' = hiddenFocused \ {w}
    /\ strayed' = strayed \cup (lit \cap {w})
    /\ UNCHANGED <<lit, visible, windowFocus>>

\* egui_put, at the end of the children
PutChild(w, p) ==
    /\ w \in Movable /\ Above(w) = {}
    /\ kids' = [kids EXCEPT ![p] = Append(@, w)]
    /\ UNCHANGED <<focus, lit, visible, windowFocus, hiddenFocused, strayed>>

\* window_focus_out and window_focus_in: the bits of the whole path
WindowFocusOut ==
    /\ windowFocus
    /\ windowFocus' = FALSE
    /\ lit' = IF focus[Window] = NoWidget THEN lit ELSE lit \ PathFrom(focus[Window])
    /\ UNCHANGED <<kids, focus, visible, hiddenFocused, strayed>>
WindowFocusIn ==
    /\ ~windowFocus
    /\ windowFocus' = TRUE
    /\ lit' = IF focus[Window] = NoWidget THEN lit ELSE lit \cup PathFrom(focus[Window])
    /\ UNCHANGED <<kids, focus, visible, hiddenFocused, strayed>>

FocusNext ==
    \/ \E w \in Widget : SetFocus(w) \/ UnsetFocus(w) \/ Hide(w) \/ Show(w)
    \/ \E w \in Movable : RemoveChild(w)
    \/ \E w \in Movable, p \in Bin \ {Window} : PutChild(w, p)
    \/ \E dir \in {"next", "prev"}, near \in {{}} \cup {{w} : w \in Widget} : Key(dir, near)
    \/ WindowFocusOut \/ WindowFocusIn

FocusSpec == FocusInit /\ [][FocusNext]_focusVars

-----------------------------------------------------------------------------
(* Properties                                                               *)

\* The keys pass no hidden widget, except one that was hidden while it had the focus
\* in its container: egui_hide means to take the focus away and does not
\* (gui.c:616-619 with 899).
KeysSeen == \A w \in Path \ {Content} : w \in visible \cup hiddenFocused

\* What is drawn as focused and where the keys go agree: the bit is only on the
\* widget its container points at, and while the window has the focus every widget
\* the keys pass has it, below the first at least (a tab that finds no widget to
\* go on to takes the bits and leaves that pointer). Left out is a widget whose bit
\* was set in a container that is hidden, or that was taken out with its bit on.
\* And the keys pass no hidden widget but those of KeysSeen.
FocusAgrees ==
    /\ FocusTypeOK
    /\ \A w \in lit \ strayed : \A p \in Above(w) : focus[p] = w
    /\ windowFocus => Path \subseteq lit \cup {Content, focus[Content]}
    /\ KeysSeen
=============================================================================
