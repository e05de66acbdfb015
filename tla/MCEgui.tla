------------------------------- MODULE MCEgui -------------------------------
(* The event loop, with queues of two events; the focus in a window that     *)
(* holds widgets and a row with one more; a region; the layout of a bar in a *)
(* page: one of the four runs, the others rest in their initial states.      *)
EXTENDS EventLoop, Focus, Region, Boxes, TLC
CONSTANTS window, box, row, page, bar, w1, w2, w3
VARIABLE part

MCWidget == {window, box, row, w1, w2, w3}
MCBin == {window, box, row}
MCKids == window :> <<box>> @@ box :> <<w1, row, w2>> @@ row :> <<w3>>
MCMovable == {w1}

\* Two sections in bands that overlap, of one height, that touch, and one above the other
Sec(x1, x2, y1, y2) == [x1 |-> x1, x2 |-> x2, y1 |-> y1, y2 |-> y2]
MCSecond == {<<Sec(0, 1, 0, 2), Sec(2, 3, 1, 3)>>, <<Sec(0, 1, 1, 3), Sec(2, 3, 1, 3)>>,
             <<Sec(0, 2, 0, 1), Sec(1, 3, 1, 2)>>, <<Sec(0, 3, 0, 1), Sec(0, 3, 2, 3)>>}

\* A page of w1 and a bar of w2, which can grow, and w3
Wide(w, h) == [axis \in {"x", "y"} |-> IF axis = "x" THEN w ELSE h]
MCLaid == {window, page, bar, w1, w2, w3}
MCMain == page :> "y" @@ bar :> "x"
MCExpand ==
    page :> {"x", "y"} @@ bar :> {"x", "y"} @@ w2 :> {"x"} @@ [w \in {window, w1, w3} |-> {}]
MCMinSize == w1 :> Wide(1, 1) @@ w2 :> Wide(2, 1) @@ w3 :> Wide(1, 2)
MCBuild == <<<<page, w1>>, <<page, bar>>, <<bar, w2>>, <<bar, w3>>>>
Style(layout, spacing, border, align) ==
    [layout |-> layout, spacing |-> spacing, border_width |-> border, align |-> align]
Styled(outer, inner) ==
    window :> Style("EDGE", 0, 0, "Center") @@ page :> outer @@ bar :> inner
MCStyles ==
    {Styled(Style("START_SPACING", 1, 0, "Start"), Style("EDGE", 1, 0, "End")),
     Styled(Style("CENTER", 0, 1, "End"), Style("SPREAD", 0, 0, "Center"))}
MCAsks == {<<w2, Wide(4, 2)>>}
MCNewWidths == {<<w3, 2>>}
MCWindows == {Wide(6, 6)}

MCInit ==
    /\ Init /\ FocusInit /\ RegionInit /\ BoxesInit
    /\ part \in {"loop", "focus", "region", "layout"}
    /\ part # "layout" => style = CHOOSE one \in MCStyles : TRUE

MCNext ==
    /\ UNCHANGED part
    /\ \/ part = "loop" /\ Next /\ UNCHANGED <<focusVars, regionVars, boxesVars>>
       \/ part = "focus" /\ FocusNext /\ UNCHANGED <<vars, regionVars, boxesVars>>
       \/ part = "region" /\ RegionNext /\ UNCHANGED <<vars, focusVars, boxesVars>>
       \/ part = "layout" /\ BoxesNext /\ UNCHANGED <<vars, focusVars, regionVars>>

\* The loop and the threads that post are fair, if it is they that run.
MCSpec ==
    /\ MCInit /\ [][MCNext]_<<vars, focusVars, regionVars, boxesVars, part>>
    /\ (part = "loop" => Fairness)
=============================================================================
