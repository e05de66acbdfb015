------------------------------- MODULE MCParts ------------------------------
(* The parts of elib and the list widget, each on an instance of its own;    *)
(* one of them runs, the others rest in their initial states.                *)
EXTENDS Ring, Slices, Heap, MemoryLocks, Timers, Tree, Clist, Genes, TLC
CONSTANTS b1, b2, s1, s2, t1, t2, n1, n2, n3, i1, i2, i3
VARIABLE part

\* A short ring, two kinds of bytes, and writes longer than the ring
MCByte == {b1, b2}
MCArgs == UNION {[1..n -> MCByte] : n \in 0..(Size + 1)}
MCBlock == {s1, s2}
MCThread == {t1, t2}
MCNodeAddr == {n1, n2, n3}
MCInterval == [u \in {"button", "item"} |-> IF u = "button" THEN 1 ELSE 2]
MCItem == {i1, i2, i3}
MCHeights == {4}
MCItemHeights == {2, 3}
MCSlots == {7}

\* The types of egui: gui; widget, event, strings, font, hook; inout, bin; char, layout;
\* entry, text; box, hbox, vbox; clist, spinbtn; menu, menu_v; ddlist. And a root with
\* two types below it, of which one has three. And a program with no types of its own.
MCKit == <<<<1>>, <<2>>, <<2>>, <<2>>, <<2>>, <<2>>, <<3, 4>>, <<3, 4>>, <<4>>, <<5, 6>>,
           <<3, 5, 4, 6, 10>>, <<3, 10, 11, 7>>, <<9>>, <<14>>, <<14>>, <<15, 7>>, <<15, 5>>,
           <<9>>, <<19, 16>>, <<3, 4, 5>>>>
MCDeep == <<<<1>>, <<1>>, <<2>>, <<2>>, <<2>>>>
MCPrograms == {[types |-> MCKit, may |-> [types |-> 1, parents |-> 3]],
               [types |-> MCDeep, may |-> [types |-> 3, parents |-> 2]],
               [types |-> <<>>, may |-> [types |-> 0, parents |-> 0]]}

partVars == <<vars, slicesVars, heapVars, locksVars, timersVars, tree, clist, genesVars, part>>

MCInit ==
    /\ Init /\ SlicesInit /\ HeapInit /\ LocksInit /\ TimersInit /\ TreeInit
    /\ ClistInit /\ GenesInit
    /\ part \in {"ring", "slices", "heap", "locks", "timers", "tree", "clist", "genes"}
    /\ part # "ring" => data = [i \in Slots |-> b1]
    /\ part # "genes" => may.types = 0

MCNext ==
    /\ UNCHANGED part
    /\ \/ /\ part = "ring" /\ Next
          /\ UNCHANGED <<slicesVars, heapVars, locksVars, timersVars, tree, clist, genesVars>>
       \/ /\ part = "slices" /\ SlicesNext
          /\ UNCHANGED <<vars, heapVars, locksVars, timersVars, tree, clist, genesVars>>
       \/ /\ part = "heap" /\ HeapNext
          /\ UNCHANGED <<vars, slicesVars, locksVars, timersVars, tree, clist, genesVars>>
       \/ /\ part = "locks" /\ LocksNext
          /\ UNCHANGED <<vars, slicesVars, heapVars, timersVars, tree, clist, genesVars>>
       \/ /\ part = "timers" /\ TimersNext
          /\ UNCHANGED <<vars, slicesVars, heapVars, locksVars, tree, clist, genesVars>>
       \/ /\ part = "tree" /\ TreeNext
          /\ UNCHANGED <<vars, slicesVars, heapVars, locksVars, timersVars, clist, genesVars>>
       \/ /\ part = "clist" /\ ClistNext
          /\ UNCHANGED <<vars, slicesVars, heapVars, locksVars, timersVars, tree, genesVars>>
       \/ /\ part = "genes" /\ GenesNext
          /\ UNCHANGED <<vars, slicesVars, heapVars, locksVars, timersVars, tree, clist>>

MCSpec == MCInit /\ [][MCNext]_partVars
=============================================================================
