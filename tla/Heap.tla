-------------------------------- MODULE Heap --------------------------------
(***************************************************************************)
(* One heap of elib/memory.c, in words: nodes that divide it, a table of   *)
(* the free ones for each power of two, and free_max, by which a heap is   *)
(* chosen for a request. Every call holds memory_lock; a request this heap *)
(* does not get, because of its free_max, changes nothing in it.           *)
(***************************************************************************)
EXTENDS Naturals, Sequences, SequencesExt

CONSTANTS
    HeapSize,       \* HEAP_SIZE
    Tables      \* FREE_TABLES_SIZE

ASSUME HeapAssumption == HeapSize \in Nat /\ HeapSize > 1 /\ Tables \in Nat \ {0}

\* All that the proofs need to know of the powers of two
ASSUME PowersOfTwo == \A i \in 0..Tables : 2 ^ i \in Nat

VARIABLES
    heap,       \* the nodes, the free tables and free_max
    grown,      \* whether a free node grew where it stood in its table
    failed      \* the sizes of the requests that got no node

heapVars == <<heap, grown, failed>>

Addr == 0..HeapSize - 1
AllocMax == HeapSize \div 2         \* HEAP_ALLOC_MAX: malloc takes more from the system
Index == 0..Tables - 1

\* size_to_free_index
SizeToFreeIndex(n) == Min({i \in 0..Tables - 2 : n <= 2 ^ i} \cup {Tables - 1})

Node(h) == {a \in Addr : h.size[a] > 0}
Free(h) == Node(h) \ h.used

HeapTypeOK ==
    /\ heap.size \in [Addr -> 0..HeapSize]
    /\ heap.used \subseteq Node(heap)
    /\ heap.table \in [Index -> Seq(Addr)]
    /\ heap.max \in 0..HeapSize
    /\ grown \in BOOLEAN
    /\ failed \subseteq 1..HeapSize + 1

-----------------------------------------------------------------------------
(* The tables                                                               *)

\* heap_free_tables_insert: before the first node that is not smaller
Insert(h, a) ==
    LET i == SizeToFreeIndex(h.size[a])
        t == h.table[i]
        k == CHOOSE k \in 0..Len(t) :
                /\ \A j \in 1..k : h.size[t[j]] < h.size[a]
                /\ k < Len(t) => h.size[t[k + 1]] >= h.size[a]
    IN  [h EXCEPT !.table[i] = InsertAt(t, k + 1, a), !.max = Max({@, h.size[a]})]

\* The largest node of the highest table, if the tables are sorted
LastFree(h, table) ==
    LET filled == {i \in Index : table[i] # <<>>} IN
    IF filled = {} THEN 0 ELSE h.size[Last(table[Max(filled)])]

KeepMax(h, i, p, table) == h.max                                   \* mutant

\* set_free_max, of a node at place p of table i
SetFreeMax(h, i, p, table) ==
    LET t == h.table[i] IN
    CASE h.size[t[p]] # h.max \/ p < Len(t) -> h.max
      [] h.size[t[p]] = h.max /\ p = Len(t) /\ p > 1 -> h.size[t[p - 1]]
      [] OTHER -> LastFree(h, table)

\* heap_free_tables_delete
Delete(h, a) ==
    LET i == SizeToFreeIndex(h.size[a])
        p == CHOOSE p \in 1..Len(h.table[i]) : h.table[i][p] = a
        table == [h.table EXCEPT ![i] = RemoveAt(@, p)]
    IN  [h EXCEPT !.table = table, !.max = SetFreeMax(h, i, p, table)]

\* free_node_merge: with the node after, then with the node before
MergeNext(h, a) ==
    LET n == a + h.size[a] IN
    IF n \in Free(h)
    THEN [Delete(h, n) EXCEPT !.size[a] = @ + h.size[n], !.size[n] = 0]
    ELSE h
FreeBefore(h, a) == {p \in Free(h) : p + h.size[p] = a}
Merge(h, a) ==
    LET m == MergeNext(h, a) IN
    IF FreeBefore(m, a) = {} THEN Insert(m, a)
    ELSE LET p == CHOOSE p \in FreeBefore(m, a) : TRUE IN
         Insert([Delete(m, p) EXCEPT !.size[p] = @ + m.size[a], !.size[a] = 0], p)

\* move_to_free_tables
Release(h, a) == Merge([h EXCEPT !.used = @ \ {a}], a)

\* free_tables_find_node: the first node large enough, from the table of n upwards
Enough(h, n, i) == {p \in 1..Len(h.table[i]) : h.size[h.table[i][p]] >= n}
Fits(h, n) == {i \in SizeToFreeIndex(n)..Tables - 1 : Enough(h, n, i) # {}}
FindNode(h, n) == LET i == Min(Fits(h, n)) IN h.table[i][Min(Enough(h, n, i))]

\* heap_get_free_node: the front of the node found
Take(h, n) ==
    LET a == FindNode(h, n)
        d == [Delete(h, a) EXCEPT !.used = @ \cup {a}, !.size[a] = n]
    IN  IF h.size[a] = n THEN d
        ELSE Insert([d EXCEPT !.size[a + n] = h.size[a] - n], a + n)

-----------------------------------------------------------------------------
(* The calls                                                                *)

HeapInit ==
    /\ heap = [size |-> [a \in Addr |-> IF a = 0 THEN HeapSize ELSE 0],
               used |-> {},
               table |-> [i \in Index |->
                            IF i = SizeToFreeIndex(HeapSize) THEN <<0>> ELSE <<>>],
               max |-> HeapSize]
    /\ grown = FALSE
    /\ failed = {}

\* e_heap_malloc, from this heap
Malloc(n) ==
    /\ n <= AllocMax /\ n <= heap.max
    /\ \/ Fits(heap, n) # {} /\ heap' = Take(heap, n) /\ UNCHANGED failed
       \/ Fits(heap, n) = {} /\ failed' = failed \cup {n} /\ UNCHANGED heap
    /\ UNCHANGED grown

\* e_heap_free
HeapFree(a) ==
    /\ a \in heap.used
    /\ heap' = Release(heap, a)
    /\ UNCHANGED <<grown, failed>>

After(a) == a + heap.size[a]
FreeAfter(a) == IF After(a) \in Free(heap) THEN heap.size[After(a)] ELSE 0

\* e_heap_realloc to more, taken from the free node behind
ReallocGrow(a, n) ==
    /\ a \in heap.used
    /\ heap.size[a] < n /\ n <= heap.size[a] + FreeAfter(a)
    /\ LET left == heap.size[a] + FreeAfter(a) - n
           d == [Delete(heap, After(a)) EXCEPT !.size[After(a)] = 0, !.size[a] = n]
       IN  heap' = IF left = 0 THEN d
                   ELSE Insert([d EXCEPT !.size[a + n] = left], a + n)
    /\ UNCHANGED <<grown, failed>>

\* ... taken elsewhere: in this heap, in another, or, where there is none, nowhere
ReallocMove(a, n) ==
    /\ a \in heap.used
    /\ n > heap.size[a] + FreeAfter(a)
    /\ \/ /\ n <= heap.max /\ Fits(heap, n) # {}
          /\ heap' = Release(Take(heap, n), a)
          /\ UNCHANGED failed
       \/ /\ n > heap.max /\ n <= HeapSize
          /\ heap' = Release(heap, a)
          /\ UNCHANGED failed
       \/ /\ n > HeapSize \/ (n <= heap.max /\ Fits(heap, n) = {})
          /\ failed' = failed \cup {n}
          /\ UNCHANGED heap
    /\ UNCHANGED grown

\* e_heap_realloc to less: what is over goes to the free node behind, which keeps
\* its place in the table when the table stays the same
ReallocShrink(a, n) ==
    /\ a \in heap.used
    /\ n < heap.size[a]
    /\ LET over == heap.size[a] - n
           m == After(a)
           i == SizeToFreeIndex(heap.size[m])
           cut == [heap EXCEPT !.size[a] = n, !.size[a + n] = over]
           wide == [heap EXCEPT !.size[a] = n, !.size[m] = 0,
                                !.size[a + n] = over + heap.size[m]]
       IN
        \/ /\ m \notin Free(heap)
           /\ heap' = Insert(cut, a + n)
           /\ UNCHANGED grown
        \/ /\ m \in Free(heap)
           /\ SizeToFreeIndex(heap.size[m] + over) # i
           /\ heap' = Insert([wide EXCEPT !.table = Delete(heap, m).table,
                                          !.max = Delete(heap, m).max], a + n)
           /\ UNCHANGED grown
        \/ /\ m \in Free(heap)
           /\ SizeToFreeIndex(heap.size[m] + over) = i
           /\ heap' = [wide EXCEPT !.table[i] = ReplaceAll(@, m, a + n),
                                   !.max = Max({@, wide.size[a + n]})]
           /\ grown' = TRUE
    /\ UNCHANGED failed

\* A caller that was given nothing writes there: the program is not followed further.
HeapNext ==
    /\ failed = {}
    /\ \/ \E n \in 1..AllocMax : Malloc(n)
       \/ \E a \in Addr : HeapFree(a)
       \/ \E a \in Addr, n \in 1..HeapSize : ReallocGrow(a, n) \/ ReallocShrink(a, n)
       \/ \E a \in Addr, n \in 1..HeapSize + 1 : ReallocMove(a, n)

HeapSpec == HeapInit /\ [][HeapNext]_heapVars

-----------------------------------------------------------------------------
(* Properties                                                               *)

\* The nodes divide the heap without gap or overlap.
Divided ==
    /\ 0 \in Node(heap)
    /\ \A a \in Node(heap) :
        /\ a + heap.size[a] \in Node(heap) \cup {HeapSize}
        /\ \A b \in Node(heap) : ~(a < b /\ b < a + heap.size[a])

\* Every free node is once in the table of its size, and in no other.
Listed ==
    \A i \in Index :
        /\ IsInjective(heap.table[i])
        /\ ToSet(heap.table[i]) = {a \in Free(heap) : SizeToFreeIndex(heap.size[a]) = i}

\* The heap loses no memory and gives none out twice: its nodes divide it, no two
\* free ones lie side by side, and each is in its table. As long as no free node
\* grew in place free_max is the largest of them, so that only a request larger
\* than a heap is left without memory; after a realloc that let one grow, free_max
\* may be wrong, and then a request may be (memory.c:427-434).
HeapExact ==
    /\ HeapTypeOK
    /\ Divided
    /\ Listed
    /\ \A a, b \in Free(heap) : a + heap.size[a] # b
    /\ ~grown =>
        /\ heap.max = Max({0} \cup {heap.size[a] : a \in Free(heap)})
        /\ failed \subseteq {HeapSize + 1}
=============================================================================
