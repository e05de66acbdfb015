------------------------------- MODULE Slices -------------------------------
(***************************************************************************)
(* The slice allocator of elib/memory.c, for one size: blocks of cells,    *)
(* the free cells of a block chained through its map, the blocks on three  *)
(* lists by how full they are. Every call holds slice_lock.                *)
(***************************************************************************)
EXTENDS Naturals, Sequences, SequencesExt

CONSTANTS
    Block,      \* the blocks the heap can give
    Num         \* head->num, the cells of a block

ASSUME SlicesAssumption == Num \in Nat /\ Num > 1

VARIABLES
    fill, half, free,   \* the lists of SliceNodes: no cell free, some, all
    index, map,         \* the first free cell of a block; the one after each
    free_num,
    handed              \* the cells in the hands of callers

slicesVars == <<fill, half, free, index, map, free_num, handed>>

Cell == 0..Num - 1
MapEntry == 0..Num          \* a cell, or Num: an entry of a map nothing was written to

SlicesTypeOK ==
    /\ \A list \in {fill, half, free} : list \in Seq(Block) /\ IsInjective(list)
    /\ index \in [Block -> MapEntry]
    /\ map \in [Block -> [Cell -> MapEntry]]
    /\ free_num \in [Block -> 0..Num]
    /\ handed \subseteq Block \X Cell

SlicesInit ==
    /\ fill = <<>> /\ half = <<>> /\ free = <<>>
    /\ index = [b \in Block |-> 0]
    /\ map = [b \in Block |-> [i \in Cell |-> Num]]
    /\ free_num = [b \in Block |-> 0]
    /\ handed = {}

InUse == ToSet(fill) \cup ToSet(half) \cup ToSet(free)

-----------------------------------------------------------------------------

\* The first free cell of b goes to the caller.
TakeCell(b) ==
    /\ handed' = handed \cup {<<b, index[b]>>}
    /\ index' = [index EXCEPT ![b] = map[b][@]]
    /\ free_num' = [free_num EXCEPT ![b] = @ - 1]

\* slice_half_alloc takes from the block with the fewest free cells.
HalfAlloc ==
    /\ half # <<>>
    /\ LET b == Head(half) IN
        /\ TakeCell(b)
        /\ \/ free_num[b] = 1 /\ half' = Tail(half) /\ fill' = <<b>> \o fill
           \/ free_num[b] # 1 /\ UNCHANGED <<half, fill>>
    /\ UNCHANGED <<free, map>>

\* slice_free_alloc of a block that is wholly free
FreeAlloc ==
    /\ half = <<>> /\ free # <<>>
    /\ TakeCell(Head(free))
    /\ free' = Tail(free)
    /\ half' = <<Head(free)>>
    /\ UNCHANGED <<fill, map>>

\* The ends of the loop that chains the cells of a new block: the first and the
\* last entry of the map are not written.
Chained == 1..Num - 2

NewMap == [i \in Cell |-> IF i \in Chained THEN i + 1 ELSE Num]

NewAlloc(b) ==
    /\ half = <<>> /\ free = <<>>
    /\ b \notin InUse
    /\ map' = [map EXCEPT ![b] = NewMap]
    /\ index' = [index EXCEPT ![b] = 1]
    /\ free_num' = [free_num EXCEPT ![b] = Num - 1]
    /\ handed' = handed \cup {<<b, 0>>}
    /\ half' = <<b>>
    /\ UNCHANGED <<fill, free>>

InPlace(b, n) == half                                              \* mutant

\* A block with n free cells moves behind those that have fewer.
Passed(rest, n) ==
    CHOOSE k \in 0..Len(rest) :
        /\ \A j \in 1..k : free_num[rest[j]] < n
        /\ k < Len(rest) => free_num[rest[k + 1]] >= n
Sorted(b, n) ==
    LET p == CHOOSE j \in 1..Len(half) : half[j] = b
        rest == SubSeq(half, p + 1, Len(half))
        k == Passed(rest, n)
    IN  SubSeq(half, 1, p - 1) \o SubSeq(rest, 1, k) \o <<b>> \o SubSeq(rest, k + 1, Len(rest))

\* e_slice_free1
SliceFree(b, i) ==
    LET n == free_num[b] + 1 IN
    /\ <<b, i>> \in handed
    /\ handed' = handed \ {<<b, i>>}
    /\ free_num' = [free_num EXCEPT ![b] = n]
    /\ map' = [map EXCEPT ![b][i] = index[b]]
    /\ index' = [index EXCEPT ![b] = i]
    /\ \/ /\ Contains(fill, b)
          /\ fill' = RemoveFirst(fill, b)
          /\ half' = <<b>> \o half
          /\ UNCHANGED free
       \/ /\ Contains(half, b) /\ n = Num
          /\ half' = RemoveFirst(half, b)
          /\ free' = <<b>> \o free
          /\ UNCHANGED fill
       \/ /\ Contains(half, b) /\ n # Num
          /\ half' = Sorted(b, n)
          /\ UNCHANGED <<fill, free>>

\* slice_free_release, when the heap is exhausted: one block is kept if no other
\* has a free cell.
SliceRelease ==
    /\ free # <<>>
    /\ free' = IF half # <<>> THEN <<>> ELSE <<Last(free)>>
    /\ LET gone(b) == Contains(free, b) /\ ~Contains(free', b) IN
        /\ index' = [b \in Block |-> IF gone(b) THEN 0 ELSE index[b]]
        /\ map' = [b \in Block |-> IF gone(b) THEN [i \in Cell |-> Num] ELSE map[b]]
        /\ free_num' = [b \in Block |-> IF gone(b) THEN 0 ELSE free_num[b]]
    /\ UNCHANGED <<fill, half, handed>>

SlicesNext ==
    \/ HalfAlloc \/ FreeAlloc \/ SliceRelease
    \/ \E b \in Block : NewAlloc(b)
    \/ \E b \in Block, i \in Cell : SliceFree(b, i)

SlicesSpec == SlicesInit /\ [][SlicesNext]_slicesVars

-----------------------------------------------------------------------------
(* Properties                                                               *)

FreeCells(b) == {i \in Cell : <<b, i>> \notin handed}

\* The chain of a block: from index through the map, as many cells as are free.
Chain(b, s) ==
    /\ Len(s) = free_num[b]
    /\ s # <<>> => s[1] = index[b]
    /\ \A k \in 1..Len(s) - 1 : map[b][s[k]] = s[k + 1]

\* The chain of every block in use consists of exactly the cells nobody has, so
\* no cell is handed out twice and none is lost; each block is on the list its
\* free cells say; and the half list is sorted, so that the fullest block is
\* used up first and others can drain.
CellsExact ==
    /\ SlicesTypeOK
    /\ \A b \in InUse :
        /\ \E s \in [1..free_num[b] -> Cell] : Chain(b, s) /\ ToSet(s) = FreeCells(b) /\ IsInjective(s)
        /\ Contains(fill, b) <=> free_num[b] = 0
        /\ Contains(free, b) <=> free_num[b] = Num
        /\ Contains(half, b) <=> free_num[b] \in 1..Num - 1
    /\ \A c \in handed : c[1] \in InUse
    /\ \A j, k \in 1..Len(half) : j < k => free_num[half[j]] <= free_num[half[k]]
=============================================================================
