----------------------------- MODULE MemoryLocks -----------------------------
(***************************************************************************)
(* The two locks of elib/memory.c and the chain of chunks they guard, as   *)
(* several threads allocate and free. A slice call may allocate a block    *)
(* and so takes memory_lock inside slice_lock; a heap that is exhausted    *)
(* gives wholly free slice blocks back, inside memory_lock. What the locks *)
(* guard is only told apart as far as it decides which are taken: whether  *)
(* the heap has room, whether a slice block is wholly free.                *)
(***************************************************************************)
EXTENDS Naturals, Sequences, SequencesExt

CONSTANTS Thread, NoThread, MainHeap

ASSUME LocksAssumption == NoThread \notin Thread /\ MainHeap \notin Thread

VARIABLES
    memory_lock, slice_lock,    \* the thread that holds it, or NoThread
    at,                         \* what each thread does
    call,                       \* the call it is in
    first,                      \* chain_head when it entered e_heap_free
    chain,                      \* the chunks: the heap, and a block too large for it
                                \*   that a thread has, under the thread's name
    room, spare,                \* whether the heap has room, a block can be released
    exhausted,                  \* history: a call found no room
    unlinked                    \* history: the chunks freed while another thread stood
                                \*   in e_heap_free with the chain head it had read

locksVars == <<memory_lock, slice_lock, at, call, first, chain, room, spare,
               exhausted, unlinked>>

Call == {"malloc", "free", "sysMalloc", "sysFree", "sliceAlloc", "sliceFree"}
At == {"idle", "heap", "inHeap", "slices", "inSlices", "sliceHeap", "inSliceHeap",
       "leaving", "release", "again"}

LocksTypeOK ==
    /\ {memory_lock, slice_lock} \subseteq Thread \cup {NoThread}
    /\ at \in [Thread -> At]
    /\ call \in [Thread -> Call]
    /\ first \in [Thread -> Thread \cup {MainHeap, NoThread}]
    /\ chain \in Seq(Thread \cup {MainHeap}) /\ IsInjective(chain) /\ Contains(chain, MainHeap)
    /\ room \in BOOLEAN /\ spare \in BOOLEAN /\ exhausted \in BOOLEAN
    /\ unlinked \subseteq Thread

LocksInit ==
    /\ memory_lock = NoThread /\ slice_lock = NoThread
    /\ at = [t \in Thread |-> "idle"]
    /\ call = [t \in Thread |-> "malloc"]
    /\ first = [t \in Thread |-> NoThread]
    /\ chain = <<MainHeap>>
    /\ room = TRUE /\ spare = FALSE
    /\ exhausted = FALSE /\ unlinked = {}

Goes(t, place) == at' = [at EXCEPT ![t] = place]

-----------------------------------------------------------------------------

\* A heap call: e_heap_free reads chain_head before it locks, at its declaration.
EnterHeap(t, c) ==
    /\ at[t] = "idle"
    /\ c \in {"malloc", "free", "sysMalloc", "sysFree"}
    /\ c = "sysMalloc" => ~Contains(chain, t)
    /\ c = "sysFree" => Contains(chain, t)
    /\ Goes(t, "heap")
    /\ call' = [call EXCEPT ![t] = c]
    /\ first' = [first EXCEPT ![t] = IF c \in {"free", "sysFree"} THEN Head(chain) ELSE @]
    /\ UNCHANGED <<memory_lock, slice_lock, chain, room, spare, exhausted, unlinked>>

EnterSlices(t, c) ==
    /\ at[t] = "idle"
    /\ c \in {"sliceAlloc", "sliceFree"}
    /\ Goes(t, "slices")
    /\ call' = [call EXCEPT ![t] = c]
    /\ UNCHANGED <<memory_lock, slice_lock, first, chain, room, spare, exhausted, unlinked>>

LockMemory(t) ==
    /\ memory_lock = NoThread
    /\ \/ at[t] = "heap" /\ Goes(t, "inHeap")
       \/ at[t] = "sliceHeap" /\ Goes(t, "inSliceHeap")
    /\ memory_lock' = t
    /\ UNCHANGED <<slice_lock, call, first, chain, room, spare, exhausted, unlinked>>

LockSlices(t) ==
    /\ at[t] = "slices" /\ slice_lock = NoThread
    /\ Goes(t, "inSlices")
    /\ slice_lock' = t
    /\ UNCHANGED <<memory_lock, call, first, chain, room, spare, exhausted, unlinked>>

\* e_heap_malloc (or e_heap_realloc to another node) with room, and e_heap_free
InHeap(t) ==
    /\ at[t] = "inHeap" /\ call[t] \in {"malloc", "free"}
    /\ call[t] = "malloc" => room
    /\ room' \in IF call[t] = "free" THEN {room, TRUE} ELSE BOOLEAN
    /\ memory_lock' = NoThread
    /\ first' = [first EXCEPT ![t] = NoThread]
    /\ Goes(t, "idle")
    /\ UNCHANGED <<slice_lock, call, chain, spare, exhausted, unlinked>>

\* e_sys_malloc puts a chunk in front of the chain; e_heap_free takes it away.
InChain(t) ==
    /\ at[t] = "inHeap" /\ call[t] \in {"sysMalloc", "sysFree"}
    /\ chain' = IF call[t] = "sysMalloc" THEN <<t>> \o chain ELSE RemoveFirst(chain, t)
    /\ unlinked' = IF call[t] = "sysFree" /\ \E u \in Thread \ {t} : first[u] = t
                   THEN unlinked \cup {t} ELSE unlinked
    /\ memory_lock' = NoThread
    /\ first' = [first EXCEPT ![t] = NoThread]
    /\ Goes(t, "idle")
    /\ UNCHANGED <<slice_lock, call, room, spare, exhausted>>

Eager == TRUE                                                      \* mutant

\* When heap_get_free_node turns to slice_free_release
Full == ~room

\* No room, in a call that does not hold slice_lock
MallocReleases(t) ==
    /\ at[t] = "inHeap" /\ call[t] = "malloc" /\ Full
    /\ exhausted' = (exhausted \/ ~room)
    /\ Goes(t, "release")
    /\ UNCHANGED <<memory_lock, slice_lock, call, first, chain, room, spare, unlinked>>

\* slice_free_release frees a block through e_free, which locks memory_lock again;
\* without a block to free a new heap is made.
ReleaseBlock(t) ==
    /\ at[t] = "release" /\ slice_lock = NoThread
    /\ \/ /\ spare
          /\ slice_lock' = t
          /\ Goes(t, "again")
          /\ UNCHANGED <<memory_lock, room>>
       \/ /\ ~spare
          /\ room' = TRUE
          /\ memory_lock' = NoThread
          /\ Goes(t, "idle")
          /\ UNCHANGED slice_lock
    /\ UNCHANGED <<call, first, chain, spare, exhausted, unlinked>>

\* A slice call that needs no block
InSlices(t) ==
    /\ at[t] = "inSlices"
    /\ IF call[t] = "sliceFree" THEN spare' \in {spare, TRUE} ELSE spare' \in {spare, FALSE}
    /\ slice_lock' = NoThread
    /\ Goes(t, "idle")
    /\ UNCHANGED <<memory_lock, call, first, chain, room, exhausted, unlinked>>

\* slice_free_alloc without a block of its size; one of another size may be free.
NeedsBlock(t) ==
    /\ at[t] = "inSlices" /\ call[t] = "sliceAlloc"
    /\ Goes(t, "sliceHeap")
    /\ UNCHANGED <<memory_lock, slice_lock, call, first, chain, room, spare,
                   exhausted, unlinked>>

InSliceHeap(t) ==
    /\ at[t] = "inSliceHeap"
    /\ \/ /\ room
          /\ room' \in BOOLEAN
          /\ memory_lock' = NoThread
          /\ Goes(t, "leaving")
          /\ UNCHANGED exhausted
       \/ /\ Full /\ spare
          /\ exhausted' = (exhausted \/ ~room)
          /\ Goes(t, "again")
          /\ UNCHANGED <<room, memory_lock>>
       \/ /\ ~room /\ ~spare
          /\ exhausted' = TRUE
          /\ room' = TRUE
          /\ memory_lock' = NoThread
          /\ Goes(t, "leaving")
    /\ UNCHANGED <<slice_lock, call, first, chain, spare, unlinked>>

UnlockSlices(t) ==
    /\ at[t] = "leaving"
    /\ slice_lock' = NoThread
    /\ Goes(t, "idle")
    /\ UNCHANGED <<memory_lock, call, first, chain, room, spare, exhausted, unlinked>>

LocksNext ==
    \E t \in Thread :
        \/ \E c \in Call : EnterHeap(t, c) \/ EnterSlices(t, c)
        \/ LockMemory(t) \/ LockSlices(t)
        \/ InHeap(t) \/ InChain(t) \/ MallocReleases(t) \/ ReleaseBlock(t)
        \/ InSlices(t) \/ NeedsBlock(t) \/ InSliceHeap(t) \/ UnlockSlices(t)

LocksSpec == LocksInit /\ [][LocksNext]_locksVars

-----------------------------------------------------------------------------
(* Properties                                                               *)

\* The thread that t waits for
WaitsFor(t) ==
    CASE at[t] \in {"heap", "sliceHeap", "again"} -> memory_lock
      [] at[t] \in {"slices", "release"} -> slice_lock
      [] OTHER -> NoThread

\* Some threads wait for each other, or one for itself.
Knot == \E d \in (SUBSET Thread) \ {{}} : \A t \in d : WaitsFor(t) \in d

\* Threads wait for each other for ever only when a call found the heap exhausted:
\* it then frees slice blocks holding the lock that e_free takes, or takes slice_lock
\* inside memory_lock where a slice call does the opposite. And a walk of the chain
\* begins at a chunk that is in it, unless that chunk, one too large for the heap,
\* was freed by its owner after the walker read the head, which it does unlocked.
LocksSound ==
    /\ LocksTypeOK
    /\ Knot => exhausted
    /\ \A t \in Thread :
        at[t] = "inHeap" /\ call[t] \in {"free", "sysFree"} =>
            Contains(chain, first[t]) \/ first[t] \in unlinked
=============================================================================
