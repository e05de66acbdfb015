----------------------------- MODULE ElibProofs -----------------------------
(***************************************************************************)
(* elib/memory.c, for any number of threads: the locks of the allocator;   *)
(* for blocks of any size: its slices are neither handed out twice nor     *)
(* lost; for every size of a heap and number of its tables: its memory is  *)
(* neither, and free_max is right until a free node grew in place.         *)
(* elib/timer.c, for every set of nodes, every interval and every clock:   *)
(* the dispatcher loses no time, its timers are not late, and a handle     *)
(* that no timer has outlived is of the timer it was given for.            *)
(* elib/queue.c, for every size of the ring and every set of calls: it     *)
(* implements the bounded first-in first-out buffer.                       *)
(***************************************************************************)
EXTENDS Ring, MemoryLocks, Slices, Heap, Timers, ListFacts, TLAPS, FiniteSets, WellFoundedInduction,
        SequenceTheorems, FiniteSetTheorems

-----------------------------------------------------------------------------
(* The locks                                                                *)

\* Where a thread holds which lock. A thread that releases slice blocks holds
\* memory_lock and goes for it again.
HoldsMemory(t) == at[t] \in {"inHeap", "inSliceHeap", "release", "again"}
HoldsSlices(t) == at[t] \in {"inSlices", "sliceHeap", "inSliceHeap", "leaving", "again"}
LocksHeld ==
    \A t \in Thread :
        /\ memory_lock = t <=> HoldsMemory(t)
        /\ slice_lock = t <=> HoldsSlices(t)
        /\ at[t] \in {"release", "again"} => exhausted

\* What a heap call knows of the chain: its own chunk, and the head it read.
Known ==
    \A t \in Thread : at[t] \in {"heap", "inHeap"} =>
        /\ call[t] = "sysMalloc" => ~Contains(chain, t)
        /\ call[t] = "sysFree" => Contains(chain, t)
        /\ call[t] \in {"free", "sysFree"} => Contains(chain, first[t]) \/ first[t] \in unlinked

LocksInv == LocksTypeOK /\ LocksHeld /\ Known

\* Nobody holds a lock in the beginning.
LEMMA LocksInitInv == LocksInit => LocksInv
  <1> SUFFICES ASSUME LocksInit PROVE LocksInv
    OBVIOUS
  <1>1. chain \in Seq(Thread \cup {MainHeap}) /\ IsInjective(chain) /\ Contains(chain, MainHeap)
    BY DEF LocksInit, IsInjective, Contains
  <1>2. LocksTypeOK
    BY <1>1 DEF LocksInit, LocksTypeOK, At, Call
  <1>3. LocksHeld /\ Known
    BY LocksAssumption DEF LocksInit, LocksHeld, Known, HoldsMemory, HoldsSlices
  <1> QED
    BY <1>2, <1>3 DEF LocksInv

\* A call of the heap begins with a chunk that is in the chain.
LEMMA EnterKeeps ==
    ASSUME LocksInv, NEW t \in Thread, NEW c \in Call, EnterHeap(t, c) \/ EnterSlices(t, c)
    PROVE  LocksInv'
  <1>1. LocksTypeOK /\ LocksHeld /\ Known /\ at[t] = "idle"
    BY DEF LocksInv, EnterHeap, EnterSlices
  <1>2. PICK place \in {"heap", "slices"} : at' = [at EXCEPT ![t] = place]
    BY DEF EnterHeap, EnterSlices, Goes
  <1>3. /\ UNCHANGED <<memory_lock, slice_lock, chain, room, spare, exhausted, unlinked>>
        /\ call' = [call EXCEPT ![t] = c]
    BY DEF EnterHeap, EnterSlices
  <1>4. /\ chain \in Seq(Thread \cup {MainHeap})
        /\ Head(chain) \in Thread \cup {MainHeap} /\ Contains(chain, Head(chain))
    BY <1>1 DEF LocksTypeOK, Contains
  <1>5. PICK f \in Thread \cup {MainHeap, NoThread} : first' = [first EXCEPT ![t] = f]
    <2>1. CASE UNCHANGED first
      BY <1>1, <2>1 DEF LocksTypeOK
    <2>2. CASE \E f \in {Head(chain), first[t]} : first' = [first EXCEPT ![t] = f]
      BY <1>1, <1>4, <2>2 DEF LocksTypeOK
    <2> QED
      BY <2>1, <2>2 DEF EnterHeap, EnterSlices
  <1>6. LocksTypeOK'
    BY <1>1, <1>2, <1>3, <1>5 DEF LocksTypeOK, At
  <1>7. LocksHeld'
    BY <1>1, <1>2, <1>3 DEF LocksHeld, HoldsMemory, HoldsSlices, LocksTypeOK
  <1>8. ASSUME NEW u \in Thread, at'[u] \in {"heap", "inHeap"}
        PROVE  /\ call'[u] = "sysMalloc" => ~Contains(chain, u)
               /\ call'[u] = "sysFree" => Contains(chain, u)
               /\ call'[u] \in {"free", "sysFree"} => Contains(chain, first'[u]) \/ first'[u] \in unlinked
    <2>1. CASE u # t
      <3>1. at'[u] = at[u] /\ call'[u] = call[u] /\ first'[u] = first[u]
        BY <1>1, <1>2, <1>3, <1>5, <2>1 DEF LocksTypeOK
      <3> QED
        BY <1>1, <1>8, <3>1 DEF Known
    <2>2. CASE u = t
      <3>1. EnterHeap(t, c)
        BY <1>1, <1>2, <1>8, <2>2 DEF EnterSlices, Goes, LocksTypeOK
      <3>2. call'[t] = c
        BY <1>1, <1>3 DEF LocksTypeOK
      <3>3. c \in {"free", "sysFree"} => first'[t] = Head(chain)
        BY <1>1, <3>1 DEF EnterHeap, LocksTypeOK
      <3> QED
        BY <1>4, <2>2, <3>1, <3>2, <3>3 DEF EnterHeap
    <2> QED
      BY <2>1, <2>2
  <1>9. Known'
    BY <1>3, <1>8 DEF Known
  <1> QED
    BY <1>6, <1>7, <1>9 DEF LocksInv

\* Steps that neither enter or leave a heap call nor change the chain.
LEMMA ChainStays ==
    ASSUME LocksInv, LocksTypeOK', LocksHeld', UNCHANGED <<call, chain, unlinked>>,
           \A t \in Thread : at'[t] \in {"heap", "inHeap"} =>
              at[t] \in {"heap", "inHeap"} /\ first'[t] = first[t]
    PROVE  LocksInv'
  BY DEF LocksInv, Known

\* Taking a lock that nobody holds.
LEMMA LockKeeps ==
    ASSUME LocksInv, NEW t \in Thread, LockMemory(t) \/ LockSlices(t)
    PROVE  LocksInv'
  <1>1. LocksTypeOK /\ LocksHeld
    BY DEF LocksInv
  <1>2. UNCHANGED <<call, first, chain, room, spare, exhausted, unlinked>>
    BY DEF LockMemory, LockSlices
  <1>3. PICK place \in {"inHeap", "inSliceHeap", "inSlices"} : at' = [at EXCEPT ![t] = place]
    BY DEF LockMemory, LockSlices, Goes
  <1>4. LocksTypeOK'
    BY <1>1, <1>2, <1>3 DEF LocksTypeOK, LockMemory, LockSlices, At
  <1>5. LocksHeld'
    BY <1>1, <1>2, LocksAssumption DEF LocksHeld, HoldsMemory, HoldsSlices, LocksTypeOK, LockMemory, LockSlices, Goes
  <1>6. \A u \in Thread : at'[u] \in {"heap", "inHeap"} => at[u] \in {"heap", "inHeap"}
    BY <1>1 DEF LocksTypeOK, LockMemory, LockSlices, Goes
  <1> QED
    BY <1>2, <1>4, <1>5, <1>6, ChainStays

\* A thread in one place goes to another, which decides what it holds.
LEMMA InnerKeeps ==
    ASSUME LocksInv, NEW t \in Thread,
           \/ InHeap(t) \/ MallocReleases(t) \/ ReleaseBlock(t) \/ InSlices(t)
           \/ NeedsBlock(t) \/ InSliceHeap(t) \/ UnlockSlices(t)
    PROVE  LocksInv'
  <1>1. LocksTypeOK /\ LocksHeld
    BY DEF LocksInv
  <1>2. UNCHANGED <<call, chain, unlinked>>
    BY DEF InHeap, MallocReleases, ReleaseBlock, InSlices, NeedsBlock, InSliceHeap, UnlockSlices
  <1>3. PICK place \in At \ {"heap", "inHeap"} : at' = [at EXCEPT ![t] = place]
    BY DEF InHeap, MallocReleases, ReleaseBlock, InSlices, NeedsBlock, InSliceHeap, UnlockSlices, Goes, At
  <1>4. \A u \in Thread : at'[u] \in {"heap", "inHeap"} => at[u] \in {"heap", "inHeap"} /\ u # t
    BY <1>1, <1>3 DEF LocksTypeOK
  <1>5. first' \in [Thread -> Thread \cup {MainHeap, NoThread}] /\ \A u \in Thread : u # t => first'[u] = first[u]
    BY <1>1 DEF LocksTypeOK, InHeap, MallocReleases, ReleaseBlock, InSlices, NeedsBlock, InSliceHeap, UnlockSlices
  <1>6. room' \in BOOLEAN
    BY <1>1 DEF LocksTypeOK, InHeap, MallocReleases, ReleaseBlock, InSlices, NeedsBlock, InSliceHeap, UnlockSlices
  <1>7. spare' \in BOOLEAN
    BY <1>1 DEF LocksTypeOK, InHeap, MallocReleases, ReleaseBlock, InSlices, NeedsBlock, InSliceHeap, UnlockSlices
  <1>8. exhausted' \in BOOLEAN
    BY <1>1 DEF LocksTypeOK, InHeap, MallocReleases, ReleaseBlock, InSlices, NeedsBlock, InSliceHeap, UnlockSlices
  <1>9. memory_lock' \in Thread \cup {NoThread} /\ slice_lock' \in Thread \cup {NoThread}
    <2>1. memory_lock' \in {memory_lock, NoThread} /\ slice_lock' \in {slice_lock, NoThread, t}
      BY DEF InHeap, MallocReleases, ReleaseBlock, InSlices, NeedsBlock, InSliceHeap, UnlockSlices
    <2> QED
      BY <1>1, <2>1 DEF LocksTypeOK
  <1>10. LocksTypeOK'
    BY <1>1, <1>2, <1>3, <1>5, <1>6, <1>7, <1>8, <1>9 DEF LocksTypeOK
  <1>11. exhausted => exhausted'
    BY DEF InHeap, MallocReleases, ReleaseBlock, InSlices, NeedsBlock, InSliceHeap, UnlockSlices
  <1>12. LocksHeld'
    <2> USE LocksAssumption DEF LocksHeld, HoldsMemory, HoldsSlices, Goes, LocksTypeOK
    <2>1. CASE InHeap(t)
      BY <1>1, <2>1 DEF InHeap
    <2>2. CASE MallocReleases(t)
      BY <1>1, <2>2 DEF MallocReleases, Full
    <2>3. CASE ReleaseBlock(t)
      BY <1>1, <2>3 DEF ReleaseBlock
    <2>4. CASE InSlices(t)
      BY <1>1, <2>4 DEF InSlices
    <2>5. CASE NeedsBlock(t)
      BY <1>1, <2>5 DEF NeedsBlock
    <2>6. CASE InSliceHeap(t)
      BY <1>1, <2>6 DEF InSliceHeap, Full
    <2>7. CASE UnlockSlices(t)
      BY <1>1, <2>7 DEF UnlockSlices
    <2> QED
      BY <2>1, <2>2, <2>3, <2>4, <2>5, <2>6, <2>7
  <1> QED
    BY <1>2, <1>4, <1>5, <1>10, <1>12, ChainStays

\* A chunk put into the chain or taken out of it is that of the thread that
\* holds memory_lock; a head read before that is remembered as unlinked.
LEMMA InChainKeeps ==
    ASSUME LocksInv, NEW t \in Thread, InChain(t)
    PROVE  LocksInv'
  <1>1. LocksTypeOK /\ LocksHeld /\ Known
    BY DEF LocksInv
  <1>2. /\ at[t] = "inHeap" /\ at' = [at EXCEPT ![t] = "idle"]
        /\ memory_lock' = NoThread
        /\ first' = [first EXCEPT ![t] = NoThread]
        /\ UNCHANGED <<slice_lock, call, room, spare, exhausted>>
    BY DEF InChain, Goes
  <1>3. t # MainHeap /\ chain \in Seq(Thread \cup {MainHeap}) /\ IsInjective(chain) /\ Contains(chain, MainHeap)
    BY <1>1, LocksAssumption DEF LocksTypeOK
  <1>4. /\ chain' \in Seq(Thread \cup {MainHeap}) /\ IsInjective(chain')
        /\ \A x : x # t => (Contains(chain', x) <=> Contains(chain, x))
        /\ Contains(chain', t) \/ unlinked' = unlinked \cup {t} \/ ~\E u \in Thread \ {t} : first[u] = t
    <2>1. CASE call[t] = "sysMalloc"
      <3>1. ~Contains(chain, t) /\ chain' = <<t>> \o chain
        BY <1>1, <1>2, <2>1 DEF Known, InChain
      <3>2. /\ <<t>> \o chain \in Seq(Thread \cup {MainHeap})
            /\ \A y : Contains(<<t>> \o chain, y) <=> Contains(chain, y) \/ y = t
            /\ IsInjective(<<t>> \o chain)
        BY <1>3, <3>1, ConsFacts
      <3> QED
        BY <3>1, <3>2
    <2>2. CASE call[t] = "sysFree"
      <3>1. chain' = RemoveFirst(chain, t)
        BY <2>2 DEF InChain
      <3>2. /\ RemoveFirst(chain, t) \in Seq(Thread \cup {MainHeap})
            /\ IsInjective(RemoveFirst(chain, t))
            /\ \A y : Contains(RemoveFirst(chain, t), y) <=> Contains(chain, y) /\ y # t
        BY <1>3, RemoveFacts
      <3>3. unlinked' = unlinked \cup {t} \/ ~\E u \in Thread \ {t} : first[u] = t
        BY <2>2 DEF InChain
      <3> QED
        BY <3>1, <3>2, <3>3
    <2> QED
      BY <2>1, <2>2 DEF InChain
  <1>5. unlinked \subseteq unlinked' /\ unlinked' \subseteq Thread
    BY <1>1 DEF LocksTypeOK, InChain
  <1>6. LocksTypeOK'
    <2>1. Contains(chain', MainHeap)
      BY <1>3, <1>4
    <2>2. at' \in [Thread -> At]
      BY <1>1, <1>2 DEF LocksTypeOK, At
    <2>3. first' \in [Thread -> Thread \cup {MainHeap, NoThread}]
      BY <1>1, <1>2 DEF LocksTypeOK
    <2> QED
      BY <1>1, <1>2, <1>4, <1>5, <2>1, <2>2, <2>3 DEF LocksTypeOK
  <1>7. LocksHeld'
    BY <1>1, <1>2, LocksAssumption DEF LocksHeld, HoldsMemory, HoldsSlices, LocksTypeOK
  <1>8. ASSUME NEW u \in Thread, at'[u] \in {"heap", "inHeap"}
        PROVE  /\ call'[u] = "sysMalloc" => ~Contains(chain', u)
               /\ call'[u] = "sysFree" => Contains(chain', u)
               /\ call'[u] \in {"free", "sysFree"} => Contains(chain', first'[u]) \/ first'[u] \in unlinked'
    <2>1. u # t /\ at'[u] = at[u] /\ call'[u] = call[u] /\ first'[u] = first[u]
      BY <1>1, <1>2, <1>8 DEF LocksTypeOK
    <2>2. (Contains(chain', u) <=> Contains(chain, u)) /\ at[u] \in {"heap", "inHeap"}
      BY <1>4, <1>8, <2>1
    <2>3. Contains(chain, first[u]) => Contains(chain', first[u]) \/ first[u] \in unlinked'
      BY <1>4, <2>1
    <2> QED
      BY <1>1, <1>5, <2>1, <2>2, <2>3 DEF Known
  <1>9. Known'
    BY <1>8 DEF Known
  <1> QED
    BY <1>6, <1>7, <1>9 DEF LocksInv

\* The invariant of the locks, in every state.
THEOREM LocksInvariant == LocksSpec => []LocksInv
  <1>1. LocksInv /\ [LocksNext]_locksVars => LocksInv'
    <2> SUFFICES ASSUME LocksInv, [LocksNext]_locksVars PROVE LocksInv'
      OBVIOUS
    <2>1. CASE UNCHANGED locksVars
      BY <2>1 DEF locksVars, LocksInv, LocksTypeOK, LocksHeld, Known, HoldsMemory, HoldsSlices
    <2>2. ASSUME NEW t \in Thread, NEW c \in Call, EnterHeap(t, c) \/ EnterSlices(t, c) PROVE LocksInv'
      BY <2>2, EnterKeeps
    <2>3. ASSUME NEW t \in Thread, LockMemory(t) \/ LockSlices(t) PROVE LocksInv'
      BY <2>3, LockKeeps
    <2>4. ASSUME NEW t \in Thread, InChain(t) PROVE LocksInv'
      BY <2>4, InChainKeeps
    <2>5. ASSUME NEW t \in Thread,
                 \/ InHeap(t) \/ MallocReleases(t) \/ ReleaseBlock(t) \/ InSlices(t)
                 \/ NeedsBlock(t) \/ InSliceHeap(t) \/ UnlockSlices(t)
          PROVE  LocksInv'
      BY <2>5, InnerKeeps
    <2> QED
      BY <2>1, <2>2, <2>3, <2>4, <2>5 DEF LocksNext
  <1> QED
    BY <1>1, LocksInitInv, PTL DEF LocksSpec

\* While the heap was never exhausted no threads wait for each other: whoever
\* waits for slice_lock waits for one that at most waits for memory_lock, and
\* who holds that waits for nobody.
LEMMA NoKnot ==
    ASSUME LocksInv, ~exhausted
    PROVE  ~Knot
  <1>1. LocksTypeOK /\ LocksHeld
    BY DEF LocksInv
  <1> SUFFICES ASSUME NEW d \in SUBSET Thread, d # {}, \A t \in d : WaitsFor(t) \in d
               PROVE  FALSE
    BY DEF Knot
  <1>2. \A t \in d : WaitsFor(t) \in Thread /\ WaitsFor(t) # NoThread
    BY LocksAssumption
  <1>3. \A t \in Thread : HoldsMemory(t) => WaitsFor(t) = NoThread
    BY <1>1 DEF LocksHeld, HoldsMemory, WaitsFor
  <1>4. \A t \in d : WaitsFor(t) # memory_lock
    <2> SUFFICES ASSUME NEW t \in d, WaitsFor(t) = memory_lock PROVE FALSE
      OBVIOUS
    <2>1. memory_lock \in d /\ memory_lock \in Thread
      BY <1>2
    <2>2. HoldsMemory(memory_lock)
      BY <1>1, <2>1 DEF LocksHeld
    <2> QED
      BY <1>2, <1>3, <2>1, <2>2
  <1>5. PICK t \in d : TRUE
    OBVIOUS
  <1>6. at[t] \in At /\ WaitsFor(t) = slice_lock
    BY <1>1, <1>2, <1>4 DEF WaitsFor, LocksTypeOK, At
  <1>7. slice_lock \in d /\ HoldsSlices(slice_lock)
    BY <1>1, <1>2, <1>6 DEF LocksHeld
  <1>8. WaitsFor(slice_lock) \in {memory_lock, NoThread}
    BY <1>7 DEF HoldsSlices, WaitsFor
  <1> QED
    BY <1>2, <1>4, <1>7, <1>8

\* Threads only wait for each other for ever once a call found the heap
\* exhausted, and every walk of the chain begins at a chunk that is in it, but
\* for one whose owner freed it after the walker had read the head.
THEOREM LocksAreSound == LocksSpec => []LocksSound
  <1>1. ASSUME LocksInv PROVE LocksSound
    <2>1. Knot => exhausted
      BY <1>1, NoKnot
    <2> QED
      BY <1>1, <2>1 DEF LocksInv, Known, LocksSound
  <1> QED
    BY <1>1, LocksInvariant, PTL

-----------------------------------------------------------------------------
(* The timers                                                               *)

\* A timer is less than an interval late, or rests no longer than it may.
Punctual(n) ==
    /\ n.msec - n.rest \in 0..Interval[n.user] - 1
    /\ n.rest < 3 * Interval[n.user] + (MaxRound \div Msec) + 1

\* TimeKept speaks of every time that may pass; what a step must preserve is this.
TimerInv ==
    /\ TimersTypeOK
    /\ \A a \in NodeAddr : Held(a) => Punctual(node[a])
    /\ HandlesSound

-----------------------------------------------------------------------------
(* Arithmetic                                                               *)

\* What a quotient and its remainder are.
LEMMA Division ==
    ASSUME NEW a \in Nat, NEW m \in Nat \ {0}
    PROVE  /\ a \div m \in Nat /\ a % m \in 0..m - 1
           /\ a = (m * (a \div m)) + (a % m)
  BY SMT

\* A multiple of m that is less than another by less than m is at most that one.
LEMMA Multiple ==
    ASSUME NEW m \in Nat \ {0}, NEW x \in Nat, NEW y \in Nat, x * m < (y + 1) * m
    PROVE  x <= y
  <1>1. SUFFICES ASSUME x >= y + 1 PROVE FALSE
      OBVIOUS
  <1>2. x * m >= (y + 1) * m
      BY <1>1, SMT
  <1>3. QED
      BY <1>2

\* Numbers that TimersAssumption and the types give to the clock.
LEMMA ClockTypes ==
    ASSUME TimersTypeOK
    PROVE  /\ Sec \in Nat \ {0} /\ Msec \in Nat \ {0} /\ MaxRound \in Nat
           /\ usec \in 0..Sec - 1 /\ remain \in 0..Msec - 1
           /\ Sec \div Msec \in Nat /\ Sec = Msec * (Sec \div Msec)
  <1>1. /\ Sec \in Nat \ {0} /\ Msec \in Nat \ {0} /\ MaxRound \in Nat /\ Sec % Msec = 0
        /\ usec \in 0..Sec - 1 /\ remain \in 0..Msec - 1
      BY TimersAssumption DEF TimersTypeOK
  <1>2. Sec \div Msec \in Nat /\ Sec = (Msec * (Sec \div Msec)) + (Sec % Msec)
      BY <1>1, Division
  <1>3. QED
      BY <1>1, <1>2

\* The two fields of the clock, subtracted one by one, give the time that passed.
LEMMA SinceFacts ==
    ASSUME TimersTypeOK, NEW d \in Nat
    PROVE  /\ Since(d).sec \in Nat /\ Since(d).usec \in 0..Sec - 1
           /\ d = (Sec * Since(d).sec) + Since(d).usec
  <1> DEFINE s == (usec + d) \div Sec
             newusec == (usec + d) % Sec
  <1>1. Sec \in Nat \ {0} /\ usec \in 0..Sec - 1
      BY ClockTypes
  <1>2. s \in Nat /\ newusec \in 0..Sec - 1 /\ usec + d = (Sec * s) + newusec
    <2> DEFINE total == usec + d
    <2>1. total \in Nat
        BY <1>1
    <2> HIDE DEF total
    <2>2. total \div Sec \in Nat /\ total % Sec \in 0..Sec - 1 /\ total = (Sec * (total \div Sec)) + (total % Sec)
        BY ONLY <1>1, <2>1, Division
    <2>3. QED
        BY <2>2 DEF total
  <1>3. Since(d) = IF newusec < usec THEN [sec |-> s - 1, usec |-> Sec - usec + newusec]
                   ELSE [sec |-> s, usec |-> newusec - usec]
      BY DEF Since
  <1> HIDE DEF s, newusec
  <1>4. CASE newusec < usec
    <2>1. s \in Nat \ {0}
      <3>1. s # 0
          BY <1>1, <1>2, <1>4
      <3>2. QED
          BY <1>2, <3>1
    <2>2. Sec * (s - 1) = (Sec * s) - Sec
        BY <1>1, <2>1
    <2>3. QED
        BY <1>1, <1>2, <1>3, <1>4, <2>1, <2>2
  <1>5. CASE ~(newusec < usec)
      BY <1>1, <1>2, <1>3, <1>5
  <1>6. QED
      BY <1>4, <1>5

\* What a round gives the timers, in milliseconds, and what it keeps of one, are the
\* time that passed since the last and what that one kept.
LEMMA NothingLost ==
    ASSUME TimersTypeOK, NEW d \in Nat
    PROVE  /\ Elapsed(d) \in Nat
           /\ (remain + Since(d).usec) % Msec \in 0..Msec - 1
           /\ (Elapsed(d) * Msec) + ((remain + Since(d).usec) % Msec) = remain + d
  <1> DEFINE t == Since(d)
             r == remain + t.usec
             k == Sec \div Msec
  <1>1. Msec \in Nat \ {0} /\ remain \in Nat /\ k \in Nat /\ Sec = Msec * k
      BY ClockTypes
  <1>2. t.sec \in Nat /\ t.usec \in Nat /\ d = (Sec * t.sec) + t.usec
    <2>1. Sec \in Nat
        BY ClockTypes
    <2>2. QED
        BY <2>1, SinceFacts
  <1>3. r \div Msec \in Nat /\ r % Msec \in 0..Msec - 1 /\ r = (Msec * (r \div Msec)) + (r % Msec)
    <2>1. r \in Nat
        BY <1>1, <1>2
    <2> HIDE DEF r
    <2>2. QED
        BY ONLY <1>1, <2>1, Division
  <1>4. Elapsed(d) = (r \div Msec) + (t.sec * k)
      BY DEF Elapsed
  <1> DEFINE q == r \div Msec
             w == r % Msec
             n == t.sec
  <1>5. q \in Nat /\ n \in Nat /\ (q + (n * k)) * Msec = (Msec * q) + ((Msec * k) * n)
    <2>1. q \in Nat /\ n \in Nat
        BY <1>2, <1>3
    <2> HIDE DEF q, n, k
    <2>2. QED
        BY <1>1, <2>1
  <1>6. n * k \in Nat
    <2> HIDE DEF n, k
    <2> QED
        BY <1>1, <1>5
  <1>7. (Elapsed(d) * Msec) + w = remain + d
    <2>1. Elapsed(d) * Msec = (Msec * q) + (Sec * n)
        BY <1>1, <1>4, <1>5
    <2>2. r = (Msec * q) + w /\ d = (Sec * n) + t.usec /\ w \in Nat
      <3>1. w \in Nat
          BY <1>1, <1>3
      <3>2. QED
          BY <1>2, <1>3, <3>1
    <2>3. Sec * n \in Nat /\ Msec * q \in Nat
      <3>1. Sec \in Nat
          BY ClockTypes
      <3> HIDE DEF q, n
      <3> QED
          BY <1>1, <1>5, <3>1
    <2>4. r = remain + t.usec
        OBVIOUS
    <2> DEFINE whole == Msec * q
               gone == Sec * n
               passed == Elapsed(d) * Msec
               since == t.usec
    <2>5. /\ whole \in Nat /\ gone \in Nat /\ w \in Nat /\ since \in Nat /\ remain \in Nat
          /\ passed = whole + gone /\ remain + since = whole + w /\ d = gone + since
        BY <1>1, <1>2, <2>1, <2>2, <2>3, <2>4
    <2> HIDE DEF whole, gone, passed, since, w
    <2>6. passed + w = remain + d
        BY ONLY <2>5
    <2>7. QED
        BY <2>6 DEF passed, w
  <1>8. QED
      BY <1>3, <1>4, <1>5, <1>6, <1>7

\* A round gives a timer at most a millisecond more than the time it is called after.
LEMMA RoundBounded ==
    ASSUME TimersTypeOK, NEW d \in 0..MaxRound
    PROVE  Elapsed(d) \in 0..(MaxRound \div Msec) + 1
  <1> DEFINE n == Elapsed(d)
             q == MaxRound \div Msec
             w == MaxRound % Msec
  <1>1. Msec \in Nat \ {0} /\ MaxRound \in Nat /\ remain \in 0..Msec - 1 /\ d \in Nat /\ d <= MaxRound
    <2>1. MaxRound \in Nat
        BY ClockTypes
    <2>2. QED
        BY <2>1, ClockTypes
  <1>2. n \in Nat /\ n * Msec <= remain + d
    <2> DEFINE rest == (remain + Since(d).usec) % Msec
    <2>1. n \in Nat /\ rest \in 0..Msec - 1 /\ (n * Msec) + rest = remain + d
        BY <1>1, NothingLost
    <2>2. n * Msec \in Nat
      <3> HIDE DEF n
      <3> QED
          BY <1>1, <2>1
    <2> HIDE DEF n, rest
    <2>3. QED
        BY ONLY <1>1, <2>1, <2>2
  <1>3. q \in Nat /\ w \in 0..Msec - 1 /\ MaxRound = (Msec * q) + w
      BY <1>1, Division
  <1> HIDE DEF n, q, w
  <1>4. ((q + 1) + 1) * Msec = (Msec * q) + Msec + Msec
      BY ONLY <1>1, <1>3
  <1>5. n * Msec < ((q + 1) + 1) * Msec
    <2>1. Msec * q \in Nat /\ n * Msec \in Nat
        BY ONLY <1>1, <1>2, <1>3
    <2>2. QED
        BY ONLY <1>1, <1>2, <1>3, <1>4, <2>1
  <1>6. n <= q + 1
      BY ONLY <1>1, <1>2, <1>3, <1>5, Multiple
  <1>7. QED
      BY <1>2, <1>3, <1>6 DEF n, q

-----------------------------------------------------------------------------
(* The invariant                                                            *)

\* What a round makes of a timer: it is freed, or as punctual as it was; and it still
\* runs for its user unless the user's callback ended it.
LEMMA WalkedFacts ==
    ASSUME NEW n \in TimerNode \cup {Freed}, n.in # "none" => Punctual(n),
           NEW ms \in 0..(MaxRound \div Msec) + 1, NEW ended \in SUBSET User
    PROVE  LET w == Walked(n, ms, ended) IN
           /\ w \in TimerNode \cup {Freed}
           /\ w.in # "none" => Punctual(w)
           /\ n.in # "none" /\ n.status = "doing" /\ n.user \notin ended =>
                w.in # "none" /\ w.status = "doing" /\ w.user = n.user
  <1> DEFINE w == Walked(n, ms, ended)
             i == Interval[n.user]
             q == MaxRound \div Msec
  <1>0. \A x : x.user = n.user =>
           (Punctual(x) <=> x.msec - x.rest \in 0..i - 1 /\ x.rest < 3 * i + q + 1)
      BY DEF Punctual
  <1>1. CASE n.in = "none" \/ n.status = "del"
    <2>1. w = Freed
        BY <1>1 DEF Walked
    <2>2. QED
        BY <1>1, <2>1 DEF Freed
  <1>2. CASE ~(n.in = "none" \/ n.status = "del")
    <2>1. n \in TimerNode /\ n.status = "doing"
      <3>1. n \in TimerNode
          BY <1>2 DEF Freed
      <3>2. QED
          BY <1>2, <3>1 DEF TimerNode
    <2>2. n.user \in User /\ n.msec \in Nat /\ n.rest \in Nat /\ i \in Nat \ {0} /\ q \in Nat /\ ms \in 0..q + 1
      <3>1. n.user \in User /\ n.msec \in Nat /\ n.rest \in Nat
          BY <2>1 DEF TimerNode
      <3>2. i \in Nat \ {0}
          BY <3>1, TimersAssumption DEF User
      <3>3. MaxRound \div Msec \in Nat
          BY TimersAssumption, Division
      <3>4. QED
          BY <3>1, <3>2, <3>3
    <2>3. n.msec - n.rest \in 0..i - 1 /\ n.rest < 3 * i + q + 1
        BY <1>0, <1>2
    <2> DEFINE later == n.msec + ms
    <2>4. later \in Nat
        BY <2>2
    <2>5. CASE Fires(n, ms)
      <3>1. w = [n EXCEPT !.in = "list", !.rest = 0, !.msec = later % i,
                          !.status = IF n.user \in ended THEN "del" ELSE "doing"]
          BY <1>2, <2>5 DEF Walked, Later, TimerNode
      <3>2. later % i \in 0..i - 1
        <4> HIDE DEF later, i, q
        <4> QED
            BY ONLY <2>2, <2>4, Division
      <3> DEFINE left == later % i
      <3>3. left \in Nat /\ left \in 0..i - 1
          BY <2>2, <3>2
      <3> HIDE DEF left
      <3>4. w = [n EXCEPT !.in = "list", !.rest = 0, !.msec = left,
                          !.status = IF n.user \in ended THEN "del" ELSE "doing"]
          BY <3>1 DEF left
      <3> HIDE DEF w
      <3>5. /\ w \in TimerNode /\ w.in = "list" /\ w.user = n.user /\ w.rest = 0 /\ w.msec = left
            /\ n.user \notin ended => w.status = "doing"
          BY <2>1, <2>2, <3>3, <3>4 DEF TimerNode
      <3> HIDE DEF i, q
      <3>6. w.msec - w.rest \in 0..i - 1 /\ w.rest < 3 * i + q + 1
          BY ONLY <2>2, <3>3, <3>5
      <3>7. QED
          BY <1>0, <3>5, <3>6 DEF w
    <2>6. CASE ~Fires(n, ms) /\ later >= i
      <3>1. n.rest < 3 * i
          BY <1>2, <2>1, <2>6 DEF Fires, Rests, Later
      <3>2. w = [n EXCEPT !.in = "list", !.msec = later, !.rest = n.rest + ms]
          BY <1>2, <2>6 DEF Walked, Later
      <3> HIDE DEF w
      <3>3. /\ w \in TimerNode /\ w.in = "list" /\ w.user = n.user /\ w.rest = n.rest + ms /\ w.msec = later
            /\ w.status = "doing"
        <4>1. n.rest + ms \in Nat
            BY <2>2
        <4> DEFINE more == n.rest + ms
        <4> HIDE DEF later, more, i, q
        <4>2. w = [n EXCEPT !.in = "list", !.msec = later, !.rest = more] /\ more \in Nat
            BY <3>2, <4>1 DEF more
        <4>3. /\ w \in TimerNode /\ w.in = "list" /\ w.user = n.user /\ w.rest = more /\ w.msec = later
              /\ w.status = "doing"
            BY ONLY <2>1, <2>2, <2>4, <4>2 DEF TimerNode
        <4>4. QED
            BY <4>3 DEF more
      <3> HIDE DEF i, q
      <3>4. w.msec - w.rest \in 0..i - 1 /\ w.rest < 3 * i + q + 1
          BY ONLY <2>2, <2>3, <3>1, <3>3
      <3>5. QED
          BY <1>0, <3>3, <3>4 DEF w
    <2>7. CASE ~Fires(n, ms) /\ ~(later >= i)
      <3>1. w = [n EXCEPT !.in = "list", !.msec = later]
          BY <1>2, <2>7 DEF Walked, Later
      <3> HIDE DEF w
      <3>2. /\ w \in TimerNode /\ w.in = "list" /\ w.user = n.user /\ w.rest = n.rest /\ w.msec = later
            /\ w.status = "doing"
          BY <2>1, <2>2, <2>4, <3>1 DEF TimerNode
      <3> HIDE DEF i, q
      <3>3. w.msec - w.rest \in 0..i - 1 /\ w.rest < 3 * i + q + 1
          BY ONLY <2>2, <2>3, <2>4, <2>7, <3>2
      <3>4. QED
          BY <1>0, <3>2, <3>3 DEF w
    <2>8. QED
        BY <2>5, <2>6, <2>7
  <1>3. QED
      BY <1>1, <1>2

\* At the start there are no timers and no handles.
LEMMA TimersInitInv == TimersInit => TimerInv
  <1>1. SUFFICES ASSUME TimersInit PROVE TimerInv
      OBVIOUS
  <1>2. Sec \in Nat \ {0} /\ Msec \in Nat \ {0}
      BY TimersAssumption
  <1>3. TimersTypeOK
      BY <1>1, <1>2 DEF TimersInit, TimersTypeOK, Freed
  <1>4. \A a \in NodeAddr : ~Held(a)
      BY <1>1 DEF TimersInit, Held, Freed
  <1>5. HandlesSound
      BY <1>1 DEF TimersInit, HandlesSound
  <1>6. QED
      BY <1>3, <1>4, <1>5 DEF TimerInv

\* A round: what it ends is forgotten by the item and stale in the button's hands.
LEMMA RoundInv ==
    ASSUME TimerInv, NEW d \in 0..MaxRound, NEW ended \in SUBSET User, Round(d, ended)
    PROVE  TimerInv'
  <1> DEFINE ms == Elapsed(d)
  <1>1. /\ node \in [NodeAddr -> TimerNode \cup {Freed}]
        /\ handle \in [User -> NodeAddr \cup {NoTimer}] /\ stale \subseteq User
        /\ \A a \in NodeAddr : Held(a) => Punctual(node[a])
        /\ TimersTypeOK
      BY DEF TimerInv, TimersTypeOK
  <1>2. ms \in 0..(MaxRound \div Msec) + 1
      BY <1>1, RoundBounded
  <1> HIDE DEF ms
  <1>3. /\ node' = [a \in NodeAddr |-> Walked(node[a], ms, ended)]
        /\ handle' = [u \in User |-> IF u \in ended \cap Forgets THEN NoTimer ELSE handle[u]]
        /\ stale' = (stale \ (ended \cap Forgets)) \cup (ended \cap {"button"})
        /\ usec' = (usec + d) % Sec
        /\ remain' = (remain + Since(d).usec) % Msec
      BY DEF Round, ms
  <1>4. \A a \in NodeAddr :
          /\ node'[a] \in TimerNode \cup {Freed}
          /\ node'[a].in # "none" => Punctual(node'[a])
          /\ Doing(a) /\ node[a].user \notin ended =>
               /\ node'[a].in # "none" /\ node'[a].status = "doing"
               /\ node'[a].user = node[a].user
    <2> TAKE a \in NodeAddr
    <2>1. node[a] \in TimerNode \cup {Freed} /\ (node[a].in # "none" => Punctual(node[a]))
        BY <1>1 DEF Held
    <2>2. node'[a] = Walked(node[a], ms, ended)
        BY <1>3
    <2>3. QED
        BY <1>2, <2>1, <2>2, WalkedFacts DEF Doing, Held
  <1>5. usec' \in 0..Sec - 1 /\ remain' \in 0..Msec - 1
    <2>1. d \in Nat /\ usec + d \in Nat /\ Sec \in Nat \ {0}
      <3>1. MaxRound \in Nat /\ usec \in 0..Sec - 1 /\ Sec \in Nat \ {0}
          BY <1>1, ClockTypes
      <3>2. QED
          BY <3>1
    <2>2. (usec + d) % Sec \in 0..Sec - 1
      <3> DEFINE total == usec + d
      <3>1. total \in Nat
          BY <2>1
      <3> HIDE DEF total
      <3>2. total % Sec \in 0..Sec - 1
          BY ONLY <2>1, <3>1, Division
      <3>3. QED
          BY <3>2 DEF total
    <2>3. QED
        BY <1>1, <1>3, <2>1, <2>2, NothingLost
  <1>6. TimersTypeOK'
    <2>1. node' \in [NodeAddr -> TimerNode \cup {Freed}]
        BY <1>3, <1>4
    <2>2. handle' \in [User -> NodeAddr \cup {NoTimer}] /\ stale' \subseteq User
        BY <1>1, <1>3
    <2>3. QED
        BY <1>5, <2>1, <2>2 DEF TimersTypeOK
  <1>7. HandlesSound'
    <2> SUFFICES ASSUME NEW u \in User \ stale', handle'[u] # NoTimer
                 PROVE  Doing(handle[u])' /\ node'[handle'[u]].user = u
        BY DEF HandlesSound
    <2>1. handle'[u] = handle[u] /\ u \notin ended /\ u \notin stale /\ handle[u] \in NodeAddr
        BY <1>1, <1>3 DEF User, Forgets
    <2>2. Doing(handle[u]) /\ node[handle[u]].user = u
        BY <2>1 DEF TimerInv, HandlesSound
    <2>3. QED
        BY <1>4, <2>1, <2>2 DEF Doing, Held
  <1>8. QED
      BY <1>4, <1>6, <1>7 DEF TimerInv, Held

\* A new timer takes memory that no timer is in.
LEMMA AddInv ==
    ASSUME TimerInv, NEW u \in User, NEW a \in NodeAddr, Add(u, a), UNCHANGED <<usec, remain>>
    PROVE  TimerInv'
  <1>1. /\ node \in [NodeAddr -> TimerNode \cup {Freed}]
        /\ handle \in [User -> NodeAddr \cup {NoTimer}] /\ stale \subseteq User
        /\ \A b \in NodeAddr : Held(b) => Punctual(node[b])
        /\ usec \in 0..Sec - 1 /\ remain \in 0..Msec - 1
      BY DEF TimerInv, TimersTypeOK
  <1>2. /\ ~Held(a) /\ node' = [node EXCEPT ![a] = Added(u)] /\ handle' = [handle EXCEPT ![u] = a]
        /\ stale' = stale \ {u} /\ usec' = usec /\ remain' = remain
      BY DEF Add
  <1>3. Added(u) \in TimerNode /\ Added(u).in = "added" /\ Added(u).status = "doing" /\ Added(u).user = u
      BY DEF Added, TimerNode
  <1>4. Punctual(Added(u))
    <2>1. Interval[u] \in Nat \ {0} /\ MaxRound \div Msec \in Nat
        BY TimersAssumption, Division DEF User
    <2>2. Added(u).user = u /\ Added(u).msec = 0 /\ Added(u).rest = 0
        BY DEF Added
    <2>3. QED
        BY <2>1, <2>2 DEF Punctual
  <1>5. \A b \in NodeAddr : node'[b] = IF b = a THEN Added(u) ELSE node[b]
      BY <1>1, <1>2
  <1>6. TimersTypeOK'
      BY <1>1, <1>2, <1>3 DEF TimersTypeOK
  <1>7. HandlesSound'
    <2> SUFFICES ASSUME NEW v \in User \ stale', handle'[v] # NoTimer
                 PROVE  Doing(handle[v])' /\ node'[handle'[v]].user = v
        BY DEF HandlesSound
    <2>1. CASE v = u
        BY <1>1, <1>2, <1>3, <1>5, <2>1 DEF Doing, Held
    <2>2. CASE v # u
      <3>1. v \notin stale /\ handle'[v] = handle[v] /\ handle[v] \in NodeAddr
          BY <1>1, <1>2, <2>2
      <3>2. Doing(handle[v]) /\ node[handle[v]].user = v
          BY <3>1 DEF TimerInv, HandlesSound
      <3>3. handle[v] # a
          BY <1>2, <3>2 DEF Doing
      <3>4. QED
          BY <1>5, <3>1, <3>2, <3>3 DEF Doing, Held
    <2>3. QED
        BY <2>1, <2>2
  <1>8. \A b \in NodeAddr : Held(b)' => Punctual(node'[b])
      BY <1>1, <1>4, <1>5 DEF Held
  <1>9. QED
      BY <1>6, <1>7, <1>8 DEF TimerInv, Punctual

\* Deleting through a handle stops the timer it names; whoever runs that one besides
\* is left with a stale handle.
LEMMA DelInv ==
    ASSUME TimerInv, NEW u \in User, handle[u] # NoTimer, Del(u), UNCHANGED <<usec, remain>>
    PROVE  TimerInv'
  <1> DEFINE h == handle[u]
  <1>1. /\ node \in [NodeAddr -> TimerNode \cup {Freed}]
        /\ handle \in [User -> NodeAddr \cup {NoTimer}] /\ stale \subseteq User
        /\ \A b \in NodeAddr : Held(b) => Punctual(node[b])
        /\ usec \in 0..Sec - 1 /\ remain \in 0..Msec - 1
        /\ h \in NodeAddr
      BY DEF TimerInv, TimersTypeOK
  <1>2. /\ node' = IF Held(h) THEN [node EXCEPT ![h].status = "del"] ELSE node
        /\ handle' = [handle EXCEPT ![u] = NoTimer]
        /\ stale' = (stale \cup {v \in User : Held(h) /\ node[h].user = v}) \ {u}
        /\ usec' = usec /\ remain' = remain
      BY DEF Del
  <1>3. Held(h) => /\ node[h] \in TimerNode
                   /\ [node[h] EXCEPT !.status = "del"] \in TimerNode
                   /\ [node[h] EXCEPT !.status = "del"].user = node[h].user
                   /\ [node[h] EXCEPT !.status = "del"].msec = node[h].msec
                   /\ [node[h] EXCEPT !.status = "del"].rest = node[h].rest
      BY <1>1 DEF Held, Freed, TimerNode
  <1>4. \A b \in NodeAddr :
          node'[b] = IF Held(h) /\ b = h THEN [node[b] EXCEPT !.status = "del"] ELSE node[b]
      BY <1>1, <1>2
  <1>5. TimersTypeOK'
    <2>1. node' \in [NodeAddr -> TimerNode \cup {Freed}]
        BY <1>1, <1>2, <1>3
    <2>2. QED
        BY <1>1, <1>2, <2>1 DEF TimersTypeOK
  <1>6. HandlesSound'
    <2> SUFFICES ASSUME NEW v \in User \ stale', handle'[v] # NoTimer
                 PROVE  Doing(handle[v])' /\ node'[handle'[v]].user = v
        BY DEF HandlesSound
    <2>1. v # u /\ handle'[v] = handle[v] /\ v \notin stale /\ handle[v] \in NodeAddr
        BY <1>1, <1>2
    <2>2. Doing(handle[v]) /\ node[handle[v]].user = v
        BY <2>1 DEF TimerInv, HandlesSound
    <2>3. ~(Held(h) /\ handle[v] = h)
        BY <1>2, <2>1, <2>2
    <2>4. QED
        BY <1>4, <2>1, <2>2, <2>3 DEF Doing, Held
  <1>7. \A b \in NodeAddr : Held(b)' => Punctual(node[b])'
    <2> TAKE b \in NodeAddr
    <2>1. CASE Held(h) /\ b = h
        BY <1>1, <1>3, <1>4, <2>1 DEF Punctual
    <2>2. CASE ~(Held(h) /\ b = h)
        BY <1>1, <1>4, <2>2 DEF Held, Punctual
    <2>3. QED
        BY <2>1, <2>2
  <1>8. QED
      BY <1>5, <1>6, <1>7 DEF TimerInv

-----------------------------------------------------------------------------
(* The theorems                                                             *)

\* In every reachable state the timers are punctual and the handles sound: what holds
\* of e_timer_loop, e_timer_add, e_timer_del and the four handlers of egui/menu.c.
THEOREM TimersInvariant == TimersSpec => []TimerInv
  <1>1. TimerInv /\ [TimersNext]_timersVars => TimerInv'
    <2> SUFFICES ASSUME TimerInv, [TimersNext]_timersVars PROVE TimerInv'
        OBVIOUS
    <2>1. ASSUME NEW d \in 0..MaxRound, NEW ended \in SUBSET User, Round(d, ended) PROVE TimerInv'
        BY <2>1, RoundInv
    <2>2. ASSUME NEW a \in NodeAddr, BnEnter(a) PROVE TimerInv'
        BY <2>2, AddInv DEF BnEnter, User
    <2>3. ASSUME NEW a \in NodeAddr, ItemFocusIn(a) PROVE TimerInv'
        BY <2>3, AddInv DEF ItemFocusIn, User
    <2>4. CASE BnLeave
        BY <2>4, DelInv DEF BnLeave, User
    <2>5. CASE ItemLeft
        BY <2>5, DelInv DEF ItemLeft, User
    <2>6. CASE UNCHANGED timersVars
        BY <2>6 DEF timersVars, TimerInv, TimersTypeOK, HandlesSound, Doing, Held, Punctual
    <2>7. QED
        BY <2>1, <2>2, <2>3, <2>4, <2>5, <2>6 DEF TimersNext
  <1>2. QED
      BY <1>1, TimersInitInv, PTL DEF TimersSpec

\* Whatever time passes between two rounds, what the timers get and what is kept of a
\* millisecond are what passed; and no timer is late but one that rests.
THEOREM TimeIsKept == TimersSpec => []TimeKept
  <1>1. TimerInv => TimeKept
    <2> SUFFICES ASSUME TimerInv PROVE TimeKept
        OBVIOUS
    <2>1. TimersTypeOK
        BY DEF TimerInv
    <2>2. \A d \in 0..3 * Sec :
            (Elapsed(d) * Msec) + ((remain + Since(d).usec) % Msec) = remain + d
      <3> TAKE d \in 0..3 * Sec
      <3>1. d \in Nat
          OBVIOUS
      <3>2. QED
          BY <2>1, <3>1, NothingLost
    <2>3. \A a \in NodeAddr : Held(a) => Punctual(node[a])
        BY DEF TimerInv
    <2>4. QED
        BY <2>1, <2>2, <2>3 DEF TimeKept, Punctual
  <1>2. QED
      BY <1>1, TimersInvariant, PTL

\* A handle names a timer that runs for its holder, unless that timer ended and the
\* holder was not told.
THEOREM HandlesAreSound == TimersSpec => []HandlesSound
  <1>1. TimerInv => HandlesSound
      BY DEF TimerInv
  <1>2. QED
      BY <1>1, TimersInvariant, PTL

-----------------------------------------------------------------------------
(* The ring                                                                 *)


\* What TypeOK needs to be inductive: an idle ring has nothing to do, a write
\* has room for what it still has to copy, and an empty ring starts at 0.
Quiet ==
    /\ op # "write" => Len(todo) = 0
    /\ op \in {"idle", "write"} => want = 0
    /\ len + Len(todo) <= Size
    /\ len = 0 => pos = 0

RingInv == TypeOK /\ Quiet

\* The remainder the code takes is one conditional subtraction.
LEMMA Modulo ==
    \A m \in Nat : m < 2 * Size =>
        /\ m < Size => m % Size = m
        /\ m >= Size => m % Size = m - Size
BY RingAssumption, SMT

\* A piece of a sequence.
LEMMA PieceType ==
    ASSUME NEW s \in Seq(Byte), NEW from \in Nat \ {0}, NEW to \in Nat, to <= Len(s), from <= to + 1
    PROVE  /\ Piece(s, from, to) \in Seq(Byte)
           /\ Len(Piece(s, from, to)) = to - from + 1
           /\ \A i \in 1..(to - from + 1) : Piece(s, from, to)[i] = s[from + i - 1]
BY SMT DEF Piece

\* A piece of a write fits where it is put: in the array, and on no byte that is
\* queued; and it continues them.
LEMMA StretchFree ==
    ASSUME RingInv, op = "write", Len(todo) > 0, NEW n \in Nat, n = Least(Stretch, Len(todo))
    PROVE  /\ n \in 1..Len(todo)
           /\ Begin \in Nat /\ Begin + n <= Size
           /\ \A i \in 1..len : Slot(i) \in Slots /\ ~(Begin <= Slot(i) /\ Slot(i) < Begin + n)
           /\ \A k \in 1..n : Slot(len + k) = Begin + k - 1
<1>1. /\ pos \in 0..Size /\ len \in 0..(Size - 1) /\ Len(todo) \in Nat /\ Size \in Nat \ {0}
      /\ len = 0 => pos = 0
    BY RingAssumption DEF RingInv, TypeOK, Quiet
<1>2. CASE len = 0
    BY <1>1, <1>2 DEF Begin, Stretch, Least, Slot, Slots
<1>3. CASE len > 0
  <2>1. pos + len \in Nat /\ pos + len < 2 * Size
      BY <1>1
  <2>2. (pos + len) % Size = IF pos + len >= Size THEN pos + len - Size ELSE pos + len
      BY ONLY <1>1, <2>1, Modulo
  <2>3. Begin = (pos + len) % Size
      BY <1>1, <1>3 DEF Begin
  <2>4. Begin = IF pos + len >= Size THEN pos + len - Size ELSE pos + len
      BY <2>2, <2>3
  <2>5. /\ Stretch \in 1..Size /\ Begin \in Nat /\ Begin + Stretch <= Size
        /\ Stretch = IF pos + len >= Size THEN pos - Begin ELSE Size - Begin
    <3>1. CASE pos + len >= Size
        BY <1>1, <1>3, <2>4, <3>1 DEF Stretch
    <3>2. CASE pos + len < Size
        BY <1>1, <1>3, <2>4, <3>2 DEF Stretch
    <3>3. QED
        BY <1>1, <3>1, <3>2
  <2>6. n \in 1..Len(todo) /\ n <= Stretch
      BY <1>1, <2>5 DEF Least
  <2>7. Begin + n <= Size
      BY <1>1, <2>5, <2>6
  <2>8. /\ \A i \in 1..len : Slot(i) \in Slots /\ ~(Begin <= Slot(i) /\ Slot(i) < Begin + n)
        /\ \A k \in 1..n : Slot(len + k) = Begin + k - 1
    <3>1. CASE pos + len >= Size
        BY ONLY <1>1, <1>3, <2>4, <2>5, <2>6, <3>1 DEF Slot, Slots
    <3>2. CASE pos + len < Size
        BY ONLY <1>1, <1>3, <2>4, <2>5, <2>6, <3>2 DEF Slot, Slots
    <3>3. QED
        BY <1>1, <3>1, <3>2
  <2>9. QED
      BY <2>5, <2>6, <2>7, <2>8
<1>4. QED
    BY <1>1, <1>2, <1>3

\* An idle ring has nothing to do.
LEMMA RingInitInv == Init => RingInv
BY RingAssumption DEF Init, RingInv, TypeOK, Quiet

\* A write takes what there is room for.
LEMMA WriteInv == ASSUME RingInv, NEW s \in Args, Write(s) PROVE RingInv'
<1>1. s \in Seq(Byte) /\ len \in 0..Size /\ Size \in Nat
    BY RingAssumption DEF RingInv, TypeOK
<1>2. Accepted(s) \in 0..Len(s) /\ Accepted(s) <= Size - len
    BY <1>1 DEF Accepted, Least, Space
<1>3. Piece(s, 1, Accepted(s)) \in Seq(Byte) /\ Len(Piece(s, 1, Accepted(s))) = Accepted(s)
    <2>1. PICK a \in Nat : a = Accepted(s) /\ a <= Len(s) /\ 1 \in Nat \ {0} /\ 1 <= a + 1 /\ a - 1 + 1 = a
        BY ONLY <1>1, <1>2
    <2>2. Piece(s, 1, a) \in Seq(Byte) /\ Len(Piece(s, 1, a)) = a - 1 + 1
        BY ONLY <1>1, <2>1, PieceType
    <2> QED
        BY ONLY <2>1, <2>2
<1>4. QED
    BY <1>1, <1>2, <1>3 DEF RingInv, TypeOK, Quiet, Write

\* A piece of it is copied into the array.
LEMMA WritePieceInv == ASSUME RingInv, WritePiece PROVE RingInv'
<1> DEFINE n == Least(Stretch, Len(todo))
<1>1. /\ pos \in 0..Size /\ len \in 0..Size /\ todo \in Seq(Byte) /\ Size \in Nat \ {0}
      /\ op = "write" /\ Len(todo) > 0 /\ len + Len(todo) <= Size /\ data \in [Slots -> Byte]
      /\ want = 0 /\ got \in Seq(Byte)
    BY RingAssumption DEF RingInv, TypeOK, Quiet, WritePiece
<1>2. n \in Nat
  <2>1. Begin \in 0..(Size - 1)
      BY <1>1 DEF Begin
  <2>2. QED
      BY <1>1, <2>1 DEF Stretch, Least
<1>3. n \in 1..Len(todo) /\ Begin \in Nat /\ Begin + n <= Size
    BY <1>1, <1>2, StretchFree
<1> HIDE DEF n
<1>4. Piece(todo, n + 1, Len(todo)) \in Seq(Byte) /\ Len(Piece(todo, n + 1, Len(todo))) = Len(todo) - n
  <2> DEFINE from == n + 1  to == Len(todo)
  <2>1. from \in Nat \ {0} /\ to \in Nat /\ to <= Len(todo) /\ from <= to + 1 /\ to - from + 1 = Len(todo) - n
      BY <1>1, <1>3
  <2>2. Piece(todo, from, to) \in Seq(Byte) /\ Len(Piece(todo, from, to)) = to - from + 1
    <3> HIDE DEF from, to
    <3> QED
      BY ONLY <1>1, <2>1, PieceType
  <2>3. QED
      BY <2>1, <2>2
<1>5. /\ data' = [i \in Slots |-> IF Begin <= i /\ i < Begin + n THEN todo[i - Begin + 1] ELSE data[i]]
      /\ len' = len + n
      /\ todo' = Piece(todo, n + 1, Len(todo))
      /\ UNCHANGED <<pos, op, want, got>>
    BY DEF WritePiece, n
<1>6. data' \in [Slots -> Byte]
    BY <1>1, <1>3, <1>5 DEF Slots
<1>7. QED
    BY <1>1, <1>3, <1>4, <1>5, <1>6 DEF RingInv, TypeOK, Quiet

\* What a read copies in one piece is bytes.
LEMMA CopiedType ==
    ASSUME RingInv, NEW n \in Nat, pos + n <= Size
    PROVE  Copied(n) \in Seq(Byte)
<1>1. got \in Seq(Byte) /\ data \in [Slots -> Byte] /\ pos \in 0..Size /\ Size \in Nat
    BY RingAssumption DEF RingInv, TypeOK
<1>2. CASE op = "throw"
    BY <1>1, <1>2 DEF Copied
<1>3. CASE op # "throw"
  <2>1. Copied(n) = [i \in 1..(Len(got) + n) |-> IF i <= Len(got) THEN got[i] ELSE data[pos + i - Len(got) - 1]]
      BY <1>3 DEF Copied
  <2>2. ASSUME NEW i \in 1..(Len(got) + n)
        PROVE  (IF i <= Len(got) THEN got[i] ELSE data[pos + i - Len(got) - 1]) \in Byte
    <3>1. CASE i <= Len(got)
        BY <1>1, <3>1
    <3>2. CASE ~(i <= Len(got))
      <4>1. Len(got) \in Nat
          BY <1>1
      <4>2. pos + i - Len(got) - 1 \in Slots
          BY ONLY <1>1, <3>2, <4>1, n \in Nat, pos + n <= Size, i \in 1..(Len(got) + n) DEF Slots
      <4>3. QED
          BY <1>1, <3>2, <4>2
    <3>3. QED
        BY <3>1, <3>2
  <2>3. Len(got) + n \in Nat
    <3>1. Len(got) \in Nat
        BY <1>1
    <3>2. QED
        BY ONLY <3>1, n \in Nat
  <2>4. PICK k \in Nat : k = Len(got) + n
      BY <2>3
  <2>5. Copied(n) \in [1..k -> Byte]
      BY ONLY <2>1, <2>2, <2>4
  <2>6. QED
      BY ONLY <2>4, <2>5
<1>4. QED
    BY <1>2, <1>3

\* A read takes the part up to the end of the array.
LEMMA ReadWrappedInv == ASSUME RingInv, ReadWrapped PROVE RingInv'
<1>1. /\ pos \in 0..Size /\ len \in 0..Size /\ want \in 0..len /\ Size \in Nat
      /\ Len(todo) = 0 /\ todo \in Seq(Byte) /\ data \in [Slots -> Byte]
      /\ op \in {"read", "throw"} /\ pos + want > Size
    BY RingAssumption DEF RingInv, TypeOK, Quiet, ReadWrapped
<1>2. Copied(Size - pos) \in Seq(Byte)
    BY <1>1, CopiedType
<1>3. /\ got' = Copied(Size - pos) /\ len' = len - (Size - pos) /\ want' = want - (Size - pos)
      /\ pos' = 0 /\ UNCHANGED <<data, op, todo>>
    BY DEF ReadWrapped
<1>4. QED
    BY <1>1, <1>2, <1>3 DEF RingInv, TypeOK, Quiet

\* And the part from its beginning.
LEMMA ReadRestInv == ASSUME RingInv, ReadRest PROVE RingInv'
<1>1. /\ pos \in 0..Size /\ len \in 0..Size /\ want \in 0..len /\ Size \in Nat
      /\ Len(todo) = 0 /\ todo \in Seq(Byte) /\ data \in [Slots -> Byte]
      /\ op \in {"read", "throw"} /\ pos + want <= Size
    BY RingAssumption DEF RingInv, TypeOK, Quiet, ReadRest
<1>2. Copied(want) \in Seq(Byte)
    BY <1>1, CopiedType
<1>3. /\ got' = Copied(want) /\ len' = len - want /\ want' = 0 /\ op' = "idle"
      /\ pos' = (IF len = want THEN 0 ELSE pos + want) /\ UNCHANGED <<data, todo>>
    BY DEF ReadRest, PosAfter
<1>4. QED
    BY <1>1, <1>2, <1>3 DEF RingInv, TypeOK, Quiet

\* Every step keeps the types.
LEMMA RingStepInv == RingInv /\ [Next]_vars => RingInv'
<1> SUFFICES ASSUME RingInv, [Next]_vars PROVE RingInv'
    OBVIOUS
<1>1. ASSUME NEW s \in Args, Write(s) \/ WriteTry(s) PROVE RingInv'
    BY <1>1, WriteInv DEF WriteTry
<1>2. CASE WritePiece
    BY <1>2, WritePieceInv
<1>3. CASE WriteDone
    BY <1>3 DEF RingInv, TypeOK, Quiet, WriteDone
<1>4. ASSUME NEW m \in 0..(Size + 1), Read(m) \/ ReadTry(m) \/ Throw(m) PROVE RingInv'
  <2>1. len \in 0..Size /\ Size \in Nat
      BY RingAssumption DEF RingInv, TypeOK
  <2>2. Least(m, len) \in 0..len
      BY <2>1 DEF Least
  <2>3. QED
      BY <1>4, <2>1, <2>2 DEF RingInv, TypeOK, Quiet, Read, ReadTry, Throw
<1>5. CASE ReadWrapped
    BY <1>5, ReadWrappedInv
<1>6. CASE ReadRest
    BY <1>6, ReadRestInv
<1>7. CASE UNCHANGED vars
    BY <1>7 DEF vars, RingInv, TypeOK, Quiet
<1>8. QED
    BY <1>1, <1>2, <1>3, <1>4, <1>5, <1>6, <1>7 DEF Next

\* Every reachable state has its types, whatever the size: no call leaves the
\* array, and there is never more in the ring than it holds.
THEOREM RingTypeOK == Spec => []TypeOK
<1>1. RingInv => TypeOK
    BY DEF RingInv
<1>2. QED
    BY <1>1, RingInitInv, RingStepInv, PTL DEF Spec

-----------------------------------------------------------------------------
(* The ring implements the bounded first-in first-out buffer                *)

\* The bytes a call works with, and where they are.
LEMMA RingShape ==
    ASSUME RingInv
    PROVE  /\ Size \in Nat \ {0} /\ pos \in 0..Size /\ len \in 0..Size /\ want \in 0..len
           /\ todo \in Seq(Byte) /\ Len(todo) \in Nat /\ got \in Seq(Byte) /\ Len(got) \in Nat
           /\ data \in [Slots -> Byte] /\ len + Len(todo) <= Size
           /\ \A i \in 1..len : Slot(i) \in Slots
<1>1. /\ Size \in Nat \ {0} /\ pos \in 0..Size /\ len \in 0..Size /\ want \in 0..len
      /\ todo \in Seq(Byte) /\ Len(todo) \in Nat /\ got \in Seq(Byte) /\ Len(got) \in Nat
      /\ data \in [Slots -> Byte] /\ len + Len(todo) <= Size
    BY RingAssumption DEF RingInv, TypeOK, Quiet
<1>2. \A i \in 1..len : Slot(i) \in Slots
    BY <1>1 DEF Slot, Slots
<1>3. QED
    BY <1>1, <1>2

\* How much is queued.
LEMMA ContentsLen ==
    ASSUME RingInv
    PROVE  Len(Contents) = len - want + Len(todo)
<1>1. len - want \in Nat /\ Len(todo) \in Nat
    BY RingShape
<1>2. len - want + Len(todo) \in Nat
    BY <1>1
<1>3. QED
    BY <1>2 DEF Contents

\* With nothing left to copy out, what was received is what was copied.
LEMMA ReceivedAll ==
    ASSUME got \in Seq(Byte), want = 0
    PROVE  Received = got
<1>1. Len(got) \in Nat /\ got = [i \in 1..Len(got) |-> got[i]]
    OBVIOUS
<1>2. \A i \in 1..(Len(got) + want) : i <= Len(got)
    BY <1>1
<1>3. QED
    BY <1>1, <1>2 DEF Received

\* The same of the next state.
LEMMA ReceivedAllNext ==
    ASSUME got' \in Seq(Byte), want' = 0
    PROVE  Received' = got'
<1>1. Len(got') \in Nat /\ got' = [i \in 1..Len(got') |-> got'[i]]
    OBVIOUS
<1>2. \A i \in 1..(Len(got') + want') : i <= Len(got')
    BY <1>1
<1>3. QED
    BY <1>1, <1>2 DEF Received

\* An empty ring is an empty buffer.
LEMMA InitFifo == Init => Fifo!Init
<1> SUFFICES ASSUME Init PROVE Fifo!Init
    OBVIOUS
<1>1. len = 0 /\ want = 0 /\ todo = <<>> /\ got = <<>>
    BY DEF Init
<1>2. Contents = <<>>
    BY <1>1 DEF Contents
<1>3. got \in Seq(Byte)
    BY <1>1
<1>4. Received = <<>>
    BY <1>1, <1>3, ReceivedAll
<1>5. QED
    BY <1>2, <1>4 DEF Fifo!Init

\* A call of write puts what it takes into the buffer.
LEMMA WriteFifo ==
    ASSUME RingInv, NEW s \in Args, Write(s)
    PROVE  Fifo!Put(s)
<1> DEFINE n == Accepted(s)
<1>1. /\ s \in Seq(Byte) /\ Len(s) \in Nat /\ want = 0 /\ Len(todo) = 0 /\ len \in 0..Size
      /\ Size \in Nat /\ got \in Seq(Byte) /\ op # "throw"
    BY RingAssumption DEF RingInv, TypeOK, Quiet, Write
<1>2. /\ todo' = Piece(s, 1, n) /\ UNCHANGED <<data, pos, len, want, got>>
    BY DEF Write
<1>3. Len(Contents) = len
    BY <1>1, ContentsLen
<1>4. n = Fifo!Least(Len(s), Size - Len(Contents))
    BY <1>1, <1>3 DEF Accepted, Space, Least, Fifo!Least
<1>5. n \in Nat /\ n <= Len(s)
    BY <1>1 DEF Accepted, Space, Least
<1> HIDE DEF n
<1>6. Len(todo') = n /\ \A i \in 1..n : todo'[i] = s[i]
  <2>1. 1 \in Nat \ {0} /\ 1 <= n + 1 /\ n - 1 + 1 = n /\ \A i \in 1..n : 1 + i - 1 = i
      BY <1>5
  <2>2. Len(Piece(s, 1, n)) = n - 1 + 1 /\ \A i \in 1..(n - 1 + 1) : Piece(s, 1, n)[i] = s[1 + i - 1]
    <3>1. s \in Seq(Byte) /\ 1 \in Nat \ {0} /\ n \in Nat /\ n <= Len(s) /\ 1 <= n + 1
        BY ONLY <1>1, <1>5, <2>1
    <3>2. QED
        BY ONLY <3>1, PieceType
  <2>3. QED
      BY <1>2, <2>1, <2>2
<1>7. Contents = [i \in 1..len |-> data[Slot(i)]]
    BY <1>1 DEF Contents
<1>8. Contents' = [i \in 1..(len + n) |-> IF i <= len THEN data[Slot(i)] ELSE todo'[i - len]]
  <2>1. Contents' = [i \in 1..(len - 0 + n) |-> IF i <= len - 0 THEN data[Slot(0 + i)] ELSE todo'[i - (len - 0)]]
    <3>1. len' = len /\ data' = data /\ want' = 0 /\ Len(todo') = n /\ pos' = pos
        BY ONLY <1>1, <1>2, <1>6
    <3>2. \A i : Slot(i)' = Slot(i)
        BY ONLY <3>1 DEF Slot
    <3>3. QED
        BY ONLY <3>1, <3>2 DEF Contents
  <2>2. len - 0 = len /\ \A i \in 1..(len + n) : 0 + i = i
      BY ONLY <1>1, <1>5
  <2>3. QED
      BY ONLY <2>1, <2>2
<1>9. ASSUME NEW i \in 1..(len + n)
      PROVE  (IF i <= len THEN data[Slot(i)] ELSE todo'[i - len])
             = (IF i <= Len(Contents) THEN Contents[i] ELSE s[i - Len(Contents)])
  <2>1. CASE i <= len
      BY <1>1, <1>3, <1>5, <1>7, <2>1
  <2>2. CASE ~(i <= len)
    <3>1. i - len \in 1..n
        BY <1>1, <1>5, <2>2
    <3>2. QED
        BY <1>3, <1>6, <2>2, <3>1
  <2>3. QED
      BY <2>1, <2>2
<1>10. Contents' = [i \in 1..(Len(Contents) + n) |->
                        IF i <= Len(Contents) THEN Contents[i] ELSE s[i - Len(Contents)]]
    BY <1>3, <1>8, <1>9
<1>11. Received' = Received
    BY <1>1, <1>2, ReceivedAll, ReceivedAllNext
<1>12. QED
    BY <1>4, <1>10, <1>11 DEF Fifo!Put

\* Copying a piece changes nothing the buffer holds.
LEMMA WritePieceFifo ==
    ASSUME RingInv, WritePiece
    PROVE  Contents' = Contents /\ Received' = Received
<1> DEFINE n == Least(Stretch, Len(todo))
<1>1. /\ op = "write" /\ Len(todo) > 0 /\ want = 0
    BY DEF RingInv, Quiet, WritePiece
<1>2. n \in Nat
  <2>1. Begin \in 0..(Size - 1)
      BY RingShape DEF Begin
  <2>2. QED
      BY RingShape, <2>1 DEF Stretch, Least
<1>3. /\ n \in 1..Len(todo) /\ Begin \in Nat /\ Begin + n <= Size
      /\ \A i \in 1..len : Slot(i) \in Slots /\ ~(Begin <= Slot(i) /\ Slot(i) < Begin + n)
      /\ \A k \in 1..n : Slot(len + k) = Begin + k - 1
    BY <1>1, <1>2, StretchFree
<1>4. /\ data' = [i \in Slots |-> IF Begin <= i /\ i < Begin + n THEN todo[i - Begin + 1] ELSE data[i]]
      /\ len' = len + n
      /\ todo' = Piece(todo, n + 1, Len(todo))
      /\ UNCHANGED <<pos, op, want, got>>
    BY DEF WritePiece
<1> HIDE DEF n
<1>5. Len(todo') = Len(todo) - n /\ \A i \in 1..(Len(todo) - n) : todo'[i] = todo[n + i]
  <2> DEFINE from == n + 1  to == Len(todo)
  <2>1. /\ from \in Nat \ {0} /\ to \in Nat /\ to <= Len(todo) /\ from <= to + 1
        /\ to - from + 1 = Len(todo) - n /\ \A i \in 1..(Len(todo) - n) : from + i - 1 = n + i
      BY <1>3, RingShape
  <2>2. /\ Len(Piece(todo, from, to)) = to - from + 1
        /\ \A i \in 1..(to - from + 1) : Piece(todo, from, to)[i] = todo[from + i - 1]
    <3> HIDE DEF from, to
    <3> QED
      BY ONLY RingShape, RingInv, <2>1, PieceType
  <2>3. QED
      BY <1>4, <2>1, <2>2
<1>6. Contents = [i \in 1..(len + Len(todo)) |-> IF i <= len THEN data[Slot(i)] ELSE todo[i - len]]
    BY <1>1, RingShape DEF Contents
<1>7. Contents' = [i \in 1..(len + Len(todo)) |->
                     IF i <= len + n THEN data'[Slot(i)] ELSE todo'[i - (len + n)]]
  <2>1. len' - want' = len + n /\ len' - want' + Len(todo') = len + Len(todo)
    <3>1. len' = len + n /\ want' = 0 /\ Len(todo') = Len(todo) - n
        BY <1>1, <1>4, <1>5
    <3>2. len \in Nat /\ Len(todo) \in Nat /\ n \in Nat
        BY <1>3, RingShape
    <3>3. QED
        BY ONLY <3>1, <3>2
  <2>2. \A i \in 1..(len + Len(todo)) : Slot(want + i)' = Slot(i)
      BY <1>1, <1>4, RingShape DEF Slot
  <2>3. Contents' = [i \in 1..(len' - want' + Len(todo')) |->
                       IF i <= len' - want' THEN data'[Slot(want + i)'] ELSE todo'[i - (len' - want')]]
      BY <1>4 DEF Contents, Slot
  <2>4. QED
      BY <2>1, <2>2, <2>3
<1>8. ASSUME NEW i \in 1..(len + Len(todo))
      PROVE  (IF i <= len + n THEN data'[Slot(i)] ELSE todo'[i - (len + n)])
             = (IF i <= len THEN data[Slot(i)] ELSE todo[i - len])
  <2>1. CASE i <= len
    <3>1. Slot(i) \in Slots /\ ~(Begin <= Slot(i) /\ Slot(i) < Begin + n) /\ i <= len + n
        BY <1>3, <2>1, RingShape
    <3>2. QED
        BY <1>4, <2>1, <3>1
  <2>2. CASE len < i /\ i <= len + n
    <3>1. i - len \in 1..n /\ len + (i - len) = i /\ ~(i <= len)
        BY <1>3, <2>2, RingShape
    <3>2. Slot(i) = Begin + (i - len) - 1
        BY <1>3, <3>1
    <3>3. Slot(i) \in Slots /\ Begin <= Slot(i) /\ Slot(i) < Begin + n /\ Slot(i) - Begin + 1 = i - len
      <4>1. len \in Nat /\ Begin \in Nat /\ n \in Nat /\ Size \in Nat /\ Begin + n <= Size
          BY <1>3, RingShape
      <4>2. QED
          BY ONLY <3>1, <3>2, <4>1, i \in 1..(len + Len(todo)) DEF Slots
    <3>4. QED
        BY <1>4, <2>2, <3>1, <3>3
  <2>3. CASE len + n < i
    <3>1. /\ i - (len + n) \in 1..(Len(todo) - n) /\ n + (i - (len + n)) = i - len
          /\ ~(i <= len) /\ ~(i <= len + n)
        BY <1>3, <2>3, RingShape
    <3>2. QED
        BY <1>5, <3>1
  <2>4. QED
      BY <2>1, <2>2, <2>3, <1>3, RingShape
<1>9. Contents' = Contents
    BY <1>6, <1>7, <1>8
<1>10. Received' = Received
  <2>1. got \in Seq(Byte) /\ want = 0 /\ got' = got /\ want' = 0
      BY <1>1, <1>4, RingShape
  <2>2. QED
      BY ONLY <2>1, ReceivedAll, ReceivedAllNext
<1>11. QED
    BY <1>9, <1>10

\* A call of read gets its bytes from the buffer.
LEMMA ReadStartFifo ==
    ASSUME RingInv, NEW m \in 0..(Size + 1), Read(m)
    PROVE  Fifo!Get(m)
<1> DEFINE n == Least(m, len)
<1>1. /\ want = 0 /\ Len(todo) = 0 /\ len \in 0..Size /\ Size \in Nat /\ op = "idle"
    BY RingAssumption DEF RingInv, TypeOK, Quiet, Read
<1>2. op' = "read" /\ want' = n /\ got' = <<>> /\ UNCHANGED <<data, pos, len, todo>>
    BY DEF Read
<1>3. Len(Contents) = len
    BY <1>1, ContentsLen
<1>4. n = Fifo!Least(m, Len(Contents)) /\ n \in 0..len
    BY <1>1, <1>3 DEF Least, Fifo!Least
<1> HIDE DEF n
<1>5. Contents = [i \in 1..len |-> data[Slot(i)]]
    BY <1>1 DEF Contents
<1>6. Received' = [i \in 1..n |-> Contents[i]]
  <2>1. Received' = [i \in 1..n |-> data[Slot(i)]]
      BY <1>2, <1>4 DEF Received, Slot
  <2>2. \A i \in 1..n : Contents[i] = data[Slot(i)]
      BY <1>1, <1>4, <1>5
  <2>3. QED
      BY <2>1, <2>2
<1>7. Contents' = [i \in 1..(Len(Contents) - n) |-> Contents[n + i]]
  <2>1. Contents' = [i \in 1..(len - n) |-> data[Slot(n + i)]]
      BY <1>1, <1>2, <1>4 DEF Contents, Slot
  <2>2. \A i \in 1..(len - n) : Contents[n + i] = data[Slot(n + i)]
      BY <1>1, <1>4, <1>5
  <2>3. QED
      BY <1>3, <2>1, <2>2
<1>8. QED
    BY <1>4, <1>6, <1>7 DEF Fifo!Get, Fifo!Rest

\* A call that throws bytes away discards them from the buffer.
LEMMA ThrowFifo ==
    ASSUME RingInv, NEW m \in 0..(Size + 1), Throw(m)
    PROVE  Fifo!Discard(m)
<1> DEFINE n == Least(m, len)
<1>1. /\ want = 0 /\ Len(todo) = 0 /\ len \in 0..Size /\ Size \in Nat /\ got \in Seq(Byte)
    BY RingAssumption DEF RingInv, TypeOK, Quiet, Throw
<1>2. op' = "throw" /\ want' = n /\ UNCHANGED <<data, pos, len, todo, got>>
    BY DEF Throw
<1>3. Len(Contents) = len
    BY <1>1, ContentsLen
<1>4. n = Fifo!Least(m, Len(Contents)) /\ n \in 0..len
    BY <1>1, <1>3 DEF Least, Fifo!Least
<1> HIDE DEF n
<1>5. Contents = [i \in 1..len |-> data[Slot(i)]]
    BY <1>1 DEF Contents
<1>6. Received' = Received
  <2>1. Received = got
      BY <1>1, ReceivedAll
  <2>2. Received' = got'
      BY <1>2 DEF Received
  <2>3. QED
      BY <1>2, <2>1, <2>2
<1>7. Contents' = [i \in 1..(Len(Contents) - n) |-> Contents[n + i]]
  <2>1. Contents' = [i \in 1..(len - n) |-> data[Slot(n + i)]]
      BY <1>1, <1>2, <1>4 DEF Contents, Slot
  <2>2. \A i \in 1..(len - n) : Contents[n + i] = data[Slot(n + i)]
      BY <1>1, <1>4, <1>5
  <2>3. QED
      BY <1>3, <2>1, <2>2
<1>8. QED
    BY <1>4, <1>6, <1>7 DEF Fifo!Discard, Fifo!Rest

\* Copying what is read changes nothing the buffer holds.
LEMMA ReadWrappedFifo ==
    ASSUME RingInv, ReadWrapped
    PROVE  Contents' = Contents /\ Received' = Received
<1> DEFINE n == Size - pos
<1>1. /\ Len(todo) = 0 /\ op \in {"read", "throw"} /\ pos + want > Size
    BY DEF RingInv, Quiet, ReadWrapped
<1>2. /\ Size \in Nat \ {0} /\ pos \in 0..Size /\ len \in 0..Size /\ want \in 0..len
      /\ Len(got) \in Nat /\ n \in 0..(want - 1) /\ got \in Seq(Byte)
    BY <1>1, RingShape
<1>3. /\ got' = Copied(n) /\ len' = len - n /\ want' = want - n
      /\ pos' = 0 /\ UNCHANGED <<data, op, todo>>
    BY DEF ReadWrapped
<1>4. Contents' = Contents
  <2>1. Contents = [i \in 1..(len - want) |-> data[Slot(want + i)]]
      BY <1>1, <1>2 DEF Contents
  <2>2. Contents' = [i \in 1..(len - want) |-> data[Slot(want + i)']]
    <3>1. len' - want' = len - want
        BY <1>2, <1>3
    <3>2. Contents' = [i \in 1..(len' - want' + Len(todo)) |->
                IF i <= len' - want' THEN data[Slot(want + i)'] ELSE todo[i - (len' - want')]]
        BY <1>3 DEF Contents
    <3>3. len - want + Len(todo) = len - want /\ \A i \in 1..(len - want) : i <= len - want
        BY <1>1, <1>2
    <3>4. QED
        BY <3>1, <3>2, <3>3
  <2>3. ASSUME NEW i \in 1..(len - want)
        PROVE  Slot(want + i)' = Slot(want + i)
      BY <1>1, <1>2, <1>3 DEF Slot
  <2>4. QED
      BY <2>1, <2>2, <2>3
<1>5. CASE op = "throw"
    BY <1>3, <1>4, <1>5 DEF Received, Copied
<1>6. CASE op = "read"
  <2>1. got' = [i \in 1..(Len(got) + n) |-> IF i <= Len(got) THEN got[i] ELSE data[pos + i - Len(got) - 1]]
      BY <1>3, <1>6 DEF Copied
  <2>2. Len(got') = Len(got) + n
    <3>1. Len(got) + n \in Nat
        BY <1>2
    <3>2. QED
        BY <2>1, <3>1
  <2>3. Received = [i \in 1..(Len(got) + want) |->
                       IF i <= Len(got) THEN got[i] ELSE data[Slot(i - Len(got))]]
      BY <1>6 DEF Received
  <2>4. Received' = [i \in 1..(Len(got) + want) |->
                        IF i <= Len(got') THEN got'[i] ELSE data[Slot(i - Len(got))']]
    <3>1. Len(got') + want' = Len(got) + want
        BY <1>2, <1>3, <2>2
    <3>2. Received' = [i \in 1..(Len(got') + want') |->
                        IF i <= Len(got') THEN got'[i] ELSE data[Slot(i - Len(got))']]
        BY <1>3, <1>6 DEF Received, Slot
    <3>3. QED
        BY <3>1, <3>2
  <2>5. ASSUME NEW i \in 1..(Len(got) + want)
        PROVE  (IF i <= Len(got') THEN got'[i] ELSE data[Slot(i - Len(got))'])
               = (IF i <= Len(got) THEN got[i] ELSE data[Slot(i - Len(got))])
    <3>1. CASE i <= Len(got)
      <4>1. i <= Len(got') /\ i \in 1..(Len(got) + n)
          BY <1>2, <2>2, <3>1
      <4>2. QED
          BY <2>1, <3>1, <4>1
    <3>2. CASE Len(got) < i /\ i <= Len(got) + n
      <4>1. /\ i <= Len(got') /\ i \in 1..(Len(got) + n) /\ ~(i <= Len(got))
            /\ Slot(i - Len(got)) = pos + i - Len(got) - 1
          BY <1>2, <2>2, <3>2 DEF Slot
      <4>2. QED
          BY <2>1, <4>1
    <3>3. CASE Len(got) + n < i
      <4>1. ~(i <= Len(got')) /\ ~(i <= Len(got)) /\ Slot(i - Len(got))' = Slot(i - Len(got))
        <5>1. ~(i <= Len(got')) /\ ~(i <= Len(got))
            BY <1>2, <2>2, <3>3
        <5>2. Slot(i - Len(got)) = pos + (i - Len(got)) - 1 - Size
            BY <1>2, <3>3 DEF Slot
        <5>3. Slot(i - Len(got))' = i - Len(got') - 1
          <6>1. i - Len(got') \in 1..Size
              BY <1>2, <2>2, <3>3
          <6>2. Slot(i - Len(got))' = IF pos' + (i - Len(got')) - 1 >= Size
                                       THEN pos' + (i - Len(got')) - 1 - Size ELSE pos' + (i - Len(got')) - 1
              BY DEF Slot
          <6>3. QED
              BY <1>2, <1>3, <6>1, <6>2
        <5>4. QED
            BY <1>2, <2>2, <5>1, <5>2, <5>3
      <4>2. QED
          BY <4>1
    <3>4. QED
        BY <1>2, <3>1, <3>2, <3>3
  <2>6. QED
      BY <1>4, <2>3, <2>4, <2>5
<1>7. QED
    BY <1>1, <1>4, <1>5, <1>6

\* Nor does the rest of it.
LEMMA ReadRestFifo ==
    ASSUME RingInv, ReadRest
    PROVE  Contents' = Contents /\ Received' = Received
<1>1. /\ Len(todo) = 0 /\ op \in {"read", "throw"} /\ pos + want <= Size
    BY DEF RingInv, Quiet, ReadRest
<1>2. /\ Size \in Nat \ {0} /\ pos \in 0..Size /\ len \in 0..Size /\ want \in 0..len
      /\ Len(got) \in Nat /\ got \in Seq(Byte)
    BY RingShape
<1>3. /\ got' = Copied(want) /\ len' = len - want /\ want' = 0 /\ op' = "idle"
      /\ pos' = (IF len = want THEN 0 ELSE pos + want) /\ UNCHANGED <<data, todo>>
    BY DEF ReadRest, PosAfter
<1>4. Contents' = Contents
  <2>1. Contents = [i \in 1..(len - want) |-> data[Slot(want + i)]]
      BY <1>1, <1>2 DEF Contents
  <2>2. Contents' = [i \in 1..(len - want) |-> data[Slot(0 + i)']]
    <3>1. len' - want' = len - want
        BY <1>2, <1>3
    <3>2. Contents' = [i \in 1..(len' - want' + Len(todo)) |->
                IF i <= len' - want' THEN data[Slot(0 + i)'] ELSE todo[i - (len' - want')]]
        BY <1>3 DEF Contents, Slot
    <3>3. len - want + Len(todo) = len - want /\ \A i \in 1..(len - want) : i <= len - want
        BY <1>1, <1>2
    <3>4. QED
        BY <3>1, <3>2, <3>3
  <2>3. ASSUME NEW i \in 1..(len - want)
        PROVE  Slot(0 + i)' = Slot(want + i)
    <3>1. pos' = pos + want
        BY <1>2, <1>3
    <3>2. QED
        BY <1>1, <1>2, <3>1 DEF Slot
  <2>4. QED
      BY <2>1, <2>2, <2>3
<1>5. Received' = got'
  <2>1. got' \in Seq(Byte)
      BY <1>1, <1>2, <1>3, CopiedType
  <2>2. QED
      BY <1>3, <2>1, ReceivedAllNext
<1>6. CASE op = "throw"
    BY <1>3, <1>4, <1>5, <1>6 DEF Received, Copied
<1>7. CASE op = "read"
  <2>1. got' = [i \in 1..(Len(got) + want) |-> IF i <= Len(got) THEN got[i] ELSE data[pos + i - Len(got) - 1]]
      BY <1>3, <1>7 DEF Copied
  <2>2. Received = [i \in 1..(Len(got) + want) |->
                       IF i <= Len(got) THEN got[i] ELSE data[Slot(i - Len(got))]]
      BY <1>7 DEF Received
  <2>3. ASSUME NEW i \in 1..(Len(got) + want), ~(i <= Len(got))
        PROVE  Slot(i - Len(got)) = pos + i - Len(got) - 1
      BY <1>1, <1>2, <2>3 DEF Slot
  <2>4. QED
      BY <1>4, <1>5, <2>1, <2>2, <2>3
<1>8. QED
    BY <1>1, <1>4, <1>6, <1>7

\* Every step of the ring is one of the buffer, or none.
LEMMA StepFifo == RingInv /\ [Next]_vars => [Fifo!Next]_<<Contents, Received>>
<1> SUFFICES ASSUME RingInv, [Next]_vars PROVE [Fifo!Next]_<<Contents, Received>>
    OBVIOUS
<1>1. ASSUME NEW s \in Args, Write(s) \/ WriteTry(s) PROVE Fifo!Next
    BY <1>1, WriteFifo DEF WriteTry, Fifo!Next
<1>2. ASSUME NEW m \in 0..(Size + 1), Read(m) \/ ReadTry(m) PROVE Fifo!Next
    BY <1>2, ReadStartFifo DEF ReadTry, Fifo!Next
<1>3. ASSUME NEW m \in 0..(Size + 1), Throw(m) PROVE Fifo!Next
    BY <1>3, ThrowFifo DEF Fifo!Next
<1>4. CASE WritePiece
    BY <1>4, WritePieceFifo
<1>5. CASE ReadWrapped
    BY <1>5, ReadWrappedFifo
<1>6. CASE ReadRest
    BY <1>6, ReadRestFifo
<1>7. CASE WriteDone
  <2>1. Contents' = Contents
      BY <1>7 DEF WriteDone, Contents, Slot
  <2>2. op = "write" /\ op' = "idle" /\ UNCHANGED <<data, pos, len, todo, want, got>>
      BY <1>7 DEF WriteDone
  <2>3. Received' = Received
      BY <2>2 DEF Received, Slot
  <2>4. QED
      BY <2>1, <2>3
<1>8. CASE UNCHANGED vars
    BY <1>8 DEF vars, Contents, Received, Slot
<1>9. QED
    BY <1>1, <1>2, <1>3, <1>4, <1>5, <1>6, <1>7, <1>8 DEF Next

\* The ring is a bounded first-in first-out buffer, whatever its size and
\* whatever is written: the stretches a call is cut into, the wrap at the end of
\* the array and the reset of pos are invisible to the callers.
THEOREM RingIsFifo == Spec => IsFifo
<1>1. Init => Fifo!Init
    BY InitFifo
<1>2. QED
    BY <1>1, RingInitInv, RingStepInv, StepFifo, PTL DEF Spec, IsFifo, Fifo!Spec


-----------------------------------------------------------------------------
(* Looking without taking                                                   *)

\* What e_queue_peek and e_queue_seek return is what is queued there, whatever
\* the size of the ring and wherever its bytes begin.
THEOREM RingSeeks == Spec => []SeekAgrees
<1>1. RingInv => SeekAgrees
  <2> SUFFICES ASSUME RingInv, op = "idle", NEW offset \in 0..Size, NEW n \in 0..Size, offset + n <= len
               PROVE  Seek(offset, n) = [i \in 1..n |-> Contents[offset + i]]
      BY DEF SeekAgrees
  <2>1. /\ Size \in Nat \ {0} /\ pos \in 0..Size /\ len \in 0..Size
        /\ want = 0 /\ Len(todo) = 0 /\ todo \in Seq(Byte)
      BY RingShape DEF RingInv, Quiet
  <2>2. Contents = [i \in 1..len |-> data[Slot(i)]]
      BY <2>1 DEF Contents
  <2> DEFINE p == Start(offset)
             wraps == p + n > Size
             head == IF wraps THEN Size - p ELSE 0
             place(i) == IF i <= head THEN p + i - 1 ELSE (IF wraps THEN 0 ELSE p) + i - head - 1
  <2>3. Seek(offset, n) = [i \in 1..n |-> IF i <= head THEN data[p + i - 1]
                              ELSE data[(IF wraps THEN 0 ELSE p) + i - head - 1]]
      BY DEF Seek
  <2>4. ASSUME NEW i \in 1..n PROVE place(i) = Slot(offset + i) /\ offset + i \in 1..len
    <3>1. p = IF pos + offset > Size THEN pos + offset - Size ELSE pos + offset
        BY DEF Start
    <3>2. CASE pos + offset > Size
        BY <2>1, <3>1, <3>2 DEF Slot
    <3>3. CASE ~(pos + offset > Size)
        BY <2>1, <3>1, <3>3 DEF Slot
    <3>4. QED
        BY <3>2, <3>3
  <2>5. ASSUME NEW i \in 1..n
        PROVE  (IF i <= head THEN data[p + i - 1] ELSE data[(IF wraps THEN 0 ELSE p) + i - head - 1])
               = Contents[offset + i]
    <3>1. Contents[offset + i] = data[Slot(offset + i)]
        BY <2>2, <2>4
    <3>2. (IF i <= head THEN data[p + i - 1] ELSE data[(IF wraps THEN 0 ELSE p) + i - head - 1]) = data[place(i)]
        OBVIOUS
    <3>3. QED
        BY ONLY <2>4, <3>1, <3>2
  <2>6. QED
    <3> HIDE DEF head, wraps, p
    <3> QED
      BY ONLY <2>3, <2>5
<1>2. QED
    BY <1>1, RingInitInv, RingStepInv, PTL DEF Spec

-----------------------------------------------------------------------------
(* The slices                                                               *)

\* A set of naturals has a least.
LEMMA LeastOf ==
    ASSUME NEW T, T \subseteq Nat, T # {}
    PROVE  \E x \in T : \A y \in T : x <= y
  <1> DEFINE Less == OpToRel(<, Nat)
  <1>1. IsWellFoundedOn(Less, Nat)
    BY NatLessThanWellFounded
  <1>2. \A x, y \in Nat : <<y, x>> \in Less <=> y < x
    BY DEF OpToRel
  <1> HIDE DEF Less
  <1>3. PICK x \in T : \A y \in T : ~(<<y, x>> \in Less)
    BY <1>1, WFMin
  <1>4. \A y \in T : ~(y < x) /\ x \in Nat /\ y \in Nat
    BY <1>2, <1>3
  <1> QED
    BY <1>3, <1>4

\* A walk over a list of blocks stops where it has passed those that are less free.
LEMMA PassedFacts ==
    ASSUME NEW rest \in Seq(Block), NEW n \in Nat, free_num \in [Block -> Nat]
    PROVE  /\ Passed(rest, n) \in 0..Len(rest)
           /\ \A j \in 1..Passed(rest, n) : free_num[rest[j]] < n
           /\ Passed(rest, n) < Len(rest) => free_num[rest[Passed(rest, n) + 1]] >= n
  <1> DEFINE T == {k \in 0..Len(rest) : k < Len(rest) => free_num[rest[k + 1]] >= n}
  <1>1. Len(rest) \in Nat /\ \A j \in 1..Len(rest) : free_num[rest[j]] \in Nat
    OBVIOUS
  <1>2. PICK k \in T : \A y \in T : k <= y
    <2>1. T \subseteq Nat /\ Len(rest) \in T
      BY <1>1
    <2> QED
      BY <2>1, LeastOf
  <1>3. \A j \in 1..k : free_num[rest[j]] < n
    <2> SUFFICES ASSUME NEW j \in 1..k, ~(free_num[rest[j]] < n) PROVE FALSE
      OBVIOUS
    <2>1. j - 1 \in 0..Len(rest) /\ j - 1 < Len(rest) /\ (j - 1) + 1 = j /\ j \in 1..Len(rest) /\ ~(k <= j - 1)
      BY <1>1, <1>2
    <2>2. free_num[rest[j]] >= n
      BY <1>1, <2>1
    <2>3. j - 1 \in T
      BY <2>1, <2>2
    <2> QED
      BY <1>2, <2>1, <2>3
  <1>4. \E m \in 0..Len(rest) :
            /\ \A j \in 1..m : free_num[rest[j]] < n
            /\ m < Len(rest) => free_num[rest[m + 1]] >= n
    BY <1>2, <1>3
  <1> QED
    BY <1>4 DEF Passed

\* The chain of a block is as it should be; nobody has a cell of it; it is on the
\* list its free cells say.
ChainExact(b) ==
    \E s \in [1..free_num[b] -> Cell] : Chain(b, s) /\ ToSet(s) = FreeCells(b) /\ IsInjective(s)
Unused(b) == \A i \in Cell : <<b, i>> \notin handed
InPlaceOf(b) ==
    /\ Contains(fill, b) <=> free_num[b] = 0
    /\ Contains(free, b) <=> free_num[b] = Num
    /\ Contains(half, b) <=> free_num[b] \in 1..Num - 1
Fullest == \A j, k \in 1..Len(half) : j < k => free_num[half[j]] <= free_num[half[k]]
OnAList(b) == Contains(fill, b) \/ Contains(half, b) \/ Contains(free, b)

SlicesInv ==
    /\ SlicesTypeOK
    /\ \A b \in Block : OnAList(b) => ChainExact(b) /\ InPlaceOf(b)
    /\ \A c \in handed : OnAList(c[1])
    /\ Fullest
    /\ \A b \in Block : Contains(free, b) => Unused(b)

\* The invariant is CellsExact, and nobody has a cell of a free block.
LEMMA SlicesInvExact == SlicesInv => CellsExact
  <1>1. \A b : b \in InUse <=> OnAList(b)
    BY DEF InUse, OnAList, Contains, ToSet
  <1>2. SlicesTypeOK => \A b : OnAList(b) => b \in Block
    BY DEF SlicesTypeOK, OnAList, Contains
  <1> QED
    BY <1>1, <1>2 DEF SlicesInv, CellsExact, ChainExact, InPlaceOf, Fullest

\* A chain, taken apart.
LEMMA ChainFacts ==
    ASSUME NEW b, ChainExact(b), free_num[b] \in Nat
    PROVE  \E s \in [1..free_num[b] -> Cell] :
              /\ free_num[b] > 0 => s[1] = index[b]
              /\ \A k \in 1..free_num[b] - 1 : map[b][s[k]] = s[k + 1]
              /\ \A i \in Cell : <<b, i>> \notin handed <=> \E k \in 1..free_num[b] : s[k] = i
              /\ \A j, k \in 1..free_num[b] : s[j] = s[k] => j = k
  <1> DEFINE n == free_num[b]
  <1>1. PICK s \in [1..n -> Cell] : Chain(b, s) /\ ToSet(s) = FreeCells(b) /\ IsInjective(s)
    BY DEF ChainExact
  <1>2. n \in Nat
    OBVIOUS
  <1>3. Len(s) = n /\ (s # <<>> <=> n > 0) /\ (n > 0 => s[1] = index[b])
        /\ \A k \in 1..n - 1 : map[b][s[k]] = s[k + 1]
    BY <1>1 DEF Chain
  <1> HIDE DEF n
  <1>4. DOMAIN s = 1..n /\ \A k \in 1..n : s[k] \in Cell
    BY <1>1
  <1>5. {s[k] : k \in 1..n} = {i \in Cell : <<b, i>> \notin handed}
    BY <1>1, <1>4 DEF ToSet, FreeCells
  <1>6. \A i \in Cell : <<b, i>> \notin handed <=> \E k \in 1..n : s[k] = i
    BY <1>5
  <1>7. \A j, k \in 1..n : s[j] = s[k] => j = k
    BY <1>1, <1>4 DEF IsInjective
  <1> QED
    BY <1>1, <1>3, <1>6, <1>7 DEF n

\* The n free cells of a block in the order in which they are linked.
Strung(b, n, s) ==
    /\ n \in Nat /\ free_num[b] = n /\ s \in [1..n -> Cell]
    /\ n > 0 => s[1] = index[b]
    /\ \A k \in 1..n - 1 : map[b][s[k]] = s[k + 1]
    /\ \A i \in Cell : <<b, i>> \notin handed <=> \E k \in 1..n : s[k] = i
    /\ \A j, k \in 1..n : s[j] = s[k] => j = k

\* A chain, put together.
LEMMA ChainMade ==
    ASSUME NEW b, NEW n, NEW s, Strung(b, n, s)'
    PROVE  ChainExact(b)'
  <1> /\ n \in Nat /\ free_num'[b] = n /\ s \in [1..n -> Cell]
      /\ n > 0 => s[1] = index'[b]
      /\ \A k \in 1..n - 1 : map'[b][s[k]] = s[k + 1]
      /\ \A i \in Cell : <<b, i>> \notin handed' <=> \E k \in 1..n : s[k] = i
      /\ \A j, k \in 1..n : s[j] = s[k] => j = k
    BY DEF Strung
  <1>1. Len(s) = n /\ DOMAIN s = 1..n /\ ToSet(s) = {s[k] : k \in 1..n} /\ (s # <<>> => n > 0)
    <2>1. s \in [1..n -> Cell] /\ n \in Nat
      OBVIOUS
    <2>2. Len(s) = n /\ s \in Seq(Cell) /\ DOMAIN s = 1..n /\ ToSet(s) = {s[k] : k \in 1..n}
      BY <2>1, SeqDef DEF ToSet
    <2> QED
      BY <2>2
  <1>2. Chain(b, s)'
    BY <1>1 DEF Chain
  <1>3. ToSet(s) = FreeCells(b)'
    <2>1. \A k \in 1..n : s[k] \in Cell
      OBVIOUS
    <2> QED
      BY <1>1, <2>1 DEF FreeCells
  <1>4. IsInjective(s)
    BY <1>1 DEF IsInjective
  <1> QED
    BY <1>2, <1>3, <1>4 DEF ChainExact

\* A chain of Num different cells goes through all of them.
LEMMA AllCells ==
    ASSUME SlicesAssumption, NEW s \in [1..Num -> Cell], \A j, k \in 1..Num : s[j] = s[k] => j = k
    PROVE  \A i \in Cell : \E k \in 1..Num : s[k] = i
  <1>1. Num \in Nat /\ IsFiniteSet(1..Num) /\ Cardinality(1..Num) = Num /\ IsFiniteSet(Cell) /\ Cardinality(Cell) = Num
    <2>1. Num \in Nat /\ 0 \in Int /\ 1 \in Int /\ Num \in Int /\ Num - 1 \in Int /\ Num > 1
      BY DEF SlicesAssumption
    <2>2. IsFiniteSet(1..Num) /\ Cardinality(1..Num) = IF 1 > Num THEN 0 ELSE Num - 1 + 1
      BY <2>1, FS_Interval
    <2>3. IsFiniteSet(0..(Num - 1)) /\ Cardinality(0..(Num - 1)) = IF 0 > Num - 1 THEN 0 ELSE Num - 1 - 0 + 1
      BY <2>1, FS_Interval
    <2> QED
      BY <2>1, <2>2, <2>3 DEF Cell
  <1>2. s \in Injection(1..Num, Cell)
    BY DEF Injection, IsInjective
  <1>3. s \in Surjection(1..Num, Cell)
    BY <1>1, <1>2, FS_Injection
  <1> QED
    BY <1>3 DEF Surjection

\* A call leaves the chains of the other blocks alone.
LEMMA CellsStay ==
    ASSUME NEW b, ChainExact(b), free_num'[b] = free_num[b], index'[b] = index[b], map'[b] = map[b],
           \A i \in Cell : <<b, i>> \in handed' <=> <<b, i>> \in handed
    PROVE  ChainExact(b)'
  <1>1. FreeCells(b)' = FreeCells(b)
    BY DEF FreeCells
  <1>2. PICK s \in [1..free_num[b] -> Cell] : Chain(b, s) /\ ToSet(s) = FreeCells(b) /\ IsInjective(s)
    BY DEF ChainExact
  <1>3. Len(s) = free_num[b] /\ (s # <<>> => s[1] = index[b]) /\ \A k \in 1..Len(s) - 1 : map[b][s[k]] = s[k + 1]
    BY <1>2 DEF Chain
  <1>4. Len(s) = free_num'[b] /\ (s # <<>> => s[1] = index'[b]) /\ \A k \in 1..Len(s) - 1 : map'[b][s[k]] = s[k + 1]
    BY <1>3
  <1>5. ToSet(s) = FreeCells(b)' /\ IsInjective(s) /\ s \in [1..free_num'[b] -> Cell]
    BY <1>1, <1>2
  <1> QED
    BY <1>4, <1>5 DEF ChainExact, Chain

\* The first cell of the chain is taken from it, and nobody had it.
LEMMA CellTaken ==
    ASSUME SlicesAssumption, SlicesTypeOK, NEW b \in Block, ChainExact(b), free_num[b] > 0, TakeCell(b), map' = map
    PROVE  /\ ChainExact(b)'
           /\ index[b] \in Cell /\ <<b, index[b]>> \notin handed
           /\ free_num' \in [Block -> 0..Num] /\ free_num'[b] = free_num[b] - 1
           /\ index' \in [Block -> MapEntry]
           /\ \A c \in Block \ {b} : free_num'[c] = free_num[c] /\ index'[c] = index[c]
           /\ handed' = handed \cup {<<b, index[b]>>}
  <1> DEFINE n == free_num[b]
  <1>1. n \in 1..Num /\ n - 1 \in Nat /\ n \in Nat /\ Num \in Nat
    BY DEF SlicesTypeOK, SlicesAssumption
  <1>2. PICK s \in [1..n -> Cell] :
                /\ n > 0 => s[1] = index[b]
                /\ \A k \in 1..n - 1 : map[b][s[k]] = s[k + 1]
                /\ \A i \in Cell : <<b, i>> \notin handed <=> \E k \in 1..n : s[k] = i
                /\ \A j, k \in 1..n : s[j] = s[k] => j = k
    BY <1>1, ChainFacts
  <1>3. /\ s[1] = index[b]
        /\ \A k \in 1..n - 1 : map[b][s[k]] = s[k + 1]
        /\ \A i \in Cell : <<b, i>> \notin handed <=> \E k \in 1..n : s[k] = i
        /\ \A j, k \in 1..n : s[j] = s[k] => j = k
    BY <1>1, <1>2
  <1>4. index[b] \in Cell /\ <<b, index[b]>> \notin handed /\ map[b][index[b]] \in MapEntry
    BY <1>1, <1>3 DEF SlicesTypeOK
  <1>5. /\ index' = [index EXCEPT ![b] = map[b][index[b]]]
        /\ free_num' = [free_num EXCEPT ![b] = n - 1]
        /\ handed' = handed \cup {<<b, index[b]>>}
    BY DEF TakeCell, SlicesTypeOK
  <1>6. /\ free_num' \in [Block -> 0..Num] /\ free_num'[b] = n - 1
        /\ index' \in [Block -> MapEntry] /\ index'[b] = map[b][index[b]]
        /\ \A c \in Block \ {b} : free_num'[c] = free_num[c] /\ index'[c] = index[c]
    BY <1>1, <1>4, <1>5 DEF SlicesTypeOK
  <1> DEFINE t == [k \in 1..n - 1 |-> s[k + 1]]
  <1>7. t \in [1..n - 1 -> Cell] /\ \A k \in 1..n - 1 : t[k] = s[k + 1]
    BY <1>1
  <1> HIDE DEF t, n
  <1>8. n - 1 > 0 => t[1] = index'[b]
    BY <1>1, <1>3, <1>6, <1>7
  <1>9. \A k \in 1..(n - 1) - 1 : map'[b][t[k]] = t[k + 1]
    <2> SUFFICES ASSUME NEW k \in 1..(n - 1) - 1 PROVE map'[b][t[k]] = t[k + 1]
      OBVIOUS
    <2>1. k \in 1..n - 1 /\ k + 1 \in 1..n - 1 /\ map'[b] = map[b]
      BY <1>1
    <2>2. t[k] = s[k + 1] /\ t[k + 1] = s[(k + 1) + 1]
      BY <1>7, <2>1
    <2> QED
      BY <1>3, <2>1, <2>2
  <1>10. \A i \in Cell : <<b, i>> \notin handed' <=> \E k \in 1..n - 1 : t[k] = i
    <2> SUFFICES ASSUME NEW i \in Cell PROVE <<b, i>> \notin handed' <=> \E k \in 1..n - 1 : t[k] = i
      OBVIOUS
    <2>1. <<b, i>> \notin handed' <=> <<b, i>> \notin handed /\ i # s[1]
      BY <1>3, <1>5
    <2>2. (\E k \in 1..n : s[k] = i) /\ i # s[1] => \E k \in 1..n - 1 : t[k] = i
      <3> SUFFICES ASSUME NEW k \in 1..n, s[k] = i, i # s[1] PROVE \E j \in 1..n - 1 : t[j] = i
        OBVIOUS
      <3>1. k - 1 \in 1..n - 1 /\ t[k - 1] = s[k]
        BY <1>1, <1>7
      <3> QED
        BY <3>1
    <2>3. \A k \in 1..n - 1 : t[k] = i => (\E j \in 1..n : s[j] = i) /\ i # s[1]
      <3> SUFFICES ASSUME NEW k \in 1..n - 1, t[k] = i PROVE (\E j \in 1..n : s[j] = i) /\ i # s[1]
        OBVIOUS
      <3>1. k + 1 \in 1..n /\ 1 \in 1..n /\ k + 1 # 1 /\ s[k + 1] = i
        BY <1>1, <1>7
      <3> QED
        BY <1>3, <3>1
    <2> QED
      BY <1>3, <2>1, <2>2, <2>3
  <1>11. \A j, k \in 1..n - 1 : t[j] = t[k] => j = k
    <2> SUFFICES ASSUME NEW j \in 1..n - 1, NEW k \in 1..n - 1, t[j] = t[k] PROVE j = k
      OBVIOUS
    <2>1. j + 1 \in 1..n /\ k + 1 \in 1..n /\ (j + 1 = k + 1 => j = k)
      BY <1>1
    <2>2. s[j + 1] = s[k + 1]
      BY <1>7
    <2> QED
      BY <1>3, <2>1, <2>2
  <1>12. ChainExact(b)'
    <2>1. n - 1 \in Nat /\ free_num'[b] = n - 1 /\ t \in [1..n - 1 -> Cell]
      BY <1>1, <1>6, <1>7
    <2>2. PICK m, q : m = n - 1 /\ q = t
      OBVIOUS
    <2>3. Strung(b, m, q)'
      BY ONLY <1>8, <1>9, <1>10, <1>11, <2>1, <2>2 DEF Strung
    <2> QED
      BY ONLY <2>3, ChainMade
  <1> QED
    BY <1>4, <1>5, <1>6, <1>12 DEF n

\* A cell given back is the first of the chain.
LEMMA CellGiven ==
    ASSUME SlicesAssumption, SlicesTypeOK, NEW b \in Block, NEW i \in Cell, <<b, i>> \in handed,
           ChainExact(b), free_num[b] < Num,
           free_num' = [free_num EXCEPT ![b] = free_num[b] + 1],
           map' = [map EXCEPT ![b][i] = index[b]], index' = [index EXCEPT ![b] = i],
           handed' = handed \ {<<b, i>>}
    PROVE  /\ ChainExact(b)'
           /\ free_num' \in [Block -> 0..Num] /\ free_num'[b] = free_num[b] + 1
           /\ index' \in [Block -> MapEntry] /\ map' \in [Block -> [Cell -> MapEntry]]
           /\ \A c \in Block \ {b} : free_num'[c] = free_num[c] /\ index'[c] = index[c] /\ map'[c] = map[c]
  <1> DEFINE n == free_num[b]
  <1>1. n \in 0..Num /\ n + 1 \in 0..Num /\ n \in Nat /\ n + 1 \in Nat /\ Num \in Nat /\ i \in MapEntry /\ index[b] \in MapEntry
    BY DEF SlicesTypeOK, SlicesAssumption, Cell, MapEntry
  <1>2. PICK s \in [1..n -> Cell] :
                /\ n > 0 => s[1] = index[b]
                /\ \A k \in 1..n - 1 : map[b][s[k]] = s[k + 1]
                /\ \A j \in Cell : <<b, j>> \notin handed <=> \E k \in 1..n : s[k] = j
                /\ \A j, k \in 1..n : s[j] = s[k] => j = k
    BY <1>1, ChainFacts
  <1>3. /\ free_num' \in [Block -> 0..Num] /\ free_num'[b] = n + 1
        /\ index' \in [Block -> MapEntry] /\ index'[b] = i
        /\ \A c \in Block \ {b} : free_num'[c] = free_num[c] /\ index'[c] = index[c]
    BY <1>1 DEF SlicesTypeOK
  <1>4. /\ map' \in [Block -> [Cell -> MapEntry]]
        /\ map'[b][i] = index[b] /\ \A j \in Cell \ {i} : map'[b][j] = map[b][j]
        /\ \A c \in Block \ {b} : map'[c] = map[c]
    BY <1>1 DEF SlicesTypeOK
  <1> DEFINE t == [k \in 1..n + 1 |-> IF k = 1 THEN i ELSE s[k - 1]]
  <1>5. t \in [1..n + 1 -> Cell] /\ t[1] = i /\ \A k \in 2..n + 1 : t[k] = s[k - 1] /\ k - 1 \in 1..n
    BY <1>1
  <1> HIDE DEF t, n
  <1>6. \A k \in 1..n : s[k] # i
    BY <1>2
  <1>7. \A k \in 1..(n + 1) - 1 : map'[b][t[k]] = t[k + 1]
    <2> SUFFICES ASSUME NEW k \in 1..n PROVE map'[b][t[k]] = t[k + 1]
      BY <1>1
    <2>1. CASE k = 1
      BY <1>1, <1>2, <1>4, <1>5, <2>1
    <2>2. CASE k # 1
      <3>1. k \in 2..n + 1 /\ k + 1 \in 2..n + 1 /\ k - 1 \in 1..n - 1 /\ k - 1 \in 1..n /\ (k + 1) - 1 = (k - 1) + 1
        BY <1>1, <2>2
      <3>2. t[k] = s[k - 1] /\ t[k + 1] = s[(k - 1) + 1] /\ s[k - 1] \in Cell \ {i}
        BY <1>5, <1>6, <3>1
      <3> QED
        BY <1>2, <1>4, <3>1, <3>2
    <2> QED
      BY <2>1, <2>2
  <1>8. \A j \in Cell : <<b, j>> \notin handed' <=> \E k \in 1..n + 1 : t[k] = j
    <2> SUFFICES ASSUME NEW j \in Cell PROVE <<b, j>> \notin handed' <=> \E k \in 1..n + 1 : t[k] = j
      OBVIOUS
    <2>1. <<b, j>> \notin handed' <=> j = i \/ <<b, j>> \notin handed
      OBVIOUS
    <2>2. (\E k \in 1..n : s[k] = j) => \E k \in 1..n + 1 : t[k] = j
      <3> SUFFICES ASSUME NEW k \in 1..n, s[k] = j PROVE \E l \in 1..n + 1 : t[l] = j
        OBVIOUS
      <3>1. k + 1 \in 2..n + 1 /\ k + 1 \in 1..n + 1 /\ (k + 1) - 1 = k
        BY <1>1
      <3> QED
        BY <1>5, <3>1
    <2>3. \A k \in 1..n + 1 : t[k] = j => j = i \/ \E l \in 1..n : s[l] = j
      BY <1>1, <1>5
    <2>4. j = i => 1 \in 1..n + 1 /\ t[1] = j
      BY <1>1, <1>5
    <2> QED
      BY <1>2, <2>1, <2>2, <2>3, <2>4
  <1>9. \A j, k \in 1..n + 1 : t[j] = t[k] => j = k
    <2> SUFFICES ASSUME NEW j \in 1..n + 1, NEW k \in 1..n + 1, t[j] = t[k] PROVE j = k
      OBVIOUS
    <2>1. j = 1 \/ j \in 2..n + 1
      BY <1>1
    <2>2. k = 1 \/ k \in 2..n + 1
      BY <1>1
    <2>3. j \in 2..n + 1 /\ k \in 2..n + 1 => j - 1 = k - 1
      BY <1>2, <1>5
    <2> QED
      BY <1>1, <1>5, <1>6, <2>1, <2>2, <2>3
  <1>10. ChainExact(b)'
    <2> PICK m, q : m = n + 1 /\ q = t
      OBVIOUS
    <2>1. m \in Nat /\ free_num'[b] = m /\ q \in [1..m -> Cell] /\ (m > 0 => q[1] = index'[b])
      BY <1>1, <1>3, <1>5
    <2>2. \A k \in 1..m - 1 : map'[b][q[k]] = q[k + 1]
      BY <1>7
    <2>3. \A j \in Cell : <<b, j>> \notin handed' <=> \E k \in 1..m : q[k] = j
      BY <1>8
    <2>4. \A j, k \in 1..m : q[j] = q[k] => j = k
      BY <1>9
    <2>5. Strung(b, m, q)'
      BY ONLY <2>1, <2>2, <2>3, <2>4 DEF Strung
    <2> QED
      BY ONLY <2>5, ChainMade
  <1> QED
    BY <1>3, <1>4, <1>10 DEF n

\* The chain of a new block: all its cells but the first, which the caller gets.
LEMMA NewChain ==
    ASSUME SlicesAssumption, SlicesTypeOK, NEW b \in Block, Unused(b),
           map' = [map EXCEPT ![b] = NewMap], index' = [index EXCEPT ![b] = 1],
           free_num' = [free_num EXCEPT ![b] = Num - 1], handed' = handed \cup {<<b, 0>>}
    PROVE  /\ ChainExact(b)'
           /\ free_num' \in [Block -> 0..Num] /\ free_num'[b] = Num - 1
           /\ index' \in [Block -> MapEntry] /\ map' \in [Block -> [Cell -> MapEntry]] /\ 0 \in Cell
  <1> DEFINE n == Num - 1
             t == [k \in 1..n |-> k]
  <1>1. Num \in Nat /\ Num > 1 /\ n \in Nat /\ n > 0
    BY DEF SlicesAssumption
  <1>2. NewMap \in [Cell -> MapEntry] /\ \A k \in 1..n - 1 : NewMap[k] = k + 1
    BY <1>1 DEF NewMap, Chained, Cell, MapEntry
  <1>3. /\ free_num' \in [Block -> 0..Num] /\ free_num'[b] = n
        /\ index' \in [Block -> MapEntry] /\ index'[b] = 1
        /\ map' \in [Block -> [Cell -> MapEntry]] /\ map'[b] = NewMap
    BY <1>1, <1>2 DEF SlicesTypeOK, MapEntry
  <1>4. t \in [1..n -> Cell] /\ 0 \in Cell /\ \A k \in 1..n : t[k] = k
    BY <1>1 DEF Cell
  <1>5. \A i \in Cell : <<b, i>> \notin handed' <=> i \in 1..n
    BY <1>1 DEF Unused, Cell
  <1> HIDE DEF t, n
  <1>6. \A i \in Cell : <<b, i>> \notin handed' <=> \E k \in 1..n : t[k] = i
    BY <1>4, <1>5
  <1>7. \A k \in 1..n - 1 : map'[b][t[k]] = t[k + 1]
    BY <1>1, <1>2, <1>3, <1>4
  <1>8. n > 0 => t[1] = index'[b]
    BY <1>1, <1>3, <1>4
  <1>9. \A j, k \in 1..n : t[j] = t[k] => j = k
    BY <1>4
  <1>10. ChainExact(b)'
    <2>1. PICK m, q : m = n /\ q = t
      OBVIOUS
    <2>2. Strung(b, m, q)'
      BY ONLY <1>1, <1>3, <1>4, <1>6, <1>7, <1>8, <1>9, <2>1 DEF Strung
    <2> QED
      BY ONLY <2>2, ChainMade
  <1> QED
    BY <1>3, <1>4, <1>10 DEF n

\* A list without repetition, without its head.
LEMMA WithoutHead ==
    ASSUME NEW S, NEW s \in Seq(S), s # <<>>, IsInjective(s)
    PROVE  /\ Head(s) \in S /\ Tail(s) \in Seq(S) /\ IsInjective(Tail(s))
           /\ Contains(s, Head(s))
           /\ \A y : Contains(Tail(s), y) <=> Contains(s, y) /\ y # Head(s)
  <1>1. /\ Head(s) \in S /\ Tail(s) \in Seq(S)
        /\ \A y : Contains(s, y) <=> Contains(Tail(s), y) \/ y = Head(s)
    BY HeadFacts
  <1> DEFINE h == Tail(s)
  <1>2. /\ Len(s) \in Nat \ {0} /\ Head(s) = s[1] /\ Len(h) = Len(s) - 1 /\ Len(h) \in Nat
        /\ DOMAIN h = 1..Len(h) /\ DOMAIN s = 1..Len(s)
        /\ \A i \in 1..Len(h) : h[i] = s[i + 1] /\ i + 1 \in 1..Len(s) /\ i + 1 # 1 /\ 1 \in 1..Len(s)
    OBVIOUS
  <1>3. \A j, k \in 1..Len(s) : s[j] = s[k] => j = k
    BY <1>2 DEF IsInjective
  <1> HIDE DEF h
  <1>4. IsInjective(h)
    <2> SUFFICES ASSUME NEW j \in 1..Len(h), NEW k \in 1..Len(h), h[j] = h[k] PROVE j = k
      BY <1>2 DEF IsInjective
    <2>1. j + 1 = k + 1
      BY <1>2, <1>3
    <2> QED
      BY <2>1
  <1>5. ~Contains(h, Head(s))
    BY <1>2, <1>3 DEF Contains
  <1> QED
    BY <1>1, <1>4, <1>5 DEF h

\* What the invariant says of a state in which b alone changed.
LEMMA OthersStay ==
    ASSUME SlicesInv, NEW b \in Block, ChainExact(b)', InPlaceOf(b)',
           \A c \in Block \ {b} : /\ free_num'[c] = free_num[c] /\ index'[c] = index[c] /\ map'[c] = map[c]
                                  /\ \A i \in Cell : <<c, i>> \in handed' <=> <<c, i>> \in handed
                                  /\ Contains(fill', c) <=> Contains(fill, c)
                                  /\ Contains(half', c) <=> Contains(half, c)
                                  /\ Contains(free', c) <=> Contains(free, c)
    PROVE  /\ \A c \in Block : OnAList(c)' => ChainExact(c)' /\ InPlaceOf(c)'
           /\ \A c \in Block \ {b} : OnAList(c)' <=> OnAList(c)
           /\ \A c \in Block \ {b} : Contains(free', c) => Unused(c)'
  <1>1. ASSUME NEW c \in Block \ {b}
        PROVE  /\ OnAList(c)' => ChainExact(c)' /\ InPlaceOf(c)'
               /\ OnAList(c)' <=> OnAList(c)
               /\ Contains(free', c) => Unused(c)'
    <2>1. OnAList(c)' <=> OnAList(c)
      BY <1>1 DEF OnAList
    <2>2. OnAList(c) => ChainExact(c) /\ InPlaceOf(c)
      BY DEF SlicesInv
    <2>3. ChainExact(c) => ChainExact(c)'
      BY <1>1, CellsStay
    <2>4. InPlaceOf(c) => InPlaceOf(c)'
      BY <1>1 DEF InPlaceOf
    <2>5. Contains(free', c) => Unused(c)'
      BY <1>1 DEF SlicesInv, Unused
    <2> QED
      BY <2>1, <2>2, <2>3, <2>4, <2>5
  <1> QED
    BY <1>1

\* slice_half_alloc keeps the invariant.
LEMMA HalfAllocKeeps == SlicesAssumption /\ SlicesInv /\ HalfAlloc => SlicesInv'
  <1> SUFFICES ASSUME SlicesAssumption, SlicesInv, HalfAlloc PROVE SlicesInv'
    OBVIOUS
  <1>0. PICK b \in Block : b = Head(half)
    <2>1. half \in Seq(Block) /\ half # <<>>
      BY DEF SlicesInv, SlicesTypeOK, HalfAlloc
    <2> QED
      BY <2>1
  <1>1. /\ half # <<>> /\ TakeCell(b) /\ free' = free /\ map' = map
        /\ \/ free_num[b] = 1 /\ half' = Tail(half) /\ fill' = <<b>> \o fill
           \/ free_num[b] # 1 /\ half' = half /\ fill' = fill
    BY <1>0 DEF HalfAlloc
  <1>2. /\ half \in Seq(Block) /\ IsInjective(half) /\ fill \in Seq(Block) /\ IsInjective(fill) /\ free \in Seq(Block) /\ IsInjective(free)
        /\ map \in [Block -> [Cell -> MapEntry]] /\ handed \subseteq Block \X Cell /\ SlicesTypeOK
        /\ Num \in Nat /\ Num > 1 /\ free_num \in [Block -> 0..Num]
    BY DEF SlicesInv, SlicesTypeOK, SlicesAssumption
  <1>3. /\ b \in Block /\ Tail(half) \in Seq(Block) /\ IsInjective(Tail(half)) /\ Contains(half, b)
        /\ \A y : Contains(Tail(half), y) <=> Contains(half, y) /\ y # b
    BY <1>0, <1>1, <1>2, WithoutHead
  <1>4. OnAList(b) /\ ChainExact(b) /\ InPlaceOf(b) /\ free_num[b] \in 1..Num - 1 /\ ~Contains(fill, b) /\ ~Contains(free, b)
    <2>1. OnAList(b) /\ ChainExact(b) /\ InPlaceOf(b)
      BY <1>3 DEF SlicesInv, OnAList
    <2> QED
      BY <1>2, <1>3, <2>1 DEF InPlaceOf
  <1>5. /\ ChainExact(b)' /\ index[b] \in Cell /\ <<b, index[b]>> \notin handed
        /\ free_num' \in [Block -> 0..Num] /\ free_num'[b] = free_num[b] - 1
        /\ index' \in [Block -> MapEntry]
        /\ \A c \in Block \ {b} : free_num'[c] = free_num[c] /\ index'[c] = index[c]
        /\ handed' = handed \cup {<<b, index[b]>>}
    BY <1>1, <1>2, <1>3, <1>4, CellTaken
  <1>6. /\ half' \in Seq(Block) /\ IsInjective(half') /\ fill' \in Seq(Block) /\ IsInjective(fill')
        /\ \A c \in Block \ {b} : (Contains(fill', c) <=> Contains(fill, c)) /\ (Contains(half', c) <=> Contains(half, c))
        /\ Contains(fill', b) <=> free_num[b] = 1
        /\ Contains(half', b) <=> free_num[b] # 1
    <2>1. /\ <<b>> \o fill \in Seq(Block) /\ IsInjective(<<b>> \o fill)
          /\ \A y : Contains(<<b>> \o fill, y) <=> Contains(fill, y) \/ y = b
      BY <1>2, <1>3, <1>4, ConsFacts
    <2> QED
      BY <1>1, <1>2, <1>3, <1>4, <2>1
  <1>7. InPlaceOf(b)'
    BY <1>1, <1>2, <1>4, <1>5, <1>6 DEF InPlaceOf
  <1>8. /\ \A c \in Block : OnAList(c)' => ChainExact(c)' /\ InPlaceOf(c)'
        /\ \A c \in Block \ {b} : OnAList(c)' <=> OnAList(c)
        /\ \A c \in Block \ {b} : Contains(free', c) => Unused(c)'
    BY <1>1, <1>3, <1>5, <1>6, <1>7, OthersStay
  <1>9. SlicesTypeOK'
    <2>1. handed' \subseteq Block \X Cell
      BY <1>2, <1>5
    <2>2. \A list \in {fill', half', free'} : list \in Seq(Block) /\ IsInjective(list)
      BY <1>1, <1>2, <1>6
    <2>3. map' \in [Block -> [Cell -> MapEntry]]
      BY <1>1, <1>2
    <2> QED
      BY <1>5, <2>1, <2>2, <2>3 DEF SlicesTypeOK
  <1>10. OnAList(b)' /\ ~Contains(free', b)
    BY <1>1, <1>4, <1>6 DEF OnAList
  <1>11. \A c \in handed' : OnAList(c[1])'
    BY <1>2, <1>5, <1>8, <1>10 DEF SlicesInv
  <1>12. Fullest'
    <2>1. Len(half) \in Nat \ {0} /\ b = half[1] /\ \A j \in 1..Len(half) : half[j] \in Block /\ (half[j] = b => j = 1)
      BY <1>0, <1>1, <1>2 DEF IsInjective
    <2>2. \A j, k \in 1..Len(half) : j < k => free_num[half[j]] <= free_num[half[k]]
      BY DEF SlicesInv, Fullest
    <2>3. CASE half' = half
      <3>1. \A j \in 1..Len(half) :
                /\ free_num'[half[j]] <= free_num[half[j]]
                /\ j # 1 => free_num'[half[j]] = free_num[half[j]]
                /\ free_num[half[j]] \in Nat /\ free_num'[half[j]] \in Nat
        <4>1. \A c \in Block : /\ free_num[c] \in Nat /\ free_num'[c] \in Nat /\ free_num'[c] <= free_num[c]
                               /\ c # b => free_num'[c] = free_num[c]
          <5>1. \A c \in Block : free_num[c] \in 0..Num /\ free_num'[c] \in 0..Num
            BY <1>2, <1>5
          <5>2. \A c \in Block : c = b \/ free_num'[c] = free_num[c]
            BY <1>5
          <5> QED
            BY <1>2, <1>5, <5>1, <5>2
        <4> QED
          BY <2>1, <4>1
      <3>2. \A j, k \in 1..Len(half) : j < k => k # 1 /\ free_num'[half[j]] <= free_num'[half[k]]
        BY <2>1, <2>2, <3>1
      <3> QED
        BY <2>3, <3>2 DEF Fullest
    <2>4. CASE half' = Tail(half)
      <3>1. Len(half') = Len(half) - 1 /\ \A j \in 1..Len(half') : half'[j] = half[j + 1] /\ j + 1 \in 1..Len(half) /\ j + 1 # 1
        BY <1>2, <2>1, <2>4
      <3>2. \A j \in 1..Len(half') : free_num'[half'[j]] = free_num[half[j + 1]]
        BY <1>5, <2>1, <3>1
      <3> QED
        BY <2>1, <2>2, <3>1, <3>2 DEF Fullest
    <2> QED
      BY <1>1, <2>3, <2>4
  <1> QED
    BY <1>8, <1>9, <1>10, <1>11, <1>12 DEF SlicesInv

\* slice_free_alloc of a free block keeps the invariant.
LEMMA FreeAllocKeeps == SlicesAssumption /\ SlicesInv /\ FreeAlloc => SlicesInv'
  <1> SUFFICES ASSUME SlicesAssumption, SlicesInv, FreeAlloc PROVE SlicesInv'
    OBVIOUS
  <1>1. PICK b \in Block : b = Head(free)
    <2>1. free \in Seq(Block) /\ free # <<>>
      BY DEF SlicesInv, SlicesTypeOK, FreeAlloc
    <2> QED
      BY <2>1
  <1>2. /\ half = <<>> /\ free # <<>> /\ TakeCell(b) /\ fill' = fill /\ map' = map
        /\ free' = Tail(free) /\ half' = <<b>>
    BY <1>1 DEF FreeAlloc
  <1>3. /\ fill \in Seq(Block) /\ IsInjective(fill) /\ free \in Seq(Block) /\ IsInjective(free)
        /\ map \in [Block -> [Cell -> MapEntry]] /\ handed \subseteq Block \X Cell /\ SlicesTypeOK
        /\ Num \in Nat /\ Num > 1 /\ free_num \in [Block -> 0..Num]
    BY DEF SlicesInv, SlicesTypeOK, SlicesAssumption
  <1>4. /\ Tail(free) \in Seq(Block) /\ IsInjective(Tail(free)) /\ Contains(free, b)
        /\ \A y : Contains(Tail(free), y) <=> Contains(free, y) /\ y # b
    BY <1>1, <1>2, <1>3, WithoutHead
  <1>5. ChainExact(b) /\ InPlaceOf(b) /\ free_num[b] = Num /\ ~Contains(fill, b)
    <2>1. ChainExact(b) /\ InPlaceOf(b)
      BY <1>4 DEF SlicesInv, OnAList
    <2> QED
      BY <1>3, <1>4, <2>1 DEF InPlaceOf
  <1>6. /\ ChainExact(b)' /\ index[b] \in Cell /\ <<b, index[b]>> \notin handed
        /\ free_num' \in [Block -> 0..Num] /\ free_num'[b] = free_num[b] - 1
        /\ index' \in [Block -> MapEntry]
        /\ \A c \in Block \ {b} : free_num'[c] = free_num[c] /\ index'[c] = index[c]
        /\ handed' = handed \cup {<<b, index[b]>>}
    BY <1>2, <1>3, <1>5, CellTaken
  <1>7. /\ half' \in Seq(Block) /\ Len(half') = 1 /\ half'[1] = b /\ IsInjective(half')
        /\ \A c : Contains(half', c) <=> c = b
        /\ \A c : ~Contains(half, c)
    BY <1>2 DEF Contains, IsInjective
  <1>8. InPlaceOf(b)'
    <2>1. ~Contains(fill', b) /\ ~Contains(free', b) /\ Contains(half', b)
      BY <1>2, <1>4, <1>5, <1>7
    <2>2. free_num'[b] = Num - 1 /\ Num - 1 # 0 /\ Num - 1 # Num /\ Num - 1 \in 1..Num - 1
      BY <1>3, <1>5, <1>6
    <2> QED
      BY <2>1, <2>2 DEF InPlaceOf
  <1>9. /\ \A c \in Block : OnAList(c)' => ChainExact(c)' /\ InPlaceOf(c)'
        /\ \A c \in Block \ {b} : OnAList(c)' <=> OnAList(c)
        /\ \A c \in Block \ {b} : Contains(free', c) => Unused(c)'
    BY <1>2, <1>4, <1>6, <1>7, <1>8, OthersStay
  <1>10. SlicesTypeOK'
    <2>1. handed' \subseteq Block \X Cell
      BY <1>3, <1>6
    <2>2. \A list \in {fill', half', free'} : list \in Seq(Block) /\ IsInjective(list)
      BY <1>2, <1>3, <1>4, <1>7
    <2>3. map' \in [Block -> [Cell -> MapEntry]]
      BY <1>2, <1>3
    <2> QED
      BY <1>6, <2>1, <2>2, <2>3 DEF SlicesTypeOK
  <1>11. OnAList(b)' /\ ~Contains(free', b)
    BY <1>2, <1>4, <1>7 DEF OnAList
  <1>12. \A c \in handed' : OnAList(c[1])'
    BY <1>3, <1>6, <1>9, <1>11 DEF SlicesInv
  <1>13. Fullest'
    BY <1>7 DEF Fullest
  <1> QED
    BY <1>9, <1>10, <1>11, <1>12, <1>13 DEF SlicesInv

\* slice_free_alloc of a new block keeps the invariant.
LEMMA NewAllocKeeps == \A b \in Block : SlicesAssumption /\ SlicesInv /\ NewAlloc(b) => SlicesInv'
  <1> SUFFICES ASSUME SlicesAssumption, SlicesInv, NEW b \in Block, NewAlloc(b) PROVE SlicesInv'
    OBVIOUS
  <1>1. /\ half = <<>> /\ free = <<>> /\ b \notin InUse
        /\ map' = [map EXCEPT ![b] = NewMap] /\ index' = [index EXCEPT ![b] = 1]
        /\ free_num' = [free_num EXCEPT ![b] = Num - 1] /\ handed' = handed \cup {<<b, 0>>}
        /\ half' = <<b>> /\ fill' = fill /\ free' = free
    BY DEF NewAlloc
  <1>2. /\ fill \in Seq(Block) /\ IsInjective(fill) /\ free \in Seq(Block) /\ IsInjective(free)
        /\ handed \subseteq Block \X Cell /\ SlicesTypeOK
        /\ Num \in Nat /\ Num > 1 /\ free_num \in [Block -> 0..Num] /\ index \in [Block -> MapEntry]
        /\ map \in [Block -> [Cell -> MapEntry]]
    BY DEF SlicesInv, SlicesTypeOK, SlicesAssumption
  <1>3. ~OnAList(b)
    BY <1>1 DEF InUse, OnAList, Contains, ToSet
  <1>4. Unused(b)
    BY <1>3 DEF SlicesInv, Unused
  <1>5. /\ ChainExact(b)'
        /\ free_num' \in [Block -> 0..Num] /\ free_num'[b] = Num - 1
        /\ index' \in [Block -> MapEntry] /\ map' \in [Block -> [Cell -> MapEntry]] /\ 0 \in Cell
    BY <1>1, <1>2, <1>4, NewChain
  <1>6. /\ half' \in Seq(Block) /\ Len(half') = 1 /\ half'[1] = b /\ IsInjective(half')
        /\ \A c : Contains(half', c) <=> c = b
        /\ \A c : ~Contains(half, c)
    BY <1>1 DEF Contains, IsInjective
  <1>7. InPlaceOf(b)'
    <2>1. ~Contains(fill', b) /\ ~Contains(free', b) /\ Contains(half', b)
      BY <1>1, <1>3, <1>6 DEF OnAList
    <2>2. free_num'[b] = Num - 1 /\ Num - 1 # 0 /\ Num - 1 # Num /\ Num - 1 \in 1..Num - 1
      BY <1>2, <1>5
    <2> QED
      BY <2>1, <2>2 DEF InPlaceOf
  <1>8. \A c \in Block \ {b} : /\ free_num'[c] = free_num[c] /\ index'[c] = index[c] /\ map'[c] = map[c]
                               /\ \A i \in Cell : <<c, i>> \in handed' <=> <<c, i>> \in handed
    BY <1>1, <1>2
  <1>9. /\ \A c \in Block : OnAList(c)' => ChainExact(c)' /\ InPlaceOf(c)'
        /\ \A c \in Block \ {b} : OnAList(c)' <=> OnAList(c)
        /\ \A c \in Block \ {b} : Contains(free', c) => Unused(c)'
    BY <1>1, <1>5, <1>6, <1>7, <1>8, OthersStay
  <1>10. SlicesTypeOK'
    <2>1. handed' \subseteq Block \X Cell
      BY <1>1, <1>2, <1>5
    <2>2. \A list \in {fill', half', free'} : list \in Seq(Block) /\ IsInjective(list)
      BY <1>1, <1>2, <1>6
    <2> QED
      BY <1>5, <2>1, <2>2 DEF SlicesTypeOK
  <1>11. OnAList(b)' /\ ~Contains(free', b)
    BY <1>1, <1>3, <1>6 DEF OnAList
  <1>12. \A c \in handed' : OnAList(c[1])'
    BY <1>1, <1>2, <1>9, <1>11 DEF SlicesInv
  <1>13. Fullest'
    BY <1>6 DEF Fullest
  <1> QED
    BY <1>9, <1>10, <1>11, <1>12, <1>13 DEF SlicesInv

\* slice_free_release keeps the invariant: nobody has a cell of what it releases.
LEMMA ReleaseKeeps == SlicesAssumption /\ SlicesInv /\ SliceRelease => SlicesInv'
  <1> SUFFICES ASSUME SlicesAssumption, SlicesInv, SliceRelease PROVE SlicesInv'
    OBVIOUS
  <1> DEFINE gone(b) == Contains(free, b) /\ ~Contains(free', b)
  <1>1. /\ fill' = fill /\ half' = half /\ handed' = handed /\ free # <<>>
        /\ free' = <<>> \/ free' = <<Last(free)>>
        /\ index' = [b \in Block |-> IF gone(b) THEN 0 ELSE index[b]]
        /\ map' = [b \in Block |-> IF gone(b) THEN [i \in Cell |-> Num] ELSE map[b]]
        /\ free_num' = [b \in Block |-> IF gone(b) THEN 0 ELSE free_num[b]]
    BY DEF SliceRelease
  <1>2. /\ fill \in Seq(Block) /\ IsInjective(fill) /\ half \in Seq(Block) /\ IsInjective(half)
        /\ free \in Seq(Block) /\ handed \subseteq Block \X Cell
        /\ Num \in Nat /\ Num > 1 /\ free_num \in [Block -> 0..Num] /\ index \in [Block -> MapEntry]
        /\ map \in [Block -> [Cell -> MapEntry]] /\ SlicesTypeOK
    BY DEF SlicesInv, SlicesTypeOK, SlicesAssumption
  <1>3. /\ free' \in Seq(Block) /\ IsInjective(free')
        /\ \A b : Contains(free', b) => Contains(free, b)
    <2>1. Last(free) = free[Len(free)] /\ Len(free) \in 1..Len(free) /\ Last(free) \in Block
      BY <1>1, <1>2 DEF Last
    <2>2. CASE free' = <<>>
      BY <2>2 DEF Contains, IsInjective
    <2>3. CASE free' = <<Last(free)>>
      BY <2>1, <2>3 DEF Contains, IsInjective
    <2> QED
      BY <1>1, <2>2, <2>3
  <1>4. \A b \in Block : ~gone(b) => free_num'[b] = free_num[b] /\ index'[b] = index[b] /\ map'[b] = map[b]
    BY <1>1
  <1>5. \A b \in Block : gone(b) => Unused(b) /\ ~OnAList(b)'
    <2> SUFFICES ASSUME NEW b \in Block, gone(b) PROVE Unused(b) /\ ~OnAList(b)'
      OBVIOUS
    <2>1. InPlaceOf(b) /\ Unused(b)
      BY DEF SlicesInv, OnAList
    <2> QED
      BY <1>1, <1>2, <2>1 DEF InPlaceOf, OnAList
  <1>6. \A b \in Block : OnAList(b)' => OnAList(b) /\ ~gone(b)
    BY <1>1, <1>3, <1>5 DEF OnAList
  <1>7. \A b \in Block : OnAList(b) /\ ~gone(b) => OnAList(b)'
    BY <1>1 DEF OnAList
  <1>8. \A b \in Block : OnAList(b)' => ChainExact(b)' /\ InPlaceOf(b)'
    <2> SUFFICES ASSUME NEW b \in Block, OnAList(b)' PROVE ChainExact(b)' /\ InPlaceOf(b)'
      OBVIOUS
    <2>1. ChainExact(b) /\ InPlaceOf(b) /\ ~gone(b)
      BY <1>6 DEF SlicesInv
    <2>2. ChainExact(b)'
      BY <1>1, <1>4, <2>1, CellsStay
    <2>3. InPlaceOf(b)'
      BY <1>1, <1>3, <1>4, <2>1 DEF InPlaceOf
    <2> QED
      BY <2>2, <2>3
  <1>9. SlicesTypeOK'
    <2>1. /\ free_num' \in [Block -> 0..Num] /\ index' \in [Block -> MapEntry]
          /\ map' \in [Block -> [Cell -> MapEntry]]
      BY <1>1, <1>2 DEF MapEntry
    <2>2. \A list \in {fill', half', free'} : list \in Seq(Block) /\ IsInjective(list)
      BY <1>1, <1>2, <1>3
    <2> QED
      BY <1>1, <1>2, <2>1, <2>2 DEF SlicesTypeOK
  <1>10. \A c \in handed' : OnAList(c[1])'
    <2> SUFFICES ASSUME NEW c \in handed PROVE OnAList(c[1])'
      BY <1>1
    <2>1. c[1] \in Block /\ c[2] \in Cell /\ c = <<c[1], c[2]>> /\ OnAList(c[1])
      BY <1>2 DEF SlicesInv
    <2> QED
      BY <1>5, <1>7, <2>1 DEF Unused
  <1>11. Fullest'
    <2>1. \A j \in 1..Len(half) : half[j] \in Block /\ free_num'[half[j]] = free_num[half[j]]
      <3> SUFFICES ASSUME NEW j \in 1..Len(half) PROVE half[j] \in Block /\ free_num'[half[j]] = free_num[half[j]]
        OBVIOUS
      <3>1. half[j] \in Block /\ Contains(half, half[j])
        BY <1>2 DEF Contains
      <3>2. InPlaceOf(half[j])
        BY <3>1 DEF SlicesInv, OnAList
      <3>3. ~gone(half[j])
        BY <1>2, <3>1, <3>2 DEF InPlaceOf
      <3> QED
        BY <1>4, <3>1, <3>3
    <2> QED
      BY <1>1, <2>1 DEF SlicesInv, Fullest
  <1>12. \A b \in Block : Contains(free', b) => Unused(b)'
    BY <1>1, <1>3 DEF SlicesInv, Unused
  <1> QED
    BY <1>8, <1>9, <1>10, <1>11, <1>12 DEF SlicesInv

\* Two lists, one behind the other.
LEMMA Joined2 ==
    ASSUME NEW S, NEW s \in Seq(S), NEW t \in Seq(S)
    PROVE  /\ s \o t \in Seq(S) /\ Len(s \o t) = Len(s) + Len(t)
           /\ \A j \in 1..Len(s) : (s \o t)[j] = s[j]
           /\ \A j \in 1..Len(t) : (s \o t)[Len(s) + j] = t[j]
  OBVIOUS
\* The entries of a part of a list.
LEMMA PartOf ==
    ASSUME NEW S, NEW s \in Seq(S), NEW m \in 1..Len(s) + 1, NEW n \in m - 1..Len(s)
    PROVE  /\ SubSeq(s, m, n) \in Seq(S) /\ Len(SubSeq(s, m, n)) = n - m + 1
           /\ \A j \in 1..n - m + 1 : SubSeq(s, m, n)[j] = s[m + j - 1]
  <1>1. /\ SubSeq(s, m, n) \in Seq(S) /\ Len(SubSeq(s, m, n)) = n - m + 1
    BY SubSeqProperties
  <1>2. \A j \in 1..n - m + 1 : SubSeq(s, m, n)[j] = s[m + j - 1]
    BY SubSeqProperties
  <1> QED
    BY <1>1, <1>2

\* Where the entry j was before the p-th of a list moved behind the k after it.
Was(p, k, j) == IF j < p \/ j > p + k THEN j ELSE IF j = p + k THEN p ELSE j + 1

\* Where the entries of half are after a block moved behind k others.
LEMMA SortedPlaces ==
    ASSUME half \in Seq(Block), IsInjective(half), NEW b \in Block, NEW p \in 1..Len(half), half[p] = b,
           free_num \in [Block -> Nat], NEW n \in Nat
    PROVE  \E k \in 0..Len(half) - p :
            /\ Sorted(b, n) \in Seq(Block) /\ Len(Sorted(b, n)) = Len(half)
            /\ \A j \in 1..Len(half) : Sorted(b, n)[j] = half[Was(p, k, j)]
            /\ \A j \in p + 1..p + k : free_num[half[j]] < n
            /\ p + k < Len(half) => free_num[half[p + k + 1]] >= n
  <1> DEFINE L == Len(half)
             rest == SubSeq(half, p + 1, L)
             k == Passed(rest, n)
             a == SubSeq(half, 1, p - 1)
             c == SubSeq(rest, 1, k)
             d == SubSeq(rest, k + 1, Len(rest))
  <1>1. L \in Nat /\ p \in 1..L /\ p \in Nat /\ 1 <= p /\ p <= L /\ DOMAIN half = 1..L
    OBVIOUS
  <1>2. (CHOOSE q \in 1..L : half[q] = b) = p
    BY <1>1 DEF IsInjective
  <1>3. rest \in Seq(Block) /\ Len(rest) = L - p /\ \A j \in 1..L - p : rest[j] = half[p + j]
    <2>1. p + 1 \in 1..L + 1 /\ L \in (p + 1) - 1..L /\ L - (p + 1) + 1 = L - p /\ \A j \in 1..L - p : (p + 1) + j - 1 = p + j
      BY <1>1
    <2>2. /\ rest \in Seq(Block) /\ Len(rest) = L - (p + 1) + 1
          /\ \A j \in 1..L - (p + 1) + 1 : rest[j] = half[(p + 1) + j - 1]
      BY <2>1, PartOf
    <2> QED
      BY <2>1, <2>2
  <1>4. Sorted(b, n) = a \o c \o <<b>> \o d
    BY <1>2 DEF Sorted
  <1>5. a \in Seq(Block) /\ Len(a) = p - 1 /\ \A j \in 1..p - 1 : a[j] = half[j]
    <2>1. 1 \in 1..L + 1 /\ p - 1 \in 1 - 1..L /\ (p - 1) - 1 + 1 = p - 1 /\ \A j \in 1..p - 1 : 1 + j - 1 = j
      BY <1>1
    <2>2. /\ a \in Seq(Block) /\ Len(a) = (p - 1) - 1 + 1
          /\ \A j \in 1..(p - 1) - 1 + 1 : a[j] = half[1 + j - 1]
      BY <2>1, PartOf
    <2> QED
      BY <2>1, <2>2
  <1> HIDE DEF L, rest, a
  <1>6. k \in 0..L - p /\ (\A j \in 1..k : free_num[rest[j]] < n) /\ (k < L - p => free_num[rest[k + 1]] >= n)
    BY <1>3, PassedFacts
  <1> HIDE DEF k
  <1>7. k \in Nat /\ p + k <= L
    BY <1>1, <1>6
  <1>8. c \in Seq(Block) /\ Len(c) = k /\ \A j \in 1..k : c[j] = half[p + j]
    <2>1. 1 \in 1..Len(rest) + 1 /\ k \in 1 - 1..Len(rest) /\ k - 1 + 1 = k /\ \A j \in 1..k : 1 + j - 1 = j /\ j \in 1..L - p
      BY <1>1, <1>3, <1>7
    <2>2. /\ c \in Seq(Block) /\ Len(c) = k - 1 + 1
          /\ \A j \in 1..k - 1 + 1 : c[j] = rest[1 + j - 1]
      BY <1>3, <2>1, PartOf
    <2> QED
      BY <1>3, <2>1, <2>2
  <1>9. d \in Seq(Block) /\ Len(d) = L - p - k /\ \A j \in 1..L - p - k : d[j] = half[p + k + j]
    <2>1. /\ k + 1 \in 1..Len(rest) + 1 /\ Len(rest) \in (k + 1) - 1..Len(rest) /\ Len(rest) - (k + 1) + 1 = L - p - k
          /\ \A j \in 1..L - p - k : (k + 1) + j - 1 = k + j /\ k + j \in 1..L - p /\ p + (k + j) = p + k + j
      <3>1. L \in Nat /\ p \in Nat /\ k \in Nat /\ 1 <= p /\ p + k <= L /\ Len(rest) = L - p
        BY ONLY <1>1, <1>3, <1>7
      <3> QED
        BY ONLY <3>1
    <2>2. /\ d \in Seq(Block) /\ Len(d) = Len(rest) - (k + 1) + 1
          /\ \A j \in 1..Len(rest) - (k + 1) + 1 : d[j] = rest[(k + 1) + j - 1]
      <3>1. PICK m \in 1..Len(rest) + 1 : m = k + 1
        BY ONLY <2>1
      <3>2. rest \in Seq(Block) /\ Len(rest) \in m - 1..Len(rest)
        BY ONLY <1>3, <2>1, <3>1
      <3>3. /\ SubSeq(rest, m, Len(rest)) \in Seq(Block) /\ Len(SubSeq(rest, m, Len(rest))) = Len(rest) - m + 1
            /\ \A j \in 1..Len(rest) - m + 1 : SubSeq(rest, m, Len(rest))[j] = rest[m + j - 1]
        BY ONLY <3>2, PartOf
      <3> QED
        BY ONLY <3>1, <3>3 DEF d
    <2>3. \A j \in 1..L - p - k : d[j] = rest[k + j]
      BY ONLY <2>1, <2>2
    <2> QED
      BY ONLY <1>3, <2>1, <2>2, <2>3
  <1>10. <<b>> \in Seq(Block) /\ Len(<<b>>) = 1 /\ <<b>>[1] = b
    OBVIOUS
  <1> HIDE DEF c, d
  <1> DEFINE x == a \o c
             y == x \o <<b>>
             z == y \o d
  <1>11. /\ x \in Seq(Block) /\ Len(x) = Len(a) + Len(c)
         /\ \A j \in 1..Len(a) : x[j] = a[j]
         /\ \A j \in 1..Len(c) : x[Len(a) + j] = c[j]
    <2>1. x \in Seq(Block) /\ Len(x) = Len(a) + Len(c)
      BY ONLY <1>5, <1>8, Joined2 DEF x
    <2>2. \A j \in 1..Len(a) : x[j] = a[j]
      BY ONLY <1>5, <1>8, Joined2 DEF x
    <2>3. \A j \in 1..Len(c) : x[Len(a) + j] = c[j]
      BY ONLY <1>5, <1>8, Joined2 DEF x
    <2> QED
      BY ONLY <2>1, <2>2, <2>3
  <1> HIDE DEF x
  <1>12. /\ y \in Seq(Block) /\ Len(y) = Len(x) + 1
         /\ \A j \in 1..Len(x) : y[j] = x[j]
         /\ y[Len(x) + 1] = b
    <2>1. y \in Seq(Block) /\ Len(y) = Len(x) + Len(<<b>>)
      BY ONLY <1>10, <1>11, Joined2 DEF y
    <2>2. \A j \in 1..Len(x) : y[j] = x[j]
      BY ONLY <1>10, <1>11, Joined2 DEF y
    <2>3. \A j \in 1..Len(<<b>>) : y[Len(x) + j] = <<b>>[j]
      BY ONLY <1>10, <1>11, Joined2 DEF y
    <2>4. 1 \in 1..Len(<<b>>)
      BY ONLY <1>10
    <2> QED
      BY ONLY <1>10, <2>1, <2>2, <2>3, <2>4
  <1> HIDE DEF y
  <1>13. /\ z \in Seq(Block) /\ Len(z) = Len(y) + Len(d)
         /\ \A j \in 1..Len(y) : z[j] = y[j]
         /\ \A j \in 1..Len(d) : z[Len(y) + j] = d[j]
    <2>1. z \in Seq(Block) /\ Len(z) = Len(y) + Len(d)
      BY ONLY <1>9, <1>12, Joined2 DEF z
    <2>2. \A j \in 1..Len(y) : z[j] = y[j]
      BY ONLY <1>9, <1>12, Joined2 DEF z
    <2>3. \A j \in 1..Len(d) : z[Len(y) + j] = d[j]
      BY ONLY <1>9, <1>12, Joined2 DEF z
    <2> QED
      BY ONLY <2>1, <2>2, <2>3
  <1>14. z = Sorted(b, n)
    BY <1>4 DEF x, y
  <1> HIDE DEF z
  <1>15. Len(x) = p + k - 1 /\ Len(y) = p + k /\ Len(z) = L
    <2>1. /\ Len(a) = p - 1 /\ Len(c) = k /\ Len(d) = L - p - k
          /\ Len(x) = Len(a) + Len(c) /\ Len(y) = Len(x) + 1 /\ Len(z) = Len(y) + Len(d)
      BY ONLY <1>5, <1>8, <1>9, <1>11, <1>12, <1>13
    <2>2. L \in Nat /\ p \in Nat /\ k \in Nat
      BY ONLY <1>1, <1>7
    <2> QED
      BY ONLY <2>1, <2>2
  <1>16. \A j \in 1..L : z[j] = half[Was(p, k, j)]
    <2> SUFFICES ASSUME NEW j \in 1..L PROVE z[j] = half[Was(p, k, j)]
      OBVIOUS
    <2>0. j \in Nat /\ p \in Nat /\ k \in Nat /\ L \in Nat /\ 1 <= p /\ 1 <= j /\ j <= L /\ p + k <= L
      BY <1>1, <1>7
    <2>1. CASE j < p
      <3>1. Was(p, k, j) = j /\ j \in 1..p - 1 /\ j \in 1..p + k - 1 /\ j \in 1..p + k
        BY ONLY <2>0, <2>1 DEF Was
      <3> QED
        BY ONLY <1>5, <1>11, <1>12, <1>13, <1>15, <3>1
    <2>2. CASE p <= j /\ j < p + k
      <3>1. Was(p, k, j) = j + 1 /\ j \in 1..p + k - 1 /\ j \in 1..p + k
        BY ONLY <2>0, <2>2 DEF Was
      <3>2. x[j] = half[j + 1]
        <4>1. PICK i \in 1..k : (p - 1) + i = j /\ p + i = j + 1
          <5>1. j - p + 1 \in 1..k /\ (p - 1) + (j - p + 1) = j /\ p + (j - p + 1) = j + 1
            BY ONLY <2>0, <2>2
          <5> QED
            BY <5>1
        <4>2. x[(p - 1) + i] = c[i] /\ c[i] = half[p + i]
          BY ONLY <1>5, <1>8, <1>11
        <4> QED
          BY ONLY <4>1, <4>2
      <3> QED
        BY ONLY <1>12, <1>13, <1>15, <3>1, <3>2
    <2>3. CASE j = p + k
      <3>1. Was(p, k, j) = p /\ j \in 1..p + k /\ (p + k - 1) + 1 = j
        BY ONLY <2>0, <2>3 DEF Was
      <3>2. z[j] = b
        BY ONLY <1>12, <1>13, <1>15, <3>1
      <3> QED
        BY <3>1, <3>2
    <2>4. CASE j > p + k
      <3>1. Was(p, k, j) = j
        BY ONLY <2>0, <2>4 DEF Was
      <3>2. PICK i \in 1..L - p - k : (p + k) + i = j
        <4>1. j - p - k \in 1..L - p - k /\ (p + k) + (j - p - k) = j
          BY ONLY <2>0, <2>4
        <4> QED
          BY <4>1
      <3>3. z[(p + k) + i] = d[i] /\ d[i] = half[(p + k) + i]
        BY ONLY <1>9, <1>13, <1>15
      <3> QED
        BY ONLY <3>1, <3>2, <3>3
    <2>5. j < p \/ (p <= j /\ j < p + k) \/ j = p + k \/ j > p + k
      BY ONLY <2>0
    <2> QED
      BY ONLY <2>1, <2>2, <2>3, <2>4, <2>5
  <1>17. \A j \in p + 1..p + k : free_num[half[j]] < n
    <2> SUFFICES ASSUME NEW j \in p + 1..p + k PROVE free_num[half[j]] < n
      OBVIOUS
    <2>1. j - p \in 1..k /\ j - p \in 1..L - p /\ p + (j - p) = j
      BY <1>1, <1>7
    <2> QED
      BY <1>3, <1>6, <2>1
  <1>18. p + k < L => free_num[half[p + k + 1]] >= n
    <2> SUFFICES ASSUME p + k < L PROVE free_num[half[p + k + 1]] >= n
      OBVIOUS
    <2>1. k < L - p /\ k + 1 \in 1..L - p /\ p + (k + 1) = p + k + 1
      BY <1>1, <1>7
    <2> QED
      BY <1>3, <1>6, <2>1
  <1> QED
    BY <1>6, <1>13, <1>14, <1>15, <1>16, <1>17, <1>18 DEF L

\* The half list stays sorted, and holds the same blocks.
LEMMA SortedFacts ==
    ASSUME half \in Seq(Block), IsInjective(half), Fullest, NEW b \in Block, Contains(half, b),
           free_num \in [Block -> Nat], NEW n \in Nat, n = free_num[b] + 1,
           NEW g \in [Block -> Nat], g[b] = n, \A c \in Block \ {b} : g[c] = free_num[c]
    PROVE  /\ Sorted(b, n) \in Seq(Block) /\ IsInjective(Sorted(b, n))
           /\ \A y : Contains(Sorted(b, n), y) <=> Contains(half, y)
           /\ \A i, j \in 1..Len(Sorted(b, n)) : i < j => g[Sorted(b, n)[i]] <= g[Sorted(b, n)[j]]
  <1>1. PICK p \in 1..Len(half) : half[p] = b
    BY DEF Contains
  <1> DEFINE L == Len(half)
             s == Sorted(b, n)
  <1>2. PICK k \in 0..L - p :
            /\ s \in Seq(Block) /\ Len(s) = L
            /\ \A j \in 1..L : s[j] = half[Was(p, k, j)]
            /\ \A j \in p + 1..p + k : free_num[half[j]] < n
            /\ p + k < L => free_num[half[p + k + 1]] >= n
    BY <1>1, SortedPlaces
  <1>3. /\ L \in Nat /\ p \in 1..L /\ p \in Nat /\ k \in Nat /\ k \in 0..L - p /\ p + k <= L
        /\ DOMAIN half = 1..L /\ DOMAIN s = 1..L
        /\ \A j \in 1..L : half[j] \in Block
    BY <1>1, <1>2
  <1>4. /\ \A i, j \in 1..L : half[i] = half[j] => i = j
        /\ \A i, j \in 1..L : i < j => free_num[half[i]] <= free_num[half[j]]
    BY <1>3 DEF IsInjective, Fullest
  <1> HIDE DEF L, s
  <1>5. /\ \A j \in 1..L : Was(p, k, j) \in 1..L
        /\ \A i \in 1..L : \E j \in 1..L : Was(p, k, j) = i
        /\ \A i, j \in 1..L : Was(p, k, i) = Was(p, k, j) => i = j
        /\ \A j \in 1..L : Was(p, k, j) = p <=> j = p + k
        /\ \A i, j \in 1..L : i < j /\ i # p + k /\ j # p + k => Was(p, k, i) < Was(p, k, j)
        /\ \A j \in 1..L : j < p + k => Was(p, k, j) < p \/ Was(p, k, j) \in p + 1..p + k
        /\ \A j \in 1..L : j > p + k => Was(p, k, j) = j
    <2>1. L \in Nat /\ p \in Nat /\ k \in Nat /\ 1 <= p /\ p + k <= L
      BY ONLY <1>3
    <2>2. \A j \in 1..L : Was(p, k, j) \in 1..L
      BY ONLY <2>1 DEF Was
    <2>3. \A i \in 1..L : \E j \in 1..L : Was(p, k, j) = i
      <3> SUFFICES ASSUME NEW i \in 1..L PROVE \E j \in 1..L : Was(p, k, j) = i
        OBVIOUS
      <3>1. CASE i < p \/ i > p + k
        BY ONLY <2>1, <3>1 DEF Was
      <3>2. CASE i = p
        <4>1. p + k \in 1..L /\ Was(p, k, p + k) = i
          BY ONLY <2>1, <3>2 DEF Was
        <4> QED
          BY ONLY <4>1
      <3>3. CASE p < i /\ i <= p + k
        <4>1. i - 1 \in 1..L /\ Was(p, k, i - 1) = i
          BY ONLY <2>1, <3>3 DEF Was
        <4> QED
          BY ONLY <4>1
      <3> QED
        BY ONLY <2>1, <3>1, <3>2, <3>3
    <2>4. \A i, j \in 1..L : Was(p, k, i) = Was(p, k, j) => i = j
      BY ONLY <2>1 DEF Was
    <2>5. \A j \in 1..L : Was(p, k, j) = p <=> j = p + k
      BY ONLY <2>1 DEF Was
    <2>6. \A i, j \in 1..L : i < j /\ i # p + k /\ j # p + k => Was(p, k, i) < Was(p, k, j)
      BY ONLY <2>1 DEF Was
    <2>7. \A j \in 1..L : j < p + k => Was(p, k, j) < p \/ Was(p, k, j) \in p + 1..p + k
      BY ONLY <2>1 DEF Was
    <2>8. \A j \in 1..L : j > p + k => Was(p, k, j) = j
      BY ONLY <2>1 DEF Was
    <2> QED
      BY ONLY <2>2, <2>3, <2>4, <2>5, <2>6, <2>7, <2>8
  <1>6. IsInjective(s)
    <2> SUFFICES ASSUME NEW i \in 1..L, NEW j \in 1..L, s[i] = s[j] PROVE i = j
      BY <1>3 DEF IsInjective
    <2>1. PICK v \in 1..L : v = Was(p, k, i)
      BY ONLY <1>5
    <2>2. PICK w \in 1..L : w = Was(p, k, j)
      BY ONLY <1>5
    <2>3. half[v] = half[w]
      BY <1>2, <2>1, <2>2
    <2>4. v = w
      BY ONLY <1>4, <2>3
    <2> QED
      BY ONLY <1>5, <2>1, <2>2, <2>4
  <1>7. \A y : Contains(s, y) <=> Contains(half, y)
    <2>1. \A j \in 1..L : \E i \in 1..L : s[j] = half[i]
      BY <1>2, <1>5
    <2>2. ASSUME NEW i \in 1..L PROVE \E j \in 1..L : s[j] = half[i]
      <3>1. PICK j \in 1..L : Was(p, k, j) = i
        BY ONLY <1>5
      <3>2. s[j] = half[i]
        BY ONLY <1>2, <3>1
      <3> QED
        BY <3>2
    <2>3. \A y : (\E i \in 1..L : s[i] = y) <=> \E i \in 1..L : half[i] = y
      BY <2>1, <2>2
    <2>4. Len(s) = L /\ Len(half) = L
      BY <1>2 DEF L
    <2> QED
      BY <2>3, <2>4 DEF Contains
  <1>8. \A i \in 1..L : free_num[half[i]] \in Nat
    BY <1>3
  <1>9. g[half[p]] = n /\ free_num[half[p]] + 1 = n /\ \A i \in 1..L : i # p => g[half[i]] = free_num[half[i]]
    BY <1>1, <1>3, <1>4
  <1>10. \A i, j \in 1..L : i < j => g[s[i]] <= g[s[j]]
    <2> SUFFICES ASSUME NEW i \in 1..L, NEW j \in 1..L, i < j PROVE g[s[i]] <= g[s[j]]
      OBVIOUS
    <2>0. i \in Nat /\ j \in Nat /\ i <= L /\ j <= L
      BY <1>3
    <2>1. CASE i = p + k
      <3>1. p + k < j /\ p + k < L /\ p + k + 1 \in 1..L /\ (j = p + k + 1 \/ p + k + 1 < j) /\ j # p
        BY <1>3, <2>0, <2>1
      <3>2. Was(p, k, i) = p /\ Was(p, k, j) = j
        BY <1>5, <2>1, <3>1
      <3>3. g[s[i]] = n /\ g[s[j]] = free_num[half[j]]
        BY <1>2, <1>9, <3>1, <3>2
      <3>4. PICK w \in 1..L : w = p + k + 1 /\ (j = w \/ w < j)
        BY <3>1
      <3>5. free_num[half[w]] >= n
        BY <1>2, <3>1, <3>4
      <3>6. free_num[half[j]] \in Nat /\ free_num[half[w]] \in Nat
        BY <1>8
      <3>7. free_num[half[w]] <= free_num[half[j]]
        <4>1. CASE j = w
          BY ONLY <3>6, <4>1
        <4>2. CASE w < j
          BY ONLY <1>4, <4>2
        <4> QED
          BY ONLY <3>4, <4>1, <4>2
      <3>8. n <= free_num[half[j]]
        BY ONLY <3>5, <3>6, <3>7, n \in Nat
      <3> QED
        BY ONLY <3>3, <3>8
    <2>2. CASE j = p + k
      <3>1. Was(p, k, j) = p /\ Was(p, k, i) \in 1..L /\ Was(p, k, i) # p
            /\ (Was(p, k, i) < p \/ Was(p, k, i) \in p + 1..p + k)
        <4>1. i < p + k
          BY <2>2
        <4> QED
          BY <1>5, <2>2, <4>1
      <3>2. PICK w \in 1..L : w = Was(p, k, i) /\ w # p /\ (w < p \/ w \in p + 1..p + k)
        BY <3>1
      <3>3. g[s[j]] = n /\ g[s[i]] = free_num[half[w]] /\ free_num[half[w]] \in Nat
        BY <1>2, <1>8, <1>9, <3>1, <3>2
      <3>4. CASE w < p
        <4>1. free_num[half[w]] <= free_num[half[p]]
          BY <1>3, <1>4, <3>4
        <4> QED
          BY <1>3, <1>8, <1>9, <3>3, <4>1
      <3>5. CASE w \in p + 1..p + k
        <4>1. free_num[half[w]] < n
          BY <1>2, <3>5
        <4> QED
          BY <3>3, <4>1
      <3> QED
        BY <3>2, <3>4, <3>5
    <2>3. CASE i # p + k /\ j # p + k
      <3>1. PICK v \in 1..L : v = Was(p, k, i) /\ v # p
        BY <1>5, <2>3
      <3>2. PICK w \in 1..L : w = Was(p, k, j) /\ w # p /\ v < w
        BY <1>5, <2>3, <3>1
      <3>3. g[s[i]] = free_num[half[v]] /\ g[s[j]] = free_num[half[w]]
        BY <1>2, <1>9, <3>1, <3>2
      <3> QED
        BY <1>4, <3>2, <3>3
    <2> QED
      BY <2>1, <2>2, <2>3
  <1> QED
    BY <1>2, <1>6, <1>7, <1>10 DEF s

\* Nobody has a cell of a block all of whose cells came back.
LEMMA WhollyFree ==
    ASSUME SlicesAssumption, NEW b, ChainExact(b)', free_num'[b] = Num
    PROVE  Unused(b)'
  <1>1. PICK s \in [1..Num -> Cell] : ToSet(s) = FreeCells(b)' /\ IsInjective(s)
    BY DEF ChainExact
  <1>2. DOMAIN s = 1..Num /\ ToSet(s) = {s[k] : k \in 1..Num}
    BY <1>1 DEF ToSet
  <1>3. \A i \in Cell : \E k \in 1..Num : s[k] = i
    BY <1>1, <1>2, AllCells DEF IsInjective
  <1>4. \A i \in Cell : i \in FreeCells(b)'
    BY <1>1, <1>2, <1>3
  <1> QED
    BY <1>4 DEF FreeCells, Unused

\* What is true of every list a block goes to when a cell of it comes back.
LEMMA Given ==
    ASSUME SlicesAssumption, SlicesInv, NEW b \in Block, NEW i \in Cell, SliceFree(b, i)
    PROVE  /\ ChainExact(b)'
           /\ free_num' \in [Block -> 0..Num] /\ free_num'[b] = free_num[b] + 1
           /\ index' \in [Block -> MapEntry] /\ map' \in [Block -> [Cell -> MapEntry]]
           /\ \A c \in Block \ {b} : free_num'[c] = free_num[c] /\ index'[c] = index[c] /\ map'[c] = map[c]
           /\ \A c \in Block \ {b} : \A k \in Cell : <<c, k>> \in handed' <=> <<c, k>> \in handed
           /\ handed' \subseteq handed
           /\ InPlaceOf(b)
           /\ free_num[b] \in 0..Num - 1
  <1>1. /\ <<b, i>> \in handed /\ handed' = handed \ {<<b, i>>}
        /\ free_num' = [free_num EXCEPT ![b] = free_num[b] + 1]
        /\ map' = [map EXCEPT ![b][i] = index[b]] /\ index' = [index EXCEPT ![b] = i]
        /\ Contains(fill, b) \/ Contains(half, b)
    BY DEF SliceFree
  <1>2. SlicesTypeOK /\ Num \in Nat /\ Num > 1 /\ free_num \in [Block -> 0..Num]
    BY DEF SlicesInv, SlicesTypeOK, SlicesAssumption
  <1>3. ChainExact(b) /\ InPlaceOf(b)
    BY <1>1 DEF SlicesInv, OnAList
  <1>4. free_num[b] \in 0..Num - 1 /\ free_num[b] < Num
    BY <1>1, <1>2, <1>3 DEF InPlaceOf
  <1>5. /\ ChainExact(b)'
        /\ free_num' \in [Block -> 0..Num] /\ free_num'[b] = free_num[b] + 1
        /\ index' \in [Block -> MapEntry] /\ map' \in [Block -> [Cell -> MapEntry]]
        /\ \A c \in Block \ {b} : free_num'[c] = free_num[c] /\ index'[c] = index[c] /\ map'[c] = map[c]
    BY <1>1, <1>2, <1>3, <1>4, CellGiven
  <1>6. \A c \in Block \ {b} : \A k \in Cell : <<c, k>> \in handed' <=> <<c, k>> \in handed
    BY <1>1
  <1> QED
    BY <1>1, <1>3, <1>4, <1>5, <1>6

\* The lists with a block in its new place are lists of blocks, each on one place
\* of one of them, and the half list is sorted.
Placed(b) ==
    /\ \A list \in {fill, half, free} : list \in Seq(Block) /\ IsInjective(list)
    /\ InPlaceOf(b)
    /\ Fullest
    /\ Contains(free, b) => Unused(b)

\* The block leaves fill: its first free cell.
LEMMA FromFill ==
    ASSUME SlicesAssumption, SlicesInv, NEW b \in Block, NEW i \in Cell, SliceFree(b, i),
           Contains(fill, b), fill' = RemoveFirst(fill, b), half' = <<b>> \o half, free' = free
    PROVE  /\ Placed(b)'
           /\ \A c \in Block \ {b} : /\ Contains(fill', c) <=> Contains(fill, c)
                                     /\ Contains(half', c) <=> Contains(half, c)
                                     /\ Contains(free', c) <=> Contains(free, c)
  <1>1. /\ fill \in Seq(Block) /\ IsInjective(fill) /\ half \in Seq(Block) /\ IsInjective(half)
        /\ free \in Seq(Block) /\ IsInjective(free) /\ Num \in Nat /\ Num > 1 /\ free_num \in [Block -> 0..Num]
    BY DEF SlicesInv, SlicesTypeOK, SlicesAssumption
  <1>2. /\ free_num'[b] = free_num[b] + 1 /\ InPlaceOf(b) /\ free_num[b] = 0
        /\ \A c \in Block \ {b} : free_num'[c] = free_num[c]
    BY Given DEF InPlaceOf
  <1>3. ~Contains(half, b) /\ ~Contains(free, b)
    BY <1>1, <1>2 DEF InPlaceOf
  <1>4. /\ fill' \in Seq(Block) /\ IsInjective(fill')
        /\ \A y : Contains(fill', y) <=> Contains(fill, y) /\ y # b
    BY <1>1, RemoveFacts
  <1>5. /\ half' \in Seq(Block) /\ IsInjective(half')
        /\ \A y : Contains(half', y) <=> Contains(half, y) \/ y = b
    BY <1>1, <1>3, ConsFacts
  <1>6. InPlaceOf(b)'
    <2>1. free_num'[b] = 1 /\ 1 # 0 /\ 1 # Num /\ 1 \in 1..Num - 1
      BY <1>1, <1>2
    <2>2. ~Contains(fill', b) /\ ~Contains(free', b) /\ Contains(half', b)
      BY <1>3, <1>4, <1>5
    <2> QED
      BY <2>1, <2>2 DEF InPlaceOf
  <1>7. Fullest'
    <2>1. Len(half') = Len(half) + 1 /\ Len(half) \in Nat /\ half'[1] = b /\ \A j \in 2..Len(half') : half'[j] = half[j - 1] /\ j - 1 \in 1..Len(half)
      BY <1>1
    <2>2. \A j \in 1..Len(half) : free_num[half[j]] \in 1..Num - 1 /\ half[j] # b /\ half[j] \in Block
      <3> SUFFICES ASSUME NEW j \in 1..Len(half) PROVE free_num[half[j]] \in 1..Num - 1 /\ half[j] # b /\ half[j] \in Block
        OBVIOUS
      <3>1. half[j] \in Block /\ Contains(half, half[j])
        BY <1>1 DEF Contains
      <3>2. InPlaceOf(half[j])
        BY <3>1 DEF SlicesInv, OnAList
      <3> QED
        BY <1>3, <3>1, <3>2 DEF InPlaceOf
    <2>3. \A j, k \in 1..Len(half) : j < k => free_num[half[j]] <= free_num[half[k]]
      BY DEF SlicesInv, Fullest
    <2>4. \A j \in 2..Len(half') : free_num'[half'[j]] = free_num[half[j - 1]] /\ free_num[half[j - 1]] >= 1
      BY <1>1, <1>2, <2>1, <2>2
    <2>5. free_num'[half'[1]] = 1
      BY <1>2, <2>1
    <2>6. ASSUME NEW j \in 1..Len(half'), NEW k \in 1..Len(half'), j < k
          PROVE  free_num'[half'[j]] <= free_num'[half'[k]]
      <3>1. k \in 2..Len(half') /\ k - 1 \in 1..Len(half)
        BY <2>1, <2>6
      <3>2. CASE j = 1
        <4>1. free_num[half[k - 1]] \in Nat
          BY <2>2, <3>1
        <4> QED
          BY <2>4, <2>5, <3>1, <3>2, <4>1
      <3>3. CASE j # 1
        <4>1. j \in 2..Len(half') /\ j - 1 \in 1..Len(half) /\ j - 1 < k - 1
          BY <2>1, <2>6, <3>3
        <4>2. free_num[half[j - 1]] <= free_num[half[k - 1]]
          BY <2>3, <3>1, <4>1
        <4> QED
          BY <2>4, <3>1, <4>1, <4>2
      <3> QED
        BY <3>2, <3>3
    <2> QED
      BY <2>6 DEF Fullest
  <1> QED
    BY <1>1, <1>3, <1>4, <1>5, <1>6, <1>7 DEF Placed

\* The half list without a block keeps its order.
LEMMA HalfOrder ==
    ASSUME half \in Seq(Block), IsInjective(half), NEW b, Contains(half, b), half' = RemoveFirst(half, b)
    PROVE  \A j, k \in 1..Len(half') : j < k =>
              \E v, w \in 1..Len(half) : v < w /\ half'[j] = half[v] /\ half'[k] = half[w]
  BY RemovedOrder

\* The block leaves half: its last cell came back, and nobody has one.
LEMMA FromHalf ==
    ASSUME SlicesAssumption, SlicesInv, NEW b \in Block, NEW i \in Cell, SliceFree(b, i),
           Contains(half, b), free_num[b] + 1 = Num,
           half' = RemoveFirst(half, b), free' = <<b>> \o free, fill' = fill
    PROVE  /\ Placed(b)'
           /\ \A c \in Block \ {b} : /\ Contains(fill', c) <=> Contains(fill, c)
                                     /\ Contains(half', c) <=> Contains(half, c)
                                     /\ Contains(free', c) <=> Contains(free, c)
  <1>1. /\ fill \in Seq(Block) /\ IsInjective(fill) /\ half \in Seq(Block) /\ IsInjective(half)
        /\ free \in Seq(Block) /\ IsInjective(free) /\ Num \in Nat /\ Num > 1 /\ free_num \in [Block -> 0..Num]
    BY DEF SlicesInv, SlicesTypeOK, SlicesAssumption
  <1>2. /\ free_num'[b] = Num /\ InPlaceOf(b) /\ ChainExact(b)'
        /\ \A c \in Block \ {b} : free_num'[c] = free_num[c]
    BY Given
  <1>3. ~Contains(fill, b) /\ ~Contains(free, b)
    BY <1>1, <1>2 DEF InPlaceOf
  <1>4. /\ half' \in Seq(Block) /\ IsInjective(half')
        /\ \A y : Contains(half', y) <=> Contains(half, y) /\ y # b
    BY <1>1, RemoveFacts
  <1>5. /\ free' \in Seq(Block) /\ IsInjective(free')
        /\ \A y : Contains(free', y) <=> Contains(free, y) \/ y = b
    BY <1>1, <1>3, ConsFacts
  <1>6. InPlaceOf(b)'
    <2>1. free_num'[b] = Num /\ Num # 0 /\ Num \notin 1..Num - 1
      BY <1>1, <1>2
    <2>2. ~Contains(fill', b) /\ ~Contains(half', b) /\ Contains(free', b)
      BY <1>3, <1>4, <1>5
    <2> QED
      BY <2>1, <2>2 DEF InPlaceOf
  <1>7. Fullest'
    <2>1. ASSUME NEW j \in 1..Len(half'), NEW k \in 1..Len(half'), j < k
          PROVE  free_num'[half'[j]] <= free_num'[half'[k]]
      <3>1. PICK v, w \in 1..Len(half) : v < w /\ half'[j] = half[v] /\ half'[k] = half[w]
        <4>1. Contains(half, b) /\ half' = RemoveFirst(half, b)
          OBVIOUS
        <4> QED
          BY ONLY <1>1, <2>1, <4>1, HalfOrder
      <3>2. half'[j] \in Block \ {b} /\ half'[k] \in Block \ {b}
        <4>1. \A x \in 1..Len(half') : half'[x] \in Block /\ Contains(half', half'[x])
          BY <1>4 DEF Contains
        <4> QED
          BY <1>4, <4>1
      <3>3. free_num[half[v]] <= free_num[half[w]]
        BY <3>1 DEF SlicesInv, Fullest
      <3> QED
        BY <1>2, <3>1, <3>2, <3>3
    <2> QED
      BY <2>1 DEF Fullest
  <1>8. Unused(b)'
    BY <1>2, WhollyFree
  <1> QED
    BY <1>1, <1>4, <1>5, <1>6, <1>7, <1>8 DEF Placed

\* The block stays in half, at the place its free cells say.
LEMMA WithinHalf ==
    ASSUME SlicesAssumption, SlicesInv, NEW b \in Block, NEW i \in Cell, SliceFree(b, i),
           Contains(half, b), free_num[b] + 1 # Num,
           half' = Sorted(b, free_num[b] + 1), fill' = fill, free' = free
    PROVE  /\ Placed(b)'
           /\ \A c \in Block \ {b} : /\ Contains(fill', c) <=> Contains(fill, c)
                                     /\ Contains(half', c) <=> Contains(half, c)
                                     /\ Contains(free', c) <=> Contains(free, c)
  <1>1. /\ fill \in Seq(Block) /\ IsInjective(fill) /\ half \in Seq(Block) /\ IsInjective(half)
        /\ free \in Seq(Block) /\ IsInjective(free) /\ Num \in Nat /\ Num > 1 /\ free_num \in [Block -> 0..Num]
        /\ Fullest
    BY DEF SlicesInv, SlicesTypeOK, SlicesAssumption
  <1>2. /\ free_num'[b] = free_num[b] + 1 /\ InPlaceOf(b) /\ free_num[b] \in 0..Num - 1
        /\ free_num' \in [Block -> 0..Num]
        /\ \A c \in Block \ {b} : free_num'[c] = free_num[c]
    BY Given
  <1>3. free_num[b] \in 1..Num - 1 /\ ~Contains(fill, b) /\ ~Contains(free, b)
    BY <1>1, <1>2 DEF InPlaceOf
  <1>4. PICK g \in [Block -> Nat] : g = free_num'
    <2>1. free_num' \in [Block -> Nat]
      BY <1>1, <1>2
    <2> QED
      BY <2>1
  <1>5. PICK n \in Nat : n = free_num[b] + 1
    BY <1>3
  <1>6. free_num \in [Block -> Nat] /\ g[b] = n /\ (\A c \in Block \ {b} : g[c] = free_num[c]) /\ half' = Sorted(b, n)
    BY <1>1, <1>2, <1>4, <1>5
  <1>7. /\ Sorted(b, n) \in Seq(Block) /\ IsInjective(Sorted(b, n))
        /\ \A y : Contains(Sorted(b, n), y) <=> Contains(half, y)
        /\ \A j, k \in 1..Len(Sorted(b, n)) : j < k => g[Sorted(b, n)[j]] <= g[Sorted(b, n)[k]]
    BY <1>1, <1>5, <1>6, SortedFacts
  <1>8. /\ half' \in Seq(Block) /\ IsInjective(half')
        /\ \A y : Contains(half', y) <=> Contains(half, y)
        /\ \A j, k \in 1..Len(half') : j < k => free_num'[half'[j]] <= free_num'[half'[k]]
    BY ONLY <1>4, <1>6, <1>7
  <1>9. InPlaceOf(b)'
    <2>1. free_num'[b] # 0 /\ free_num'[b] # Num /\ free_num'[b] \in 1..Num - 1
      BY <1>1, <1>2, <1>3
    <2>2. ~Contains(fill', b) /\ ~Contains(free', b) /\ Contains(half', b)
      BY <1>3, <1>8
    <2> QED
      BY <2>1, <2>2 DEF InPlaceOf
  <1>10. Fullest'
    BY <1>8 DEF Fullest
  <1> QED
    BY <1>1, <1>3, <1>8, <1>9, <1>10 DEF Placed

\* e_slice_free1 keeps the invariant.
LEMMA SliceFreeKeeps ==
    \A b \in Block, i \in Cell : SlicesAssumption /\ SlicesInv /\ SliceFree(b, i) => SlicesInv'
  <1> SUFFICES ASSUME SlicesAssumption, SlicesInv, NEW b \in Block, NEW i \in Cell, SliceFree(b, i) PROVE SlicesInv'
    OBVIOUS
  <1>1. /\ Placed(b)'
        /\ \A c \in Block \ {b} : /\ Contains(fill', c) <=> Contains(fill, c)
                                  /\ Contains(half', c) <=> Contains(half, c)
                                  /\ Contains(free', c) <=> Contains(free, c)
    <2>1. CASE Contains(fill, b) /\ fill' = RemoveFirst(fill, b) /\ half' = <<b>> \o half /\ free' = free
      BY <2>1, FromFill
    <2>2. CASE /\ Contains(half, b) /\ free_num[b] + 1 = Num
               /\ half' = RemoveFirst(half, b) /\ free' = <<b>> \o free /\ fill' = fill
      BY <2>2, FromHalf
    <2>3. CASE /\ Contains(half, b) /\ free_num[b] + 1 # Num
               /\ half' = Sorted(b, free_num[b] + 1) /\ fill' = fill /\ free' = free
      BY <2>3, WithinHalf
    <2> QED
      BY <2>1, <2>2, <2>3 DEF SliceFree
  <1>2. /\ ChainExact(b)'
        /\ free_num' \in [Block -> 0..Num] /\ free_num'[b] = free_num[b] + 1
        /\ index' \in [Block -> MapEntry] /\ map' \in [Block -> [Cell -> MapEntry]]
        /\ \A c \in Block \ {b} : free_num'[c] = free_num[c] /\ index'[c] = index[c] /\ map'[c] = map[c]
        /\ \A c \in Block \ {b} : \A k \in Cell : <<c, k>> \in handed' <=> <<c, k>> \in handed
        /\ handed' \subseteq handed
    BY Given
  <1>3. /\ \A list \in {fill', half', free'} : list \in Seq(Block) /\ IsInjective(list)
        /\ InPlaceOf(b)' /\ Fullest' /\ (Contains(free', b) => Unused(b)')
    BY <1>1 DEF Placed
  <1>4. /\ \A c \in Block : OnAList(c)' => ChainExact(c)' /\ InPlaceOf(c)'
        /\ \A c \in Block \ {b} : OnAList(c)' <=> OnAList(c)
        /\ \A c \in Block \ {b} : Contains(free', c) => Unused(c)'
    BY <1>1, <1>2, <1>3, OthersStay
  <1>5. SlicesTypeOK'
    <2>1. handed' \subseteq Block \X Cell
      BY <1>2 DEF SlicesInv, SlicesTypeOK
    <2> QED
      BY <1>2, <1>3, <2>1 DEF SlicesTypeOK
  <1>6. OnAList(b)'
    <2>1. free_num'[b] \in 0..Num /\ Num \in Nat /\ Num > 1
      BY <1>2 DEF SlicesAssumption
    <2>2. free_num'[b] = 0 \/ free_num'[b] = Num \/ free_num'[b] \in 1..Num - 1
      BY <2>1
    <2> QED
      BY <1>3, <2>2 DEF InPlaceOf, OnAList
  <1>7. \A c \in handed' : OnAList(c[1])'
    <2>1. \A c \in handed' : c[1] \in Block /\ OnAList(c[1])
      BY <1>2 DEF SlicesInv, SlicesTypeOK
    <2> QED
      BY <1>4, <1>6, <2>1
  <1> QED
    BY <1>3, <1>4, <1>5, <1>7 DEF SlicesInv

\* Before the first call no block is on a list.
LEMMA SlicesStart == SlicesAssumption /\ SlicesInit => SlicesInv
  <1> SUFFICES ASSUME SlicesAssumption, SlicesInit PROVE SlicesInv
    OBVIOUS
  <1>1. /\ fill = <<>> /\ half = <<>> /\ free = <<>> /\ handed = {}
        /\ index = [b \in Block |-> 0] /\ map = [b \in Block |-> [i \in Cell |-> Num]]
        /\ free_num = [b \in Block |-> 0] /\ Num \in Nat
    BY DEF SlicesInit, SlicesAssumption
  <1>2. /\ <<>> \in Seq(Block) /\ IsInjective(<<>>) /\ Len(<<>>) = 0 /\ \A y : ~Contains(<<>>, y)
    BY DEF IsInjective, Contains
  <1>3. SlicesTypeOK
    BY <1>1, <1>2 DEF SlicesTypeOK, MapEntry
  <1>4. \A b : ~OnAList(b) /\ ~Contains(free, b)
    BY <1>1, <1>2 DEF OnAList
  <1>5. Fullest
    BY <1>1, <1>2 DEF Fullest
  <1> QED
    BY <1>1, <1>3, <1>4, <1>5 DEF SlicesInv

\* A step that changes nothing keeps the invariant.
LEMMA SlicesStutter == SlicesInv /\ UNCHANGED slicesVars => SlicesInv'
  BY DEF SlicesInv, slicesVars, SlicesTypeOK, OnAList, ChainExact, Chain, FreeCells, InPlaceOf, Fullest, Unused

\* The cells of every block in use are in its chain or in somebody's hands, and
\* nobody has a cell of a block that slice_free_release may give back to the heap.
THEOREM SlicesInvariant == SlicesSpec => []SlicesInv
  <1>1. SlicesInit => SlicesInv
    BY SlicesAssumption, SlicesStart
  <1>2. SlicesInv /\ [SlicesNext]_slicesVars => SlicesInv'
    BY SlicesAssumption, HalfAllocKeeps, FreeAllocKeeps, NewAllocKeeps, ReleaseKeeps, SliceFreeKeeps, SlicesStutter
       DEF SlicesNext
  <1> QED
    BY <1>1, <1>2, PTL DEF SlicesSpec

\* No call of the slice allocator hands a cell out twice or loses one, every block
\* is on the list its free cells say, and the half list stays sorted.
THEOREM CellsAreExact == SlicesSpec => []CellsExact
  BY SlicesInvariant, SlicesInvExact, PTL

-----------------------------------------------------------------------------
(* The heap                                                                 *)

\* The table of a request, or of a node, is one of the tables, and no lower for more words.
LEMMA TableOf ==
    ASSUME HeapAssumption, PowersOfTwo
    PROVE  /\ \A n \in Nat : SizeToFreeIndex(n) \in Index
           /\ \A m, n \in Nat : m <= n => SizeToFreeIndex(m) <= SizeToFreeIndex(n)
  <1> DEFINE T(n) == {i \in 0..Tables - 2 : n <= 2 ^ i} \cup {Tables - 1}
  <1>1. ASSUME NEW n \in Nat
        PROVE  SizeToFreeIndex(n) \in T(n) /\ \A j \in T(n) : SizeToFreeIndex(n) <= j
    <2>1. T(n) \subseteq Nat /\ T(n) # {}
      BY HeapAssumption
    <2>2. \E x \in T(n) : \A y \in T(n) : x <= y
      BY <2>1, LeastOf
    <2>3. SizeToFreeIndex(n) = CHOOSE x \in T(n) : \A y \in T(n) : x <= y
      BY DEF SizeToFreeIndex, Min
    <2> HIDE DEF T
    <2> QED
      BY <2>2, <2>3
  <1>2. \A n \in Nat : T(n) \subseteq Index
    BY HeapAssumption DEF Index
  <1>3. ASSUME NEW m \in Nat, NEW n \in Nat, m <= n PROVE T(n) \subseteq T(m)
    <2>1. ASSUME NEW i \in 0..Tables - 2, n <= 2 ^ i PROVE m <= 2 ^ i
      <3>1. PICK p \in Nat : p = 2 ^ i
        BY HeapAssumption, PowersOfTwo
      <3> QED
        BY <1>3, <2>1, <3>1
    <2> QED
      BY <2>1
  <1> HIDE DEF T
  <1> QED
    BY <1>1, <1>2, <1>3

\* The heaps, whatever they hold.
HeapRec == [size : [Addr -> 0..HeapSize], used : SUBSET Addr,
            table : [Index -> Seq(Addr)], max : 0..HeapSize]

\* The tables hold the nodes of F, each once, in the table of its size.
Filed(h, F) ==
    /\ \A i \in Index : \A k, l \in 1..Len(h.table[i]) : h.table[i][k] = h.table[i][l] => k = l
    /\ \A i \in Index : \A k \in 1..Len(h.table[i]) :
            h.table[i][k] \in F /\ SizeToFreeIndex(h.size[h.table[i][k]]) = i
    /\ \A a \in F : \E k \in 1..Len(h.table[SizeToFreeIndex(h.size[a])]) :
            h.table[SizeToFreeIndex(h.size[a])][k] = a

\* Every table is in the order of the sizes.
TablesSorted(h) ==
    \A i \in Index : \A k, l \in 1..Len(h.table[i]) :
        k < l => h.size[h.table[i][k]] <= h.size[h.table[i][l]]

\* free_max is the size of the largest node of F.
Largest(h, F) ==
    /\ \A a \in F : h.size[a] <= h.max
    /\ h.max = 0 \/ \E a \in F : h.size[a] = h.max

\* heap_free_tables_insert puts the node into its table.
LEMMA InsertFacts ==
    ASSUME HeapAssumption, PowersOfTwo, NEW h \in HeapRec, NEW F \in SUBSET Addr, Filed(h, F),
           NEW a \in Addr, a \notin F, h.size[a] > 0,
           NEW g, g = Insert(h, a)
    PROVE  /\ g \in HeapRec /\ g.size = h.size /\ g.used = h.used
           /\ Filed(g, F \cup {a})
           /\ TablesSorted(h) => TablesSorted(g)
           /\ Largest(h, F) => Largest(g, F \cup {a})
  <1> DEFINE z == h.size
  <1>1. /\ HeapSize \in Nat /\ h.size \in [Addr -> 0..HeapSize] /\ h.max \in 0..HeapSize
        /\ h.table \in [Index -> Seq(Addr)] /\ h.used \subseteq Addr
        /\ h.size[a] \in 1..HeapSize /\ \A b \in Addr : h.size[b] \in Nat
    BY HeapAssumption DEF HeapRec
  <1>2. PICK i \in Index : i = SizeToFreeIndex(h.size[a])
    BY <1>1, TableOf
  <1>3. PICK t \in Seq(Addr) : t = h.table[i]
    BY <1>1
  <1>4. Len(t) \in Nat /\ \A j \in 1..Len(t) : t[j] \in Addr /\ t[j] \in F /\ h.size[t[j]] \in Nat /\ SizeToFreeIndex(h.size[t[j]]) = i
    BY <1>1, <1>3 DEF Filed
  <1> DEFINE P(k) == /\ \A j \in 1..k : h.size[t[j]] < h.size[a]
                     /\ k < Len(t) => h.size[t[k + 1]] >= h.size[a]
             K == CHOOSE k \in 0..Len(t) : P(k)
  <1>5. \E k \in 0..Len(t) : P(k)
    <2> DEFINE T == {k \in 0..Len(t) : k < Len(t) => h.size[t[k + 1]] >= h.size[a]}
    <2>1. PICK k \in T : \A y \in T : k <= y
      <3>1. T \subseteq Nat /\ Len(t) \in T
        BY <1>4
      <3> QED
        BY <3>1, LeastOf
    <2>2. \A j \in 1..k : h.size[t[j]] < h.size[a]
      <3> SUFFICES ASSUME NEW j \in 1..k, ~(h.size[t[j]] < h.size[a]) PROVE FALSE
        OBVIOUS
      <3>1. j - 1 \in 0..Len(t) /\ j - 1 < Len(t) /\ (j - 1) + 1 = j /\ j \in 1..Len(t) /\ ~(k <= j - 1)
        BY <1>4, <2>1
      <3>2. h.size[t[j]] >= h.size[a]
        BY <1>1, <1>4, <3>1
      <3>3. j - 1 \in T
        BY <3>1, <3>2
      <3> QED
        BY <2>1, <3>1, <3>3
    <2> QED
      BY <2>1, <2>2
  <1>6. PICK k \in 0..Len(t) : k = K /\ P(k)
    BY <1>5
  <1>7. PICK r \in Seq(Addr) : /\ r = InsertAt(t, k + 1, a)
                               /\ Len(r) = Len(t) + 1
                               /\ \A j \in 1..Len(r) : r[j] = IF j <= k THEN t[j] ELSE IF j = k + 1 THEN a ELSE t[j - 1]
    <2>1. PICK n : n = k + 1
      OBVIOUS
    <2>2. t \in Seq(Addr) /\ a \in Addr /\ n \in 1..Len(t) + 1 /\ n \in Int /\ Len(t) \in Nat /\ k \in Nat
      BY <2>1
    <2>3. PICK w : w = InsertAt(t, n, a)
      OBVIOUS
    <2>4. /\ w \in Seq(Addr) /\ Len(w) = Len(t) + 1
          /\ \A j \in 1..Len(w) : w[j] = IF j < n THEN t[j] ELSE IF j = n THEN a ELSE t[j - 1]
      BY ONLY <2>2, <2>3, InsertedEntries
    <2>5. \A j \in 1..Len(w) : j < n <=> j <= k
      BY ONLY <2>1, <2>2, <2>4
    <2> QED
      BY ONLY <2>1, <2>3, <2>4, <2>5
  <1>8. PICK m \in 0..HeapSize : m = Max({h.max, h.size[a]}) /\ m >= h.max /\ m >= h.size[a] /\ m \in {h.max, h.size[a]}
    <2>1. PICK x \in {h.max, h.size[a]} : x >= h.max /\ x >= h.size[a]
      BY <1>1
    <2>2. x = Max({h.max, h.size[a]})
      BY <1>1, <2>1 DEF Max
    <2> QED
      BY <1>1, <2>1, <2>2
  <1>9. g = [h EXCEPT !.table = [h.table EXCEPT ![i] = r], !.max = m]
    <2>1. Insert(h, a) = [h EXCEPT !.table[i] = InsertAt(t, K + 1, a), !.max = Max({h.max, h.size[a]})]
      BY <1>2, <1>3 DEF Insert
    <2> QED
      BY <1>3, <1>6, <1>7, <1>8, <2>1
  <1> HIDE DEF K, P
  <1>10. /\ g \in HeapRec /\ g.size = h.size /\ g.used = h.used /\ g.max = m
         /\ g.table[i] = r /\ \A j \in Index \ {i} : g.table[j] = h.table[j]
    BY <1>1, <1>9 DEF HeapRec
  <1>11. /\ \A j \in 1..Len(r) : \/ r[j] = a /\ j = k + 1
                                 \/ \E l \in 1..Len(t) : r[j] = t[l] /\ j = (IF l <= k THEN l ELSE l + 1)
         /\ \A l \in 1..Len(t) : \E j \in 1..Len(r) : r[j] = t[l]
         /\ k + 1 \in 1..Len(r) /\ r[k + 1] = a
    <2>1. k \in Nat /\ k <= Len(t) /\ Len(t) \in Nat
      BY <1>4
    <2>2. ASSUME NEW j \in 1..Len(r)
          PROVE  \/ r[j] = a /\ j = k + 1
                 \/ \E l \in 1..Len(t) : r[j] = t[l] /\ j = (IF l <= k THEN l ELSE l + 1)
      <3>1. CASE j <= k
        BY <1>7, <2>1, <3>1
      <3>2. CASE j = k + 1
        BY <1>7, <2>1, <3>2
      <3>3. CASE j > k + 1
        <4>1. j - 1 \in 1..Len(t) /\ ~(j - 1 <= k) /\ (j - 1) + 1 = j /\ ~(j <= k) /\ j # k + 1
          BY <1>7, <2>1, <3>3
        <4> QED
          BY <1>7, <4>1
      <3> QED
        BY <2>1, <3>1, <3>2, <3>3
    <2>3. ASSUME NEW l \in 1..Len(t) PROVE \E j \in 1..Len(r) : r[j] = t[l]
      <3>1. CASE l <= k
        BY <1>7, <2>1, <3>1
      <3>2. CASE l > k
        <4>1. l + 1 \in 1..Len(r) /\ ~(l + 1 <= k) /\ l + 1 # k + 1 /\ (l + 1) - 1 = l
          BY <1>7, <2>1, <3>2
        <4> QED
          BY <1>7, <4>1
      <3> QED
        BY <2>1, <3>1, <3>2
    <2>4. k + 1 \in 1..Len(r) /\ r[k + 1] = a
      BY <1>7, <2>1
    <2> QED
      BY <2>2, <2>3, <2>4
  <1>12. Filed(g, F \cup {a})
    <2>1. \A l, j \in 1..Len(t) : t[l] = t[j] => l = j
      BY <1>3 DEF Filed
    <2>2. \A l, j \in 1..Len(r) : r[l] = r[j] => l = j
      <3> SUFFICES ASSUME NEW l \in 1..Len(r), NEW j \in 1..Len(r), r[l] = r[j] PROVE l = j
        OBVIOUS
      <3>1. (r[l] = a /\ l = k + 1) \/ \E x \in 1..Len(t) : r[l] = t[x] /\ l = (IF x <= k THEN x ELSE x + 1)
        BY ONLY <1>11, l \in 1..Len(r)
      <3>2. (r[j] = a /\ j = k + 1) \/ \E x \in 1..Len(t) : r[j] = t[x] /\ j = (IF x <= k THEN x ELSE x + 1)
        BY ONLY <1>11, j \in 1..Len(r)
      <3>3. \A x \in 1..Len(t) : t[x] # a
        BY <1>4
      <3> QED
        BY ONLY <2>1, <3>1, <3>2, <3>3, r[l] = r[j]
    <2>3. \A j \in 1..Len(r) : r[j] \in F \cup {a} /\ SizeToFreeIndex(h.size[r[j]]) = i
      BY <1>2, <1>4, <1>11
    <2>4. ASSUME NEW b \in F \cup {a}
          PROVE  \E j \in 1..Len(g.table[SizeToFreeIndex(g.size[b])]) : g.table[SizeToFreeIndex(g.size[b])][j] = b
      <3>1. PICK c \in Index : c = SizeToFreeIndex(h.size[b])
        BY <1>1, TableOf
      <3>2. CASE b = a
        BY <1>2, <1>10, <1>11, <3>1, <3>2
      <3>3. CASE b # a
        <4>1. PICK j \in 1..Len(h.table[c]) : h.table[c][j] = b
          BY <3>1, <3>3 DEF Filed
        <4>2. g.size[b] = h.size[b]
          BY <1>10
        <4>3. \E l \in 1..Len(g.table[c]) : g.table[c][l] = b
          <5>1. CASE c = i
            BY <1>3, <1>10, <1>11, <4>1, <5>1
          <5>2. CASE c # i
            BY <1>10, <4>1, <5>2
          <5> QED
            BY <5>1, <5>2
        <4> QED
          BY ONLY <3>1, <4>2, <4>3
      <3> QED
        BY <3>2, <3>3
    <2>5. ASSUME NEW j \in Index, j # i, NEW l \in 1..Len(g.table[j])
          PROVE  /\ g.table[j][l] \in F /\ SizeToFreeIndex(g.size[g.table[j][l]]) = j
                 /\ \A n \in 1..Len(g.table[j]) : g.table[j][l] = g.table[j][n] => l = n
      <3>1. g.table[j] = h.table[j] /\ g.size = h.size
        BY <1>10, <2>5
      <3> QED
        BY <2>5, <3>1 DEF Filed
    <2>6. ASSUME NEW j \in Index
          PROVE  \A l \in 1..Len(g.table[j]) :
                    /\ g.table[j][l] \in F \cup {a} /\ SizeToFreeIndex(g.size[g.table[j][l]]) = j
                    /\ \A n \in 1..Len(g.table[j]) : g.table[j][l] = g.table[j][n] => l = n
      <3>1. CASE j = i
        <4>1. g.table[j] = r /\ g.size = h.size
          BY <1>10, <3>1
        <4> QED
          BY ONLY <2>2, <2>3, <3>1, <4>1
      <3>2. CASE j # i
        <4> SUFFICES ASSUME NEW l \in 1..Len(g.table[j])
                     PROVE  /\ g.table[j][l] \in F \cup {a} /\ SizeToFreeIndex(g.size[g.table[j][l]]) = j
                            /\ \A n \in 1..Len(g.table[j]) : g.table[j][l] = g.table[j][n] => l = n
          OBVIOUS
        <4> QED
          BY <2>5, <3>2
      <3> QED
        BY <3>1, <3>2
    <2> QED
      BY <2>4, <2>6 DEF Filed
  <1>13. ASSUME TablesSorted(h) PROVE TablesSorted(g)
    <2>1. \A l, n \in 1..Len(t) : l < n => h.size[t[l]] <= h.size[t[n]]
      BY <1>3, <1>13 DEF TablesSorted
    <2>2. (\A j \in 1..k : h.size[t[j]] < h.size[a]) /\ (k < Len(t) => h.size[t[k + 1]] >= h.size[a])
      BY <1>6 DEF P
    <2>3. \A l \in 1..Len(t) : IF l <= k THEN h.size[t[l]] <= h.size[a] ELSE h.size[a] <= h.size[t[l]]
      <3> SUFFICES ASSUME NEW l \in 1..Len(t)
                   PROVE IF l <= k THEN h.size[t[l]] <= h.size[a] ELSE h.size[a] <= h.size[t[l]]
        OBVIOUS
      <3>1. CASE l <= k
        BY <1>1, <1>4, <2>2, <3>1
      <3>2. CASE ~(l <= k)
        <4>1. k < Len(t) /\ k + 1 \in 1..Len(t) /\ (l = k + 1 \/ k + 1 < l)
          BY <1>4, <3>2
        <4>2. h.size[a] <= h.size[t[k + 1]] /\ h.size[t[k + 1]] <= h.size[t[l]]
          BY <1>1, <1>4, <2>1, <2>2, <4>1
        <4> QED
          BY <1>1, <1>4, <3>2, <4>1, <4>2
      <3> QED
        BY <3>1, <3>2
    <2>4. ASSUME NEW x \in 1..Len(r), NEW y \in 1..Len(r), x < y PROVE h.size[r[x]] <= h.size[r[y]]
      <3>1. CASE x = k + 1
        <4>0. y # k + 1
          BY <1>4, <2>4, <3>1
        <4>1. PICK l \in 1..Len(t) : r[y] = t[l] /\ y = (IF l <= k THEN l ELSE l + 1)
          BY <1>11, <4>0
        <4>2. ~(l <= k)
          BY <1>4, <2>4, <3>1, <4>1
        <4> QED
          BY <1>11, <2>3, <3>1, <4>1, <4>2
      <3>2. CASE y = k + 1
        <4>0. x # k + 1
          BY <1>4, <2>4, <3>2
        <4>1. PICK l \in 1..Len(t) : r[x] = t[l] /\ x = (IF l <= k THEN l ELSE l + 1)
          BY <1>11, <4>0
        <4>2. l <= k
          BY <1>4, <2>4, <3>2, <4>1
        <4> QED
          BY <1>11, <2>3, <3>2, <4>1, <4>2
      <3>3. CASE x # k + 1 /\ y # k + 1
        <4>1. PICK l \in 1..Len(t) : r[x] = t[l] /\ x = (IF l <= k THEN l ELSE l + 1)
          BY <1>11, <3>3
        <4>2. PICK n \in 1..Len(t) : r[y] = t[n] /\ y = (IF n <= k THEN n ELSE n + 1)
          BY <1>11, <3>3
        <4>3. l < n
          BY <1>4, <2>4, <4>1, <4>2
        <4> QED
          BY <2>1, <4>1, <4>2, <4>3
      <3> QED
        BY <3>1, <3>2, <3>3
    <2>5. ASSUME NEW j \in Index, j # i, NEW x \in 1..Len(g.table[j]), NEW y \in 1..Len(g.table[j]), x < y
          PROVE  g.size[g.table[j][x]] <= g.size[g.table[j][y]]
      <3>1. g.table[j] = h.table[j] /\ g.size = h.size
        BY <1>10, <2>5
      <3> QED
        BY <1>13, <2>5, <3>1 DEF TablesSorted
    <2> QED
      BY <1>10, <2>4, <2>5 DEF TablesSorted
  <1>14. ASSUME Largest(h, F) PROVE Largest(g, F \cup {a})
    <2>1. \A b \in F : h.size[b] \in Nat /\ h.size[b] <= h.max
      BY <1>1, <1>14 DEF Largest
    <2>2. \A b \in F \cup {a} : h.size[b] <= m
      BY <1>1, <1>8, <2>1
    <2>3. \E b \in F \cup {a} : h.size[b] = m
      BY <1>1, <1>8, <1>14 DEF Largest
    <2> QED
      BY <1>10, <2>2, <2>3 DEF Largest
  <1> QED
    BY <1>10, <1>12, <1>13, <1>14

\* A set of naturals with a bound has a greatest.
LEMMA GreatestOf ==
    ASSUME NEW n \in Nat, NEW T \in SUBSET (0..n), T # {}
    PROVE  Max(T) \in T /\ \A y \in T : y <= Max(T)
  <1> DEFINE U == {u \in 0..n : n - u \in T}
  <1>1. U \subseteq Nat /\ U # {}
    <2>1. PICK x \in T : x \in 0..n
      OBVIOUS
    <2>2. PICK u \in 0..n : u = n - x /\ n - u = x
      BY ONLY n \in Nat, <2>1
    <2>3. n - u \in T
      BY <2>1, <2>2
    <2>4. u \in U
      BY <2>3
    <2>5. U \subseteq Nat
      OBVIOUS
    <2> QED
      BY ONLY <2>4, <2>5
  <1>2. PICK u \in U : \A v \in U : u <= v
    BY <1>1, LeastOf
  <1>3. \A y \in T : n - u >= y
    <2> SUFFICES ASSUME NEW y \in T PROVE n - u >= y
      OBVIOUS
    <2>1. y \in 0..n /\ n - y \in 0..n /\ n - (n - y) = y
      OBVIOUS
    <2>2. n - y \in U
      BY <2>1
    <2>3. u <= n - y /\ u \in 0..n
      BY <1>2, <2>2
    <2> QED
      BY <2>1, <2>3
  <1>4. \E x \in T : \A y \in T : x >= y
    BY <1>2, <1>3
  <1>5. Max(T) \in T /\ \A y \in T : Max(T) >= y
    BY <1>4 DEF Max
  <1> QED
    BY <1>5

\* Of two nodes the one in the higher table is the larger.
LEMMA HigherIsLarger ==
    ASSUME HeapAssumption, PowersOfTwo, NEW m \in Nat, NEW n \in Nat, SizeToFreeIndex(m) < SizeToFreeIndex(n)
    PROVE  m < n
  <1> SUFFICES ASSUME n <= m PROVE FALSE
    OBVIOUS
  <1>1. SizeToFreeIndex(n) <= SizeToFreeIndex(m)
    BY TableOf
  <1>2. SizeToFreeIndex(n) \in Nat /\ SizeToFreeIndex(m) \in Nat
    BY TableOf, HeapAssumption DEF Index
  <1> QED
    BY <1>1, <1>2

\* What set_free_max looks up: the last node of the highest table that holds one.
LEMMA LastFreeFacts ==
    ASSUME HeapAssumption, PowersOfTwo, NEW h \in HeapRec, NEW F \in SUBSET Addr, Filed(h, F)
    PROVE  /\ LastFree(h, h.table) \in 0..HeapSize
           /\ F = {} => LastFree(h, h.table) = 0
           /\ F # {} => \E a \in F : h.size[a] = LastFree(h, h.table)
           /\ TablesSorted(h) => \A a \in F : h.size[a] <= LastFree(h, h.table)
  <1> DEFINE filled == {i \in Index : h.table[i] # <<>>}
  <1>1. /\ HeapSize \in Nat /\ h.size \in [Addr -> 0..HeapSize] /\ \A b \in Addr : h.size[b] \in Nat
        /\ Tables - 1 \in Nat /\ Index = 0..Tables - 1
        /\ \A j \in Index : h.table[j] \in Seq(Addr) /\ Len(h.table[j]) \in Nat
    BY HeapAssumption DEF HeapRec, Index
  <1>2. ASSUME NEW a \in F PROVE SizeToFreeIndex(h.size[a]) \in filled
    <2>1. PICK c \in Index : c = SizeToFreeIndex(h.size[a])
      BY <1>1, TableOf
    <2>2. PICK k \in 1..Len(h.table[c]) : h.table[c][k] = a
      BY <2>1 DEF Filed
    <2>3. h.table[c] # <<>>
      BY <1>1, <2>2
    <2> QED
      BY <2>1, <2>3
  <1>3. CASE filled = {}
    <2>1. LastFree(h, h.table) = 0 /\ F = {}
      BY <1>2, <1>3 DEF LastFree
    <2> QED
      BY <1>1, <2>1
  <1>4. CASE filled # {}
    <2>1. PICK j \in Index : j = Max(filled) /\ h.table[j] # <<>> /\ \A c \in filled : c <= j
      <3>1. filled \in SUBSET (0..Tables - 1)
        BY <1>1
      <3>2. Max(filled) \in filled /\ \A c \in filled : c <= Max(filled)
        BY <1>1, <1>4, <3>1, GreatestOf
      <3> QED
        BY <3>2
    <2>2. PICK t \in Seq(Addr) : t = h.table[j]
      BY <1>1
    <2>3. Len(t) \in Nat /\ Len(t) \in 1..Len(t)
      BY <2>1, <2>2
    <2>4. PICK b \in F : b = t[Len(t)] /\ SizeToFreeIndex(h.size[b]) = j
      BY <2>2, <2>3 DEF Filed
    <2>5. LastFree(h, h.table) = h.size[b]
      BY <1>4, <2>1, <2>2, <2>4 DEF LastFree, Last
    <2>6. ASSUME TablesSorted(h), NEW a \in F PROVE h.size[a] <= h.size[b]
      <3>1. PICK c \in Index : c = SizeToFreeIndex(h.size[a]) /\ c \in filled
        BY <1>1, <1>2
      <3>2. c <= j /\ c \in Nat /\ j \in Nat
        BY <1>1, <2>1, <3>1
      <3>3. CASE c = j
        <4>1. PICK k \in 1..Len(t) : t[k] = a
          BY <2>2, <3>1, <3>3 DEF Filed
        <4>2. k = Len(t) \/ k < Len(t)
          BY <2>3
        <4>3. k < Len(t) => h.size[t[k]] <= h.size[t[Len(t)]]
          BY <2>2, <2>3, <2>6 DEF TablesSorted
        <4> QED
          BY <1>1, <2>4, <4>1, <4>2, <4>3
      <3>4. CASE c < j
        <4>1. h.size[a] \in Nat /\ h.size[b] \in Nat
          BY <1>1
        <4>2. h.size[a] < h.size[b]
          BY <2>4, <3>1, <3>4, <4>1, HigherIsLarger
        <4> QED
          BY <4>1, <4>2
      <3> QED
        BY <3>2, <3>3, <3>4
    <2>7. h.size[b] \in 0..HeapSize /\ F # {}
      BY <1>1
    <2> QED
      BY <2>5, <2>6, <2>7
  <1> QED
    BY <1>3, <1>4

\* heap_free_tables_delete takes the node out of its table, and free_max is that of
\* the nodes left, when the tables are sorted.
LEMMA DeleteFacts ==
    ASSUME HeapAssumption, PowersOfTwo, NEW h \in HeapRec, NEW F \in SUBSET Addr, Filed(h, F),
           NEW a \in F,
           NEW g, g = Delete(h, a)
    PROVE  /\ g \in HeapRec /\ g.size = h.size /\ g.used = h.used
           /\ Filed(g, F \ {a})
           /\ TablesSorted(h) => TablesSorted(g)
           /\ TablesSorted(h) /\ Largest(h, F) => Largest(g, F \ {a})
  <1>1. /\ HeapSize \in Nat /\ h.size \in [Addr -> 0..HeapSize] /\ h.max \in 0..HeapSize
        /\ h.table \in [Index -> Seq(Addr)] /\ h.used \subseteq Addr /\ a \in Addr
        /\ \A b \in Addr : h.size[b] \in Nat /\ h.size[b] \in 0..HeapSize
    BY HeapAssumption DEF HeapRec
  <1>2. PICK i \in Index : i = SizeToFreeIndex(h.size[a])
    BY <1>1, TableOf
  <1>3. PICK t \in Seq(Addr) : t = h.table[i]
    BY <1>1
  <1>4. /\ Len(t) \in Nat
        /\ \A j \in 1..Len(t) : t[j] \in Addr /\ t[j] \in F /\ h.size[t[j]] \in Nat /\ SizeToFreeIndex(h.size[t[j]]) = i
        /\ \A j, k \in 1..Len(t) : t[j] = t[k] => j = k
    <2>1. \A j, k \in 1..Len(t) : t[j] = t[k] => j = k
      BY <1>3 DEF Filed
    <2>2. \A j \in 1..Len(t) : t[j] \in F /\ SizeToFreeIndex(h.size[t[j]]) = i
      BY <1>3 DEF Filed
    <2>3. Len(t) \in Nat /\ \A j \in 1..Len(t) : t[j] \in Addr
      OBVIOUS
    <2> QED
      BY ONLY <1>1, <2>1, <2>2, <2>3
  <1>5. PICK p \in 1..Len(t) : p = (CHOOSE q \in 1..Len(t) : t[q] = a) /\ t[p] = a
    <2>1. \E q \in 1..Len(t) : t[q] = a
      BY <1>2, <1>3 DEF Filed
    <2> QED
      BY <2>1
  <1>6. PICK r \in Seq(Addr) : /\ r = RemoveAt(t, p)
                               /\ Len(r) = Len(t) - 1 /\ Len(t) \in Nat \ {0} /\ Len(r) \in Nat
                               /\ \A j \in 1..Len(r) : r[j] = IF j < p THEN t[j] ELSE t[j + 1]
    <2>1. PICK r : r = RemoveAt(t, p)
      OBVIOUS
    <2>2. /\ r \in Seq(Addr) /\ Len(r) = Len(t) - 1 /\ Len(t) \in Nat \ {0} /\ Len(r) \in Nat
          /\ \A j \in 1..Len(r) : r[j] = IF j < p THEN t[j] ELSE t[j + 1]
      BY <2>1, RemovedEntries
    <2> QED
      BY ONLY <2>1, <2>2
  <1>7. PICK table \in [Index -> Seq(Addr)] : table = [h.table EXCEPT ![i] = r]
    BY <1>1
  <1>8. PICK m : m = SetFreeMax(h, i, p, table)
    OBVIOUS
  <1>9. g = [h EXCEPT !.table = table, !.max = m]
    BY <1>2, <1>3, <1>5, <1>6, <1>7, <1>8 DEF Delete
  <1>10. /\ g.size = h.size /\ g.used = h.used /\ g.max = m /\ g.table = table
         /\ table[i] = r /\ \A j \in Index \ {i} : table[j] = h.table[j]
    BY <1>1, <1>7, <1>9 DEF HeapRec
  <1>11. /\ \A j \in 1..Len(r) : \E l \in 1..Len(t) : r[j] = t[l] /\ l # p /\ l = (IF j < p THEN j ELSE j + 1)
         /\ \A l \in 1..Len(t) : l # p => \E j \in 1..Len(r) : r[j] = t[l]
    <2>1. p \in Nat /\ p <= Len(t) /\ Len(t) \in Nat
      BY <1>4
    <2>2. ASSUME NEW j \in 1..Len(r)
          PROVE  \E l \in 1..Len(t) : r[j] = t[l] /\ l # p /\ l = (IF j < p THEN j ELSE j + 1)
      <3>1. CASE j < p
        BY <1>6, <2>1, <3>1
      <3>2. CASE ~(j < p)
        <4>1. j + 1 \in 1..Len(t) /\ j + 1 # p
          BY <1>6, <2>1, <3>2
        <4> QED
          BY <1>6, <3>2, <4>1
      <3> QED
        BY <3>1, <3>2
    <2>3. ASSUME NEW l \in 1..Len(t), l # p PROVE \E j \in 1..Len(r) : r[j] = t[l]
      <3>1. CASE l < p
        BY <1>6, <2>1, <3>1
      <3>2. CASE l > p
        <4>1. l - 1 \in 1..Len(r) /\ ~(l - 1 < p) /\ (l - 1) + 1 = l
          BY <1>6, <2>1, <3>2
        <4> QED
          BY <1>6, <4>1
      <3> QED
        BY <2>1, <2>3, <3>1, <3>2
    <2> QED
      BY <2>2, <2>3
  <1>12. Filed(g, F \ {a})
    <2>1. \A l, j \in 1..Len(r) : r[l] = r[j] => l = j
      <3> SUFFICES ASSUME NEW l \in 1..Len(r), NEW j \in 1..Len(r), r[l] = r[j] PROVE l = j
        OBVIOUS
      <3>1. PICK x \in 1..Len(t) : r[l] = t[x] /\ x = (IF l < p THEN l ELSE l + 1)
        BY <1>11
      <3>2. PICK y \in 1..Len(t) : r[j] = t[y] /\ y = (IF j < p THEN j ELSE j + 1)
        BY <1>11
      <3>3. x = y
        BY ONLY <1>4, <3>1, <3>2, r[l] = r[j]
      <3>4. l \in Nat /\ j \in Nat /\ p \in Nat
        BY <1>4, <1>6
      <3> QED
        BY ONLY <3>1, <3>2, <3>3, <3>4
    <2>2. \A j \in 1..Len(r) : r[j] \in F \ {a} /\ SizeToFreeIndex(h.size[r[j]]) = i
      BY <1>4, <1>5, <1>11
    <2>3. ASSUME NEW b \in F \ {a}
          PROVE  \E j \in 1..Len(g.table[SizeToFreeIndex(g.size[b])]) : g.table[SizeToFreeIndex(g.size[b])][j] = b
      <3>1. PICK c \in Index : c = SizeToFreeIndex(h.size[b])
        BY <1>1, TableOf
      <3>2. PICK j \in 1..Len(h.table[c]) : h.table[c][j] = b
        BY <3>1 DEF Filed
      <3>3. \E l \in 1..Len(table[c]) : table[c][l] = b
        <4>1. CASE c = i
          BY <1>3, <1>5, <1>10, <1>11, <3>2, <4>1
        <4>2. CASE c # i
          BY <1>10, <3>2, <4>2
        <4> QED
          BY <4>1, <4>2
      <3> QED
        BY ONLY <1>10, <3>1, <3>3
    <2>4. ASSUME NEW j \in Index
          PROVE  \A l \in 1..Len(g.table[j]) :
                    /\ g.table[j][l] \in F \ {a} /\ SizeToFreeIndex(g.size[g.table[j][l]]) = j
                    /\ \A n \in 1..Len(g.table[j]) : g.table[j][l] = g.table[j][n] => l = n
      <3>1. CASE j = i
        <4>1. g.table[j] = r /\ g.size = h.size
          BY <1>10, <3>1
        <4> QED
          BY ONLY <2>1, <2>2, <3>1, <4>1
      <3>2. CASE j # i
        <4>1. g.table[j] = h.table[j] /\ g.size = h.size
          BY <1>10, <3>2
        <4> SUFFICES ASSUME NEW l \in 1..Len(h.table[j])
                     PROVE  /\ h.table[j][l] \in F \ {a} /\ SizeToFreeIndex(h.size[h.table[j][l]]) = j
                            /\ \A n \in 1..Len(h.table[j]) : h.table[j][l] = h.table[j][n] => l = n
          BY <4>1
        <4> QED
          BY <1>2, <3>2 DEF Filed
      <3> QED
        BY <3>1, <3>2
    <2> QED
      BY <2>3, <2>4 DEF Filed
  <1>13. ASSUME TablesSorted(h) PROVE TablesSorted(g)
    <2>1. \A l, n \in 1..Len(t) : l < n => h.size[t[l]] <= h.size[t[n]]
      BY <1>3, <1>13 DEF TablesSorted
    <2>2. ASSUME NEW x \in 1..Len(r), NEW y \in 1..Len(r), x < y PROVE h.size[r[x]] <= h.size[r[y]]
      <3>1. PICK l \in 1..Len(t) : r[x] = t[l] /\ l = (IF x < p THEN x ELSE x + 1)
        BY <1>11
      <3>2. PICK n \in 1..Len(t) : r[y] = t[n] /\ n = (IF y < p THEN y ELSE y + 1)
        BY <1>11
      <3>3. l < n
        BY <1>4, <2>2, <3>1, <3>2
      <3> QED
        BY <2>1, <3>1, <3>2, <3>3
    <2>3. ASSUME NEW j \in Index, j # i, NEW x \in 1..Len(g.table[j]), NEW y \in 1..Len(g.table[j]), x < y
          PROVE  g.size[g.table[j][x]] <= g.size[g.table[j][y]]
      <3>1. g.table[j] = h.table[j] /\ g.size = h.size
        BY <1>10, <2>3
      <3> QED
        BY <1>13, <2>3, <3>1 DEF TablesSorted
    <2> QED
      BY <1>10, <2>2, <2>3 DEF TablesSorted
  <1> DEFINE stays == h.size[t[p]] # h.max \/ p < Len(t)
             second == h.size[t[p]] = h.max /\ p = Len(t) /\ p > 1
  <1>14. /\ stays => m = h.max
         /\ second => m = h.size[t[p - 1]] /\ p - 1 \in 1..Len(t)
         /\ stays \/ second \/ (p = 1 /\ Len(t) = 1 /\ h.size[a] = h.max /\ m = LastFree(h, table))
    <2>1. Len(t) \in Nat /\ p \in Nat /\ p >= 1 /\ p <= Len(t)
      BY <1>4
    <2>2. stays => m = h.max
      BY <1>3, <1>8 DEF SetFreeMax
    <2>3. second => ~stays /\ m = h.size[t[p - 1]]
      BY <1>3, <1>8, <2>1 DEF SetFreeMax
    <2>4. ~stays /\ ~second => m = LastFree(h, table)
      BY <1>3, <1>8 DEF SetFreeMax
    <2>5. ~stays /\ ~second => p = 1 /\ Len(t) = 1 /\ h.size[a] = h.max
      <3>1. h.size[t[p]] = h.size[a]
        BY <1>5
      <3>2. PICK x, n \in Nat : x = h.size[a] /\ n = Len(t)
        BY <1>1, <2>1
      <3> QED
        BY ONLY <2>1, <3>1, <3>2
    <2>6. second => p - 1 \in 1..Len(t)
      BY <2>1
    <2> QED
      BY <2>2, <2>3, <2>4, <2>5, <2>6
  <1> HIDE DEF stays, second
  \* The last node of the highest table, after the one taken out: its table is empty.
  <1>15. PICK e \in HeapRec : e.table = table /\ e.size = h.size /\ e.max = h.max
    <2>1. [h EXCEPT !.table = table] \in HeapRec
      BY <1>1 DEF HeapRec
    <2>2. PICK e \in HeapRec : e = [h EXCEPT !.table = table]
      BY <2>1
    <2> QED
      BY <1>1, <2>2 DEF HeapRec
  <1>16. Filed(e, F \ {a}) /\ (TablesSorted(g) => TablesSorted(e)) /\ LastFree(e, e.table) = LastFree(h, table)
    BY <1>10, <1>12, <1>15 DEF Filed, TablesSorted, LastFree
  <1>17. /\ LastFree(h, table) \in 0..HeapSize
         /\ F \ {a} = {} => LastFree(h, table) = 0
         /\ F \ {a} # {} => \E b \in F \ {a} : h.size[b] = LastFree(h, table)
         /\ TablesSorted(g) => \A b \in F \ {a} : h.size[b] <= LastFree(h, table)
    <2> DEFINE G == F \ {a}
    <2>1. G \in SUBSET Addr /\ Filed(e, G)
      BY <1>16
    <2> HIDE DEF G
    <2>2. /\ LastFree(e, e.table) \in 0..HeapSize
          /\ G = {} => LastFree(e, e.table) = 0
          /\ G # {} => \E b \in G : e.size[b] = LastFree(e, e.table)
          /\ TablesSorted(e) => \A b \in G : e.size[b] <= LastFree(e, e.table)
      BY <1>15, <2>1, LastFreeFacts
    <2> QED
      BY ONLY <1>15, <1>16, <2>2 DEF G
  <1>18. m \in 0..HeapSize
    <2>1. second => h.size[t[p - 1]] \in 0..HeapSize
      BY <1>1, <1>4, <1>14
    <2> QED
      BY <1>1, <1>14, <1>17, <2>1
  <1>19. g \in HeapRec
    BY <1>1, <1>7, <1>9, <1>18 DEF HeapRec
  <1>20. ASSUME TablesSorted(h), Largest(h, F) PROVE Largest(g, F \ {a})
    <2>1. \A b \in F : h.size[b] \in Nat /\ h.size[b] <= h.max
      BY <1>1, <1>20 DEF Largest
    <2>2. h.max = 0 \/ \E b \in F : h.size[b] = h.max
      BY <1>20 DEF Largest
    <2>3. CASE stays
      <3>1. CASE h.size[a] # h.max
        BY <1>10, <1>14, <2>1, <2>2, <2>3, <3>1 DEF Largest
      <3>2. CASE h.size[a] = h.max
        <4>1. p < Len(t)
          BY <1>5, <2>3, <3>2 DEF stays
        <4>2. PICK q \in 1..Len(t) : q = p + 1 /\ p < q /\ q # p
          <5>1. Len(t) \in Nat
            BY <1>4
          <5>2. p + 1 \in 1..Len(t) /\ p < p + 1 /\ p + 1 # p
            BY ONLY <4>1, <5>1, p \in 1..Len(t)
          <5> QED
            BY ONLY <5>2
        <4>3. t[q] \in F /\ t[q] # a /\ h.size[a] <= h.size[t[q]]
          BY <1>3, <1>4, <1>5, <1>20, <4>2 DEF TablesSorted
        <4>4. h.size[t[q]] = h.max
          BY <1>1, <2>1, <3>2, <4>3
        <4> QED
          BY <1>10, <1>14, <2>1, <2>3, <4>3, <4>4 DEF Largest
      <3> QED
        BY <3>1, <3>2
    <2>4. CASE second
      <3>0. p = Len(t) /\ h.size[t[p]] = h.max /\ h.size[a] = h.max
        BY <1>5, <2>4 DEF second
      <3>1. PICK q \in 1..Len(t) : q = p - 1 /\ m = h.size[t[q]] /\ q # p /\ p = Len(t) /\ h.size[a] = h.max
        <4>1. m = h.size[t[p - 1]] /\ p - 1 \in 1..Len(t)
          BY ONLY <1>14, <2>4
        <4>2. PICK q \in 1..Len(t) : q = p - 1
          BY ONLY <4>1
        <4>3. q # p
          BY <1>4, <4>2
        <4> QED
          BY ONLY <3>0, <4>1, <4>2, <4>3
      <3>2. t[q] \in F \ {a}
        BY <1>4, <1>5, <3>1
      <3>3. ASSUME NEW b \in F \ {a} PROVE h.size[b] <= m
        <4>1. PICK c \in Index : c = SizeToFreeIndex(h.size[b])
          BY <1>1, TableOf
        <4>2. c \in Nat /\ i \in Nat
          BY HeapAssumption DEF Index
        <4>3. ~(c > i)
          <5>1. h.size[b] \in Nat /\ h.size[a] \in Nat /\ h.size[b] <= h.size[a]
            BY <1>1, <2>1, <3>1
          <5>2. SizeToFreeIndex(h.size[a]) < SizeToFreeIndex(h.size[b]) => h.size[a] < h.size[b]
            BY <5>1, HigherIsLarger
          <5> QED
            BY <1>2, <4>1, <4>2, <5>1, <5>2
        <4>4. CASE c = i
          <5>1. PICK k \in 1..Len(t) : t[k] = b
            BY <1>3, <4>1, <4>4 DEF Filed
          <5>2. k # p /\ (k = q \/ k < q)
            BY <1>4, <1>5, <3>1, <5>1
          <5>3. k < q => h.size[t[k]] <= h.size[t[q]]
            BY <1>3, <1>20 DEF TablesSorted
          <5> QED
            BY <1>4, <3>1, <5>1, <5>2, <5>3
        <4>5. CASE c < i
          <5>1. h.size[b] \in Nat /\ m \in Nat /\ SizeToFreeIndex(m) = i
            BY <1>1, <1>4, <3>1
          <5>2. h.size[b] < m
            BY <4>1, <4>5, <5>1, HigherIsLarger
          <5> QED
            BY <5>1, <5>2
        <4> QED
          BY <4>2, <4>3, <4>4, <4>5
      <3> QED
        BY <1>10, <3>1, <3>2, <3>3 DEF Largest
    <2>5. CASE ~stays /\ ~second
      <3>1. m = LastFree(h, table)
        BY <1>14, <2>5
      <3> QED
        BY <1>10, <1>13, <1>17, <1>20, <3>1 DEF Largest
    <2> QED
      BY <2>3, <2>4, <2>5
  <1> QED
    BY <1>10, <1>12, <1>13, <1>19, <1>20

\* The nodes with these sizes divide the heap.
Dividing(s) ==
    /\ s[0] > 0
    /\ \A a \in Addr : s[a] > 0 => a + s[a] = HeapSize \/ (a + s[a] \in Addr /\ s[a + s[a]] > 0)
    /\ \A a, b \in Addr : s[a] > 0 /\ s[b] > 0 /\ a < b => a + s[a] <= b

\* Of nodes that divide the heap only one ends where another begins.
LEMMA OneBefore ==
    ASSUME HeapAssumption, NEW s \in [Addr -> 0..HeapSize], Dividing(s),
           NEW a \in Addr, NEW b \in Addr, s[a] > 0, s[b] > 0, a + s[a] = b + s[b]
    PROVE  a = b
  <1>1. a \in Nat /\ b \in Nat /\ s[a] \in Nat /\ s[b] \in Nat
    BY HeapAssumption DEF Addr
  <1>2. (a < b => a + s[a] <= b) /\ (b < a => b + s[b] <= a)
    BY DEF Dividing
  <1> QED
    BY <1>1, <1>2

\* A node that takes in the one behind it.
LEMMA JoinKeeps ==
    ASSUME HeapAssumption, NEW s \in [Addr -> 0..HeapSize], Dividing(s),
           NEW a \in Addr, NEW n \in Addr, s[a] > 0, s[n] > 0, n = a + s[a],
           NEW z, z = [s EXCEPT ![a] = s[a] + s[n], ![n] = 0]
    PROVE  /\ z \in [Addr -> 0..HeapSize] /\ Dividing(z)
           /\ z[a] = s[a] + s[n] /\ z[n] = 0 /\ a # n
           /\ \A b \in Addr \ {a, n} : z[b] = s[b]
  <1>1. /\ HeapSize \in Nat /\ a \in Nat /\ n \in Nat /\ s[a] \in Nat /\ s[n] \in Nat /\ a # n /\ n # 0 /\ 0 \in Addr /\ a < n
        /\ \A b \in Addr : b \in Nat /\ s[b] \in Nat /\ b < HeapSize
    BY HeapAssumption DEF Addr
  <1>2. n + s[n] <= HeapSize
    BY <1>1 DEF Dividing
  <1>3. /\ z \in [Addr -> 0..HeapSize] /\ z[a] = s[a] + s[n] /\ z[n] = 0
        /\ \A b \in Addr \ {a, n} : z[b] = s[b]
    <2>1. s[a] + s[n] \in 0..HeapSize
      BY <1>1, <1>2
    <2> QED
      BY <1>1, <2>1
  <1>4. z[0] > 0
    BY <1>1, <1>3 DEF Dividing
  <1>5. ASSUME NEW b \in Addr, z[b] > 0 PROVE b + z[b] = HeapSize \/ (b + z[b] \in Addr /\ z[b + z[b]] > 0)
    <2>0. \A c \in Addr : c # a /\ c # n => z[c] = s[c]
      BY <1>3
    <2>1. CASE b = a
      <3>1. b + z[b] = n + s[n]
        BY <1>1, <1>3, <2>1
      <3>2. n + s[n] = HeapSize \/ (n + s[n] \in Addr /\ s[n + s[n]] > 0)
        BY DEF Dividing
      <3>3. n + s[n] # a /\ n + s[n] # n
        BY <1>1
      <3> QED
        BY <2>0, <3>1, <3>2, <3>3
    <2>2. CASE b # a
      <3>1. b # n /\ z[b] = s[b] /\ s[b] > 0
        BY <1>3, <1>5, <2>2
      <3>2. b + s[b] = HeapSize \/ (b + s[b] \in Addr /\ s[b + s[b]] > 0)
        BY <3>1 DEF Dividing
      <3>3. b + s[b] # n
        BY <2>2, <3>1, OneBefore
      <3>4. PICK e : e = b + s[b]
        OBVIOUS
      <3>5. e = HeapSize \/ (e \in Addr /\ z[e] > 0)
        <4>1. e = a => z[e] > 0
          BY <1>1, <1>3
        <4> QED
          BY ONLY <2>0, <3>2, <3>3, <3>4, <4>1
      <3> QED
        BY ONLY <3>1, <3>4, <3>5
    <2> QED
      BY <2>1, <2>2
  <1>6. ASSUME NEW b \in Addr, NEW c \in Addr, z[b] > 0, z[c] > 0, b < c PROVE b + z[b] <= c
    <2>1. b # n /\ c # n
      BY <1>3, <1>6
    <2>2. s[b] > 0 /\ s[c] > 0 /\ b + s[b] <= c
      BY <1>1, <1>3, <1>6, <2>1 DEF Dividing
    <2>3. CASE b = a
      <3>1. n < c
        BY <1>1, <2>1, <2>2, <2>3
      <3>2. n + s[n] <= c
        BY <2>2, <3>1 DEF Dividing
      <3> QED
        BY <1>1, <1>3, <2>3, <3>2
    <2>4. CASE b # a
      BY <1>3, <2>1, <2>2, <2>4
    <2> QED
      BY <2>3, <2>4
  <1> QED
    BY <1>1, <1>3, <1>4, <1>5, <1>6 DEF Dividing

\* Where a node may be cut no other begins.
LEMMA CutPlace ==
    ASSUME HeapAssumption, NEW s \in [Addr -> 0..HeapSize], Dividing(s),
           NEW a \in Addr, NEW k \in Nat \ {0}, k < s[a]
    PROVE  a + k \in Addr /\ s[a + k] = 0
  <1>1. PICK m : m = a + k
    OBVIOUS
  <1>2. HeapSize \in Nat /\ a \in Nat /\ k \in Nat /\ k > 0 /\ s[a] \in Nat /\ s[a] > 0
    BY HeapAssumption DEF Addr
  <1>3. a + s[a] <= HeapSize
    BY <1>2, HeapAssumption DEF Dividing, Addr
  <1>4. m \in Addr /\ a < m /\ m < a + s[a] /\ m \in Nat
    BY <1>1, <1>2, <1>3 DEF Addr
  <1>5. s[m] > 0 => a + s[a] <= m
    BY <1>2, <1>4 DEF Dividing
  <1>6. s[m] \in Nat
    BY HeapAssumption, <1>4
  <1> QED
    BY <1>1, <1>2, <1>4, <1>5, <1>6

\* A node cut in two.
LEMMA CutKeeps ==
    ASSUME HeapAssumption, NEW s \in [Addr -> 0..HeapSize], Dividing(s),
           NEW a \in Addr, NEW m \in Addr, a < m, m < a + s[a], s[m] = 0,
           NEW z \in [Addr -> Int], z[a] = m - a, z[m] = a + s[a] - m,
           \A b \in Addr \ {a, m} : z[b] = s[b]
    PROVE  z \in [Addr -> 0..HeapSize] /\ Dividing(z)
  <1>2. /\ HeapSize \in Nat /\ a \in Nat /\ s[a] \in Nat /\ s[a] > 0 /\ 0 \in Addr
        /\ \A b \in Addr : b \in Nat /\ s[b] \in Nat /\ b < HeapSize
    BY HeapAssumption DEF Addr
  <1>3. a + s[a] <= HeapSize
    BY <1>2 DEF Dividing
  <1>4. m \in Addr /\ m \in Nat /\ a < m /\ m < a + s[a] /\ m # 0
    BY <1>2
  <1>5. s[m] = 0
    OBVIOUS
  <1>6. /\ z \in [Addr -> 0..HeapSize] /\ z[a] = m - a /\ z[m] = a + s[a] - m /\ z[m] > 0 /\ m + z[m] = a + s[a]
        /\ a + z[a] = m /\ z[a] > 0 /\ z[a] <= s[a]
        /\ \A b \in Addr \ {a, m} : z[b] = s[b]
    <2>1. /\ m - a \in 0..HeapSize /\ a + s[a] - m \in 0..HeapSize /\ a + s[a] - m > 0 /\ m + (a + s[a] - m) = a + s[a]
          /\ a # m /\ a + (m - a) = m /\ m - a > 0 /\ m - a <= s[a]
      BY <1>2, <1>3, <1>4
    <2>2. \A b \in Addr : z[b] \in 0..HeapSize
      BY <2>1
    <2>3. z \in [Addr -> 0..HeapSize]
      BY <2>2
    <2> QED
      BY <2>1, <2>3
  <1>7. z[0] > 0
    BY <1>2, <1>4, <1>6 DEF Dividing
  <1>8. ASSUME NEW b \in Addr, z[b] > 0 PROVE b + z[b] = HeapSize \/ (b + z[b] \in Addr /\ z[b + z[b]] > 0)
    <2>0. \A c \in Addr : s[c] > 0 => z[c] > 0
      BY <1>2, <1>5, <1>6
    <2>1. CASE b = a
      BY <1>4, <1>6, <2>1
    <2>2. CASE b = m
      <3>1. a + s[a] = HeapSize \/ (a + s[a] \in Addr /\ s[a + s[a]] > 0)
        BY <1>2 DEF Dividing
      <3> QED
        BY <1>6, <2>0, <2>2, <3>1
    <2>3. CASE b # a /\ b # m
      <3>1. z[b] = s[b]
        BY <1>6, <2>3
      <3>2. b + s[b] = HeapSize \/ (b + s[b] \in Addr /\ s[b + s[b]] > 0)
        BY <1>8, <3>1 DEF Dividing
      <3> QED
        BY <2>0, <3>1, <3>2
    <2> QED
      BY <2>1, <2>2, <2>3
  <1>9. ASSUME NEW b \in Addr, NEW c \in Addr, z[b] > 0, z[c] > 0, b < c PROVE b + z[b] <= c
    <2>1. \A x \in Addr : x # m /\ z[x] > 0 => s[x] > 0 /\ z[x] <= s[x]
      BY <1>2, <1>6
    <2>2. \A x, y \in Addr : s[x] > 0 /\ s[y] > 0 /\ x < y => x + s[x] <= y
      BY DEF Dividing
    <2>3. CASE b = m
      <3>1. c # m /\ s[c] > 0 /\ a < c
        BY <1>2, <1>4, <1>9, <2>1, <2>3
      <3>2. a + s[a] <= c
        BY <1>2, <2>2, <3>1
      <3> QED
        BY <1>6, <2>3, <3>2
    <2>4. CASE c = m
      <3>1. b # m /\ s[b] > 0
        BY <1>2, <1>4, <1>9, <2>1, <2>4
      <3>2. CASE b = a
        BY <1>2, <1>6, <2>4, <3>2
      <3>3. CASE b # a
        <4>1. b < a \/ a < b
          BY <1>2, <3>3
        <4>2. ~(a < b)
          <5>1. a < b => a + s[a] <= b
            BY <1>2, <2>2, <3>1
          <5> QED
            BY <1>2, <1>4, <1>9, <2>4, <5>1
        <4>3. b + s[b] <= a
          BY <1>2, <2>2, <3>1, <4>1, <4>2
        <4>4. z[b] = s[b]
          BY <1>6, <3>1, <3>3
        <4> QED
          BY <1>2, <1>4, <2>4, <4>3, <4>4
      <3> QED
        BY <3>2, <3>3
    <2>5. CASE b # m /\ c # m
      <3>1. s[b] > 0 /\ s[c] > 0 /\ z[b] <= s[b] /\ b + s[b] <= c
        BY <1>9, <2>1, <2>2, <2>5
      <3>2. z[b] \in Nat /\ s[b] \in Nat /\ b \in Nat /\ c \in Nat
        BY <1>2, <1>6
      <3> QED
        BY <3>1, <3>2
    <2> QED
      BY <2>3, <2>4, <2>5
  <1> QED
    BY <1>6, <1>7, <1>8, <1>9 DEF Dividing

\* A heap but for its tables: the nodes divide it, and those given out are nodes.
Body(h) == h \in HeapRec /\ h.used \subseteq Node(h) /\ Dividing(h.size)

\* Of the nodes F none lies behind another.
Apart(s, F) == \A b, c \in F : b + s[b] # c

\* The tables of the nodes F are in order, and so is free_max.
InOrder(h, F) == TablesSorted(h) /\ Largest(h, F)

\* A heap between two calls.
HeapOk(h) == Body(h) /\ Filed(h, Free(h)) /\ Apart(h.size, Free(h))

\* The sizes of other nodes do not matter to the tables.
LEMMA Resized ==
    ASSUME NEW h \in HeapRec, NEW F, Filed(h, F),
           NEW g \in HeapRec, g.table = h.table, g.max = h.max, \A b \in F : g.size[b] = h.size[b]
    PROVE  Filed(g, F) /\ (InOrder(h, F) => InOrder(g, F))
  <1>1. \A i \in Index : \A k \in 1..Len(h.table[i]) : h.table[i][k] \in F /\ g.size[h.table[i][k]] = h.size[h.table[i][k]]
    BY DEF Filed
  <1>2. Filed(g, F)
    BY <1>1 DEF Filed
  <1>3. TablesSorted(h) => TablesSorted(g)
    BY <1>1 DEF TablesSorted
  <1>4. Largest(h, F) => Largest(g, F)
    BY DEF Largest
  <1> QED
    BY <1>2, <1>3, <1>4 DEF InOrder

\* What the parts of a heap are.
LEMMA BodyTypes ==
    ASSUME HeapAssumption, NEW h, Body(h)
    PROVE  /\ h \in HeapRec /\ HeapSize \in Nat /\ h.size \in [Addr -> 0..HeapSize] /\ h.max \in 0..HeapSize
           /\ h.table \in [Index -> Seq(Addr)] /\ h.used \subseteq Addr /\ Dividing(h.size)
           /\ \A b \in Addr : b \in Nat /\ h.size[b] \in Nat
           /\ \A b \in Free(h) : b \in Addr /\ b \in Nat /\ h.size[b] > 0 /\ b \notin h.used
           /\ \A b \in h.used : b \in Addr /\ b \in Nat /\ h.size[b] > 0
           /\ \A b \in Addr : h.size[b] > 0 /\ b \notin h.used => b \in Free(h)
  BY HeapAssumption DEF Body, HeapRec, Free, Node, Addr

\* A heap whose free node a is in no table: its insertion makes it whole.
LEMMA Inserted ==
    ASSUME HeapAssumption, PowersOfTwo, NEW h, Body(h), NEW a \in Free(h),
           Filed(h, Free(h) \ {a}), Apart(h.size, Free(h)),
           NEW g, g = Insert(h, a)
    PROVE  /\ HeapOk(g) /\ g.size = h.size /\ g.used = h.used /\ Free(g) = Free(h)
           /\ InOrder(h, Free(h) \ {a}) => InOrder(g, Free(g))
  <1> DEFINE F == Free(h) \ {a}
  <1>1. h \in HeapRec /\ F \in SUBSET Addr /\ a \in Addr /\ a \notin F /\ h.size[a] > 0 /\ Filed(h, F)
    BY BodyTypes
  <1>2. F \cup {a} = Free(h)
    OBVIOUS
  <1> HIDE DEF F
  <1>3. /\ g \in HeapRec /\ g.size = h.size /\ g.used = h.used
        /\ Filed(g, F \cup {a})
        /\ TablesSorted(h) => TablesSorted(g)
        /\ Largest(h, F) => Largest(g, F \cup {a})
    BY ONLY HeapAssumption, PowersOfTwo, <1>1, g = Insert(h, a), InsertFacts
  <1>4. Free(g) = Free(h) /\ Node(g) = Node(h)
    BY <1>3 DEF Free, Node
  <1>5. Body(g)
    BY <1>3, <1>4 DEF Body
  <1>6. HeapOk(g)
    BY <1>2, <1>3, <1>4, <1>5 DEF HeapOk
  <1> QED
    BY <1>2, <1>3, <1>4, <1>6 DEF InOrder, F

\* free_node_merge, first half: the node given back, which no table holds, takes in
\* the free node behind it.
LEMMA MergedNext ==
    ASSUME HeapAssumption, PowersOfTwo, NEW h, Body(h), NEW a \in Free(h),
           Filed(h, Free(h) \ {a}), Apart(h.size, Free(h) \ {a}),
           NEW m, m = MergeNext(h, a)
    PROVE  /\ Body(m) /\ m.used = h.used /\ a \in Free(m)
           /\ Filed(m, Free(m) \ {a}) /\ Apart(m.size, Free(m) \ {a})
           /\ a + m.size[a] \notin Free(m)
           /\ InOrder(h, Free(h) \ {a}) => InOrder(m, Free(m) \ {a})
  <1> DEFINE F == Free(h) \ {a}
             s == h.size
  <1>1. /\ h \in HeapRec /\ HeapSize \in Nat /\ s \in [Addr -> 0..HeapSize] /\ Dividing(s)
        /\ a \in Addr /\ a \in Nat /\ s[a] \in Nat /\ s[a] > 0 /\ F \in SUBSET Addr /\ a \notin h.used
    BY BodyTypes
  <1>2. PICK n : n = a + s[a]
    OBVIOUS
  <1>3. CASE n \notin Free(h)
    <2>1. m = h
      BY <1>2, <1>3 DEF MergeNext
    <2> QED
      BY <1>2, <1>3, <2>1
  <1>4. CASE n \in Free(h)
    <2>1. n \in Addr /\ n \in Nat /\ s[n] > 0 /\ s[n] \in Nat /\ n # a /\ n \in F /\ n \notin h.used
      BY <1>1, <1>2, <1>4, BodyTypes
    <2>2. PICK d : d = Delete(h, n)
      OBVIOUS
    <2>3. /\ d \in HeapRec /\ d.size = s /\ d.used = h.used
          /\ Filed(d, F \ {n})
          /\ TablesSorted(h) => TablesSorted(d)
          /\ TablesSorted(h) /\ Largest(h, F) => Largest(d, F \ {n})
      <3> HIDE DEF F
      <3>1. Filed(h, F)
        BY DEF F
      <3> QED
        BY ONLY HeapAssumption, PowersOfTwo, <1>1, <2>1, <2>2, <3>1, DeleteFacts DEF s
    <2>4. PICK z : z = [s EXCEPT ![a] = s[a] + s[n], ![n] = 0]
      OBVIOUS
    <2>5. m = [d EXCEPT !.size = z]
      <3>1. m = [d EXCEPT !.size[a] = @ + s[n], !.size[n] = 0]
        BY <1>2, <1>4, <2>2 DEF MergeNext
      <3> QED
        BY <1>1, <2>1, <2>3, <2>4, <3>1 DEF HeapRec
    <2>6. /\ z \in [Addr -> 0..HeapSize] /\ Dividing(z)
          /\ z[a] = s[a] + s[n] /\ z[n] = 0 /\ a # n
          /\ \A b \in Addr \ {a, n} : z[b] = s[b]
      BY ONLY HeapAssumption, <1>1, <1>2, <2>1, <2>4, JoinKeeps
    <2>7. m \in HeapRec /\ m.size = z /\ m.used = h.used /\ m.table = d.table /\ m.max = d.max
      BY <2>3, <2>5, <2>6 DEF HeapRec
    <2>8. m.used \subseteq Node(m)
      <3>1. \A b \in h.used : b \in Addr /\ b # a /\ b # n /\ s[b] > 0
        BY <1>1, <2>1, BodyTypes
      <3> QED
        BY <2>6, <2>7, <3>1 DEF Node
    <2>9. Body(m)
      BY <2>6, <2>7, <2>8 DEF Body
    <2>10. Free(m) = Free(h) \ {n}
      <3>1. ASSUME NEW b \in Addr, b # a, b # n PROVE z[b] = s[b]
        BY <2>6, <3>1
      <3>2. z[a] > 0 /\ z[n] = 0
        BY <1>1, <2>1, <2>6
      <3> QED
        BY <1>1, <2>1, <2>7, <3>1, <3>2 DEF Free, Node
    <2>11. Free(m) \ {a} = F \ {n} /\ a \in Free(m) /\ \A b \in F \ {n} : m.size[b] = s[b]
      BY <1>1, <2>1, <2>6, <2>7, <2>10
    <2>12. Filed(m, Free(m) \ {a}) /\ (InOrder(h, F) => InOrder(m, Free(m) \ {a}))
      <3>1. PICK G : G = F \ {n}
        OBVIOUS
      <3>2. Filed(m, G) /\ (InOrder(d, G) => InOrder(m, G))
        <4>1. Filed(d, G) /\ \A b \in G : m.size[b] = d.size[b]
          BY <2>3, <2>11, <3>1
        <4> QED
          BY ONLY <2>3, <2>7, <4>1, Resized
      <3>3. InOrder(h, F) => InOrder(d, G)
        BY <2>3, <3>1 DEF InOrder
      <3> QED
        BY <2>11, <3>1, <3>2, <3>3
    <2>13. Apart(m.size, Free(m) \ {a})
      BY <2>11 DEF Apart
    <2>14. a + m.size[a] \notin Free(m)
      <3>1. a + m.size[a] = n + s[n]
        BY <1>1, <1>2, <2>1, <2>6, <2>7
      <3>2. \A c \in F : n + s[n] # c
        BY <2>1 DEF Apart
      <3>3. n + s[n] # a
        BY <1>1, <1>2, <2>1
      <3> QED
        BY <2>10, <3>1, <3>2, <3>3
    <2> QED
      BY <2>7, <2>9, <2>11, <2>12, <2>13, <2>14
  <1> QED
    BY <1>3, <1>4

\* free_node_merge: with the free node before it too, and into the tables.
LEMMA Merged ==
    ASSUME HeapAssumption, PowersOfTwo, NEW h, Body(h), NEW a \in Free(h),
           Filed(h, Free(h) \ {a}), Apart(h.size, Free(h) \ {a}),
           NEW g, g = Merge(h, a)
    PROVE  /\ HeapOk(g) /\ g.used = h.used
           /\ InOrder(h, Free(h) \ {a}) => InOrder(g, Free(g))
  <1>1. PICK m : m = MergeNext(h, a)
    OBVIOUS
  <1>2. /\ Body(m) /\ m.used = h.used /\ a \in Free(m)
        /\ Filed(m, Free(m) \ {a}) /\ Apart(m.size, Free(m) \ {a})
        /\ a + m.size[a] \notin Free(m)
        /\ InOrder(h, Free(h) \ {a}) => InOrder(m, Free(m) \ {a})
    BY <1>1, MergedNext
  <1>3. /\ m \in HeapRec /\ HeapSize \in Nat /\ m.size \in [Addr -> 0..HeapSize] /\ Dividing(m.size)
        /\ a \in Addr /\ a \in Nat /\ m.size[a] \in Nat /\ m.size[a] > 0 /\ Free(m) \in SUBSET Addr /\ a \notin m.used
    BY <1>2, BodyTypes
  <1>4. CASE FreeBefore(m, a) = {}
    <2>1. g = Insert(m, a)
      BY <1>1, <1>4 DEF Merge
    <2>2. Apart(m.size, Free(m))
      <3>1. \A b \in Free(m) : b + m.size[b] # a
        BY <1>4 DEF FreeBefore
      <3> QED
        BY <1>2, <3>1 DEF Apart
    <2>3. /\ HeapOk(g) /\ g.size = m.size /\ g.used = m.used /\ Free(g) = Free(m)
          /\ InOrder(m, Free(m) \ {a}) => InOrder(g, Free(g))
      BY ONLY HeapAssumption, PowersOfTwo, <1>2, <2>1, <2>2, Inserted
    <2> QED
      BY <1>2, <2>3
  <1>5. CASE FreeBefore(m, a) # {}
    <2> DEFINE F == Free(m) \ {a}
               s == m.size
    <2>1. PICK p \in FreeBefore(m, a) : p = CHOOSE q \in FreeBefore(m, a) : TRUE
      BY <1>5
    <2>2. /\ p \in Free(m) /\ p + s[p] = a /\ p \in Addr /\ p \in Nat /\ s[p] > 0 /\ s[p] \in Nat /\ p # a /\ p \in F
          /\ p \notin m.used
      BY <1>2, <1>3, <2>1, BodyTypes DEF FreeBefore
    <2>3. PICK d : d = Delete(m, p)
      OBVIOUS
    <2>4. /\ d \in HeapRec /\ d.size = s /\ d.used = m.used
          /\ Filed(d, F \ {p})
          /\ TablesSorted(m) => TablesSorted(d)
          /\ TablesSorted(m) /\ Largest(m, F) => Largest(d, F \ {p})
      <3> HIDE DEF F
      <3>1. Filed(m, F) /\ F \in SUBSET Addr
        BY <1>2, <1>3 DEF F
      <3> QED
        BY ONLY HeapAssumption, PowersOfTwo, <1>3, <2>2, <2>3, <3>1, DeleteFacts DEF s
    <2>5. PICK z : z = [s EXCEPT ![p] = s[p] + s[a], ![a] = 0]
      OBVIOUS
    <2>6. PICK e : e = [d EXCEPT !.size = z]
      OBVIOUS
    <2>7. g = Insert(e, p)
      <3>1. g = Insert([d EXCEPT !.size[p] = @ + s[a], !.size[a] = 0], p)
        BY <1>1, <1>5, <2>1, <2>3 DEF Merge
      <3>2. [d EXCEPT !.size[p] = @ + s[a], !.size[a] = 0] = e
        BY <1>3, <2>2, <2>4, <2>5, <2>6 DEF HeapRec
      <3> QED
        BY <3>1, <3>2
    <2>8. /\ z \in [Addr -> 0..HeapSize] /\ Dividing(z)
          /\ z[p] = s[p] + s[a] /\ z[a] = 0 /\ a # p
          /\ \A b \in Addr \ {p, a} : z[b] = s[b]
      BY ONLY HeapAssumption, <1>3, <2>2, <2>5, JoinKeeps
    <2>9. e \in HeapRec /\ e.size = z /\ e.used = m.used /\ e.table = d.table /\ e.max = d.max
      BY <2>4, <2>6, <2>8 DEF HeapRec
    <2>10. e.used \subseteq Node(e)
      <3>1. \A b \in m.used : b \in Addr /\ b # a /\ b # p /\ s[b] > 0
        BY <1>2, <1>3, <2>2, BodyTypes
      <3> QED
        BY <2>8, <2>9, <3>1 DEF Node
    <2>11. Body(e)
      BY <2>8, <2>9, <2>10 DEF Body
    <2>12. Free(e) = F
      <3>1. ASSUME NEW b \in Addr, b # a, b # p PROVE z[b] = s[b]
        BY <2>8, <3>1
      <3>2. z[p] > 0 /\ z[a] = 0
        BY <1>3, <2>2, <2>8
      <3>3. Free(e) = {b \in Addr : z[b] > 0} \ m.used
        BY <2>9 DEF Free, Node
      <3>4. Free(m) = {b \in Addr : s[b] > 0} \ m.used
        BY DEF Free, Node
      <3>5. ~(z[a] > 0)
        BY ONLY <3>2
      <3>6. p \in Free(m) /\ p # a /\ p \in Addr /\ a \in Addr
        BY <1>3, <2>2
      <3>7. ASSUME NEW b \in Addr PROVE b \in Free(e) <=> b \in Free(m) /\ b # a
        <4>1. CASE b = a
          BY ONLY <3>3, <3>5, <4>1
        <4>2. CASE b = p
          BY ONLY <3>2, <3>3, <3>4, <3>6, <4>2
        <4>3. CASE b # a /\ b # p
          BY ONLY <3>1, <3>3, <3>4, <4>3, b \in Addr
        <4> QED
          BY <4>1, <4>2, <4>3
      <3>8. Free(e) \subseteq Addr /\ Free(m) \subseteq Addr
        BY ONLY <3>3, <3>4
      <3> QED
        BY ONLY <3>7, <3>8 DEF F
    <2>13. p \in Free(e) /\ \A b \in F \ {p} : e.size[b] = s[b]
      BY <1>3, <2>2, <2>8, <2>9, <2>12
    <2>14. Filed(e, F \ {p}) /\ (InOrder(m, F) => InOrder(e, F \ {p}))
      <3>1. PICK G : G = F \ {p}
        OBVIOUS
      <3>2. Filed(e, G) /\ (InOrder(d, G) => InOrder(e, G))
        <4>1. Filed(d, G) /\ \A b \in G : e.size[b] = d.size[b]
          BY <2>4, <2>13, <3>1
        <4> QED
          BY ONLY <2>4, <2>9, <4>1, Resized
      <3>3. InOrder(m, F) => InOrder(d, G)
        BY <2>4, <3>1 DEF InOrder
      <3> QED
        BY <3>1, <3>2, <3>3
    <2>15. Apart(e.size, Free(e))
      <3>1. p + z[p] = a + s[a]
        BY <1>3, <2>2, <2>8
      <3>2. \A b, c \in F : b + s[b] # c
        BY <1>2 DEF Apart
      <3>3. \A c \in F : a + s[a] # c
        BY <1>2
      <3> SUFFICES ASSUME NEW b \in F, NEW c \in F PROVE b + z[b] # c
        BY <2>9, <2>12 DEF Apart
      <3>4. CASE b = p
        BY <3>1, <3>3, <3>4
      <3>5. CASE b # p
        BY <2>9, <2>13, <3>2, <3>5
      <3> QED
        BY <3>4, <3>5
    <2>16. /\ HeapOk(g) /\ g.used = e.used
           /\ InOrder(e, Free(e) \ {p}) => InOrder(g, Free(g))
      <3>1. Filed(e, Free(e) \ {p})
        BY <2>12, <2>14
      <3> QED
        BY ONLY HeapAssumption, PowersOfTwo, <2>7, <2>11, <2>13, <2>15, <3>1, Inserted
    <2> QED
      BY <1>2, <2>9, <2>12, <2>14, <2>16
  <1> QED
    BY <1>4, <1>5

\* A node given back to its heap.
LEMMA Released ==
    ASSUME HeapAssumption, PowersOfTwo, NEW h, HeapOk(h), NEW a \in h.used,
           NEW g, g = Release(h, a)
    PROVE  /\ HeapOk(g) /\ g.used = h.used \ {a}
           /\ InOrder(h, Free(h)) => InOrder(g, Free(g))
  <1>1. PICK f : f = [h EXCEPT !.used = h.used \ {a}]
    OBVIOUS
  <1>2. Body(h) /\ Filed(h, Free(h)) /\ Apart(h.size, Free(h))
    BY DEF HeapOk
  <1>3. /\ f \in HeapRec /\ f.size = h.size /\ f.table = h.table /\ f.max = h.max /\ f.used = h.used \ {a}
    BY <1>1, <1>2 DEF Body, HeapRec
  <1>4. a \in Addr /\ h.size[a] > 0
    BY <1>2, BodyTypes
  <1>5. Body(f)
    BY <1>2, <1>3 DEF Body, Node
  <1>6. Free(f) \ {a} = Free(h) /\ a \in Free(f)
    BY <1>3, <1>4 DEF Free, Node
  <1>7. Filed(f, Free(f) \ {a}) /\ Apart(f.size, Free(f) \ {a}) /\ (InOrder(h, Free(h)) => InOrder(f, Free(f) \ {a}))
    <2>1. Filed(f, Free(h)) /\ (InOrder(h, Free(h)) => InOrder(f, Free(h)))
      BY <1>2, <1>3 DEF Filed, InOrder, TablesSorted, Largest
    <2> QED
      BY <1>2, <1>3, <1>6, <2>1
  <1>8. g = Merge(f, a)
    BY <1>1 DEF Release
  <1>9. /\ HeapOk(g) /\ g.used = f.used
        /\ InOrder(f, Free(f) \ {a}) => InOrder(g, Free(g))
    BY <1>5, <1>6, <1>7, <1>8, Merged
  <1> QED
    BY <1>3, <1>7, <1>9

\* free_tables_find_node finds a node in the tables, and one that is large enough.
LEMMA Found ==
    ASSUME HeapAssumption, PowersOfTwo, NEW h \in HeapRec, NEW F \in SUBSET Addr, Filed(h, F),
           NEW n \in Nat, Fits(h, n) # {}
    PROVE  FindNode(h, n) \in F /\ h.size[FindNode(h, n)] >= n
  <1>1. Tables \in Nat \ {0} /\ Index = 0..Tables - 1 /\ \A j \in Index : h.table[j] \in Seq(Addr) /\ Len(h.table[j]) \in Nat
    BY HeapAssumption DEF HeapRec, Index
  <1>2. PICK c \in Index : c = SizeToFreeIndex(n)
    BY TableOf
  <1>3. Fits(h, n) \subseteq Index /\ Fits(h, n) \subseteq Nat
    BY <1>1, <1>2 DEF Fits
  <1>4. PICK i \in Fits(h, n) : i = Min(Fits(h, n))
    <2>1. \E x \in Fits(h, n) : \A y \in Fits(h, n) : x <= y
      BY <1>3, LeastOf
    <2>2. Min(Fits(h, n)) = CHOOSE x \in Fits(h, n) : \A y \in Fits(h, n) : x <= y
      BY DEF Min
    <2> QED
      BY <2>1, <2>2
  <1>5. Enough(h, n, i) # {} /\ i \in Index
    BY <1>3, <1>4 DEF Fits
  <1>6. Enough(h, n, i) \subseteq Nat
    BY <1>1, <1>5 DEF Enough
  <1>7. PICK k \in Enough(h, n, i) : k = Min(Enough(h, n, i))
    <2>1. \E x \in Enough(h, n, i) : \A y \in Enough(h, n, i) : x <= y
      BY <1>5, <1>6, LeastOf
    <2>2. Min(Enough(h, n, i)) = CHOOSE x \in Enough(h, n, i) : \A y \in Enough(h, n, i) : x <= y
      BY DEF Min
    <2> QED
      BY <2>1, <2>2
  <1>8. FindNode(h, n) = h.table[i][k]
    BY <1>4, <1>7 DEF FindNode
  <1>9. k \in 1..Len(h.table[i]) /\ h.size[h.table[i][k]] >= n
    BY <1>7 DEF Enough
  <1>10. h.table[i][k] \in F
    BY <1>5, <1>9 DEF Filed
  <1> QED
    BY <1>8, <1>9, <1>10

\* When free_max is right it promises nothing that the tables do not hold.
LEMMA PromiseKept ==
    ASSUME HeapAssumption, PowersOfTwo, NEW h \in HeapRec, NEW F \in SUBSET Addr, Filed(h, F), Largest(h, F),
           NEW n \in Nat \ {0}, n <= h.max
    PROVE  Fits(h, n) # {}
  <1>1. /\ HeapSize \in Nat /\ h.max \in Nat /\ \A b \in Addr : h.size[b] \in Nat
        /\ Tables \in Nat \ {0} /\ Index = 0..Tables - 1
    BY HeapAssumption DEF HeapRec, Index
  <1>2. PICK a \in F : h.size[a] = h.max
    BY <1>1 DEF Largest
  <1>3. PICK i \in Index : i = SizeToFreeIndex(h.size[a])
    BY <1>1, TableOf
  <1>4. PICK c \in Index : c = SizeToFreeIndex(n)
    BY TableOf
  <1>5. c <= i
    BY <1>1, <1>2, <1>3, <1>4, TableOf
  <1>6. PICK k \in 1..Len(h.table[i]) : h.table[i][k] = a
    BY <1>3 DEF Filed
  <1>7. k \in Enough(h, n, i)
    BY <1>1, <1>2, <1>6 DEF Enough
  <1>8. i \in c..Tables - 1
    BY <1>1, <1>5
  <1> QED
    BY <1>4, <1>7, <1>8 DEF Fits

\* A node given out: the front of a free node, of which the rest stays free.
LEMMA Taken ==
    ASSUME HeapAssumption, PowersOfTwo, NEW h, HeapOk(h), NEW n \in Nat \ {0}, Fits(h, n) # {},
           NEW g, g = Take(h, n)
    PROVE  /\ HeapOk(g) /\ h.used \subseteq g.used
           /\ InOrder(h, Free(h)) => InOrder(g, Free(g))
  <1> DEFINE s == h.size
             F == Free(h)
  <1>1. Body(h) /\ Filed(h, F) /\ Apart(s, F)
    BY DEF HeapOk
  <1>2. /\ h \in HeapRec /\ HeapSize \in Nat /\ s \in [Addr -> 0..HeapSize] /\ Dividing(s)
        /\ h.used \subseteq Addr /\ F \in SUBSET Addr
        /\ \A b \in Addr : b \in Nat /\ s[b] \in Nat
    BY <1>1, BodyTypes
  <1>3. PICK a \in F : a = FindNode(h, n) /\ s[a] >= n
    BY <1>1, <1>2, Found
  <1>4. a \in Addr /\ a \in Nat /\ s[a] > 0 /\ s[a] \in Nat /\ a \notin h.used
    BY <1>1, <1>2, <1>3, BodyTypes
  <1>5. PICK d : d = Delete(h, a)
    OBVIOUS
  <1>6. /\ d \in HeapRec /\ d.size = s /\ d.used = h.used
        /\ Filed(d, F \ {a})
        /\ TablesSorted(h) => TablesSorted(d)
        /\ TablesSorted(h) /\ Largest(h, F) => Largest(d, F \ {a})
    <2> HIDE DEF F
    <2> QED
      BY ONLY HeapAssumption, PowersOfTwo, <1>1, <1>2, <1>3, <1>5, DeleteFacts DEF s
  <1>7. CASE s[a] = n
    <2>1. g = [d EXCEPT !.used = h.used \cup {a}, !.size[a] = n]
      BY <1>3, <1>5, <1>6, <1>7 DEF Take
    <2>2. g \in HeapRec /\ g.size = s /\ g.used = h.used \cup {a} /\ g.table = d.table /\ g.max = d.max
      <3>1. [s EXCEPT ![a] = n] = s
        BY <1>2, <1>4, <1>7
      <3>2. PICK u \in SUBSET Addr : u = h.used \cup {a}
        BY <1>2, <1>4
      <3>3. g = [d EXCEPT !.used = u]
        <4>1. g = [d EXCEPT !.used = u, !.size = [d.size EXCEPT ![a] = n]]
          BY <2>1, <3>2
        <4>2. [d.size EXCEPT ![a] = n] = d.size
          BY <1>6, <3>1
        <4>3. [d EXCEPT !.used = u, !.size = d.size] = [d EXCEPT !.used = u]
          BY <1>6 DEF HeapRec
        <4> QED
          BY ONLY <4>1, <4>2, <4>3
      <3> QED
        BY ONLY <1>6, <3>2, <3>3 DEF HeapRec, s
    <2>3. Free(g) = F \ {a}
      BY <2>2 DEF Free, Node
    <2>4. Body(g)
      BY <1>1, <1>4, <2>2 DEF Body, Node
    <2>5. Filed(g, Free(g)) /\ (InOrder(h, F) => InOrder(g, Free(g)))
      BY <1>6, <2>2, <2>3 DEF Filed, InOrder, TablesSorted, Largest
    <2>6. Apart(g.size, Free(g))
      BY <1>1, <2>2, <2>3 DEF Apart
    <2> QED
      BY <2>2, <2>4, <2>5, <2>6 DEF HeapOk
  <1>8. CASE s[a] # n
    <2>1. PICK m : m = a + n
      OBVIOUS
    <2>2. m \in Addr /\ s[m] = 0 /\ m \in Nat /\ a < m /\ m < a + s[a] /\ m # a /\ n \in Nat /\ n > 0
      <3>1. n < s[a]
        BY <1>3, <1>4, <1>8
      <3>2. m \in Addr /\ s[m] = 0
        BY ONLY HeapAssumption, <1>2, <1>4, <2>1, <3>1, n \in Nat \ {0}, CutPlace
      <3> QED
        BY <1>2, <1>4, <2>1, <3>1, <3>2
    <2>3. PICK z : z = [s EXCEPT ![a] = n, ![m] = s[a] - n]
      OBVIOUS
    <2>4. /\ z \in [Addr -> Int] /\ z[a] = m - a /\ z[m] = a + s[a] - m /\ z[m] > 0 /\ z[a] > 0 /\ a + z[a] = m /\ m + z[m] = a + s[a]
          /\ \A b \in Addr \ {a, m} : z[b] = s[b]
      <3>0. PICK v \in Nat : v = s[a]
        BY <1>4
      <3>1. n \in Int /\ v - n \in Int /\ n = m - a /\ v - n = a + v - m /\ v - n > 0 /\ m + (v - n) = a + v /\ a + n = m
        BY ONLY <1>4, <2>1, <2>2, <3>0
      <3>2. \A b \in Addr : s[b] \in Int
        BY <1>2
      <3>3. z[a] = n /\ z[m] = v - n /\ z \in [Addr -> Int] /\ \A b \in Addr \ {a, m} : z[b] = s[b]
        BY ONLY <1>2, <1>4, <2>2, <2>3, <3>0, <3>1, <3>2
      <3> QED
        BY ONLY <2>2, <3>0, <3>1, <3>3
    <2>5. z \in [Addr -> 0..HeapSize] /\ Dividing(z)
      BY ONLY HeapAssumption, <1>2, <1>4, <2>2, <2>4, CutKeeps
    <2>6. PICK e : e = [d EXCEPT !.used = h.used \cup {a}, !.size = z]
      OBVIOUS
    <2>7. g = Insert(e, m)
      <3>1. g = Insert([[d EXCEPT !.used = h.used \cup {a}, !.size[a] = n] EXCEPT !.size[a + n] = s[a] - n], a + n)
        BY <1>3, <1>5, <1>6, <1>8 DEF Take
      <3>2. [[d EXCEPT !.used = h.used \cup {a}, !.size[a] = n] EXCEPT !.size[a + n] = s[a] - n] = e
        BY <1>2, <1>4, <1>6, <2>1, <2>2, <2>3, <2>6 DEF HeapRec
      <3> QED
        BY <2>1, <3>1, <3>2
    <2>8. e \in HeapRec /\ e.size = z /\ e.used = h.used \cup {a} /\ e.table = d.table /\ e.max = d.max
      BY <1>2, <1>4, <1>6, <2>5, <2>6 DEF HeapRec
    <2>9. m \notin h.used /\ m \notin F
      BY <1>1, <2>2, BodyTypes
    <2>10. Free(e) = (F \ {a}) \cup {m}
      <3>1. \A b \in Addr : b # a /\ b # m => z[b] = s[b]
        BY <2>4
      <3> QED
        BY <1>4, <2>2, <2>4, <2>8, <2>9, <3>1 DEF Free, Node
    <2>11. e.used \subseteq Node(e)
      <3>1. \A b \in h.used : b \in Addr /\ b # m /\ s[b] > 0
        BY <1>1, <2>9, BodyTypes
      <3> QED
        BY <1>4, <2>4, <2>8, <3>1 DEF Node
    <2>12. Body(e)
      BY <2>5, <2>8, <2>11 DEF Body
    <2>13. Free(e) \ {m} = F \ {a} /\ m \in Free(e) /\ \A b \in F \ {a} : e.size[b] = s[b]
      BY <1>2, <2>4, <2>8, <2>9, <2>10
    <2>14. Filed(e, Free(e) \ {m}) /\ (InOrder(h, F) => InOrder(e, Free(e) \ {m}))
      <3>1. PICK G : G = F \ {a}
        OBVIOUS
      <3>2. Filed(e, G) /\ (InOrder(d, G) => InOrder(e, G))
        <4>1. Filed(d, G) /\ \A b \in G : e.size[b] = d.size[b]
          BY <1>6, <2>13, <3>1
        <4> QED
          BY ONLY <1>6, <2>8, <4>1, Resized
      <3>3. InOrder(h, F) => InOrder(d, G)
        BY <1>6, <3>1 DEF InOrder
      <3> QED
        BY <2>13, <3>1, <3>2, <3>3
    <2>15. Apart(e.size, Free(e))
      <3> SUFFICES ASSUME NEW b \in Free(e), NEW c \in Free(e), b + z[b] = c PROVE FALSE
        BY <2>8 DEF Apart
      <3>1. \A x, y \in F : x + s[x] # y
        BY <1>1 DEF Apart
      <3>2. b \in Addr /\ z[b] > 0 /\ b # a /\ c # a
        BY <2>8, <2>10, <2>2, <1>3, <2>4, <2>9 DEF Free, Node
      <3>3. CASE c = m
        BY <1>4, <2>4, <2>5, <3>2, <3>3, OneBefore
      <3>4. CASE b = m /\ c # m
        BY <1>3, <2>4, <2>10, <3>1, <3>4
      <3>5. CASE b # m /\ c # m
        BY <2>4, <2>10, <3>1, <3>2, <3>5
      <3> QED
        BY <3>3, <3>4, <3>5
    <2>16. /\ HeapOk(g) /\ g.used = e.used
           /\ InOrder(e, Free(e) \ {m}) => InOrder(g, Free(g))
      BY ONLY HeapAssumption, PowersOfTwo, <2>7, <2>12, <2>13, <2>14, <2>15, Inserted
    <2> QED
      BY <2>8, <2>14, <2>16
  <1> QED
    BY <1>7, <1>8

\* The sizes z once the boundary between the node a and the free node m stands at c
Displaced(h, a, m, k, c, z) ==
    /\ z \in [Addr -> 0..HeapSize] /\ c \in Addr /\ c \notin Free(h) /\ z[c] = h.size[a] + h.size[m] - k
    /\ \A b \in Free(h) \ {m} : z[b] = h.size[b]
    /\ \A x \in HeapRec : x.size = z /\ x.used = h.used =>
        /\ Body(x) /\ Free(x) = (Free(h) \ {m}) \cup {c}
        /\ Apart(x.size, Free(x))

\* The boundary between a node given out and the free one behind it moves: the heap
\* stays divided, and the free node, at its new place, is alone.
LEMMA Shifted ==
    ASSUME HeapAssumption, NEW h, HeapOk(h), NEW a \in h.used, NEW m \in Free(h), m = a + h.size[a],
           NEW k \in Nat \ {0}, k # h.size[a], k < h.size[a] + h.size[m], NEW c, c = a + k,
           NEW z, z = [h.size EXCEPT ![a] = k, ![m] = 0, ![c] = h.size[a] + h.size[m] - k]
    PROVE  Displaced(h, a, m, k, c, z)
  <1>1. Body(h) /\ Filed(h, Free(h)) /\ Apart(h.size, Free(h))
    BY DEF HeapOk
  <1>2. PICK s \in [Addr -> 0..HeapSize] : s = h.size
    BY <1>1, BodyTypes
  <1>3. PICK F \in SUBSET Addr : F = Free(h)
    BY <1>1, BodyTypes
  <1>4. /\ HeapSize \in Nat /\ Dividing(s) /\ h.used \subseteq Addr
        /\ a \in Addr /\ m \in Addr /\ a \in Nat /\ m \in Nat /\ s[a] > 0 /\ s[m] > 0 /\ s[a] \in Nat /\ s[m] \in Nat
        /\ m \in F /\ a \notin F /\ m \notin h.used /\ m = a + s[a] /\ k # s[a] /\ k < s[a] + s[m]
        /\ z = [s EXCEPT ![a] = k, ![m] = 0, ![c] = s[a] + s[m] - k]
        /\ \A b \in Addr : b \in Nat /\ s[b] \in Nat
        /\ \A b \in F : s[b] > 0 /\ b \notin h.used
        /\ \A b \in h.used : b \in Addr /\ s[b] > 0
    BY <1>1, <1>2, <1>3, BodyTypes
  <1>5. /\ c \in Addr /\ s[c] = 0 /\ c # m
        /\ z \in [Addr -> 0..HeapSize] /\ Dividing(z)
        /\ z[a] = k /\ z[m] = 0 /\ z[c] = s[a] + s[m] - k
        /\ \A b \in Addr \ {a, m, c} : z[b] = s[b]
    <2>1. PICK y : y = [s EXCEPT ![a] = s[a] + s[m], ![m] = 0]
      OBVIOUS
    <2>2. /\ y \in [Addr -> 0..HeapSize] /\ Dividing(y) /\ y[a] = s[a] + s[m] /\ y[m] = 0 /\ a # m
          /\ \A b \in Addr \ {a, m} : y[b] = s[b]
      <3>1. Dividing(s) /\ a \in Addr /\ m \in Addr /\ s[a] > 0 /\ s[m] > 0 /\ m = a + s[a]
        BY ONLY <1>4
      <3> QED
        BY ONLY HeapAssumption, s \in [Addr -> 0..HeapSize], <2>1, <3>1, JoinKeeps
    <2>3. c \in Addr /\ y[c] = 0
      <3>1. k < y[a] /\ y \in [Addr -> 0..HeapSize] /\ Dividing(y) /\ a \in Addr
        BY ONLY <1>4, <2>2
      <3> QED
        BY ONLY HeapAssumption, <3>1, k \in Nat \ {0}, c = a + k, CutPlace
    <2>4. /\ c # m /\ c # a /\ a < c /\ c < a + y[a] /\ k = c - a /\ s[a] + s[m] - k = a + y[a] - c
          /\ k \in Int /\ s[a] + s[m] - k \in Int
      <3>1. PICK v, w \in Nat : v = s[a] /\ w = s[m]
        BY <1>4
      <3>2. /\ c # m /\ c # a /\ a < c /\ c < a + (v + w) /\ k = c - a /\ v + w - k = a + (v + w) - c
            /\ k \in Int /\ v + w - k \in Int
        BY ONLY <1>4, <3>1, k \in Nat \ {0}, c = a + k
      <3> QED
        BY ONLY <2>2, <3>1, <3>2
    <2>5. /\ z \in [Addr -> Int] /\ z[a] = c - a /\ z[c] = a + y[a] - c /\ z[m] = 0
          /\ \A b \in Addr \ {a, m, c} : z[b] = s[b]
      <3>1. \A b \in Addr : s[b] \in Int
        BY <1>4
      <3>2. PICK w \in Int : w = s[a] + s[m] - k
        BY <2>4
      <3>3. z = [s EXCEPT ![a] = k, ![m] = 0, ![c] = w]
        BY ONLY <1>4, <3>2
      <3>4. /\ z \in [Addr -> Int] /\ z[a] = k /\ z[c] = w /\ z[m] = 0
            /\ \A b \in Addr \ {a, m, c} : z[b] = s[b]
        BY ONLY <1>4, <2>3, <2>4, <3>1, <3>3, s \in [Addr -> 0..HeapSize]
      <3> QED
        BY ONLY <2>4, <3>2, <3>4
    <2>6. \A b \in Addr \ {a, c} : z[b] = y[b]
      BY <2>2, <2>5
    <2>7. z \in [Addr -> 0..HeapSize] /\ Dividing(z)
      <3>1. /\ y \in [Addr -> 0..HeapSize] /\ Dividing(y) /\ a \in Addr /\ c \in Addr
            /\ a < c /\ c < a + y[a] /\ y[c] = 0
            /\ z \in [Addr -> Int] /\ z[a] = c - a /\ z[c] = a + y[a] - c
        BY ONLY <1>4, <2>2, <2>3, <2>4, <2>5
      <3> QED
        BY ONLY HeapAssumption, <2>6, <3>1, CutKeeps
    <2>8. s[c] = 0
      BY <2>2, <2>3, <2>4
    <2>9. z[a] = k /\ z[c] = s[a] + s[m] - k
      BY ONLY <2>4, <2>5
    <2> QED
      BY ONLY <2>3, <2>4, <2>5, <2>7, <2>8, <2>9
  <1>6. /\ k \in Nat /\ k > 0 /\ z[c] > 0 /\ z[c] \in Nat /\ a + z[a] = c /\ c + z[c] = m + s[m] /\ c \in Nat /\ c # a
    <2>1. PICK v, w \in Nat : v = s[a] /\ w = s[m]
      BY <1>4
    <2>2. k \in Nat /\ k > 0 /\ v + w - k > 0 /\ v + w - k \in Nat /\ c + (v + w - k) = m + w /\ c # a
      BY ONLY <1>4, <2>1, k \in Nat \ {0}, c = a + k
    <2> QED
      BY ONLY <1>4, <1>5, <2>1, <2>2, c = a + k
  <1>7. c \notin F /\ c \notin h.used
    <2>1. ~(s[c] > 0)
      BY <1>4, <1>5
    <2> QED
      BY <1>4, <2>1
  <1>8. \A b \in F \ {m} : z[b] = s[b]
    BY <1>4, <1>5, <1>7
  <1>9. ASSUME NEW x \in HeapRec, x.size = z, x.used = h.used
        PROVE  /\ Body(x) /\ Free(x) = (F \ {m}) \cup {c}
               /\ Apart(x.size, Free(x))
    <2>1. \A b \in Addr : b # a /\ b # m /\ b # c => z[b] = s[b]
      BY <1>5
    <2>2. x.used \subseteq Node(x)
      <3>1. \A b \in h.used : b \in Addr /\ z[b] > 0
        BY <1>4, <1>5, <1>6, <1>7, <2>1
      <3> QED
        BY <1>9, <3>1 DEF Node
    <2>3. Body(x)
      BY <1>5, <1>9, <2>2 DEF Body
    <2>4. F = {b \in Addr : s[b] > 0} \ h.used
      BY <1>2, <1>3 DEF Free, Node
    <2>5. Free(x) = {b \in Addr : z[b] > 0} \ h.used
      BY <1>9 DEF Free, Node
    <2>6. Free(x) = (F \ {m}) \cup {c}
      <3>1. ASSUME NEW b \in Addr PROVE b \in Free(x) <=> b \in (F \ {m}) \cup {c}
        <4>1. CASE b = a
          BY <1>4, <1>6, <2>5, <4>1
        <4>2. CASE b = m
          BY <1>5, <2>5, <4>2
        <4>3. CASE b = c
          BY <1>5, <1>6, <1>7, <2>5, <4>3
        <4>4. CASE b # a /\ b # m /\ b # c
          BY <2>1, <2>4, <2>5, <4>4
        <4> QED
          BY <4>1, <4>2, <4>3, <4>4
      <3>2. Free(x) \subseteq Addr /\ (F \ {m}) \cup {c} \subseteq Addr
        BY <1>5, <2>5
      <3> QED
        BY <3>1, <3>2
    <2>7. Apart(x.size, Free(x))
      <3> SUFFICES ASSUME NEW b \in Free(x), NEW d \in Free(x), b + z[b] = d PROVE FALSE
        BY <1>9 DEF Apart
      <3>1. \A u, v \in F : u + s[u] # v
        BY <1>1, <1>2, <1>3 DEF Apart
      <3>2. b \in Addr /\ z[b] > 0 /\ b # a
        BY <1>4, <1>6, <2>6, <2>5
      <3>3. CASE d = c
        BY <1>4, <1>5, <1>6, <3>2, <3>3, OneBefore
      <3>4. CASE b = c /\ d # c
        BY <1>4, <1>6, <2>6, <3>1, <3>4
      <3>5. CASE b # c /\ d # c
        BY <1>8, <2>6, <3>1, <3>5
      <3> QED
        BY <3>3, <3>4, <3>5
    <2> QED
      BY <2>3, <2>6, <2>7
  <1> QED
    BY <1>2, <1>3, <1>5, <1>7, <1>8, <1>9 DEF Displaced

\* The free node taken out of the tables before the boundary moves, and put in after it.
LEMMA Refiled ==
    ASSUME HeapAssumption, PowersOfTwo, NEW h, HeapOk(h), NEW a \in h.used, NEW m \in Free(h), m = a + h.size[a],
           NEW k \in Nat \ {0}, k # h.size[a], k < h.size[a] + h.size[m], NEW c, c = a + k,
           NEW z, z = [h.size EXCEPT ![a] = k, ![m] = 0, ![c] = h.size[a] + h.size[m] - k],
           NEW e, e = [Delete(h, m) EXCEPT !.size = z],
           NEW g, g = Insert(e, c)
    PROVE  /\ HeapOk(g) /\ g.used = h.used
           /\ InOrder(h, Free(h)) => InOrder(g, Free(g))
  <1>1. Body(h) /\ Filed(h, Free(h))
    BY DEF HeapOk
  <1>2. PICK F \in SUBSET Addr : F = Free(h)
    BY <1>1, BodyTypes
  <1>3. /\ z \in [Addr -> 0..HeapSize] /\ c \in Addr /\ c \notin F
        /\ \A b \in F \ {m} : z[b] = h.size[b]
        /\ \A x \in HeapRec : x.size = z /\ x.used = h.used =>
                /\ Body(x) /\ Free(x) = (F \ {m}) \cup {c}
                /\ Apart(x.size, Free(x))
    BY <1>2, Shifted DEF Displaced
  <1>4. PICK d : d = Delete(h, m)
    OBVIOUS
  <1>5. /\ d \in HeapRec /\ d.size = h.size /\ d.used = h.used
        /\ Filed(d, F \ {m})
        /\ TablesSorted(h) => TablesSorted(d)
        /\ TablesSorted(h) /\ Largest(h, F) => Largest(d, F \ {m})
    <2>1. h \in HeapRec /\ Filed(h, F) /\ m \in F
      BY <1>1, <1>2, BodyTypes
    <2> QED
      BY ONLY HeapAssumption, PowersOfTwo, F \in SUBSET Addr, <1>4, <2>1, DeleteFacts
  <1>6. e \in HeapRec /\ e.size = z /\ e.used = h.used /\ e.table = d.table /\ e.max = d.max
    BY <1>3, <1>4, <1>5 DEF HeapRec
  <1>7. Body(e) /\ Free(e) = (F \ {m}) \cup {c} /\ Apart(e.size, Free(e))
    BY ONLY <1>3, <1>6
  <1>8. Free(e) \ {c} = F \ {m} /\ c \in Free(e)
    BY <1>3, <1>7
  <1>9. Filed(e, Free(e) \ {c}) /\ (InOrder(h, F) => InOrder(e, Free(e) \ {c}))
    <2>1. PICK G : G = F \ {m}
      OBVIOUS
    <2>2. Filed(e, G) /\ (InOrder(d, G) => InOrder(e, G))
      <3>1. Filed(d, G) /\ \A b \in G : e.size[b] = d.size[b]
        BY <1>3, <1>5, <1>6, <2>1
      <3> QED
        BY ONLY <1>5, <1>6, <3>1, Resized
    <2>3. InOrder(h, F) => InOrder(d, G)
      BY <1>5, <2>1 DEF InOrder
    <2> QED
      BY <1>8, <2>1, <2>2, <2>3
  <1>10. /\ HeapOk(g) /\ g.used = e.used
         /\ InOrder(e, Free(e) \ {c}) => InOrder(g, Free(g))
    BY ONLY HeapAssumption, PowersOfTwo, <1>7, <1>8, <1>9, g = Insert(e, c), Inserted
  <1> QED
    BY <1>2, <1>6, <1>9, <1>10

\* What is true of the heap between two calls: every free node is filed under its size
\* and none lies behind another; until a free node grew in place the tables are sorted
\* and free_max is right.
HeapInv ==
    /\ HeapOk(heap)
    /\ grown \in BOOLEAN /\ failed \subseteq 1..HeapSize + 1
    /\ ~grown => InOrder(heap, Free(heap)) /\ failed \subseteq {HeapSize + 1}

\* A heap that was made in one of the two ways of HeapOk and InOrder keeps the invariant.
LEMMA HeapKept ==
    ASSUME HeapInv, HeapOk(heap'), grown' = grown, failed' = failed,
           InOrder(heap, Free(heap)) => InOrder(heap', Free(heap'))
    PROVE  HeapInv'
  <1>1. ~grown => InOrder(heap', Free(heap')) /\ failed \subseteq {HeapSize + 1}
    BY DEF HeapInv
  <1>2. HeapOk(heap') /\ grown \in BOOLEAN /\ failed \subseteq 1..HeapSize + 1
    BY DEF HeapInv
  <1> QED
    BY <1>1, <1>2 DEF HeapInv

\* e_heap_malloc keeps the invariant.
LEMMA MallocKeeps ==
    ASSUME HeapAssumption, PowersOfTwo, HeapInv, NEW n \in Nat \ {0}, n <= AllocMax, Malloc(n)
    PROVE  HeapInv'
  <1>1. /\ HeapOk(heap) /\ Body(heap) /\ Filed(heap, Free(heap)) /\ heap \in HeapRec /\ HeapSize \in Nat
        /\ Free(heap) \in SUBSET Addr
    <2>1. HeapOk(heap) /\ Body(heap) /\ Filed(heap, Free(heap))
      BY DEF HeapInv, HeapOk
    <2> QED
      BY <2>1, BodyTypes
  <1>2. n <= heap.max
    BY DEF Malloc
  <1>3. CASE Fits(heap, n) # {}
    <2>1. heap' = Take(heap, n) /\ grown' = grown /\ failed' = failed
      BY <1>3 DEF Malloc
    <2>2. HeapOk(heap') /\ (InOrder(heap, Free(heap)) => InOrder(heap', Free(heap')))
      BY <1>1, <1>3, <2>1, Taken
    <2> QED
      BY <2>1, <2>2, HeapKept
  <1>4. CASE Fits(heap, n) = {}
    <2>1. heap' = heap /\ grown' = grown /\ failed' = failed \cup {n}
      BY <1>4 DEF Malloc
    <2>2. grown = TRUE
      <3>1. ~Largest(heap, Free(heap))
        BY <1>1, <1>2, <1>4, PromiseKept
      <3> QED
        BY <3>1 DEF HeapInv, InOrder
    <2>3. n \in 1..HeapSize + 1
      BY <1>1 DEF AllocMax
    <2>4. HeapOk(heap') /\ grown' = TRUE /\ failed' \subseteq 1..HeapSize + 1
      BY <1>1, <2>1, <2>2, <2>3 DEF HeapInv
    <2> QED
      BY <2>4 DEF HeapInv
  <1> QED
    BY <1>3, <1>4

\* e_heap_free keeps the invariant.
LEMMA HeapFreeKeeps ==
    ASSUME HeapAssumption, PowersOfTwo, HeapInv, NEW a \in Addr, HeapFree(a)
    PROVE  HeapInv'
  <1>1. HeapOk(heap) /\ a \in heap.used /\ heap' = Release(heap, a) /\ grown' = grown /\ failed' = failed
    BY DEF HeapInv, HeapFree
  <1>2. HeapOk(heap') /\ (InOrder(heap, Free(heap)) => InOrder(heap', Free(heap')))
    BY <1>1, Released
  <1> QED
    BY <1>1, <1>2, HeapKept

\* e_heap_realloc to more, from the free node behind, keeps the invariant.
LEMMA ReallocGrowKeeps ==
    ASSUME HeapAssumption, PowersOfTwo, HeapInv, NEW a \in Addr, NEW n \in Nat \ {0}, ReallocGrow(a, n)
    PROVE  HeapInv'
  <1>1. HeapOk(heap) /\ Body(heap) /\ Filed(heap, Free(heap)) /\ Apart(heap.size, Free(heap))
    BY DEF HeapInv, HeapOk
  <1>2. PICK s \in [Addr -> 0..HeapSize] : s = heap.size
    BY <1>1, BodyTypes
  <1>3. /\ a \in heap.used /\ s[a] < n /\ n <= s[a] + FreeAfter(a) /\ grown' = grown /\ failed' = failed
        /\ s[a] \in Nat /\ s[a] > 0 /\ a \notin Free(heap) /\ a \in Nat /\ HeapSize \in Nat /\ Dividing(s)
    BY <1>1, <1>2, BodyTypes DEF ReallocGrow
  <1>4. PICK m \in Free(heap) : m = a + s[a] /\ FreeAfter(a) = s[m] /\ After(a) = m
    <2>1. After(a) = a + s[a]
      BY <1>2 DEF After
    <2>2. After(a) \in Free(heap)
      <3>1. CASE After(a) \notin Free(heap)
        <4>1. FreeAfter(a) = 0
          BY <3>1 DEF FreeAfter
        <4>2. n \in Nat
          OBVIOUS
        <4> QED
          BY <1>3, <4>1, <4>2
      <3> QED
        BY <3>1
    <2>3. FreeAfter(a) = s[After(a)]
      BY <1>2, <2>2 DEF FreeAfter
    <2> QED
      BY <2>1, <2>2, <2>3
  <1>5. m \in Addr /\ s[m] > 0 /\ s[m] \in Nat /\ m # a /\ m \notin heap.used /\ m \in Nat
    BY <1>1, <1>2, <1>3, BodyTypes
  <1>6. PICK v, w \in Nat : v = s[a] /\ w = s[m]
    BY <1>3, <1>5
  <1>7. PICK d : d = Delete(heap, m)
    OBVIOUS
  <1>8. PICK F \in SUBSET Addr : F = Free(heap)
    BY <1>1, BodyTypes
  <1>9. /\ d \in HeapRec /\ d.size = s /\ d.used = heap.used
        /\ Filed(d, F \ {m})
        /\ TablesSorted(heap) => TablesSorted(d)
        /\ TablesSorted(heap) /\ Largest(heap, F) => Largest(d, F \ {m})
    <2>1. heap \in HeapRec /\ Filed(heap, F) /\ m \in F
      BY <1>1, <1>8, BodyTypes
    <2> QED
      BY ONLY HeapAssumption, PowersOfTwo, F \in SUBSET Addr, <1>2, <1>7, <2>1, DeleteFacts
  <1>10. heap' = IF v + w - n = 0 THEN [d EXCEPT !.size[m] = 0, !.size[a] = n]
                 ELSE Insert([[d EXCEPT !.size[m] = 0, !.size[a] = n] EXCEPT !.size[a + n] = v + w - n], a + n)
    BY <1>2, <1>4, <1>6, <1>7 DEF ReallocGrow
  <1>11. CASE n = v + w
    <2>1. PICK z : z = [s EXCEPT ![a] = s[a] + s[m], ![m] = 0]
      OBVIOUS
    <2>2. /\ z \in [Addr -> 0..HeapSize] /\ Dividing(z)
          /\ z[a] = s[a] + s[m] /\ z[m] = 0
          /\ \A b \in Addr \ {a, m} : z[b] = s[b]
      BY ONLY HeapAssumption, s \in [Addr -> 0..HeapSize], a \in Addr, <1>3, <1>4, <1>5, <2>1, JoinKeeps
    <2>3. heap' = [d EXCEPT !.size = z]
      <3>1. heap' = [d EXCEPT !.size[m] = 0, !.size[a] = n]
        BY ONLY <1>6, <1>10, <1>11
      <3>2. [[s EXCEPT ![m] = 0] EXCEPT ![a] = n] = z
        BY <1>5, <1>6, <1>11, <2>1
      <3> QED
        BY <1>9, <3>1, <3>2 DEF HeapRec
    <2>4. heap' \in HeapRec /\ heap'.size = z /\ heap'.used = heap.used /\ heap'.table = d.table /\ heap'.max = d.max
      BY <1>9, <2>2, <2>3 DEF HeapRec
    <2>5. \A b \in Addr : b # a /\ b # m => z[b] = s[b]
      BY <2>2
    <2>6. z[a] > 0 /\ z[m] = 0
      BY <1>3, <1>5, <2>2
    <2>7. Free(heap') = F \ {m}
      <3>1. F = {b \in Addr : s[b] > 0} \ heap.used /\ Free(heap') = {b \in Addr : z[b] > 0} \ heap.used
        BY <1>2, <1>8, <2>4 DEF Free, Node
      <3>2. ASSUME NEW b \in Addr PROVE b \in Free(heap') <=> b \in F \ {m}
        <4>1. CASE b = a
          BY <1>3, <3>1, <4>1
        <4>2. CASE b = m
          BY <2>6, <3>1, <4>2
        <4>3. CASE b # a /\ b # m
          BY <2>5, <3>1, <4>3
        <4> QED
          BY <4>1, <4>2, <4>3
      <3> QED
        BY <3>1, <3>2
    <2>8. heap'.used \subseteq Node(heap')
      <3>1. \A b \in heap.used : b \in Addr /\ s[b] > 0 /\ b # m
        BY <1>1, <1>2, <1>5, BodyTypes
      <3> QED
        BY <2>4, <2>5, <2>6, <3>1 DEF Node
    <2>9. Body(heap')
      BY <2>2, <2>4, <2>8 DEF Body
    <2>10. \A b \in F \ {m} : z[b] = s[b]
      BY <1>3, <1>8, <2>5
    <2>11. Filed(heap', Free(heap')) /\ (InOrder(heap, Free(heap)) => InOrder(heap', Free(heap')))
      <3>1. PICK G : G = F \ {m}
        OBVIOUS
      <3>2. Filed(heap', G) /\ (InOrder(d, G) => InOrder(heap', G))
        <4>1. Filed(d, G) /\ \A b \in G : heap'.size[b] = d.size[b]
          BY <1>9, <2>4, <2>10, <3>1
        <4> QED
          BY ONLY <1>9, <2>4, <4>1, Resized
      <3>3. InOrder(heap, F) => InOrder(d, G)
        BY <1>9, <3>1 DEF InOrder
      <3> QED
        BY <1>8, <2>7, <3>1, <3>2, <3>3
    <2>12. Apart(heap'.size, Free(heap'))
      BY <1>1, <1>2, <1>8, <2>4, <2>7, <2>10 DEF Apart
    <2>13. HeapOk(heap')
      BY <2>9, <2>11, <2>12 DEF HeapOk
    <2> QED
      BY <1>3, <2>11, <2>13, HeapKept
  <1>12. CASE n # v + w
    <2>1. n \in Nat /\ n < v + w /\ n # v /\ v + w - n # 0
      BY ONLY <1>3, <1>4, <1>6, <1>12, n \in Nat \ {0}
    <2>2. PICK c : c = a + n
      OBVIOUS
    <2>3. PICK z : z = [s EXCEPT ![a] = n, ![m] = 0, ![c] = v + w - n]
      OBVIOUS
    <2>4. PICK e : e = [d EXCEPT !.size = z]
      OBVIOUS
    <2>5. heap' = Insert(e, c)
      <3>1. heap' = Insert([[d EXCEPT !.size[m] = 0, !.size[a] = n] EXCEPT !.size[c] = v + w - n], c)
        BY ONLY <1>10, <2>1, <2>2
      <3>2. [[[s EXCEPT ![m] = 0] EXCEPT ![a] = n] EXCEPT ![c] = v + w - n] = z
        BY <1>5, <2>3
      <3>3. [[d EXCEPT !.size[m] = 0, !.size[a] = n] EXCEPT !.size[c] = v + w - n] = e
        BY <1>9, <2>4, <3>2 DEF HeapRec
      <3> QED
        BY ONLY <3>1, <3>3
    <2>6. /\ HeapOk(heap') /\ heap'.used = heap.used
          /\ InOrder(heap, Free(heap)) => InOrder(heap', Free(heap'))
      <3>1. /\ m = a + heap.size[a] /\ n # heap.size[a] /\ n < heap.size[a] + heap.size[m]
            /\ z = [heap.size EXCEPT ![a] = n, ![m] = 0, ![c] = heap.size[a] + heap.size[m] - n]
            /\ e = [Delete(heap, m) EXCEPT !.size = z]
        BY <1>2, <1>4, <1>6, <1>7, <2>1, <2>3, <2>4
      <3> QED
        BY ONLY HeapAssumption, PowersOfTwo, <1>1, <1>3, <1>4, <2>2, <2>5, <3>1, n \in Nat \ {0}, Refiled
    <2> QED
      BY <1>3, <2>6, HeapKept
  <1> QED
    BY <1>11, <1>12

\* e_heap_realloc to more, from elsewhere, keeps the invariant.
LEMMA ReallocMoveKeeps ==
    ASSUME HeapAssumption, PowersOfTwo, HeapInv, NEW a \in Addr, NEW n \in Nat \ {0}, n <= HeapSize + 1,
           ReallocMove(a, n)
    PROVE  HeapInv'
  <1>1. /\ HeapOk(heap) /\ Filed(heap, Free(heap)) /\ heap \in HeapRec /\ HeapSize \in Nat
        /\ Free(heap) \in SUBSET Addr /\ a \in heap.used /\ grown' = grown
    <2>1. HeapOk(heap) /\ Body(heap) /\ Filed(heap, Free(heap)) /\ a \in heap.used /\ grown' = grown
      BY DEF HeapInv, HeapOk, ReallocMove
    <2> QED
      BY <2>1, BodyTypes
  <1>2. CASE n <= heap.max /\ Fits(heap, n) # {} /\ heap' = Release(Take(heap, n), a) /\ failed' = failed
    <2>1. PICK g : g = Take(heap, n)
      OBVIOUS
    <2>2. HeapOk(g) /\ heap.used \subseteq g.used /\ (InOrder(heap, Free(heap)) => InOrder(g, Free(g)))
      BY <1>1, <1>2, <2>1, Taken
    <2>3. a \in g.used /\ heap' = Release(g, a)
      BY <1>1, <1>2, <2>1, <2>2
    <2>4. HeapOk(heap') /\ (InOrder(g, Free(g)) => InOrder(heap', Free(heap')))
      BY <2>2, <2>3, Released
    <2> QED
      BY <1>1, <1>2, <2>2, <2>4, HeapKept
  <1>3. CASE heap' = Release(heap, a) /\ failed' = failed
    <2>1. HeapOk(heap') /\ (InOrder(heap, Free(heap)) => InOrder(heap', Free(heap')))
      BY <1>1, <1>3, Released
    <2> QED
      BY <1>1, <1>3, <2>1, HeapKept
  <1>4. CASE /\ n > HeapSize \/ (n <= heap.max /\ Fits(heap, n) = {})
             /\ failed' = failed \cup {n} /\ heap' = heap
    <2>1. n \in 1..HeapSize + 1
      BY <1>1
    <2>2. n = HeapSize + 1 \/ grown = TRUE
      <3>1. CASE n > HeapSize
        BY <1>1, <3>1
      <3>2. CASE n <= heap.max /\ Fits(heap, n) = {}
        <4>1. ~Largest(heap, Free(heap))
          BY <1>1, <3>2, PromiseKept
        <4> QED
          BY <4>1 DEF HeapInv, InOrder
      <3> QED
        BY <1>4, <3>1, <3>2
    <2>3. /\ HeapOk(heap') /\ grown' \in BOOLEAN /\ failed' \subseteq 1..HeapSize + 1
      BY <1>1, <1>4, <2>1 DEF HeapInv
    <2>4. ~grown' => InOrder(heap', Free(heap')) /\ failed' \subseteq {HeapSize + 1}
      <3> SUFFICES ASSUME ~grown' PROVE InOrder(heap', Free(heap')) /\ failed' \subseteq {HeapSize + 1}
        OBVIOUS
      <3>1. ~grown
        BY <1>1
      <3>2. InOrder(heap, Free(heap)) /\ failed \subseteq {HeapSize + 1}
        BY <3>1 DEF HeapInv
      <3>3. n = HeapSize + 1
        BY <2>2, <3>1
      <3> QED
        BY <1>4, <3>2, <3>3
    <2> QED
      BY <2>3, <2>4 DEF HeapInv
  <1> QED
    BY <1>2, <1>3, <1>4 DEF ReallocMove

\* e_heap_realloc to less keeps the invariant.
LEMMA ReallocShrinkKeeps ==
    ASSUME HeapAssumption, PowersOfTwo, HeapInv, NEW a \in Addr, NEW n \in Nat \ {0}, ReallocShrink(a, n)
    PROVE  HeapInv'
  <1>1. HeapOk(heap) /\ Body(heap) /\ Filed(heap, Free(heap)) /\ Apart(heap.size, Free(heap)) /\ heap.used \subseteq Node(heap)
    BY DEF HeapInv, HeapOk, Body
  <1>2. PICK s \in [Addr -> 0..HeapSize] : s = heap.size
    BY <1>1, BodyTypes
  <1>3. PICK F \in SUBSET Addr : F = Free(heap)
    BY <1>1, BodyTypes
  <1>4. /\ a \in heap.used /\ n < s[a] /\ failed' = failed /\ n \in Nat /\ n > 0
        /\ s[a] \in Nat /\ s[a] > 0 /\ a \notin F /\ a \in Nat /\ HeapSize \in Nat /\ Dividing(s)
        /\ heap \in HeapRec /\ heap.used \subseteq Addr
        /\ \A b \in Addr : b \in Nat /\ s[b] \in Nat
        /\ \A b \in F : b \notin heap.used /\ s[b] > 0
        /\ \A b \in heap.used : s[b] > 0
    BY <1>1, <1>2, <1>3, BodyTypes DEF ReallocShrink
  <1>5. PICK c, m : c = a + n /\ m = a + s[a]
    OBVIOUS
  <1>6. PICK v \in Nat : v = s[a]
    BY <1>4
  <1>7. m = After(a)
    BY <1>2, <1>5 DEF After
  <1>8. c \in Addr /\ s[c] = 0
    BY ONLY HeapAssumption, s \in [Addr -> 0..HeapSize], a \in Addr, <1>4, <1>5, n \in Nat \ {0}, CutPlace
  <1>9. /\ c \in Nat /\ a < c /\ c < a + v /\ c < m /\ n = c - a /\ v - n = a + v - c /\ v - n \in Nat /\ v - n > 0 /\ c # a
        /\ c + (v - n) = m /\ m \in Nat /\ c \notin F /\ c \notin heap.used
    <2>1. c \notin F /\ c \notin heap.used
      <3>1. ~(s[c] > 0)
        BY ONLY <1>8
      <3>2. (\A b \in F : s[b] > 0) /\ (\A b \in heap.used : s[b] > 0)
        BY ONLY <1>4
      <3> QED
        BY ONLY <3>1, <3>2
    <2> QED
      BY ONLY <1>4, <1>5, <1>6, <2>1
  <1>10. \/ /\ m \notin F
            /\ heap' = Insert([heap EXCEPT !.size[a] = n, !.size[a + n] = v - n], a + n)
            /\ grown' = grown
         \/ /\ m \in F
            /\ heap' = Insert([[heap EXCEPT !.size[a] = n, !.size[m] = 0, !.size[a + n] = (v - n) + s[m]]
                                EXCEPT !.table = Delete(heap, m).table, !.max = Delete(heap, m).max], a + n)
            /\ grown' = grown
         \/ /\ m \in F
            /\ SizeToFreeIndex(s[m] + (v - n)) = SizeToFreeIndex(s[m])
            /\ \E w : /\ w = [heap EXCEPT !.size[a] = n, !.size[m] = 0, !.size[a + n] = (v - n) + s[m]]
                      /\ heap' = [w EXCEPT !.table[SizeToFreeIndex(s[m])] = ReplaceAll(@, m, a + n),
                                           !.max = Max({@, w.size[a + n]})]
            /\ grown' = TRUE
    BY <1>2, <1>3, <1>6, <1>7 DEF ReallocShrink
  <1>11. CASE /\ m \notin F /\ grown' = grown
              /\ heap' = Insert([heap EXCEPT !.size[a] = n, !.size[a + n] = v - n], a + n)
    <2>1. PICK z : z = [s EXCEPT ![a] = n, ![c] = v - n]
      OBVIOUS
    <2>2. /\ z \in [Addr -> Int] /\ z[a] = n /\ z[c] = v - n
          /\ \A b \in Addr \ {a, c} : z[b] = s[b]
      <3>1. \A b \in Addr : s[b] \in Int
        <4>1. \A b \in Addr : s[b] \in Nat
          BY ONLY <1>4
        <4> QED
          BY ONLY <4>1
      <3>2. n \in Int /\ v - n \in Int
        BY <1>4, <1>9
      <3> QED
        BY ONLY <1>8, <1>9, <2>1, <3>1, <3>2, s \in [Addr -> 0..HeapSize], a \in Addr
    <2>3. z \in [Addr -> 0..HeapSize] /\ Dividing(z)
      <3>1. a < c /\ c < a + s[a] /\ s[c] = 0 /\ z[a] = c - a /\ z[c] = a + s[a] - c
        BY ONLY <1>6, <1>8, <1>9, <2>2
      <3> QED
        BY ONLY HeapAssumption, s \in [Addr -> 0..HeapSize], a \in Addr, <1>4, <1>8, <2>2, <3>1, CutKeeps
    <2>4. PICK e : e = [heap EXCEPT !.size = z]
      OBVIOUS
    <2>5. e \in HeapRec /\ e.size = z /\ e.used = heap.used /\ e.table = heap.table /\ e.max = heap.max
      BY <1>4, <2>3, <2>4 DEF HeapRec
    <2>6. heap' = Insert(e, c)
      <3>1. [heap EXCEPT !.size[a] = n, !.size[a + n] = v - n] = e
        BY <1>2, <1>4, <1>5, <2>1, <2>4 DEF HeapRec
      <3> QED
        BY ONLY <1>5, <1>11, <3>1
    <2>7. Free(e) = F \cup {c}
      <3>1. F = {b \in Addr : s[b] > 0} \ heap.used /\ Free(e) = {b \in Addr : z[b] > 0} \ heap.used
        BY <1>2, <1>3, <2>5 DEF Free, Node
      <3>2. ASSUME NEW b \in Addr PROVE b \in Free(e) <=> b \in F \cup {c}
        <4>1. CASE b = a
          BY <1>4, <1>9, <3>1, <4>1
        <4>2. CASE b = c
          BY <1>9, <2>2, <3>1, <4>2
        <4>3. CASE b # a /\ b # c
          BY <2>2, <3>1, <4>3
        <4> QED
          BY <4>1, <4>2, <4>3
      <3>3. Free(e) \subseteq Addr /\ F \cup {c} \subseteq Addr
        BY <1>8, <3>1
      <3> QED
        BY <3>2, <3>3
    <2>8. Body(e)
      <3>1. \A b \in heap.used : b \in Addr /\ z[b] > 0
        <4>1. \A b \in Addr : b # a /\ b # c => z[b] = s[b]
          BY <2>2
        <4> QED
          BY <1>4, <1>9, <2>2, <4>1
      <3>2. e.used \subseteq Node(e)
        BY <2>5, <3>1 DEF Node
      <3> QED
        BY <2>3, <2>5, <3>2 DEF Body
    <2>9. Free(e) \ {c} = F /\ c \in Free(e) /\ \A b \in F : e.size[b] = heap.size[b]
      BY <1>2, <1>4, <1>9, <2>2, <2>5, <2>7
    <2>10. Filed(e, F) /\ (InOrder(heap, F) => InOrder(e, F))
      <3>1. Filed(heap, F)
        BY <1>1, <1>3
      <3> QED
        BY ONLY <1>4, <2>5, <2>9, <3>1, Resized
    <2>11. Apart(e.size, Free(e))
      <3> SUFFICES ASSUME NEW b \in Free(e), NEW d \in Free(e), b + z[b] = d PROVE FALSE
        BY <2>5 DEF Apart
      <3>1. \A x, y \in F : x + s[x] # y
        BY <1>1, <1>2, <1>3 DEF Apart
      <3>2. b \in Addr /\ z[b] > 0 /\ b # a
        BY <1>4, <1>9, <2>5, <2>7 DEF Free, Node
      <3>3. CASE d = c
        <4>1. a + z[a] = c /\ z[a] > 0
          BY <1>4, <1>5, <2>2
        <4>2. b + z[b] = a + z[a]
          BY <3>3, <4>1
        <4> QED
          BY ONLY HeapAssumption, a \in Addr, <2>3, <3>2, <4>1, <4>2, OneBefore
      <3>4. CASE b = c /\ d # c
        BY <1>9, <1>11, <2>2, <2>7, <3>4
      <3>5. CASE b # c /\ d # c
        BY <1>2, <2>5, <2>7, <2>9, <3>1, <3>5
      <3> QED
        BY <3>3, <3>4, <3>5
    <2>12. /\ HeapOk(heap')
           /\ InOrder(e, Free(e) \ {c}) => InOrder(heap', Free(heap'))
      <3>1. Filed(e, Free(e) \ {c})
        BY <2>9, <2>10
      <3> QED
        BY ONLY HeapAssumption, PowersOfTwo, <2>6, <2>8, <2>9, <2>11, <3>1, Inserted
    <2>13. InOrder(heap, Free(heap)) => InOrder(heap', Free(heap'))
      BY <1>3, <2>9, <2>10, <2>12
    <2> QED
      BY <1>4, <1>11, <2>12, <2>13, HeapKept
  <1>12. ASSUME m \in F
         PROVE  /\ m \in Addr /\ m # a /\ m # c /\ s[m] \in Nat /\ s[m] > 0
                /\ \E u, z : /\ u \in Nat /\ u = s[m]
                             /\ z = [s EXCEPT ![a] = n, ![m] = 0, ![c] = (v - n) + u]
                             /\ z = [heap.size EXCEPT ![a] = n, ![m] = 0, ![c] = heap.size[a] + heap.size[m] - n]
                             /\ m \in Free(heap) /\ m = a + heap.size[a] /\ n # heap.size[a] /\ n < heap.size[a] + heap.size[m]
    <2>1. m \in Addr /\ m # a /\ m # c /\ s[m] \in Nat /\ s[m] > 0 /\ m \in Free(heap)
      BY <1>3, <1>4, <1>9, <1>12
    <2>2. PICK u \in Nat : u = s[m]
      BY <2>1
    <2>3. PICK x : x = (v - n) + u
      OBVIOUS
    <2>4. x = v + u - n /\ n # v /\ n < v + u
      BY ONLY <1>4, <1>6, <1>9, <2>3
    <2>5. PICK z : z = [s EXCEPT ![a] = n, ![m] = 0, ![c] = x]
      OBVIOUS
    <2>6. heap.size[a] + heap.size[m] - n = x /\ n # heap.size[a] /\ n < heap.size[a] + heap.size[m] /\ m = a + heap.size[a]
      BY ONLY <1>2, <1>5, <1>6, <2>2, <2>4
    <2>7. z = [heap.size EXCEPT ![a] = n, ![m] = 0, ![c] = heap.size[a] + heap.size[m] - n]
      BY ONLY <1>2, <2>5, <2>6
    <2>8. z = [s EXCEPT ![a] = n, ![m] = 0, ![c] = (v - n) + u]
      BY ONLY <2>3, <2>5
    <2> QED
      BY ONLY <2>1, <2>2, <2>6, <2>7, <2>8
  <1>13. CASE /\ m \in F /\ grown' = grown
              /\ heap' = Insert([[heap EXCEPT !.size[a] = n, !.size[m] = 0, !.size[a + n] = (v - n) + s[m]]
                                  EXCEPT !.table = Delete(heap, m).table, !.max = Delete(heap, m).max], a + n)
    <2>1. PICK u, z : /\ u \in Nat /\ u = s[m]
                      /\ z = [s EXCEPT ![a] = n, ![m] = 0, ![c] = (v - n) + u]
                      /\ z = [heap.size EXCEPT ![a] = n, ![m] = 0, ![c] = heap.size[a] + heap.size[m] - n]
                      /\ m \in Free(heap) /\ m = a + heap.size[a] /\ n # heap.size[a] /\ n < heap.size[a] + heap.size[m]
      BY <1>12, <1>13
    <2>2. PICK d : d = Delete(heap, m)
      OBVIOUS
    <2>3. d \in HeapRec /\ d.size = s /\ d.used = heap.used
      <3>1. heap \in HeapRec /\ Filed(heap, F) /\ m \in F
        BY <1>1, <1>3, <1>4, <1>13
      <3> QED
        BY ONLY HeapAssumption, PowersOfTwo, F \in SUBSET Addr, <1>2, <2>2, <3>1, DeleteFacts
    <2>4. PICK e : e = [d EXCEPT !.size = z]
      OBVIOUS
    <2>5. heap' = Insert(e, c)
      <3>1. [[heap EXCEPT !.size[a] = n, !.size[m] = 0, !.size[a + n] = (v - n) + s[m]] EXCEPT !.table = d.table, !.max = d.max]
                = [heap EXCEPT !.size = z, !.table = d.table, !.max = d.max]
        BY <1>2, <1>4, <1>5, <2>1 DEF HeapRec
      <3>2. [heap EXCEPT !.size = z, !.table = d.table, !.max = d.max] = e
        BY <1>4, <2>3, <2>4 DEF HeapRec
      <3> QED
        BY ONLY <1>5, <1>13, <2>2, <3>1, <3>2
    <2>6. /\ HeapOk(heap') /\ heap'.used = heap.used
          /\ InOrder(heap, Free(heap)) => InOrder(heap', Free(heap'))
      <3>1. e = [Delete(heap, m) EXCEPT !.size = z]
        BY ONLY <2>2, <2>4
      <3> QED
        BY ONLY HeapAssumption, PowersOfTwo, <1>1, <1>4, <1>5, <2>1, <2>5, <3>1, n \in Nat \ {0}, Refiled
    <2> QED
      BY <1>4, <1>13, <2>6, HeapKept
  <1>14. CASE /\ m \in F /\ grown' = TRUE
              /\ SizeToFreeIndex(s[m] + (v - n)) = SizeToFreeIndex(s[m])
              /\ \E w : /\ w = [heap EXCEPT !.size[a] = n, !.size[m] = 0, !.size[a + n] = (v - n) + s[m]]
                        /\ heap' = [w EXCEPT !.table[SizeToFreeIndex(s[m])] = ReplaceAll(@, m, a + n),
                                             !.max = Max({@, w.size[a + n]})]
    <2>1. PICK u, z : /\ u \in Nat /\ u = s[m]
                      /\ z = [s EXCEPT ![a] = n, ![m] = 0, ![c] = (v - n) + u]
                      /\ z = [heap.size EXCEPT ![a] = n, ![m] = 0, ![c] = heap.size[a] + heap.size[m] - n]
                      /\ m \in Free(heap) /\ m = a + heap.size[a] /\ n # heap.size[a] /\ n < heap.size[a] + heap.size[m]
      BY <1>12, <1>14
    <2>2. /\ z \in [Addr -> 0..HeapSize] /\ c \notin F /\ z[c] = heap.size[a] + heap.size[m] - n
          /\ \A b \in F \ {m} : z[b] = heap.size[b]
          /\ \A x \in HeapRec : x.size = z /\ x.used = heap.used =>
                /\ Body(x) /\ Free(x) = (F \ {m}) \cup {c}
                /\ Apart(x.size, Free(x))
      <3>1. /\ HeapOk(heap) /\ a \in heap.used /\ m \in Free(heap) /\ m = a + heap.size[a]
            /\ n # heap.size[a] /\ n < heap.size[a] + heap.size[m] /\ c = a + n
        BY ONLY <1>1, <1>4, <1>5, <2>1
      <3>2. z = [heap.size EXCEPT ![a] = n, ![m] = 0, ![c] = heap.size[a] + heap.size[m] - n]
        BY ONLY <2>1
      <3>3. Displaced(heap, a, m, n, c, z)
        BY ONLY HeapAssumption, <3>1, <3>2, n \in Nat \ {0}, Shifted
      <3> QED
        BY ONLY <1>3, <3>3 DEF Displaced
    <2>3. z[c] = (v - n) + u /\ u + (v - n) = (v - n) + u /\ z[c] \in 0..HeapSize
      BY ONLY <1>8, <1>9, <2>1, <2>2, s \in [Addr -> 0..HeapSize]
    <2>4. PICK i \in Index : i = SizeToFreeIndex(u)
      <3>1. u \in Nat
        BY <2>1
      <3> QED
        BY ONLY HeapAssumption, PowersOfTwo, <3>1, TableOf
    <2>5. i = SizeToFreeIndex(z[c])
      BY ONLY <1>14, <2>1, <2>3, <2>4
    <2>6. PICK t \in Seq(Addr) : t = heap.table[i]
      BY <1>4 DEF HeapRec
    <2>7. PICK r : r = ReplaceAll(t, m, c)
      OBVIOUS
    <2>8. r \in Seq(Addr) /\ Len(r) = Len(t) /\ \A k \in 1..Len(t) : r[k] = IF t[k] = m THEN c ELSE t[k]
      <3>1. \A k \in 1..Len(t) : t[k] \in Addr
        OBVIOUS
      <3>2. r \in [1..Len(t) -> Addr] /\ \A k \in 1..Len(t) : r[k] = IF t[k] = m THEN c ELSE t[k]
        BY <1>8, <2>7, <3>1 DEF ReplaceAll
      <3>3. Len(t) \in Nat
        OBVIOUS
      <3>4. DOMAIN r = 1..Len(t) /\ r \in Seq(Addr)
        BY ONLY <3>2, <3>3
      <3>5. Len(r) = Len(t)
        BY ONLY <3>3, <3>4
      <3> QED
        BY ONLY <3>2, <3>4, <3>5
    <2>9. PICK x \in 0..HeapSize : x = Max({heap.max, z[c]})
      <3>1. heap.max \in 0..HeapSize
        BY <1>4 DEF HeapRec
      <3>2. PICK y \in {heap.max, z[c]} : y >= heap.max /\ y >= z[c]
        BY <1>4, <2>3, <3>1
      <3>3. \E o \in {heap.max, z[c]} : \A q \in {heap.max, z[c]} : o >= q
        BY <3>2
      <3>4. Max({heap.max, z[c]}) \in {heap.max, z[c]}
        BY <3>3 DEF Max
      <3> QED
        BY <2>3, <3>1, <3>4
    <2>10. heap' = [heap EXCEPT !.size = z, !.table = [heap.table EXCEPT ![i] = r], !.max = x]
      <3>1. PICK w : /\ w = [heap EXCEPT !.size[a] = n, !.size[m] = 0, !.size[a + n] = (v - n) + s[m]]
                     /\ heap' = [w EXCEPT !.table[SizeToFreeIndex(s[m])] = ReplaceAll(@, m, a + n),
                                          !.max = Max({@, w.size[a + n]})]
        BY <1>14
      <3>2. w = [heap EXCEPT !.size = z]
        BY <1>2, <1>4, <1>5, <2>1, <3>1 DEF HeapRec
      <3>3. w.size = z /\ w.table = heap.table /\ w.max = heap.max
        BY <1>4, <3>2 DEF HeapRec
      <3>4. heap' = [w EXCEPT !.table = [heap.table EXCEPT ![i] = r], !.max = x]
        BY ONLY <1>5, <2>1, <2>4, <2>6, <2>7, <2>9, <3>1, <3>3
      <3> QED
        BY ONLY <1>4, <3>2, <3>4 DEF HeapRec
    <2>11. /\ heap' \in HeapRec /\ heap'.size = z /\ heap'.used = heap.used
           /\ heap'.table[i] = r /\ \A j \in Index \ {i} : heap'.table[j] = heap.table[j]
      <3>1. PICK tt \in [Index -> Seq(Addr)] : tt = [heap.table EXCEPT ![i] = r]
        BY <1>4, <2>8 DEF HeapRec
      <3>2. heap' = [heap EXCEPT !.size = z, !.table = tt, !.max = x]
        BY ONLY <2>10, <3>1
      <3>3. heap' \in HeapRec /\ heap'.size = z /\ heap'.used = heap.used /\ heap'.table = tt
        BY ONLY <1>4, <2>2, <3>2 DEF HeapRec
      <3>4. tt[i] = r /\ \A j \in Index \ {i} : tt[j] = heap.table[j]
        BY <1>4, <3>1 DEF HeapRec
      <3> QED
        BY ONLY <3>3, <3>4
    <2>12. Body(heap') /\ Free(heap') = (F \ {m}) \cup {c} /\ Apart(heap'.size, Free(heap'))
      BY ONLY <2>2, <2>11
    <2>13. Filed(heap', (F \ {m}) \cup {c})
      <3> DEFINE G == (F \ {m}) \cup {c}
      <3>1. Filed(heap, F)
        BY <1>1, <1>3
      <3>2. /\ \A l, k \in 1..Len(t) : t[l] = t[k] => l = k
            /\ \A k \in 1..Len(t) : t[k] \in F /\ SizeToFreeIndex(s[t[k]]) = i
            /\ \E k \in 1..Len(t) : t[k] = m
        <4>1. i = SizeToFreeIndex(s[m])
          BY ONLY <2>1, <2>4
        <4>2. m \in F /\ SizeToFreeIndex(heap.size[m]) = i
          BY ONLY <1>2, <1>14, <4>1
        <4>3. \E k \in 1..Len(heap.table[i]) : heap.table[i][k] = m
          BY ONLY <3>1, <4>2 DEF Filed
        <4>4. /\ \A l, k \in 1..Len(heap.table[i]) : heap.table[i][l] = heap.table[i][k] => l = k
              /\ \A k \in 1..Len(heap.table[i]) : heap.table[i][k] \in F /\ SizeToFreeIndex(heap.size[heap.table[i][k]]) = i
          BY ONLY <3>1, i \in Index DEF Filed
        <4> QED
          BY ONLY <1>2, <2>6, <4>3, <4>4
      <3>3. \A b \in F \ {m} : z[b] = s[b]
        BY <1>2, <2>2
      <3>4. \A k \in 1..Len(r) : r[k] \in G /\ SizeToFreeIndex(z[r[k]]) = i
        BY <2>5, <2>8, <3>2, <3>3
      <3>5. \A l, k \in 1..Len(r) : r[l] = r[k] => l = k
        <4>1. c \notin F
          BY ONLY <2>2
        <4> SUFFICES ASSUME NEW l \in 1..Len(r), NEW k \in 1..Len(r), r[l] = r[k] PROVE l = k
          OBVIOUS
        <4>2. l \in 1..Len(t) /\ k \in 1..Len(t) /\ t[l] # c /\ t[k] # c
          BY ONLY <2>8, <3>2, <4>1, l \in 1..Len(r), k \in 1..Len(r)
        <4>3. t[l] = t[k]
          BY ONLY <2>8, <4>2, r[l] = r[k]
        <4> QED
          BY ONLY <3>2, <4>2, <4>3
      <3>6. ASSUME NEW j \in Index
            PROVE  \A l \in 1..Len(heap'.table[j]) :
                      /\ heap'.table[j][l] \in G /\ SizeToFreeIndex(heap'.size[heap'.table[j][l]]) = j
                      /\ \A k \in 1..Len(heap'.table[j]) : heap'.table[j][l] = heap'.table[j][k] => l = k
        <4>1. CASE j = i
          <5>1. heap'.table[j] = r /\ heap'.size = z
            BY <2>11, <4>1
          <5> QED
            BY ONLY <3>4, <3>5, <4>1, <5>1
        <4>2. CASE j # i
          <5>1. heap'.table[j] = heap.table[j] /\ heap'.size = z
            BY <2>11, <4>2
          <5> SUFFICES ASSUME NEW l \in 1..Len(heap.table[j])
                       PROVE  /\ heap.table[j][l] \in G /\ SizeToFreeIndex(z[heap.table[j][l]]) = j
                              /\ \A k \in 1..Len(heap.table[j]) : heap.table[j][l] = heap.table[j][k] => l = k
            BY <5>1
          <5>2. /\ heap.table[j][l] \in F /\ SizeToFreeIndex(s[heap.table[j][l]]) = j
                /\ \A k \in 1..Len(heap.table[j]) : heap.table[j][l] = heap.table[j][k] => l = k
            BY <1>2, <3>1 DEF Filed
          <5>3. heap.table[j][l] # m
            BY <2>1, <2>4, <4>2, <5>2
          <5> QED
            BY <3>3, <5>2, <5>3
        <4> QED
          BY <4>1, <4>2
      <3>7. ASSUME NEW b \in G
            PROVE  \E l \in 1..Len(heap'.table[SizeToFreeIndex(heap'.size[b])]) :
                        heap'.table[SizeToFreeIndex(heap'.size[b])][l] = b
        <4>1. CASE b = c
          <5>1. \E l \in 1..Len(r) : r[l] = c
            BY <2>8, <3>2
          <5>2. SizeToFreeIndex(heap'.size[b]) = i
            BY <2>5, <2>11, <4>1
          <5> QED
            BY ONLY <2>11, <4>1, <5>1, <5>2
        <4>2. CASE b # c
          <5>1. b \in F /\ b # m /\ z[b] = s[b] /\ s[b] \in Nat
            BY <1>4, <3>3, <4>2
          <5>2. PICK q \in Index : q = SizeToFreeIndex(s[b])
            BY <5>1, TableOf
          <5>3. PICK l \in 1..Len(heap.table[q]) : heap.table[q][l] = b
            BY <1>2, <3>1, <5>1, <5>2 DEF Filed
          <5>4. \E y \in 1..Len(heap'.table[q]) : heap'.table[q][y] = b
            <6>1. CASE q = i
              BY <2>6, <2>8, <2>11, <5>1, <5>3, <6>1
            <6>2. CASE q # i
              BY <2>11, <5>3, <6>2
            <6> QED
              BY <6>1, <6>2
          <5>5. SizeToFreeIndex(heap'.size[b]) = q
            BY <2>11, <5>1, <5>2
          <5> QED
            BY ONLY <5>4, <5>5
        <4> QED
          BY <4>1, <4>2
      <3> HIDE DEF G
      <3>8. Filed(heap', G)
        BY <3>6, <3>7 DEF Filed
      <3> QED
        BY <3>8 DEF G
    <2>14. HeapOk(heap')
      BY <2>12, <2>13 DEF HeapOk
    <2>15. failed' \subseteq 1..HeapSize + 1 /\ grown' = TRUE
      BY <1>4, <1>14 DEF HeapInv
    <2> QED
      BY <2>14, <2>15 DEF HeapInv
  <1> QED
    BY <1>10, <1>11, <1>13, <1>14

\* The new heap is one free node, alone in its table.
LEMMA HeapStart ==
    ASSUME HeapAssumption, PowersOfTwo, HeapInit
    PROVE  HeapInv
  <1>1. HeapSize \in Nat /\ HeapSize > 1 /\ 0 \in Addr /\ \A b \in Addr : b \in Nat /\ b < HeapSize
    BY HeapAssumption DEF Addr
  <1>2. PICK i \in Index : i = SizeToFreeIndex(HeapSize)
    BY <1>1, TableOf
  <1>3. PICK s : s = [a \in Addr |-> IF a = 0 THEN HeapSize ELSE 0]
    OBVIOUS
  <1>4. s \in [Addr -> 0..HeapSize] /\ s[0] = HeapSize /\ \A b \in Addr : b # 0 => s[b] = 0
    BY <1>1, <1>3
  <1>5. PICK t : t = [j \in Index |-> IF j = i THEN <<0>> ELSE <<>>]
    OBVIOUS
  <1>6. /\ t \in [Index -> Seq(Addr)] /\ t[i] = <<0>> /\ Len(t[i]) = 1 /\ t[i][1] = 0
        /\ \A j \in Index : j # i => t[j] = <<>> /\ Len(t[j]) = 0
    <2>1. <<0>> \in Seq(Addr) /\ <<>> \in Seq(Addr) /\ Len(<<0>>) = 1 /\ <<0>>[1] = 0 /\ Len(<<>>) = 0
      BY <1>1
    <2> QED
      BY <1>5, <2>1
  <1>7. heap = [size |-> s, used |-> {}, table |-> t, max |-> HeapSize] /\ grown = FALSE /\ failed = {}
    BY <1>2, <1>3, <1>5 DEF HeapInit
  <1>8. heap.size = s /\ heap.used = {} /\ heap.table = t /\ heap.max = HeapSize /\ heap \in HeapRec
    <2>1. HeapSize \in 0..HeapSize
      BY <1>1
    <2> QED
      BY <1>4, <1>6, <1>7, <2>1 DEF HeapRec
  <1>9. Free(heap) = {0}
    BY <1>1, <1>4, <1>8 DEF Free, Node
  <1>10. Body(heap)
    <2>1. Dividing(s)
      BY <1>1, <1>4 DEF Dividing
    <2> QED
      BY <1>8, <2>1 DEF Body
  <1>11. \A j \in Index : \A k \in 1..Len(t[j]) : j = i /\ k = 1 /\ t[j][k] = 0
    <2> SUFFICES ASSUME NEW j \in Index, NEW k \in 1..Len(t[j]) PROVE j = i /\ k = 1 /\ t[j][k] = 0
      OBVIOUS
    <2>1. j = i
      BY <1>6
    <2>2. k \in 1..1
      BY ONLY <1>6, <2>1, k \in 1..Len(t[j])
    <2>3. k = 1
      BY ONLY <2>2
    <2> QED
      BY ONLY <1>6, <2>1, <2>3
  <1>12. Filed(heap, {0})
    <2>1. \A j \in Index : \A k, l \in 1..Len(t[j]) : k = l
      BY <1>11
    <2>2. \A j \in Index : \A k \in 1..Len(t[j]) : t[j][k] \in {0} /\ SizeToFreeIndex(s[t[j][k]]) = j
      BY <1>2, <1>4, <1>11
    <2>3. \E k \in 1..Len(t[SizeToFreeIndex(s[0])]) : t[SizeToFreeIndex(s[0])][k] = 0
      <3>1. 1 \in 1..Len(t[i]) /\ t[i][1] = 0
        BY <1>6
      <3> QED
        BY <1>2, <1>4, <3>1
    <2> QED
      BY <1>8, <2>1, <2>2, <2>3 DEF Filed
  <1>13. Apart(heap.size, {0})
    BY <1>1, <1>4, <1>8 DEF Apart
  <1>14. InOrder(heap, {0})
    <2>1. TablesSorted(heap)
      <3>1. \A j \in Index : \A k, l \in 1..Len(t[j]) : s[t[j][k]] <= s[t[j][l]]
        BY <1>1, <1>4, <1>11
      <3> QED
        BY <1>8, <3>1 DEF TablesSorted
    <2>2. Largest(heap, {0})
      BY <1>1, <1>4, <1>8 DEF Largest
    <2> QED
      BY <2>1, <2>2 DEF InOrder
  <1> QED
    BY <1>7, <1>9, <1>10, <1>12, <1>13, <1>14 DEF HeapInv, HeapOk

\* Every call keeps the invariant, whichever of its ways through the code it takes.
THEOREM HeapInvariant == HeapSpec => []HeapInv
  <1>1. HeapInit => HeapInv
    BY HeapAssumption, PowersOfTwo, HeapStart
  <1>2. HeapInv /\ [HeapNext]_heapVars => HeapInv'
    <2> SUFFICES ASSUME HeapInv, [HeapNext]_heapVars PROVE HeapInv'
      OBVIOUS
    <2>1. CASE UNCHANGED heapVars
      <3>1. heap' = heap /\ grown' = grown /\ failed' = failed
        BY <2>1 DEF heapVars
      <3> QED
        BY <3>1 DEF HeapInv
    <2>2. HeapSize \in Nat /\ AllocMax \in Nat
      BY HeapAssumption DEF AllocMax
    <2>3. ASSUME NEW n \in 1..AllocMax, Malloc(n) PROVE HeapInv'
      <3>1. n \in Nat \ {0} /\ n <= AllocMax
        BY <2>2
      <3> QED
        BY HeapAssumption, PowersOfTwo, <2>3, <3>1, MallocKeeps
    <2>4. ASSUME NEW a \in Addr, HeapFree(a) PROVE HeapInv'
      BY HeapAssumption, PowersOfTwo, <2>4, HeapFreeKeeps
    <2>5. ASSUME NEW a \in Addr, NEW n \in 1..HeapSize, ReallocGrow(a, n) PROVE HeapInv'
      BY HeapAssumption, PowersOfTwo, <2>2, <2>5, ReallocGrowKeeps
    <2>6. ASSUME NEW a \in Addr, NEW n \in 1..HeapSize, ReallocShrink(a, n) PROVE HeapInv'
      BY HeapAssumption, PowersOfTwo, <2>2, <2>6, ReallocShrinkKeeps
    <2>7. ASSUME NEW a \in Addr, NEW n \in 1..HeapSize + 1, ReallocMove(a, n) PROVE HeapInv'
      <3>1. n \in Nat \ {0} /\ n <= HeapSize + 1
        BY <2>2
      <3> QED
        BY HeapAssumption, PowersOfTwo, <2>7, <3>1, ReallocMoveKeeps
    <2> QED
      BY <2>1, <2>3, <2>4, <2>5, <2>6, <2>7 DEF HeapNext
  <1> QED
    BY <1>1, <1>2, PTL DEF HeapSpec

\* The heap loses no memory and gives none out twice, whatever its size, the number of
\* its tables and the calls made of it; and until a free node grew in place free_max is
\* the largest of them, and only a request larger than a heap is left without memory.
THEOREM HeapIsExact == HeapSpec => []HeapExact
  <1>1. ASSUME HeapInv PROVE HeapExact
    <2>1. /\ HeapOk(heap) /\ Body(heap) /\ Filed(heap, Free(heap)) /\ Apart(heap.size, Free(heap))
          /\ heap.used \subseteq Node(heap) /\ Dividing(heap.size)
          /\ grown \in BOOLEAN /\ failed \subseteq 1..HeapSize + 1
      BY <1>1 DEF HeapInv, HeapOk, Body
    <2>2. PICK s \in [Addr -> 0..HeapSize] : s = heap.size
      BY <2>1, HeapAssumption, BodyTypes
    <2>3. PICK F \in SUBSET Addr : F = Free(heap)
      BY <2>1, HeapAssumption, BodyTypes
    <2>4. /\ heap.table \in [Index -> Seq(Addr)] /\ heap.max \in 0..HeapSize /\ HeapSize \in Nat
          /\ \A b \in Addr : b \in Nat /\ s[b] \in Nat
      BY <2>1, <2>2, HeapAssumption, BodyTypes
    <2>5. HeapTypeOK
      BY <2>1, <2>2, <2>4 DEF HeapTypeOK
    <2>6. Divided
      <3>1. Node(heap) = {b \in Addr : s[b] > 0} /\ 0 \in Addr
        BY <2>2, HeapAssumption DEF Node, Addr
      <3>2. ASSUME NEW a \in Node(heap)
            PROVE  /\ a + s[a] \in Node(heap) \cup {HeapSize}
                   /\ \A b \in Node(heap) : ~(a < b /\ b < a + s[a])
        <4>1. a \in Addr /\ s[a] > 0 /\ a \in Nat /\ s[a] \in Nat
          BY <2>4, <3>1
        <4>2. a + s[a] = HeapSize \/ (a + s[a] \in Addr /\ s[a + s[a]] > 0)
          BY <2>1, <2>2, <4>1 DEF Dividing
        <4>3. ASSUME NEW b \in Node(heap), a < b, b < a + s[a] PROVE FALSE
          <5>1. b \in Addr /\ s[b] > 0 /\ b \in Nat
            BY <2>4, <3>1
          <5>2. a + s[a] <= b
            BY <2>1, <2>2, <4>1, <4>3, <5>1 DEF Dividing
          <5> QED
            BY <4>1, <4>3, <5>1, <5>2
        <4> QED
          BY <3>1, <4>2, <4>3
      <3>3. s[0] > 0
        BY <2>1, <2>2 DEF Dividing
      <3> QED
        BY <2>2, <3>1, <3>2, <3>3 DEF Divided
    <2>7. Listed
      <3> SUFFICES ASSUME NEW i \in Index
                   PROVE  /\ IsInjective(heap.table[i])
                          /\ ToSet(heap.table[i]) = {a \in F : SizeToFreeIndex(s[a]) = i}
        BY <2>2, <2>3 DEF Listed
      <3>1. PICK t \in Seq(Addr) : t = heap.table[i]
        BY <2>4
      <3>2. DOMAIN t = 1..Len(t) /\ Len(t) \in Nat
        OBVIOUS
      <3>3. /\ \A k, l \in 1..Len(t) : t[k] = t[l] => k = l
            /\ \A k \in 1..Len(t) : t[k] \in F /\ SizeToFreeIndex(s[t[k]]) = i
            /\ \A a \in F : SizeToFreeIndex(s[a]) = i => \E k \in 1..Len(t) : t[k] = a
        BY <2>1, <2>2, <2>3, <3>1 DEF Filed
      <3>4. IsInjective(t)
        BY <3>2, <3>3 DEF IsInjective
      <3>5. ToSet(t) = {t[k] : k \in 1..Len(t)}
        BY <3>2 DEF ToSet
      <3>6. ToSet(t) = {a \in F : SizeToFreeIndex(s[a]) = i}
        BY <3>3, <3>5
      <3> QED
        BY <3>1, <3>4, <3>6
    <2>8. \A a, b \in Free(heap) : a + heap.size[a] # b
      BY <2>1 DEF Apart
    <2>9. ASSUME ~grown
          PROVE  /\ heap.max = Max({0} \cup {heap.size[a] : a \in Free(heap)})
                 /\ failed \subseteq {HeapSize + 1}
      <3>1. Largest(heap, F) /\ failed \subseteq {HeapSize + 1}
        BY <1>1, <2>3, <2>9 DEF HeapInv, InOrder
      <3>2. PICK m \in Nat : m = heap.max
        BY <2>4
      <3>3. PICK S : S = {0} \cup {s[a] : a \in F}
        OBVIOUS
      <3>4. S \subseteq Nat /\ m \in S /\ \A y \in S : m >= y
        BY <2>2, <2>4, <3>1, <3>2, <3>3 DEF Largest
      <3>5. \A x \in S : (\A y \in S : x >= y) => x = m
        BY <3>4
      <3>6. Max(S) = m
        BY ONLY <3>4, <3>5 DEF Max
      <3> QED
        BY <2>2, <2>3, <3>1, <3>2, <3>3, <3>6
    <2> QED
      BY <2>5, <2>6, <2>7, <2>8, <2>9 DEF HeapExact
  <1> QED
    BY <1>1, HeapInvariant, PTL
=============================================================================
