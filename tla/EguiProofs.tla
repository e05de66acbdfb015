----------------------------- MODULE EguiProofs -----------------------------
(***************************************************************************)
(* Two parts of the toolkit, for every size: the event loop of egal/egal.c *)
(* and egui/gui.c, where each way keeps its order, only old events are     *)
(* thrown out, and the list of private events holds the newest; and the    *)
(* list widget of egui/clist.c, where items, indexes, the item at the top, *)
(* the adjust and the bar fit each other but where the code leaves them    *)
(* wrong.                                                                  *)
(***************************************************************************)
EXTENDS EventLoop, Clist, ListFacts, TLAPS

-----------------------------------------------------------------------------
(* The event loop: the invariant                                            *)

\* What is counted, and the node that get_async_event saw is still there when it takes one.
LoopTypes ==
    /\ TypeOK
    /\ entered \in Nat /\ listed \in Nat
    /\ pc = "take" => head # 0

\* The events of the queue are numbered without gaps to the last but for those thrown
\* out, so that those behind an event are as many as entered after it at most; and all of
\* them entered after those the loop has.
QueueExact ==
    \A i \in 1..Len(queue) :
        /\ queue[i].kind # "private"
        /\ queue[i].id + (Len(queue) - i) <= entered
        /\ seen["public"] < queue[i].id
        /\ \A j \in 1..Len(queue) : j < i => queue[j].id + (i - j) <= queue[i].id
        /\ \A j \in 1..Len(loop) : Way(loop[j]) = "public" => loop[j].id < queue[i].id

\* The events of each way in the loop's own queue are in order, and come after those seen.
LoopExact ==
    /\ seen["public"] <= entered
    /\ \A i \in 1..Len(loop) :
        /\ seen[Way(loop[i])] < loop[i].id
        /\ Way(loop[i]) = "public" => loop[i].id <= entered
        /\ \A j \in 1..Len(loop) : j < i /\ Way(loop[j]) = Way(loop[i]) => loop[j].id < loop[i].id

\* The nodes on are the list of private events, the nodes off the free list.
Nodelists(on, off) ==
    /\ Linked(head, on) /\ Linked(free, off)
    /\ Len(on) + Len(off) = ListMax
    /\ \A n \in Nodes : Contains(on, n) \/ Contains(off, n)
    /\ IsInjective(on) /\ IsInjective(off) /\ \A n \in Nodes : ~(Contains(on, n) /\ Contains(off, n))
    /\ on # <<>> => on[Len(on)] = tail
    /\ \A i \in 1..Len(on) : event[on[i]] = listed - Len(on) + i

\* The private events up to the n-th have left the list.
Past(n) ==
    /\ seen["private"] <= n
    /\ \A i \in 1..Len(loop) : Way(loop[i]) = "private" => loop[i].id <= n

WaitInv == \E on, off \in Seq(Nodes) : Nodelists(on, off) /\ Past(listed - Len(on))

LoopInv == LoopTypes /\ ThrownOld /\ QueueExact /\ LoopExact /\ WaitInv

\* What the types say of the two queues.
LEMMA QueueTypes ==
    ASSUME TypeOK
    PROVE  /\ queue \in Seq(Event) /\ Len(queue) \in Nat /\ loop \in Seq(Event) /\ Len(loop) \in Nat
           /\ \A i \in 1..Len(queue) : queue[i] \in Event /\ queue[i].id \in Nat
           /\ \A i \in 1..Len(loop) : loop[i] \in Event /\ loop[i].id \in Nat /\ Way(loop[i]) \in {"private", "public"}
           /\ seen["public"] \in Nat /\ seen["private"] \in Nat
  <1>1. queue \in Seq(Event) /\ loop \in Seq(Event) /\ seen \in [{"private", "public"} -> Nat]
    BY DEF TypeOK
  <1>2. ASSUME NEW s \in Seq(Event) PROVE Len(s) \in Nat /\ \A i \in 1..Len(s) : s[i] \in Event
    OBVIOUS
  <1>3. \A e \in Event : e.id \in Nat
    BY DEF Event
  <1>4. \A i : Way(loop[i]) \in {"private", "public"}
    BY DEF Way
  <1> QED
    BY <1>1, <1>2, <1>3, <1>4

\* Nodes that keep their places stay lists; of the loop's events only what leaves the
\* list matters to them.
LEMMA ListsStay ==
    ASSUME LoopTypes, WaitInv, UNCHANGED listVars, Len(loop') \in Nat,
           \A i \in 1..Len(loop') : Way(loop'[i]) = "private" =>
                \E j \in 1..Len(loop) : loop'[i] = loop[j],
           seen'["private"] = seen["private"]
             \/ \E j \in 1..Len(loop) : Way(loop[j]) = "private" /\ seen'["private"] = loop[j].id
    PROVE  WaitInv'
  <1>1. PICK on, off \in Seq(Nodes) : Nodelists(on, off) /\ Past(listed - Len(on))
    BY DEF WaitInv
  <1>2. head' = head /\ tail' = tail /\ free' = free /\ next' = next /\ event' = event /\ listed' = listed
    BY DEF listVars
  <1>3. Nodelists(on, off)'
    BY <1>1, <1>2 DEF Nodelists, Linked
  <1>4. PICK n : n = listed - Len(on)
    OBVIOUS
  <1>5. Past(n)'
    BY <1>1, <1>4 DEF Past, Way
  <1> QED
    BY <1>2, <1>3, <1>4, <1>5 DEF WaitInv

\* The initial state: all nodes are free, in the order in which egal_init links them.
LEMMA LoopStart ==
    ASSUME EventLoopAssumption, Init
    PROVE  LoopInv
  <1>1. ListMax \in Nat /\ ListMax > 0 /\ QueueMax \in Nat /\ LoopMax \in Nat
    BY DEF EventLoopAssumption
  <1>2. LoopTypes
    <2>1. queue = <<>> /\ loop = <<>> /\ <<>> \in Seq(Event) /\ Len(<<>>) = 0
      BY DEF Init
    <2>2. entered = 0 /\ listed = 0 /\ pc = "drain" /\ head = 0 /\ tail = 0 /\ free = ListMax
      BY DEF Init
    <2>3. next \in [Nodes -> 0..ListMax] /\ event \in [Nodes -> Nat]
      <3>1. \A n \in Nodes : n - 1 \in 0..ListMax
        BY <1>1 DEF Nodes
      <3> QED
        BY <3>1 DEF Init
    <2>4. adding \in [Thread -> Kinds \cup {"none"}] /\ \A t \in Thread : full[t] => adding[t] # "none"
      BY DEF Init
    <2>5. seen \in [{"private", "public"} -> Nat] /\ {quitLost, young, stale} \subseteq BOOLEAN
      <3>1. quitLost = FALSE /\ young = FALSE /\ stale = FALSE
        BY DEF Init
      <3>2. seen = [way \in {"private", "public"} |-> 0]
        BY DEF Init
      <3> QED
        BY <3>1, <3>2
    <2>6. 0 <= QueueMax /\ 0 <= LoopMax /\ {head, tail, free} \subseteq 0..ListMax
      BY <1>1, <2>2
    <2> QED
      BY <2>1, <2>2, <2>3, <2>4, <2>5, <2>6 DEF LoopTypes, TypeOK
  <1>3. QueueExact /\ LoopExact /\ ThrownOld /\ Past(0)
    BY DEF QueueExact, LoopExact, ThrownOld, Past, Init
  <1>4. PICK off : off = [i \in 1..ListMax |-> ListMax + 1 - i]
    OBVIOUS
  <1>5. off \in Seq(Nodes) /\ Len(off) = ListMax /\ \A i \in 1..ListMax : off[i] = ListMax + 1 - i /\ off[i] \in Nodes
    <2>1. \A i \in 1..ListMax : ListMax + 1 - i \in Nodes
      BY <1>1 DEF Nodes
    <2>2. off \in [1..ListMax -> Nodes] /\ DOMAIN off = 1..ListMax
      BY <1>4, <2>1
    <2> QED
      BY <1>1, <1>4, <2>2
  <1>6. Linked(free, off)
    <2>1. off # <<>> /\ off[1] = ListMax
      BY <1>1, <1>5
    <2>2. free = ListMax /\ next = [n \in Nodes |-> n - 1]
      BY DEF Init
    <2>3. ASSUME NEW i \in 1..Len(off) PROVE next[off[i]] = IF i < Len(off) THEN off[i + 1] ELSE 0
      BY <1>1, <1>5, <2>2
    <2> QED
      BY <2>1, <2>2, <2>3 DEF Linked
  <1>7. <<>> \in Seq(Nodes) /\ Len(<<>>) = 0
    OBVIOUS
  <1>8. Nodelists(<<>>, off)
    <2>1. Linked(head, <<>>)
      BY DEF Linked, Init
    <2>2. \A n \in Nodes : Contains(off, n)
      <3> SUFFICES ASSUME NEW n \in Nodes PROVE \E i \in 1..Len(off) : off[i] = n
        BY DEF Contains, ToSet
      <3>1. n \in Nat /\ ListMax + 1 - n \in 1..ListMax /\ ListMax + 1 - (ListMax + 1 - n) = n
        BY <1>1 DEF Nodes
      <3> QED
        BY <1>5, <3>1
    <2>3. IsInjective(off)
      BY <1>1, <1>5 DEF IsInjective
    <2>4. \A n : ~Contains(<<>>, n)
      BY DEF Contains, ToSet
    <2>5. IsInjective(<<>>)
      BY DEF IsInjective
    <2> QED
      BY <1>1, <1>5, <1>6, <1>7, <2>1, <2>2, <2>3, <2>4, <2>5 DEF Nodelists
  <1>9. listed - Len(<<>>) = 0
    <2>1. listed = 0 /\ Len(<<>>) = 0
      BY <1>7 DEF Init
    <2>2. 0 - 0 = 0
      OBVIOUS
    <2> QED
      BY ONLY <2>1, <2>2, Zenon
  <1> QED
    BY <1>2, <1>3, <1>5, <1>7, <1>8, <1>9 DEF LoopInv, WaitInv

-----------------------------------------------------------------------------
(* The queues                                                               *)

\* An event that is being added enters behind all others.
LEMMA AddTryKeeps ==
    ASSUME EventLoopAssumption, LoopInv, NEW t \in Thread, AddTry(t)
    PROVE  LoopInv'
  <1>1. LoopTypes /\ ThrownOld /\ QueueExact /\ LoopExact /\ WaitInv
    BY DEF LoopInv
  <1>2. TypeOK /\ entered \in Nat /\ listed \in Nat /\ (pc = "take" => head # 0)
    BY <1>1 DEF LoopTypes
  <1>3. UNCHANGED <<listVars, pc, loop, posts, pastVars>>
    BY DEF AddTry
  <1>4. loop' = loop /\ seen' = seen /\ young' = young /\ stale' = stale /\ pc' = pc /\ head' = head /\ listed' = listed
    BY <1>3 DEF pastVars, listVars
  <1>5. WaitInv' /\ ThrownOld'
    <2>1. UNCHANGED listVars /\ Len(loop) \in Nat
      BY <1>2, <1>3, QueueTypes
    <2> QED
      BY <1>1, <1>4, <2>1, ListsStay DEF ThrownOld
  <1>6. CASE ~Room /\ full' = [full EXCEPT ![t] = TRUE] /\ UNCHANGED <<queueVars, adding>>
    <2>1. queue' = queue /\ entered' = entered
      BY <1>6 DEF queueVars
    <2>2. QueueExact' /\ LoopExact'
      BY <1>1, <1>4, <2>1 DEF QueueExact, LoopExact, Way
    <2>3. TypeOK'
      BY <1>2, <1>3, <1>6, <2>1 DEF TypeOK, listVars, pastVars, AddTry
    <2> QED
      BY <1>2, <1>4, <1>5, <2>1, <2>2, <2>3 DEF LoopInv, LoopTypes
  <1>7. CASE /\ Room
             /\ queue' = Enqueued([kind |-> adding[t], id |-> entered + 1])
             /\ entered' = entered + 1
             /\ adding' = [adding EXCEPT ![t] = "none"]
             /\ UNCHANGED full
    <2>1. PICK e : e = [kind |-> adding[t], id |-> entered + 1]
      OBVIOUS
    <2>2. e \in Event /\ e.kind # "private" /\ e.id = entered + 1
      <3>1. adding[t] \in Kinds
        BY <1>2 DEF TypeOK, AddTry
      <3> QED
        BY <1>2, <2>1, <3>1 DEF Event, Kinds
    <2>3. PICK n \in Nat : n = Len(queue)
      BY <1>2, QueueTypes
    <2>4. /\ queue' \in Seq(Event) /\ Len(queue') = n + 1 /\ queue'[n + 1] = e
          /\ \A i \in 1..n : queue'[i] = queue[i]
      BY <1>2, <1>7, <2>1, <2>2, <2>3, QueueTypes DEF Enqueued
    <2>5. QueueExact'
      <3> SUFFICES ASSUME NEW i \in 1..(n + 1)
                   PROVE  /\ queue'[i].kind # "private"
                          /\ queue'[i].id + ((n + 1) - i) <= entered + 1
                          /\ seen["public"] < queue'[i].id
                          /\ \A j \in 1..(n + 1) : j < i => queue'[j].id + (i - j) <= queue'[i].id
                          /\ \A j \in 1..Len(loop) : Way(loop[j]) = "public" => loop[j].id < queue'[i].id
        BY <1>4, <1>7, <2>4 DEF QueueExact, Way
      <3>1. \A j \in 1..n : queue[j].id \in Nat /\ queue[j].id + (n - j) <= entered
        BY <1>1, <1>2, <2>3, QueueTypes DEF QueueExact
      <3>2. CASE i = n + 1
        <4>1. queue'[i] = e
          BY <2>4, <3>2
        <4>2. \A j \in 1..(n + 1) : j < i => queue'[j].id + (i - j) <= entered + 1
          <5> SUFFICES ASSUME NEW j \in 1..(n + 1), j < i PROVE queue'[j].id + (i - j) <= entered + 1
            OBVIOUS
          <5>1. j \in 1..n /\ i - j = (n - j) + 1
            BY ONLY <3>2, n \in Nat, j \in 1..(n + 1), j < i
          <5>2. queue'[j] = queue[j] /\ queue[j].id \in Nat /\ queue[j].id + (n - j) <= entered
            BY <2>4, <3>1, <5>1
          <5> QED
            BY ONLY <1>2, <5>1, <5>2, n \in Nat
        <4>3. seen["public"] < entered + 1 /\ \A j \in 1..Len(loop) : Way(loop[j]) = "public" => loop[j].id < entered + 1
          BY <1>1, <1>2, QueueTypes DEF LoopExact
        <4>4. (entered + 1) + ((n + 1) - i) <= entered + 1
          BY ONLY <1>2, <3>2, n \in Nat
        <4> QED
          BY <2>2, <4>1, <4>2, <4>3, <4>4
      <3>3. CASE i # n + 1
        <4>1. i \in 1..n
          BY <3>3
        <4>2. queue'[i] = queue[i] /\ \A j \in 1..(n + 1) : j < i => j \in 1..n /\ queue'[j] = queue[j]
          BY <2>4, <4>1
        <4>3. queue[i].id + ((n + 1) - i) <= entered + 1
          <5>1. queue[i].id \in Nat /\ queue[i].id + (n - i) <= entered
            BY <3>1, <4>1
          <5> QED
            BY ONLY <1>2, <4>1, <5>1, n \in Nat
        <4> QED
          BY <1>1, <2>3, <4>1, <4>2, <4>3 DEF QueueExact
      <3> QED
        BY <3>2, <3>3
    <2>6. LoopExact'
      <3>1. \A i \in 1..Len(loop) : loop[i].id <= entered => loop[i].id <= entered + 1
        BY <1>2, QueueTypes
      <3>2. seen["public"] <= entered + 1
        BY <1>1, <1>2, QueueTypes DEF LoopExact
      <3> QED
        BY <1>1, <1>4, <1>7, <3>1, <3>2 DEF LoopExact, Way
    <2>7. TypeOK'
      <3>1. Len(queue') <= QueueMax
        <4>1. QueueMax \in Nat /\ n < QueueMax /\ Len(queue') = n + 1
          BY <1>7, <2>3, <2>4 DEF Room, EventLoopAssumption
        <4> QED
          BY ONLY <4>1, n \in Nat
      <3>2. adding' \in [Thread -> Kinds \cup {"none"}] /\ \A u \in Thread : full'[u] => adding'[u] # "none"
        BY <1>2, <1>7 DEF TypeOK, AddTry
      <3> QED
        BY <1>2, <1>3, <2>4, <3>1, <3>2 DEF TypeOK, listVars, pastVars
    <2> QED
      BY <1>2, <1>4, <1>5, <1>7, <2>5, <2>6, <2>7 DEF LoopInv, LoopTypes
  <1> QED
    BY <1>6, <1>7 DEF AddTry

\* A sequence without its first element.
LEMMA TailEntries ==
    ASSUME NEW S, NEW s \in Seq(S), s # <<>>
    PROVE  /\ Tail(s) \in Seq(S) /\ Len(s) \in Nat \ {0}
           /\ Len(Tail(s)) = Len(s) - 1 /\ Len(Tail(s)) \in Nat
           /\ s[1] \in S /\ Head(s) = s[1]
           /\ \A i \in 1..Len(Tail(s)) : i + 1 \in 2..Len(s) /\ Tail(s)[i] = s[i + 1]
  OBVIOUS

\* An event to be added is set aside first, which the queues do not show.
LEMMA PostKeeps ==
    ASSUME LoopInv, NEW t \in Thread, NEW kind \in Kinds, Post(t, kind)
    PROVE  LoopInv'
  <1>1. LoopTypes /\ ThrownOld /\ QueueExact /\ LoopExact /\ WaitInv
    BY DEF LoopInv
  <1>2. TypeOK /\ entered \in Nat /\ listed \in Nat /\ (pc = "take" => head # 0)
    BY <1>1 DEF LoopTypes
  <1>3. UNCHANGED <<queueVars, full, listVars, pc, loop, pastVars>> /\ adding' = [adding EXCEPT ![t] = kind]
    BY DEF Post
  <1>4. /\ loop' = loop /\ seen' = seen /\ young' = young /\ stale' = stale /\ quitLost' = quitLost /\ pc' = pc
        /\ head' = head /\ tail' = tail /\ free' = free /\ next' = next /\ event' = event /\ listed' = listed
        /\ queue' = queue /\ entered' = entered /\ full' = full
    BY <1>3 DEF pastVars, listVars, queueVars
  <1>5. WaitInv' /\ ThrownOld'
    <2>1. UNCHANGED listVars /\ Len(loop) \in Nat
      BY <1>2, <1>3, QueueTypes
    <2> QED
      BY <1>1, <1>4, <2>1, ListsStay DEF ThrownOld
  <1>6. QueueExact' /\ LoopExact'
    BY <1>1, <1>4 DEF QueueExact, LoopExact, Way
  <1>7. TypeOK'
    <2>1. kind # "none" /\ adding \in [Thread -> Kinds \cup {"none"}]
      BY <1>2 DEF Kinds, TypeOK
    <2>2. adding' \in [Thread -> Kinds \cup {"none"}]
      BY <1>3, <2>1
    <2>3. ASSUME NEW u \in Thread, full'[u] PROVE adding'[u] # "none"
      BY <1>2, <1>3, <1>4, <2>1, <2>3 DEF TypeOK
    <2> QED
      BY <1>2, <1>4, <2>2, <2>3 DEF TypeOK
  <1> QED
    BY <1>2, <1>4, <1>5, <1>6, <1>7 DEF LoopInv, LoopTypes

\* The queue without its first event, once that has been thrown away or is the last of the loop.
LEMMA QueueShorter ==
    ASSUME LoopTypes, QueueExact, queue # <<>>, LoopTypes', Len(queue') = Len(queue) - 1,
           \A i \in 1..Len(queue') : queue'[i] = queue[i + 1],
           entered' = entered, seen' = seen,
           \A i \in 1..Len(loop') : (\E j \in 1..Len(loop) : loop'[i] = loop[j]) \/ loop'[i] = queue[1]
    PROVE  QueueExact'
  <1>1. TypeOK /\ entered \in Nat
    BY DEF LoopTypes
  <1>2. PICK n \in Nat : n = Len(queue) /\ n # 0
    BY <1>1, TailEntries, QueueTypes
  <1>3. \A i \in 1..n : queue[i].id \in Nat
    BY <1>1, <1>2, QueueTypes
  <1>4. \A i \in 1..(n - 1) : i + 1 \in 1..n /\ queue'[i] = queue[i + 1]
    BY <1>2
  <1> SUFFICES ASSUME NEW i \in 1..(n - 1)
               PROVE  /\ queue'[i].kind # "private"
                      /\ queue'[i].id + ((n - 1) - i) <= entered
                      /\ seen["public"] < queue'[i].id
                      /\ \A j \in 1..(n - 1) : j < i => queue'[j].id + (i - j) <= queue'[i].id
                      /\ \A j \in 1..Len(loop') : Way(loop'[j]) = "public" => loop'[j].id < queue'[i].id
    BY <1>2 DEF QueueExact, Way
  <1>5. /\ i + 1 \in 1..n /\ queue'[i] = queue[i + 1] /\ n - (i + 1) = (n - 1) - i
    BY <1>2, <1>4
  <1>6. /\ queue[i + 1].kind # "private" /\ queue[i + 1].id + (n - (i + 1)) <= entered
        /\ seen["public"] < queue[i + 1].id
        /\ \A j \in 1..n : j < i + 1 => queue[j].id + ((i + 1) - j) <= queue[i + 1].id
        /\ \A j \in 1..Len(loop) : Way(loop[j]) = "public" => loop[j].id < queue[i + 1].id
    BY <1>2, <1>5 DEF QueueExact
  <1>7. ASSUME NEW j \in 1..(n - 1), j < i PROVE queue'[j].id + (i - j) <= queue'[i].id
    <2>1. j + 1 \in 1..n /\ j + 1 < i + 1 /\ (i + 1) - (j + 1) = i - j
      BY ONLY j \in 1..(n - 1), j < i, i \in 1..(n - 1), n \in Nat
    <2>2. queue'[j] = queue[j + 1] /\ queue[j + 1].id + ((i + 1) - (j + 1)) <= queue[i + 1].id
      BY <1>4, <1>6, <2>1
    <2> QED
      BY <1>5, <2>1, <2>2
  <1>8. ASSUME NEW j \in 1..Len(loop'), Way(loop'[j]) = "public" PROVE loop'[j].id < queue'[i].id
    <2>1. CASE \E k \in 1..Len(loop) : loop'[j] = loop[k]
      BY <1>5, <1>6, <1>8, <2>1 DEF Way
    <2>2. CASE loop'[j] = queue[1]
      <3>1. 1 \in 1..n /\ 1 < i + 1 /\ (i + 1) - 1 > 0 /\ (i + 1) - 1 \in Nat
        BY <1>2
      <3>2. queue[1].id \in Nat /\ queue[i + 1].id \in Nat /\ queue[1].id + ((i + 1) - 1) <= queue[i + 1].id
        BY <1>3, <1>5, <1>6, <3>1
      <3>3. queue[1].id < queue[i + 1].id
        BY ONLY <3>1, <3>2
      <3> QED
        BY <1>5, <2>2, <3>3
    <2> QED
      BY <2>1, <2>2, <1>8
  <1> QED
    BY <1>5, <1>6, <1>7, <1>8

\* What is thrown out for want of room is the oldest event; if the queue is full, as many
\* as it holds entered since.
LEMMA AddThrowKeeps ==
    ASSUME EventLoopAssumption, LoopInv, NEW t \in Thread, AddThrow(t)
    PROVE  LoopInv'
  <1>1. LoopTypes /\ ThrownOld /\ QueueExact /\ LoopExact /\ WaitInv
    BY DEF LoopInv
  <1>2. TypeOK /\ entered \in Nat /\ listed \in Nat /\ (pc = "take" => head # 0)
    BY <1>1 DEF LoopTypes
  <1>3. /\ entered' = entered /\ pc' = pc /\ loop' = loop /\ seen' = seen /\ UNCHANGED listVars
        /\ full' = [full EXCEPT ![t] = FALSE] /\ adding' = adding /\ stale' = (stale \/ Room)
    BY DEF AddThrow, TryAgain
  <1>4. WaitInv'
    <2>1. UNCHANGED listVars /\ Len(loop) \in Nat
      BY <1>2, <1>3, QueueTypes
    <2> QED
      BY <1>1, <1>3, <2>1, ListsStay
  <1>5. LoopExact'
    BY <1>1, <1>3 DEF LoopExact, Way
  <1>6. /\ head' = head /\ tail' = tail /\ free' = free /\ next' = next /\ event' = event /\ listed' = listed
    BY <1>3 DEF listVars
  <1>7. \A u \in Thread : full'[u] => adding'[u] # "none"
    BY <1>2, <1>3 DEF TypeOK
  <1>8. stale' \in BOOLEAN
    BY <1>2, <1>3 DEF TypeOK, Room
  <1>9. CASE queue = <<>> /\ UNCHANGED <<queue, quitLost, young>>
    <2>1. TypeOK'
      BY <1>2, <1>3, <1>6, <1>7, <1>8, <1>9 DEF TypeOK
    <2>2. QueueExact' /\ ThrownOld'
      BY <1>1, <1>3, <1>9 DEF QueueExact, ThrownOld, Way
    <2> QED
      BY <1>2, <1>3, <1>4, <1>5, <1>6, <2>1, <2>2 DEF LoopInv, LoopTypes
  <1>10. CASE /\ queue # <<>>
              /\ queue' = RemoveAt(queue, ThrownAt)
              /\ quitLost' = (quitLost \/ queue[ThrownAt].kind = "quit")
              /\ young' = (young \/ entered - queue[ThrownAt].id < QueueMax - 1)
    <2>1. queue \in Seq(Event)
      BY <1>2, QueueTypes
    <2>2. Len(queue) \in Nat \ {0} /\ queue[1] \in Event /\ queue[1].id \in Nat
      <3>1. PICK s \in Seq(Event) : s = queue /\ s # <<>>
        BY <1>10, <2>1
      <3>2. Len(s) \in Nat \ {0} /\ s[1] \in Event
        BY <3>1, TailEntries
      <3>3. s[1].id \in Nat
        BY <3>2 DEF Event
      <3> QED
        BY <3>1, <3>2, <3>3
    <2>3. PICK s \in Seq(Event) : s = queue
      BY <2>1
    <2>4. 1 \in 1..Len(s)
      BY <2>2, <2>3
    <2>5. queue' \in Seq(Event) /\ Len(queue') = Len(queue) - 1 /\ \A i \in 1..Len(queue') : queue'[i] = queue[i + 1]
      <3>1. PICK r : r = RemoveAt(s, 1)
        OBVIOUS
      <3>2. /\ r \in Seq(Event) /\ Len(r) = Len(s) - 1
            /\ \A i \in 1..Len(r) : r[i] = IF i < 1 THEN s[i] ELSE s[i + 1]
        BY ONLY s \in Seq(Event), <2>4, <3>1, RemovedEntries
      <3>3. \A i \in 1..Len(r) : ~(i < 1)
        OBVIOUS
      <3> QED
        BY <1>10, <2>3, <3>1, <3>2, <3>3 DEF ThrownAt
    <2>6. TypeOK'
      <3>1. Len(queue') <= QueueMax
        <4>1. Len(queue) \in Nat /\ Len(queue) <= QueueMax /\ QueueMax \in Nat
          BY <1>2, <2>2 DEF TypeOK, EventLoopAssumption
        <4> QED
          BY <2>5, <4>1
      <3>2. {quitLost', young', stale'} \subseteq BOOLEAN
        <4>1. quitLost \in BOOLEAN /\ young \in BOOLEAN
          BY <1>2 DEF TypeOK
        <4> QED
          BY <1>8, <1>10, <4>1
      <3> QED
        BY <1>2, <1>3, <1>6, <1>7, <2>5, <3>1, <3>2 DEF TypeOK
    <2>7. LoopTypes'
      BY <1>2, <1>3, <1>6, <2>6 DEF LoopTypes
    <2>8. QueueExact'
      BY <1>1, <1>3, <1>10, <2>5, <2>7, QueueShorter
    <2>9. ThrownOld'
      <3>1. CASE stale \/ Room
        BY <1>3, <3>1 DEF ThrownOld
      <3>2. CASE ~stale /\ ~Room
        <4>1. ~young
          BY <1>1, <3>2 DEF ThrownOld
        <4>2. queue[1].id + (Len(queue) - 1) <= entered /\ ~(Len(queue) < QueueMax) /\ QueueMax \in Nat
          BY <1>1, <2>2, <3>2 DEF QueueExact, Room, EventLoopAssumption
        <4>3. ~(entered - queue[1].id < QueueMax - 1)
          BY ONLY <1>2, <2>2, <4>2
        <4> QED
          BY <1>10, <4>1, <4>3 DEF ThrownOld, ThrownAt
      <3> QED
        BY <3>1, <3>2
    <2> QED
      BY <1>4, <1>5, <2>7, <2>8, <2>9 DEF LoopInv
  <1> QED
    BY <1>9, <1>10 DEF AddThrow

-----------------------------------------------------------------------------
(* The loop                                                                 *)

\* The loop moves the first event of the queue to the end of its own, or loses it, or
\* finds that there are no more.
LEMMA DrainKeeps ==
    ASSUME EventLoopAssumption, LoopInv, Drain
    PROVE  LoopInv'
  <1>1. LoopTypes /\ ThrownOld /\ QueueExact /\ LoopExact /\ WaitInv
    BY DEF LoopInv
  <1>2. TypeOK /\ entered \in Nat /\ listed \in Nat
    BY <1>1 DEF LoopTypes
  <1>3. /\ entered' = entered /\ adding' = adding /\ full' = full /\ young' = young /\ stale' = stale
        /\ UNCHANGED listVars /\ seen' = seen
    BY DEF Drain, LoopStep
  <1>4. /\ head' = head /\ tail' = tail /\ free' = free /\ next' = next /\ event' = event /\ listed' = listed
    BY <1>3 DEF listVars
  <1>5. ThrownOld'
    BY <1>1, <1>3 DEF ThrownOld
  <1>6. loop \in Seq(Event) /\ queue \in Seq(Event) /\ Len(loop) \in Nat /\ quitLost \in BOOLEAN
    BY <1>2, QueueTypes DEF TypeOK
  <1>7. CASE queue = <<>> /\ pc' = "async" /\ UNCHANGED <<queue, loop, quitLost>>
    <2>1. TypeOK'
      BY <1>2, <1>3, <1>4, <1>7 DEF TypeOK
    <2>2. QueueExact' /\ LoopExact'
      BY <1>1, <1>3, <1>7 DEF QueueExact, LoopExact, Way
    <2>3. WaitInv'
      BY <1>1, <1>3, <1>6, <1>7, ListsStay
    <2> QED
      BY <1>2, <1>3, <1>4, <1>5, <1>7, <2>1, <2>2, <2>3 DEF LoopInv, LoopTypes
  <1>8. ASSUME queue # <<>>, queue' = Tail(queue)
        PROVE  /\ queue' \in Seq(Event) /\ Len(queue') = Len(queue) - 1 /\ Len(queue') <= QueueMax
               /\ \A i \in 1..Len(queue') : queue'[i] = queue[i + 1]
               /\ Head(queue) = queue[1] /\ queue[1] \in Event /\ 1 \in 1..Len(queue)
    <2>1. PICK s \in Seq(Event) : s = queue /\ s # <<>>
      BY <1>6, <1>8
    <2>2. /\ Tail(s) \in Seq(Event) /\ Len(s) \in Nat \ {0} /\ Len(Tail(s)) = Len(s) - 1
          /\ s[1] \in Event /\ Head(s) = s[1] /\ \A i \in 1..Len(Tail(s)) : Tail(s)[i] = s[i + 1]
      BY <2>1, TailEntries
    <2>3. Len(s) <= QueueMax /\ QueueMax \in Nat
      BY <1>2, <2>1 DEF TypeOK, EventLoopAssumption
    <2>4. 1 \in 1..Len(s) /\ Len(s) - 1 <= QueueMax
      BY ONLY <2>2, <2>3
    <2> QED
      BY <1>8, <2>1, <2>2, <2>4
  <1>9. CASE /\ queue # <<>> /\ LoopRoom
             /\ queue' = Tail(queue)
             /\ loop' = Append(loop, Head(queue))
             /\ UNCHANGED <<pc, quitLost>>
    <2>1. PICK l \in Nat : l = Len(loop) /\ l < LoopMax /\ LoopMax \in Nat
      BY <1>6, <1>9 DEF LoopRoom, EventLoopAssumption
    <2>2. PICK e \in Event : e = queue[1] /\ e = Head(queue)
      BY <1>8, <1>9
    <2>3. /\ loop' \in Seq(Event) /\ Len(loop') = l + 1 /\ loop'[l + 1] = e
          /\ \A i \in 1..l : loop'[i] = loop[i]
      BY <1>6, <1>9, <2>1, <2>2
    <2>4. l + 1 <= LoopMax
      BY ONLY <2>1, l \in Nat
    <2>5. TypeOK'
      BY <1>2, <1>3, <1>4, <1>8, <1>9, <2>3, <2>4 DEF TypeOK
    <2>6. LoopTypes'
      <3>1. pc # "take"
        BY DEF Drain
      <3> QED
        BY <1>2, <1>3, <1>4, <1>9, <2>5, <3>1 DEF LoopTypes
    <2>7. \A i \in 1..(l + 1) : i \in 1..l \/ i = l + 1
      BY ONLY l \in Nat
    <2>8. QueueExact'
      <3>1. \A i \in 1..Len(loop') : (\E j \in 1..Len(loop) : loop'[i] = loop[j]) \/ loop'[i] = queue[1]
        BY <2>1, <2>2, <2>3, <2>7
      <3> QED
        BY <1>1, <1>3, <1>8, <1>9, <2>6, <3>1, QueueShorter
    <2>9. Way(e) = "public" /\ e.id <= entered /\ seen["public"] < e.id
          /\ \A j \in 1..l : Way(loop[j]) = "public" => loop[j].id < e.id
      <3>1. /\ e.kind # "private" /\ e.id + (Len(queue) - 1) <= entered /\ seen["public"] < e.id
            /\ \A j \in 1..l : Way(loop[j]) = "public" => loop[j].id < e.id
        BY <1>1, <1>8, <1>9, <2>1, <2>2 DEF QueueExact
      <3>2. e.id \in Nat /\ Len(queue) \in Nat /\ 1 \in 1..Len(queue)
        BY <1>2, <1>8, <1>9, <2>2, QueueTypes
      <3>3. e.id <= entered
        BY ONLY <1>2, <3>1, <3>2
      <3> QED
        BY <3>1, <3>3 DEF Way
    <2>10. LoopExact'
      <3> SUFFICES ASSUME NEW i \in 1..(l + 1)
                   PROVE  /\ seen[Way(loop'[i])] < loop'[i].id
                          /\ Way(loop'[i]) = "public" => loop'[i].id <= entered
                          /\ \A j \in 1..(l + 1) : j < i /\ Way(loop'[j]) = Way(loop'[i]) => loop'[j].id < loop'[i].id
        BY <1>1, <1>3, <2>3 DEF LoopExact, Way
      <3>1. CASE i = l + 1
        <4>1. \A j \in 1..(l + 1) : j < i => j \in 1..l
          BY ONLY <3>1, l \in Nat
        <4> QED
          BY <2>3, <2>9, <3>1, <4>1
      <3>2. CASE i \in 1..l
        <4>1. \A j \in 1..(l + 1) : j < i => j \in 1..l
          BY ONLY <3>2, l \in Nat
        <4> QED
          BY <1>1, <2>1, <2>3, <3>2, <4>1 DEF LoopExact
      <3> QED
        BY <2>7, <3>1, <3>2
    <2>11. WaitInv'
      <3>1. \A i \in 1..Len(loop') : Way(loop'[i]) = "private" => \E j \in 1..Len(loop) : loop'[i] = loop[j]
        <4>1. Way(loop'[l + 1]) # "private"
          BY <2>3, <2>9
        <4> QED
          BY <2>1, <2>3, <2>7, <4>1
      <3>2. Len(loop') \in Nat
        BY <2>3
      <3> QED
        BY <1>1, <1>3, <3>1, <3>2, ListsStay
    <2> QED
      BY <1>5, <2>6, <2>8, <2>10, <2>11 DEF LoopInv
  <1>10. CASE /\ queue # <<>> /\ ~LoopRoom
              /\ queue' = Tail(queue)
              /\ quitLost' = (quitLost \/ Head(queue).kind = "quit")
              /\ pc' = "dispatch"
              /\ UNCHANGED loop
    <2>1. quitLost' \in BOOLEAN
      BY <1>6, <1>10
    <2>2. TypeOK'
      BY <1>2, <1>3, <1>4, <1>8, <1>10, <2>1 DEF TypeOK
    <2>3. LoopTypes'
      BY <1>2, <1>3, <1>4, <1>10, <2>2 DEF LoopTypes
    <2>4. QueueExact'
      <3>1. \A i \in 1..Len(loop') : (\E j \in 1..Len(loop) : loop'[i] = loop[j]) \/ loop'[i] = queue[1]
        BY <1>10
      <3> QED
        BY <1>1, <1>3, <1>8, <1>10, <2>3, <3>1, QueueShorter
    <2>5. LoopExact'
      BY <1>1, <1>3, <1>10 DEF LoopExact, Way
    <2>6. WaitInv'
      BY <1>1, <1>3, <1>6, <1>10, ListsStay
    <2> QED
      BY <1>5, <2>3, <2>4, <2>5, <2>6 DEF LoopInv
  <1> QED
    BY <1>7, <1>9, <1>10 DEF Drain

\* The list is only looked at.
LEMMA AsyncLookKeeps ==
    ASSUME LoopInv, AsyncLook
    PROVE  LoopInv'
  <1>1. LoopTypes /\ ThrownOld /\ QueueExact /\ LoopExact /\ WaitInv
    BY DEF LoopInv
  <1>2. TypeOK /\ entered \in Nat /\ listed \in Nat
    BY <1>1 DEF LoopTypes
  <1>3. /\ entered' = entered /\ adding' = adding /\ full' = full /\ young' = young /\ stale' = stale
        /\ UNCHANGED listVars /\ seen' = seen /\ queue' = queue /\ loop' = loop /\ quitLost' = quitLost
        /\ pc' = IF head # 0 THEN "take" ELSE "dispatch"
    BY DEF AsyncLook, LoopStep, Waiting
  <1>4. /\ head' = head /\ tail' = tail /\ free' = free /\ next' = next /\ event' = event /\ listed' = listed
    BY <1>3 DEF listVars
  <1>5. QueueExact' /\ LoopExact' /\ ThrownOld'
    BY <1>1, <1>3 DEF QueueExact, LoopExact, ThrownOld, Way
  <1>6. Len(loop) \in Nat
    BY <1>2, QueueTypes
  <1>7. WaitInv'
    BY <1>1, <1>3, <1>6, ListsStay
  <1>8. TypeOK' /\ (pc' = "take" => head' # 0)
    BY <1>2, <1>3, <1>4 DEF TypeOK
  <1> QED
    BY <1>2, <1>3, <1>4, <1>5, <1>7, <1>8 DEF LoopInv, LoopTypes

\* An event dispatched is the one its way saw last; a handler has added what it posts by then.
LEMMA DispatchKeeps ==
    ASSUME EventLoopAssumption, LoopInv, Dispatch
    PROVE  LoopInv'
  <1>1. LoopTypes /\ ThrownOld /\ QueueExact /\ LoopExact /\ WaitInv
    BY DEF LoopInv
  <1>2. TypeOK /\ entered \in Nat /\ listed \in Nat
    BY <1>1 DEF LoopTypes
  <1>3. /\ entered' = entered /\ adding' = adding /\ full' = full /\ young' = young /\ stale' = stale
        /\ UNCHANGED listVars /\ queue' = queue /\ quitLost' = quitLost /\ pc = "dispatch"
    BY DEF Dispatch, LoopStep
  <1>4. /\ head' = head /\ tail' = tail /\ free' = free /\ next' = next /\ event' = event /\ listed' = listed
    BY <1>3 DEF listVars
  <1>5. ThrownOld'
    BY <1>1, <1>3 DEF ThrownOld
  <1>6. loop \in Seq(Event) /\ Len(loop) \in Nat
    BY <1>2, QueueTypes
  <1>7. CASE loop = <<>> /\ pc' = "drain" /\ UNCHANGED <<loop, seen>>
    <2>1. TypeOK'
      BY <1>2, <1>3, <1>4, <1>7 DEF TypeOK
    <2>2. QueueExact' /\ LoopExact'
      BY <1>1, <1>3, <1>7 DEF QueueExact, LoopExact, Way
    <2>3. WaitInv'
      BY <1>1, <1>3, <1>6, <1>7, ListsStay
    <2> QED
      BY <1>2, <1>3, <1>4, <1>5, <1>7, <2>1, <2>2, <2>3 DEF LoopInv, LoopTypes
  <1>8. CASE /\ loop # <<>>
             /\ loop' = Tail(loop)
             /\ seen' = [seen EXCEPT ![Way(Head(loop))] = Head(loop).id]
             /\ pc' = IF Head(loop).kind = "quit" THEN "exited" ELSE pc
    <2>1. PICK s \in Seq(Event) : s = loop /\ s # <<>>
      BY <1>6, <1>8
    <2>2. /\ Tail(s) \in Seq(Event) /\ Len(s) \in Nat \ {0} /\ Len(Tail(s)) = Len(s) - 1
          /\ s[1] \in Event /\ Head(s) = s[1]
          /\ \A i \in 1..Len(Tail(s)) : i + 1 \in 2..Len(s) /\ Tail(s)[i] = s[i + 1]
      BY <2>1, TailEntries
    <2>3. PICK l \in Nat \ {0} : l = Len(loop)
      BY <2>1, <2>2
    <2>4. PICK e \in Event : e = loop[1] /\ e = Head(loop)
      BY <2>1, <2>2
    <2>5. /\ loop' \in Seq(Event) /\ Len(loop') = l - 1
          /\ \A i \in 1..(l - 1) : i + 1 \in 2..l /\ loop'[i] = loop[i + 1]
      BY <1>8, <2>1, <2>2, <2>3
    <2>6. PICK way \in {"private", "public"} : way = Way(e)
      BY DEF Way
    <2>7. e.id \in Nat /\ seen \in [{"private", "public"} -> Nat] /\ 1 \in 1..l
      BY <1>2 DEF Event, TypeOK
    <2>8. /\ seen'[way] = e.id
          /\ \A w \in {"private", "public"} \ {way} : seen'[w] = seen[w]
          /\ seen' \in [{"private", "public"} -> Nat]
      BY <1>8, <2>4, <2>6, <2>7
    <2>9. TypeOK'
      <3>1. pc' \in {"drain", "async", "take", "dispatch", "exited"}
        BY <1>3, <1>8
      <3>2. Len(loop') <= LoopMax
        <4>1. l <= LoopMax /\ LoopMax \in Nat
          BY <1>2, <2>3 DEF TypeOK, EventLoopAssumption
        <4> QED
          BY <2>5, <4>1
      <3> QED
        BY <1>2, <1>3, <1>4, <2>5, <2>8, <3>1, <3>2 DEF TypeOK
    <2>10. LoopTypes'
      BY <1>2, <1>3, <1>4, <1>8, <2>9 DEF LoopTypes
    <2>11. \A i \in 1..(l - 1) : i + 1 \in 1..l /\ 1 < i + 1
      BY ONLY l \in Nat
    <2>12. /\ way = "public" => e.id <= entered
           /\ \A i \in 1..(l - 1) : Way(loop[i + 1]) = way => e.id < loop[i + 1].id
      BY <1>1, <2>3, <2>4, <2>6, <2>7, <2>11 DEF LoopExact
    <2>13. LoopExact'
      <3>1. seen'["public"] <= entered'
        BY <1>1, <1>3, <2>8, <2>12 DEF LoopExact
      <3> SUFFICES ASSUME NEW i \in 1..(l - 1)
                   PROVE  /\ seen'[Way(loop'[i])] < loop'[i].id
                          /\ Way(loop'[i]) = "public" => loop'[i].id <= entered
                          /\ \A j \in 1..(l - 1) : j < i /\ Way(loop'[j]) = Way(loop'[i]) => loop'[j].id < loop'[i].id
        BY <1>3, <2>5, <3>1 DEF LoopExact, Way
      <3>2. loop'[i] = loop[i + 1] /\ i + 1 \in 1..l
        BY <2>5, <2>11
      <3>3. /\ seen[Way(loop[i + 1])] < loop[i + 1].id
            /\ Way(loop[i + 1]) = "public" => loop[i + 1].id <= entered
            /\ \A j \in 1..l : j < i + 1 /\ Way(loop[j]) = Way(loop[i + 1]) => loop[j].id < loop[i + 1].id
        BY <1>1, <2>3, <3>2 DEF LoopExact
      <3>4. seen'[Way(loop'[i])] < loop'[i].id
        <4>1. Way(loop'[i]) = Way(loop[i + 1]) /\ Way(loop'[i]) \in {"private", "public"}
          BY <3>2 DEF Way
        <4> QED
          BY <2>8, <2>12, <3>2, <3>3, <4>1
      <3>5. ASSUME NEW j \in 1..(l - 1), j < i, Way(loop'[j]) = Way(loop'[i]) PROVE loop'[j].id < loop'[i].id
        <4>1. loop'[j] = loop[j + 1] /\ j + 1 \in 1..l /\ j + 1 < i + 1
          BY <2>5, <2>11, <3>5
        <4>2. Way(loop[j + 1]) = Way(loop[i + 1])
          BY <3>2, <3>5, <4>1 DEF Way
        <4> QED
          BY <3>2, <3>3, <4>1, <4>2
      <3>6. Way(loop'[i]) = "public" => loop'[i].id <= entered
        BY <3>2, <3>3 DEF Way
      <3> QED
        BY <3>4, <3>5, <3>6
    <2>14. QueueExact'
      <3> SUFFICES ASSUME NEW i \in 1..Len(queue)
                   PROVE  /\ queue[i].kind # "private"
                          /\ queue[i].id + (Len(queue) - i) <= entered
                          /\ seen'["public"] < queue[i].id
                          /\ \A j \in 1..Len(queue) : j < i => queue[j].id + (i - j) <= queue[i].id
                          /\ \A j \in 1..(l - 1) : Way(loop'[j]) = "public" => loop'[j].id < queue[i].id
        BY <1>3, <2>5 DEF QueueExact, Way
      <3>1. seen'["public"] < queue[i].id
        BY <1>1, <2>3, <2>4, <2>6, <2>7, <2>8 DEF QueueExact
      <3>2. \A j \in 1..(l - 1) : Way(loop'[j]) = "public" => loop'[j].id < queue[i].id
        BY <1>1, <2>3, <2>5, <2>11 DEF QueueExact, Way
      <3> QED
        BY <1>1, <3>1, <3>2 DEF QueueExact
    <2>15. WaitInv'
      <3>1. \A i \in 1..Len(loop') : \E j \in 1..Len(loop) : loop'[i] = loop[j]
        BY <2>3, <2>5, <2>11
      <3>2. Len(loop') \in Nat
        BY <2>5
      <3>3. seen'["private"] = seen["private"]
              \/ \E j \in 1..Len(loop) : Way(loop[j]) = "private" /\ seen'["private"] = loop[j].id
        BY <2>3, <2>4, <2>6, <2>7, <2>8
      <3> QED
        BY <1>1, <1>3, <3>1, <3>2, <3>3, ListsStay
    <2> QED
      BY <1>5, <2>10, <2>13, <2>14, <2>15 DEF LoopInv
  <1> QED
    BY <1>7, <1>8 DEF Dispatch

-----------------------------------------------------------------------------
(* The list of private events                                               *)

\* The node tmp is on neither list; base is what waits, from first on, and rest is free.
Detached(base, rest, tmp, first) ==
    /\ base \in Seq(Nodes) /\ rest \in Seq(Nodes) /\ tmp \in Nodes
    /\ Linked(first, base)
    /\ \A i \in 1..Len(rest) : next[rest[i]] = IF i < Len(rest) THEN rest[i + 1] ELSE 0
    /\ Len(base) + Len(rest) + 1 = ListMax
    /\ \A n \in Nodes : n = tmp \/ Contains(base, n) \/ Contains(rest, n)
    /\ IsInjective(base) /\ IsInjective(rest)
    /\ \A n \in Nodes : ~(Contains(base, n) /\ Contains(rest, n))
    /\ ~Contains(base, tmp) /\ ~Contains(rest, tmp)
    /\ base # <<>> => base[Len(base)] = tail
    /\ \A i \in 1..Len(base) : event[base[i]] = listed - Len(base) + i

\* What egal_add_async_event does with it.
Attached(rest, tmp, first) ==
    LET last == AppendAfter(first) IN
    /\ free' = IF rest = <<>> THEN 0 ELSE rest[1]
    /\ event' = [event EXCEPT ![tmp] = listed + 1]
    /\ next' = [n \in Nodes |-> IF n = tmp THEN 0 ELSE IF n = last THEN tmp ELSE next[n]]
    /\ head' = IF last = 0 THEN tmp ELSE first
    /\ tail' = tmp
    /\ listed' = listed + 1

\* A sequence with an element more.
LEMMA AppendEntries ==
    ASSUME NEW S, NEW s \in Seq(S), NEW x \in S
    PROVE  /\ Append(s, x) \in Seq(S) /\ Len(s) \in Nat /\ Len(Append(s, x)) = Len(s) + 1
           /\ Append(s, x)[Len(s) + 1] = x
           /\ \A i \in 1..Len(s) : s[i] \in S /\ Append(s, x)[i] = s[i]
           /\ IsInjective(s) /\ ~Contains(s, x) => IsInjective(Append(s, x))
  <1> DEFINE a == Append(s, x)
  <1>1. /\ a \in Seq(S) /\ Len(s) \in Nat /\ Len(a) = Len(s) + 1 /\ a[Len(s) + 1] = x
        /\ \A i \in 1..Len(s) : s[i] \in S /\ a[i] = s[i]
    OBVIOUS
  <1> HIDE DEF a
  <1>2. ASSUME IsInjective(s), ~Contains(s, x) PROVE IsInjective(a)
    <2>1. DOMAIN s = 1..Len(s) /\ DOMAIN a = 1..Len(a)
      BY <1>1
    <2>2. \A i \in 1..Len(a) : i \in 1..Len(s) \/ i = Len(s) + 1
      BY <1>1
    <2>3. \A i \in 1..Len(s) : s[i] # x
      BY <1>2 DEF Contains
    <2>4. \A i, j \in 1..Len(s) : s[i] = s[j] => i = j
      BY <1>2, <2>1 DEF IsInjective
    <2>5. \A i, j \in 1..Len(a) : a[i] = a[j] => i = j
      BY <1>1, <2>2, <2>3, <2>4
    <2> QED
      BY <2>1, <2>5 DEF IsInjective
  <1> QED
    BY <1>1, <1>2 DEF a

\* The node is the last of the list, with the newest event.
LEMMA NodeAttached ==
    ASSUME EventLoopAssumption, LoopTypes, NEW base, NEW rest, NEW tmp, NEW first,
           Detached(base, rest, tmp, first), Attached(rest, tmp, first)
    PROVE  Nodelists(Append(base, tmp), rest)'
  <1>1. /\ base \in Seq(Nodes) /\ rest \in Seq(Nodes) /\ tmp \in Nodes
        /\ Len(base) + Len(rest) + 1 = ListMax
        /\ \A n \in Nodes : n = tmp \/ Contains(base, n) \/ Contains(rest, n)
        /\ IsInjective(base) /\ IsInjective(rest)
        /\ \A n \in Nodes : ~(Contains(base, n) /\ Contains(rest, n))
        /\ ~Contains(base, tmp) /\ ~Contains(rest, tmp)
    BY DEF Detached
  <1>2. /\ first = IF base = <<>> THEN 0 ELSE base[1]
        /\ \A i \in 1..Len(base) : next[base[i]] = IF i < Len(base) THEN base[i + 1] ELSE 0
        /\ \A i \in 1..Len(rest) : next[rest[i]] = IF i < Len(rest) THEN rest[i + 1] ELSE 0
        /\ base # <<>> => base[Len(base)] = tail
        /\ \A i \in 1..Len(base) : event[base[i]] = listed - Len(base) + i
    BY DEF Detached, Linked
  <1>3. PICK last : last = AppendAfter(first)
    OBVIOUS
  <1>4. /\ free' = IF rest = <<>> THEN 0 ELSE rest[1]
        /\ event' = [event EXCEPT ![tmp] = listed + 1]
        /\ next' = [n \in Nodes |-> IF n = tmp THEN 0 ELSE IF n = last THEN tmp ELSE next[n]]
        /\ head' = IF last = 0 THEN tmp ELSE first
        /\ tail' = tmp
        /\ listed' = listed + 1
    BY <1>3 DEF Attached
  <1>5. PICK b \in Nat : b = Len(base)
    BY <1>1
  <1>6. PICK on : on = Append(base, tmp)
    OBVIOUS
  <1>7. /\ on \in Seq(Nodes) /\ Len(on) = b + 1 /\ on[b + 1] = tmp
        /\ \A i \in 1..b : base[i] \in Nodes /\ on[i] = base[i]
        /\ IsInjective(on)
    BY <1>1, <1>5, <1>6, AppendEntries
  <1>8. \A n : Contains(on, n) <=> Contains(base, n) \/ n = tmp
    BY <1>1, <1>6, AppendFacts
  <1>9. 0 \notin Nodes /\ \A n \in Nodes : n \in Nat
    BY DEF Nodes, EventLoopAssumption
  <1>10. (base = <<>>) <=> (b = 0)
    BY <1>1, <1>5
  <1>11. last = IF b = 0 THEN 0 ELSE base[b]
    <2>1. CASE b = 0
      BY <1>2, <1>3, <1>10, <2>1 DEF AppendAfter
    <2>2. CASE b # 0
      <3>1. 1 \in 1..b
        BY <2>2
      <3>2. first # 0
        BY <1>2, <1>7, <1>9, <1>10, <2>2, <3>1
      <3> QED
        BY <1>2, <1>3, <1>5, <1>10, <2>2, <3>2 DEF AppendAfter
    <2> QED
      BY <2>1, <2>2
  <1>12. \A i \in 1..b : base[i] # tmp /\ Contains(base, base[i])
    BY <1>1, <1>5 DEF Contains
  <1>13. \A i, j \in 1..b : base[i] = base[j] => i = j
    BY <1>1, <1>5 DEF IsInjective
  <1>14. \A i \in 1..(b + 1) : i \in 1..b \/ i = b + 1
    BY ONLY b \in Nat
  <1>15. head' = on[1] /\ on # <<>>
    <2>1. on # <<>>
      BY <1>7
    <2>2. CASE b = 0
      <3>1. last = 0 /\ on[1] = tmp
        BY <1>7, <1>11, <2>2
      <3> QED
        BY <1>4, <2>1, <3>1
    <2>3. CASE b # 0
      <3>1. 1 \in 1..b /\ b \in 1..b
        BY <2>3
      <3>2. last = base[b] /\ base[b] \in Nodes
        BY <1>7, <1>11, <2>3, <3>1
      <3>3. first = base[1] /\ on[1] = base[1]
        BY <1>2, <1>7, <1>10, <2>3, <3>1
      <3>4. last # 0
        BY <1>9, <3>2
      <3> QED
        BY <1>4, <2>1, <3>3, <3>4
    <2> QED
      BY <2>2, <2>3
  <1>16. ASSUME NEW i \in 1..(b + 1) PROVE next'[on[i]] = IF i < b + 1 THEN on[i + 1] ELSE 0
    <2>1. CASE i = b + 1
      BY <1>1, <1>4, <1>7, <2>1
    <2>2. CASE i \in 1..b /\ i = b
      <3>1. on[i] = last /\ on[i] # tmp /\ on[i] \in Nodes
        BY <1>7, <1>11, <1>12, <2>2
      <3> QED
        BY <1>4, <1>7, <2>2, <3>1
    <2>3. CASE i \in 1..b /\ i # b
      <3>1. i < b /\ i + 1 \in 1..b /\ b \in 1..b /\ i < b + 1 /\ b # 0
        BY ONLY <2>3, b \in Nat
      <3>2. base[i] # last /\ base[i] # tmp /\ base[i] \in Nodes
        BY <1>7, <1>11, <1>12, <1>13, <2>3, <3>1
      <3>3. next'[base[i]] = next[base[i]]
        BY <1>4, <3>2
      <3> QED
        BY <1>2, <1>5, <1>7, <2>3, <3>1, <3>3
    <2> QED
      BY <1>14, <2>1, <2>2, <2>3
  <1>17. ASSUME NEW i \in 1..Len(rest) PROVE next'[rest[i]] = IF i < Len(rest) THEN rest[i + 1] ELSE 0
    <2>1. rest[i] \in Nodes /\ Contains(rest, rest[i])
      BY <1>1 DEF Contains
    <2>2. rest[i] # tmp
      BY <1>1, <2>1
    <2>3. rest[i] # last
      <3>1. CASE b = 0
        BY <1>9, <1>11, <2>1, <3>1
      <3>2. CASE b # 0
        <4>1. b \in 1..b
          BY <3>2
        <4>2. base[b] \in Nodes /\ Contains(base, base[b])
          BY <1>7, <1>12, <4>1
        <4> QED
          BY <1>1, <1>11, <2>1, <3>2, <4>2
      <3> QED
        BY <3>1, <3>2
    <2>4. next'[rest[i]] = next[rest[i]]
      BY <1>4, <2>1, <2>2, <2>3
    <2> QED
      BY <1>2, <2>4
  <1>18. ASSUME NEW i \in 1..(b + 1) PROVE event'[on[i]] = (listed + 1) - (b + 1) + i
    <2>1. listed \in Nat /\ event \in [Nodes -> Nat]
      BY DEF LoopTypes, TypeOK
    <2>2. CASE i = b + 1
      <3>1. event'[on[i]] = listed + 1
        BY <1>1, <1>4, <1>7, <2>1, <2>2
      <3> QED
        BY ONLY <2>1, <2>2, <3>1, b \in Nat
    <2>3. CASE i \in 1..b
      <3>1. event'[on[i]] = event[base[i]]
        BY <1>4, <1>7, <1>12, <2>1, <2>3
      <3>2. event[base[i]] = listed - b + i
        BY <1>2, <1>5, <2>3
      <3> QED
        BY ONLY <2>1, <2>3, <3>1, <3>2, b \in Nat
    <2> QED
      BY <1>14, <2>2, <2>3
  <1>19. Linked(head, on)' /\ Linked(free, rest)'
    <2>1. Linked(head, on)'
      BY <1>7, <1>15, <1>16 DEF Linked
    <2>2. Linked(free, rest)'
      BY <1>4, <1>17 DEF Linked
    <2> QED
      BY <2>1, <2>2
  <1>20. Len(on) + Len(rest) = ListMax
    <2>1. Len(rest) \in Nat /\ b + Len(rest) + 1 = ListMax
      BY <1>1, <1>5
    <2> QED
      BY ONLY <1>7, <2>1, b \in Nat
  <1>21. \A n \in Nodes : (Contains(on, n) \/ Contains(rest, n)) /\ ~(Contains(on, n) /\ Contains(rest, n))
    BY <1>1, <1>8
  <1>22. on[Len(on)] = tail'
    BY <1>4, <1>7
  <1>23. Nodelists(on, rest)'
    BY <1>1, <1>4, <1>7, <1>18, <1>19, <1>20, <1>21, <1>22 DEF Nodelists
  <1> QED
    BY <1>6, <1>23

\* No element of a sequence comes again in its tail, and none of those twice.
LEMMA TailDiffers ==
    ASSUME NEW S, NEW s \in Seq(S), s # <<>>, IsInjective(s)
    PROVE  /\ IsInjective(Tail(s)) /\ ~Contains(Tail(s), s[1])
           /\ \A y : Contains(s, y) <=> Contains(Tail(s), y) \/ y = s[1]
  <1> DEFINE h == Tail(s)
  <1>1. /\ h \in Seq(S) /\ Len(s) \in Nat \ {0} /\ Len(h) = Len(s) - 1 /\ Len(h) \in Nat
        /\ Head(s) = s[1] /\ \A i \in 1..Len(h) : i + 1 \in 2..Len(s) /\ h[i] = s[i + 1]
    BY TailEntries
  <1>2. \A y : Contains(s, y) <=> Contains(h, y) \/ y = s[1]
    BY <1>1, HeadFacts
  <1> HIDE DEF h
  <1>3. DOMAIN h = 1..Len(h) /\ DOMAIN s = 1..Len(s)
    BY <1>1
  <1>4. \A i, j \in 1..Len(s) : s[i] = s[j] => i = j
    BY <1>3 DEF IsInjective
  <1>5. \A i, j \in 1..Len(h) : h[i] = h[j] => i = j
    <2> SUFFICES ASSUME NEW i \in 1..Len(h), NEW j \in 1..Len(h), h[i] = h[j] PROVE i = j
      OBVIOUS
    <2>1. i + 1 \in 1..Len(s) /\ j + 1 \in 1..Len(s) /\ s[i + 1] = s[j + 1]
      BY <1>1
    <2>2. i + 1 = j + 1
      BY <1>4, <2>1
    <2> QED
      BY <2>2
  <1>6. ASSUME NEW i \in 1..Len(h), h[i] = s[1] PROVE FALSE
    <2>1. i + 1 \in 1..Len(s) /\ 1 \in 1..Len(s) /\ s[i + 1] = s[1]
      BY <1>1, <1>6
    <2>2. i + 1 = 1
      BY <1>4, <2>1
    <2> QED
      BY <2>2
  <1>7. IsInjective(h)
    BY <1>3, <1>5 DEF IsInjective
  <1>8. ~Contains(h, s[1])
    BY <1>6 DEF Contains
  <1> QED
    BY <1>2, <1>7, <1>8 DEF h

\* A list without its first node.
LEMMA LinkedTail ==
    ASSUME NEW s \in Seq(Nodes), s # <<>>, NEW first, Linked(first, s)
    PROVE  /\ first = s[1] /\ Linked(next[first], Tail(s))
           /\ Tail(s) # <<>> => Tail(s)[Len(Tail(s))] = s[Len(s)]
  <1> DEFINE h == Tail(s)
  <1>1. /\ h \in Seq(Nodes) /\ Len(s) \in Nat \ {0} /\ Len(h) = Len(s) - 1 /\ Len(h) \in Nat
        /\ \A i \in 1..Len(h) : i + 1 \in 2..Len(s) /\ h[i] = s[i + 1]
    BY TailEntries
  <1> HIDE DEF h
  <1>2. PICK m \in Nat : m = Len(h) /\ Len(s) = m + 1
    BY <1>1
  <1>3. first = s[1] /\ \A i \in 1..(m + 1) : next[s[i]] = IF i < m + 1 THEN s[i + 1] ELSE 0
    BY <1>2 DEF Linked
  <1>4. (h = <<>>) <=> (m = 0)
    BY <1>1, <1>2
  <1>5. next[first] = IF h = <<>> THEN 0 ELSE h[1]
    <2>1. 1 \in 1..(m + 1) /\ (1 < m + 1 <=> m # 0) /\ (m # 0 => 1 \in 1..m)
      BY ONLY m \in Nat
    <2>2. next[first] = IF m = 0 THEN 0 ELSE s[1 + 1]
      BY <1>3, <2>1
    <2> QED
      BY <1>1, <1>2, <1>4, <2>1, <2>2
  <1>6. ASSUME NEW i \in 1..m PROVE next[h[i]] = IF i < m THEN h[i + 1] ELSE 0
    <2>1. i + 1 \in 1..(m + 1) /\ (i + 1 < m + 1 <=> i < m) /\ (i < m => i + 1 \in 1..m)
      BY ONLY m \in Nat, i \in 1..m
    <2>2. h[i] = s[i + 1] /\ (i < m => h[i + 1] = s[(i + 1) + 1])
      BY <1>1, <1>2, <2>1
    <2>3. next[s[i + 1]] = IF i + 1 < m + 1 THEN s[(i + 1) + 1] ELSE 0
      BY <1>3, <2>1
    <2> QED
      BY <2>1, <2>2, <2>3
  <1>7. h # <<>> => h[Len(h)] = s[Len(s)]
    <2>1. m # 0 => m \in 1..m
      BY ONLY m \in Nat
    <2> QED
      BY <1>1, <1>2, <1>4, <2>1
  <1>8. Linked(next[first], h)
    BY <1>2, <1>5, <1>6 DEF Linked
  <1> QED
    BY <1>3, <1>7, <1>8 DEF h

\* The first free node may be taken, ...
LEMMA FreeNode ==
    ASSUME EventLoopAssumption, LoopTypes, NEW on \in Seq(Nodes), NEW off \in Seq(Nodes), Nodelists(on, off), off # <<>>
    PROVE  /\ Detached(on, Tail(off), free, head)
           /\ next[free] = IF Tail(off) = <<>> THEN 0 ELSE Tail(off)[1]
  <1>1. /\ Linked(head, on) /\ Linked(free, off)
        /\ Len(on) + Len(off) = ListMax
        /\ \A n \in Nodes : Contains(on, n) \/ Contains(off, n)
        /\ IsInjective(on) /\ IsInjective(off) /\ \A n \in Nodes : ~(Contains(on, n) /\ Contains(off, n))
        /\ on # <<>> => on[Len(on)] = tail
        /\ \A i \in 1..Len(on) : event[on[i]] = listed - Len(on) + i
    BY DEF Nodelists
  <1>2. PICK rest : rest = Tail(off)
    OBVIOUS
  <1>3. rest \in Seq(Nodes) /\ off[1] \in Nodes /\ Len(on) + Len(rest) + 1 = ListMax
    <2>1. /\ rest \in Seq(Nodes) /\ off[1] \in Nodes /\ Len(off) \in Nat \ {0} /\ Len(rest) = Len(off) - 1
      BY <1>2, TailEntries
    <2>2. Len(on) \in Nat
      OBVIOUS
    <2>3. Len(on) + Len(rest) + 1 = ListMax
      BY ONLY <1>1, <2>1, <2>2
    <2> QED
      BY <2>1, <2>3
  <1>4. free = off[1] /\ Linked(next[free], rest)
    BY <1>1, <1>2, LinkedTail
  <1>5. IsInjective(rest) /\ ~Contains(rest, free) /\ \A y : Contains(off, y) <=> Contains(rest, y) \/ y = free
    BY <1>1, <1>2, <1>4, TailDiffers
  <1>6. ~Contains(on, free)
    BY <1>1, <1>3, <1>4, <1>5
  <1>7. Detached(on, rest, free, head)
    BY <1>1, <1>3, <1>4, <1>5, <1>6 DEF Detached, Linked
  <1> QED
    BY <1>2, <1>4, <1>7 DEF Linked

\* ... and so may the first of the list.
LEMMA FirstNode ==
    ASSUME EventLoopAssumption, LoopTypes, NEW on \in Seq(Nodes), NEW off \in Seq(Nodes), Nodelists(on, off), on # <<>>
    PROVE  /\ head = on[1] /\ event[head] = listed - Len(on) + 1
           /\ Detached(Tail(on), off, head, next[head]) /\ Linked(free, off)
  <1>1. /\ Linked(head, on) /\ Linked(free, off)
        /\ Len(on) + Len(off) = ListMax
        /\ \A n \in Nodes : Contains(on, n) \/ Contains(off, n)
        /\ IsInjective(on) /\ IsInjective(off) /\ \A n \in Nodes : ~(Contains(on, n) /\ Contains(off, n))
        /\ on # <<>> => on[Len(on)] = tail
        /\ \A i \in 1..Len(on) : event[on[i]] = listed - Len(on) + i
    BY DEF Nodelists
  <1>2. PICK base : base = Tail(on)
    OBVIOUS
  <1>3. /\ base \in Seq(Nodes) /\ on[1] \in Nodes /\ Len(on) \in Nat \ {0} /\ Len(base) = Len(on) - 1 /\ Len(base) \in Nat
        /\ \A i \in 1..Len(base) : i + 1 \in 2..Len(on) /\ base[i] = on[i + 1]
    BY <1>2, TailEntries
  <1>4. Len(base) + Len(off) + 1 = ListMax
    <2>1. Len(off) \in Nat
      OBVIOUS
    <2> QED
      BY ONLY <1>1, <1>3, <2>1
  <1>5. head = on[1] /\ Linked(next[head], base) /\ (base # <<>> => base[Len(base)] = on[Len(on)])
    BY <1>1, <1>2, LinkedTail
  <1>6. IsInjective(base) /\ ~Contains(base, head) /\ \A y : Contains(on, y) <=> Contains(base, y) \/ y = head
    BY <1>1, <1>2, <1>5, TailDiffers
  <1>7. ~Contains(off, head)
    BY <1>1, <1>3, <1>5, <1>6
  <1>8. ASSUME NEW i \in 1..Len(base) PROVE event[base[i]] = listed - Len(base) + i
    <2>1. i + 1 \in 1..Len(on) /\ base[i] = on[i + 1]
      BY <1>3
    <2>2. event[base[i]] = listed - Len(on) + (i + 1)
      BY <1>1, <2>1
    <2>3. listed \in Nat
      BY DEF LoopTypes
    <2> QED
      BY ONLY <1>3, <2>2, <2>3, i \in 1..Len(base)
  <1>9. Detached(base, off, head, next[head])
    BY <1>1, <1>3, <1>4, <1>5, <1>6, <1>7, <1>8 DEF Detached, Linked
  <1>10. event[head] = listed - Len(on) + 1
    <2>1. 1 \in 1..Len(on)
      BY <1>3
    <2> QED
      BY <1>1, <1>5, <2>1
  <1> QED
    BY <1>1, <1>2, <1>5, <1>9, <1>10

\* A private event takes a free node or, when there is none, that of the oldest.
LEMMA PostPrivateKeeps ==
    ASSUME EventLoopAssumption, LoopInv, NEW t \in Thread, PostPrivate(t)
    PROVE  LoopInv'
  <1>1. LoopTypes /\ ThrownOld /\ QueueExact /\ LoopExact /\ WaitInv
    BY DEF LoopInv
  <1>2. TypeOK /\ entered \in Nat /\ listed \in Nat
    BY <1>1 DEF LoopTypes
  <1>3. /\ queue' = queue /\ entered' = entered /\ adding' = adding /\ full' = full /\ pc' = pc /\ loop' = loop
        /\ seen' = seen /\ quitLost' = quitLost /\ young' = young /\ stale' = stale
    BY DEF PostPrivate, queueVars, pastVars
  <1>4. QueueExact' /\ LoopExact' /\ ThrownOld'
    BY <1>1, <1>3 DEF QueueExact, LoopExact, ThrownOld, Way
  <1>5. PICK on, off \in Seq(Nodes) : Nodelists(on, off) /\ Past(listed - Len(on))
    BY <1>1 DEF WaitInv
  <1>6. ListMax \in Nat /\ ListMax # 0 /\ Len(on) \in Nat /\ Len(off) \in Nat
    BY DEF EventLoopAssumption
  <1>7. (free = 0) <=> (off = <<>>)
    <2>1. free = IF off = <<>> THEN 0 ELSE off[1]
      BY <1>5 DEF Nodelists, Linked
    <2>2. off # <<>> => off[1] \in Nodes
      BY TailEntries
    <2>3. 0 \notin Nodes
      BY DEF Nodes
    <2> QED
      BY <2>1, <2>2, <2>3
  <1>8. \E base, rest \in Seq(Nodes), tmp \in Nodes, first \in 0..ListMax :
            Detached(base, rest, tmp, first) /\ Attached(rest, tmp, first) /\ Len(base) <= Len(on)
    <2>1. CASE free # 0
      <3>1. PICK rest : rest = Tail(off)
        OBVIOUS
      <3>2. rest \in Seq(Nodes)
        BY <1>7, <2>1, <3>1, TailEntries
      <3>3. Detached(on, rest, free, head) /\ next[free] = IF rest = <<>> THEN 0 ELSE rest[1]
        BY <1>1, <1>5, <1>7, <2>1, <3>1, FreeNode
      <3>4. Attached(rest, free, head)
        BY <2>1, <3>3 DEF PostPrivate, Attached, Into
      <3>5. Len(on) <= Len(on)
        BY ONLY <1>6
      <3>6. free \in Nodes /\ head \in 0..ListMax
        BY <1>2, <3>3 DEF Detached, TypeOK
      <3> QED
        BY <3>2, <3>3, <3>4, <3>5, <3>6
    <2>2. CASE free = 0
      <3>1. off = <<>> /\ Len(off) = 0
        BY <1>7, <2>2
      <3>2. on # <<>>
        <4>1. Len(on) + Len(off) = ListMax
          BY <1>5 DEF Nodelists
        <4>2. Len(on) # 0
          BY ONLY <1>6, <3>1, <4>1
        <4> QED
          BY <4>2
      <3>3. Detached(Tail(on), off, head, next[head])
        BY <1>1, <1>5, <3>2, FirstNode
      <3>4. Attached(off, head, next[head])
        BY <2>2, <3>1 DEF PostPrivate, Attached, Into
      <3>5. Tail(on) \in Seq(Nodes) /\ Len(Tail(on)) <= Len(on)
        BY <3>2, TailEntries
      <3>6. head \in Nodes /\ next[head] \in 0..ListMax
        BY <1>2, <3>3 DEF Detached, TypeOK
      <3> QED
        BY <3>3, <3>4, <3>5, <3>6
    <2> QED
      BY <2>1, <2>2
  <1>9. PICK base, rest \in Seq(Nodes), tmp \in Nodes, first \in 0..ListMax :
            Detached(base, rest, tmp, first) /\ Attached(rest, tmp, first) /\ Len(base) <= Len(on)
    BY <1>8
  <1>10. PICK new : new = Append(base, tmp)
    OBVIOUS
  <1>11. Nodelists(new, rest)'
    <2>1. Nodelists(Append(base, tmp), rest)'
      BY <1>1, <1>9, NodeAttached
    <2> QED
      BY <1>10, <2>1 DEF Nodelists, Linked
  <1>12. tmp \in Nodes /\ new \in Seq(Nodes) /\ Len(new) = Len(base) + 1 /\ Len(base) \in Nat
    <2>1. tmp \in Nodes
      BY <1>9 DEF Detached
    <2> QED
      BY <1>10, <2>1, AppendEntries
  <1>13. Past(listed - Len(new))'
    <2>1. listed' = listed + 1
      BY <1>9 DEF Attached
    <2>2. PICK n : n = listed - Len(on)
      OBVIOUS
    <2>3. PICK k : k = (listed + 1) - Len(new)
      OBVIOUS
    <2>4. n \in Int /\ k \in Int /\ n <= k
      BY ONLY <1>2, <1>6, <1>9, <1>12, <2>2, <2>3
    <2>5. Past(k)
      <3>1. seen["private"] \in Nat /\ seen["private"] <= n /\ \A i \in 1..Len(loop) : loop[i].id \in Nat
        BY <1>2, <1>5, <2>2, QueueTypes DEF Past
      <3>2. \A i \in 1..Len(loop) : Way(loop[i]) = "private" => loop[i].id <= n
        BY <1>5, <2>2 DEF Past
      <3> QED
        BY <2>4, <3>1, <3>2 DEF Past
    <2>6. Past(k)'
      BY <1>3, <2>5 DEF Past, Way
    <2> QED
      BY <2>1, <2>3, <2>6 DEF Past
  <1>14. WaitInv'
    BY <1>11, <1>12, <1>13 DEF WaitInv
  <1>15. /\ next' \in [Nodes -> 0..ListMax] /\ event' \in [Nodes -> Nat] /\ {head', tail', free'} \subseteq 0..ListMax
         /\ listed' \in Nat /\ head' # 0
    <2>1. /\ free' = IF rest = <<>> THEN 0 ELSE rest[1]
          /\ event' = [event EXCEPT ![tmp] = listed + 1]
          /\ next' = [n \in Nodes |-> IF n = tmp THEN 0 ELSE IF n = AppendAfter(first) THEN tmp ELSE next[n]]
          /\ tail' = tmp
          /\ listed' = listed + 1
      BY <1>9 DEF Attached
    <2>2. next \in [Nodes -> 0..ListMax] /\ event \in [Nodes -> Nat]
      BY <1>2 DEF TypeOK
    <2>3. 0 \in 0..ListMax /\ 0 \notin Nodes /\ Nodes \subseteq 0..ListMax
      BY <1>6 DEF Nodes
    <2>4. rest # <<>> => rest[1] \in Nodes
      BY <1>9, TailEntries
    <2>5. head' \in Nodes
      <3>1. Linked(head, new)'
        BY <1>11 DEF Nodelists
      <3>2. new # <<>> /\ new[1] \in Nodes
        <4>1. new # <<>>
          BY <1>12
        <4> QED
          BY <1>12, <4>1, TailEntries
      <3> QED
        BY <3>1, <3>2 DEF Linked
    <2>6. next' \in [Nodes -> 0..ListMax]
      BY <1>12, <2>1, <2>2, <2>3
    <2>7. event' \in [Nodes -> Nat] /\ listed' \in Nat
      <3>1. PICK x \in Nat : x = listed + 1
        BY <1>2
      <3>2. event' = [event EXCEPT ![tmp] = x] /\ listed' = x
        BY <2>1, <3>1
      <3> QED
        BY <2>2, <3>2
    <2> QED
      BY <1>12, <2>1, <2>3, <2>4, <2>5, <2>6, <2>7
  <1>16. TypeOK'
    BY <1>2, <1>3, <1>15 DEF TypeOK
  <1> QED
    BY <1>2, <1>3, <1>4, <1>14, <1>15, <1>16 DEF LoopInv, LoopTypes

\* The loop takes the first of the list, if it has room for it or not; the node is free.
LEMMA AsyncTakeKeeps ==
    ASSUME EventLoopAssumption, LoopInv, AsyncTake
    PROVE  LoopInv'
  <1>1. LoopTypes /\ ThrownOld /\ QueueExact /\ LoopExact /\ WaitInv
    BY DEF LoopInv
  <1>2. TypeOK /\ entered \in Nat /\ listed \in Nat
    BY <1>1 DEF LoopTypes
  <1>3. /\ queue' = queue /\ entered' = entered /\ adding' = adding /\ full' = full /\ pc' = "dispatch"
        /\ seen' = seen /\ quitLost' = quitLost /\ young' = young /\ stale' = stale
        /\ tail' = tail /\ event' = event /\ listed' = listed
        /\ head' = next[head] /\ next' = [next EXCEPT ![head] = free] /\ free' = head
        /\ head # 0
        /\ loop' = IF LoopRoom THEN Append(loop, [kind |-> "private", id |-> event[head]]) ELSE loop
    BY <1>1 DEF AsyncTake, LoopStep, LoopTypes, NodeFreed
  <1>4. ThrownOld'
    BY <1>1, <1>3 DEF ThrownOld
  <1>5. PICK on, off \in Seq(Nodes) : Nodelists(on, off) /\ Past(listed - Len(on))
    BY <1>1 DEF WaitInv
  <1>6. on # <<>>
    BY <1>3, <1>5 DEF Nodelists, Linked
  <1>7. /\ head = on[1] /\ event[head] = listed - Len(on) + 1
        /\ Detached(Tail(on), off, head, next[head]) /\ Linked(free, off)
    BY <1>1, <1>5, <1>6, FirstNode
  <1>8. PICK base, used : base = Tail(on) /\ used = <<head>> \o off
    OBVIOUS
  <1>9. /\ base \in Seq(Nodes) /\ Len(on) \in Nat /\ Len(base) = Len(on) - 1
    BY <1>6, <1>8, TailEntries
  <1>10. /\ head \in Nodes
         /\ Linked(next[head], base)
         /\ Len(base) + Len(off) + 1 = ListMax
         /\ \A n \in Nodes : n = head \/ Contains(base, n) \/ Contains(off, n)
         /\ IsInjective(base) /\ IsInjective(off)
         /\ \A n \in Nodes : ~(Contains(base, n) /\ Contains(off, n))
         /\ ~Contains(base, head) /\ ~Contains(off, head)
         /\ base # <<>> => base[Len(base)] = tail
         /\ \A i \in 1..Len(base) : event[base[i]] = listed - Len(base) + i
    BY <1>7, <1>8 DEF Detached
  <1>11. PICK m \in Nat : m = Len(off)
    OBVIOUS
  <1>12. /\ used \in Seq(Nodes) /\ Len(used) = m + 1 /\ used[1] = head /\ used # <<>>
         /\ \A i \in 1..m : used[i + 1] = off[i]
    BY <1>8, <1>10, <1>11
  <1>13. IsInjective(used) /\ \A y : Contains(used, y) <=> Contains(off, y) \/ y = head
    BY <1>8, <1>10, ConsFacts
  <1>14. \A n \in Nodes : n # head => next'[n] = next[n]
    BY <1>2, <1>3 DEF TypeOK
  <1>15. next'[head] = free
    BY <1>2, <1>3, <1>10 DEF TypeOK
  <1>16. Linked(head, base)'
    <2>1. \A i \in 1..Len(base) : base[i] \in Nodes /\ base[i] # head
      BY <1>9, <1>10 DEF Contains
    <2> QED
      BY <1>3, <1>10, <1>14, <2>1 DEF Linked
  <1>17. Linked(free, used)'
    <2>1. \A i \in 1..m : off[i] \in Nodes /\ off[i] # head
      BY <1>10, <1>11 DEF Contains
    <2>2. /\ free = IF m = 0 THEN 0 ELSE off[1]
          /\ \A i \in 1..m : next[off[i]] = IF i < m THEN off[i + 1] ELSE 0
      <3>1. (off = <<>>) <=> (m = 0)
        BY <1>11
      <3> QED
        BY <1>7, <1>11, <3>1 DEF Linked
    <2>3. ASSUME NEW i \in 1..(m + 1) PROVE next'[used[i]] = IF i < m + 1 THEN used[i + 1] ELSE 0
      <3>1. CASE i = 1
        <4>1. m # 0 => 1 \in 1..m
          BY ONLY m \in Nat
        <4>2. i < m + 1 <=> m # 0
          BY ONLY m \in Nat, <3>1
        <4> QED
          BY <1>12, <1>15, <2>2, <3>1, <4>1, <4>2
      <3>2. CASE i # 1
        <4>1. PICK k \in 1..m : i = k + 1
          BY <3>2, i - 1 \in 1..m
        <4>2. (i < m + 1 <=> k < m) /\ (k < m => k + 1 \in 1..m)
          BY ONLY m \in Nat, k \in 1..m, <4>1
        <4>3. used[i] = off[k] /\ (k < m => used[i + 1] = off[k + 1])
          BY <1>12, <4>1, <4>2
        <4>4. next'[off[k]] = next[off[k]]
          BY <1>14, <2>1
        <4> QED
          BY <2>2, <4>2, <4>3, <4>4
      <3> QED
        BY <3>1, <3>2
    <2> QED
      BY <1>3, <1>12, <2>3 DEF Linked
  <1>18. Nodelists(base, used)'
    <2>1. Len(base) + Len(used) = ListMax
      <3>1. Len(base) \in Nat
        BY <1>9
      <3> QED
        BY ONLY <1>10, <1>11, <1>12, <3>1
    <2>2. \A n \in Nodes : (Contains(base, n) \/ Contains(used, n)) /\ ~(Contains(base, n) /\ Contains(used, n))
      BY <1>10, <1>13
    <2> QED
      BY <1>3, <1>10, <1>13, <1>16, <1>17, <2>1, <2>2 DEF Nodelists
  <1>19. PICK n \in Int : n = listed - Len(on) /\ event[head] = n + 1 /\ listed - Len(base) = n + 1
    BY <1>2, <1>7, <1>9
  <1>20. PICK e : e = [kind |-> "private", id |-> event[head]]
    OBVIOUS
  <1>21. e \in Event /\ Way(e) = "private" /\ e.id = n + 1
    <2>1. event[head] \in Nat
      BY <1>2, <1>10 DEF TypeOK
    <2> QED
      BY <1>19, <1>20, <2>1 DEF Event, Way
  <1>22. PICK l \in Nat : l = Len(loop) /\ loop \in Seq(Event)
    BY <1>2, QueueTypes
  <1>23. /\ seen["private"] \in Nat /\ seen["private"] <= n
         /\ \A i \in 1..l : Way(loop[i]) = "private" => loop[i].id <= n
         /\ \A i \in 1..l : loop[i].id \in Nat
    BY <1>2, <1>5, <1>19, <1>22, QueueTypes DEF Past
  <1>24. TypeOK' /\ LoopTypes'
    <2>1. next' \in [Nodes -> 0..ListMax] /\ head' \in 0..ListMax
      BY <1>2, <1>3, <1>10 DEF TypeOK
    <2>2. loop' \in Seq(Event) /\ Len(loop') <= LoopMax
      <3>1. CASE LoopRoom
        <4>1. loop' \in Seq(Event) /\ Len(loop') = l + 1
          BY <1>3, <1>20, <1>21, <1>22, <3>1
        <4>2. l < LoopMax /\ LoopMax \in Nat
          BY <1>22, <3>1 DEF LoopRoom, EventLoopAssumption
        <4>3. l + 1 <= LoopMax
          BY ONLY <4>2, l \in Nat
        <4> QED
          BY <4>1, <4>3
      <3>2. CASE ~LoopRoom
        BY <1>2, <1>3, <3>2 DEF TypeOK
      <3> QED
        BY <3>1, <3>2
    <2>3. TypeOK'
      BY <1>2, <1>3, <2>1, <2>2 DEF TypeOK
    <2> QED
      BY <1>2, <1>3, <2>3 DEF LoopTypes
  <1>25. CASE ~LoopRoom
    <2>1. loop' = loop
      BY <1>3, <1>25
    <2>2. QueueExact' /\ LoopExact'
      BY <1>1, <1>3, <2>1 DEF QueueExact, LoopExact, Way
    <2>3. Past(n + 1)'
      BY <1>3, <1>22, <1>23, <2>1 DEF Past, Way
    <2>4. WaitInv'
      BY <1>3, <1>9, <1>12, <1>18, <1>19, <2>3 DEF WaitInv
    <2> QED
      BY <1>4, <1>24, <2>2, <2>4 DEF LoopInv
  <1>26. CASE LoopRoom
    <2>1. /\ loop' \in Seq(Event) /\ Len(loop') = l + 1 /\ loop'[l + 1] = e
          /\ \A i \in 1..l : loop'[i] = loop[i]
      BY <1>3, <1>20, <1>21, <1>22, <1>26
    <2>2. \A i \in 1..(l + 1) : i \in 1..l \/ i = l + 1
      BY ONLY l \in Nat
    <2>3. QueueExact'
      <3>1. \A j \in 1..(l + 1) : Way(loop'[j]) = "public" => j \in 1..l /\ loop'[j] = loop[j]
        BY <1>21, <2>1, <2>2
      <3> QED
        BY <1>1, <1>3, <1>22, <2>1, <3>1 DEF QueueExact, Way
    <2>4. LoopExact'
      <3> SUFFICES ASSUME NEW i \in 1..(l + 1)
                   PROVE  /\ seen[Way(loop'[i])] < loop'[i].id
                          /\ Way(loop'[i]) = "public" => loop'[i].id <= entered
                          /\ \A j \in 1..(l + 1) : j < i /\ Way(loop'[j]) = Way(loop'[i]) => loop'[j].id < loop'[i].id
        BY <1>1, <1>3, <2>1 DEF LoopExact, Way
      <3>1. \A j \in 1..(l + 1) : j < i => j \in 1..l /\ loop'[j] = loop[j]
        <4>1. \A j \in 1..(l + 1) : j < i => j \in 1..l
          BY ONLY l \in Nat, i \in 1..(l + 1)
        <4> QED
          BY <2>1, <4>1
      <3>2. CASE i = l + 1
        <4>1. loop'[i] = e
          BY <2>1, <3>2
        <4>2. \A k \in 1..l : Way(loop[k]) = "private" => loop[k].id < n + 1
          BY <1>23
        <4>3. seen["private"] < n + 1
          BY <1>23
        <4> QED
          BY <1>21, <3>1, <4>1, <4>2, <4>3
      <3>3. CASE i \in 1..l
        BY <1>1, <1>22, <2>1, <3>1, <3>3 DEF LoopExact
      <3> QED
        BY <2>2, <3>2, <3>3
    <2>5. Past(n + 1)'
      <3>1. \A i \in 1..(l + 1) : Way(loop'[i]) = "private" => loop'[i].id <= n + 1
        BY <1>21, <1>23, <2>1, <2>2
      <3>2. seen'["private"] <= n + 1
        BY <1>3, <1>23
      <3> QED
        BY <2>1, <3>1, <3>2 DEF Past, Way
    <2>6. WaitInv'
      BY <1>3, <1>9, <1>12, <1>18, <1>19, <2>5 DEF WaitInv
    <2> QED
      BY <1>4, <1>24, <2>3, <2>4, <2>6 DEF LoopInv
  <1> QED
    BY <1>25, <1>26

-----------------------------------------------------------------------------
(* The event loop                                                           *)

\* Nothing moves while nobody acts.
LEMMA LoopStutters ==
    ASSUME LoopInv, UNCHANGED vars
    PROVE  LoopInv'
  <1>1. LoopTypes /\ ThrownOld /\ QueueExact /\ LoopExact /\ WaitInv
    BY DEF LoopInv
  <1>2. TypeOK /\ entered \in Nat /\ listed \in Nat /\ (pc = "take" => head # 0)
    BY <1>1 DEF LoopTypes
  <1>3. /\ queue' = queue /\ entered' = entered /\ adding' = adding /\ full' = full /\ pc' = pc /\ loop' = loop
        /\ seen' = seen /\ quitLost' = quitLost /\ young' = young /\ stale' = stale /\ UNCHANGED listVars
    BY DEF vars, queueVars, pastVars
  <1>4. /\ head' = head /\ tail' = tail /\ free' = free /\ next' = next /\ event' = event /\ listed' = listed
    BY <1>3 DEF listVars
  <1>5. QueueExact' /\ LoopExact' /\ ThrownOld'
    BY <1>1, <1>3 DEF QueueExact, LoopExact, ThrownOld, Way
  <1>6. Len(loop) \in Nat
    BY <1>2, QueueTypes
  <1>7. WaitInv'
    BY <1>1, <1>3, <1>6, ListsStay
  <1>8. TypeOK'
    BY <1>2, <1>3, <1>4 DEF TypeOK
  <1> QED
    BY <1>2, <1>3, <1>4, <1>5, <1>7, <1>8 DEF LoopInv, LoopTypes

\* The invariant of egal_add_event, egal_add_async_event, egal_wait_event and the loop of
\* egui_main, however their steps interleave: both queues are in the order in which the
\* events entered, and every node is on the list of private events, which holds the
\* newest of them, or free.
THEOREM LoopInvariant == Spec => []LoopInv
  <1>1. Init => LoopInv
    BY EventLoopAssumption, LoopStart
  <1>2. LoopInv /\ [Next]_vars => LoopInv'
    <2> SUFFICES ASSUME LoopInv, [Next]_vars PROVE LoopInv'
      OBVIOUS
    <2>1. CASE UNCHANGED vars
      BY <2>1, LoopStutters
    <2>2. CASE Posting
      <3>1. PICK t \in Thread : PostPrivate(t) \/ \E kind \in Kinds : Post(t, kind)
        BY <2>2 DEF Posting
      <3>2. CASE PostPrivate(t)
        BY <3>2, EventLoopAssumption, PostPrivateKeeps
      <3>3. CASE \E kind \in Kinds : Post(t, kind)
        BY <3>3, PostKeeps
      <3> QED
        BY <3>1, <3>2, <3>3
    <2>3. CASE \E t \in Thread : Adding(t)
      <3>1. PICK t \in Thread : AddTry(t) \/ AddThrow(t)
        BY <2>3 DEF Adding
      <3> QED
        BY <3>1, EventLoopAssumption, AddTryKeeps, AddThrowKeeps
    <2>4. CASE Loop
      BY <2>4, EventLoopAssumption, DrainKeeps, AsyncLookKeeps, AsyncTakeKeeps, DispatchKeeps DEF Loop
    <2> QED
      BY <2>1, <2>2, <2>3, <2>4 DEF Next
  <1> QED
    BY <1>1, <1>2, PTL DEF Spec

\* A sequence of at most n elements is one of those SeqOf lists.
LEMMA ShortSequence ==
    ASSUME NEW S, NEW n \in Nat, NEW s \in Seq(S), Len(s) <= n
    PROVE  s \in SeqOf(S, n)
  <1>1. s \in [1..Len(s) -> S] /\ Len(s) \in 0..n
    OBVIOUS
  <1> QED
    BY <1>1 DEF SeqOf

\* The nodes are shared out to the two lists, as egal_add_async_event needs them.
LEMMA NewestDoWait ==
    ASSUME EventLoopAssumption, LoopInv
    PROVE  NewestWait
  <1>1. PICK on, off \in Seq(Nodes) : Nodelists(on, off)
    BY DEF LoopInv, WaitInv
  <1>2. /\ Linked(head, on) /\ Linked(free, off)
        /\ Len(on) + Len(off) = ListMax
        /\ \A n \in Nodes : Contains(on, n) \/ Contains(off, n)
        /\ on # <<>> => on[Len(on)] = tail
        /\ \A i \in 1..Len(on) : event[on[i]] = listed - Len(on) + i
    BY <1>1 DEF Nodelists
  <1>3. ListMax \in Nat /\ Len(on) \in Nat /\ Len(off) \in Nat /\ Len(on) <= ListMax /\ Len(off) <= ListMax
    <2>1. ListMax \in Nat /\ Len(on) \in Nat /\ Len(off) \in Nat
      BY DEF EventLoopAssumption
    <2> QED
      BY ONLY <1>2, <2>1
  <1>4. on \in SeqOf(Nodes, ListMax) /\ off \in SeqOf(Nodes, ListMax)
    BY <1>3, ShortSequence
  <1>5. ToSet(on) \cup ToSet(off) = Nodes
    <2>1. DOMAIN on = 1..Len(on) /\ DOMAIN off = 1..Len(off)
      OBVIOUS
    <2>2. ToSet(on) \subseteq Nodes /\ ToSet(off) \subseteq Nodes
      BY <2>1 DEF ToSet
    <2>3. \A n \in Nodes : n \in ToSet(on) \/ n \in ToSet(off)
      BY <1>2, <2>1 DEF ToSet, Contains
    <2> QED
      BY <2>2, <2>3
  <1>6. head # 0 => Last(on) = tail
    BY <1>2 DEF Linked, Last
  <1> QED
    BY <1>2, <1>4, <1>5, <1>6 DEF NewestWait

\* What the loop has and what it will find in the queue are one sequence in order.
LEMMA PublicInTurn ==
    ASSUME LoopInv
    PROVE  InTurn(loop \o queue, "public", seen["public"])
  <1>1. QueueExact /\ LoopExact
    BY DEF LoopInv
  <1>2. loop \in Seq(Event) /\ queue \in Seq(Event) /\ \A i \in 1..Len(queue) : queue[i].id \in Nat
    BY QueueTypes DEF LoopInv, LoopTypes
  <1>3. PICK l \in Nat, m \in Nat, s \in Seq(Event) : l = Len(loop) /\ m = Len(queue) /\ s = loop \o queue
    <2>1. Len(loop) \in Nat /\ Len(queue) \in Nat
      BY <1>2
    <2>2. loop \o queue \in Seq(Event)
      BY <1>2
    <2> QED
      BY <2>1, <2>2
  <1>4. Len(s) = l + m /\ (\A i \in 1..l : s[i] = loop[i]) /\ \A i \in 1..m : s[l + i] = queue[i]
    BY <1>2, <1>3
  <1>5. \A i \in 1..(l + m) : i \in 1..l \/ (i - l \in 1..m /\ l + (i - l) = i)
    BY ONLY l \in Nat, m \in Nat
  <1> SUFFICES ASSUME NEW i \in 1..(l + m), Way(s[i]) = "public"
               PROVE  /\ seen["public"] < s[i].id
                      /\ \A j \in 1..i - 1 : Way(s[j]) = "public" => s[j].id < s[i].id
    BY <1>3, <1>4 DEF InTurn
  <1>6. CASE i \in 1..l
    <2>1. \A j \in 1..i - 1 : j \in 1..l /\ j < i
      BY ONLY <1>6, l \in Nat
    <2>2. s[i] = loop[i] /\ Way(loop[i]) = "public" /\ \A j \in 1..i - 1 : s[j] = loop[j]
      BY <1>4, <1>6, <2>1
    <2>3. /\ seen["public"] < loop[i].id
          /\ \A j \in 1..l : j < i /\ Way(loop[j]) = "public" => loop[j].id < loop[i].id
      BY <1>1, <1>3, <1>6, <2>2 DEF LoopExact
    <2> QED
      BY <2>1, <2>2, <2>3
  <1>7. CASE i \notin 1..l
    <2>1. PICK k \in 1..m : i = l + k /\ s[i] = queue[k]
      BY <1>4, <1>5, <1>7
    <2>2. /\ seen["public"] < queue[k].id
          /\ \A j \in 1..m : j < k => queue[j].id + (k - j) <= queue[k].id
          /\ \A j \in 1..l : Way(loop[j]) = "public" => loop[j].id < queue[k].id
      BY <1>1, <1>3, <2>1 DEF QueueExact
    <2>3. ASSUME NEW j \in 1..i - 1, Way(s[j]) = "public" PROVE s[j].id < queue[k].id
      <3>1. CASE j \in 1..l
        BY <1>4, <2>2, <2>3, <3>1
      <3>2. CASE j \notin 1..l
        <4>1. PICK h \in 1..m : j = l + h /\ s[j] = queue[h]
          <5>1. j \in 1..(l + m)
            BY ONLY i \in 1..(l + m), j \in 1..i - 1, l \in Nat, m \in Nat
          <5> QED
            BY <1>4, <1>5, <3>2, <5>1
        <4>2. h < k /\ k - h > 0 /\ k - h \in Nat
          BY ONLY <2>1, <4>1, h \in 1..m, k \in 1..m, j \in 1..i - 1, l \in Nat, m \in Nat
        <4>3. queue[h].id + (k - h) <= queue[k].id /\ queue[h].id \in Nat /\ queue[k].id \in Nat
          BY <1>2, <1>3, <2>2, <4>2
        <4>4. queue[h].id < queue[k].id
          BY ONLY <4>2, <4>3
        <4> QED
          BY <4>1, <4>4
      <3> QED
        BY <3>1, <3>2
    <2> QED
      BY <2>1, <2>2, <2>3
  <1> QED
    BY <1>6, <1>7

\* Events of each of the two ways are dispatched in the order they took it, none of them
\* twice, whichever the full queue and the loop's own lost; those thrown out were old, and
\* the private events given up for others were the oldest.
THEOREM EventsInOrder == Spec => []DispatchedInOrder
  <1>1. LoopInv => DispatchedInOrder
    <2> SUFFICES ASSUME LoopInv PROVE DispatchedInOrder
      OBVIOUS
    <2>1. TypeOK /\ ThrownOld /\ LoopExact
      BY DEF LoopInv, LoopTypes
    <2>2. NewestWait
      BY EventLoopAssumption, NewestDoWait
    <2>3. InTurn(loop, "private", seen["private"])
      <3>1. \A i \in 1..Len(loop) : \A j \in 1..i - 1 : j \in 1..Len(loop) /\ j < i
        <4>1. Len(loop) \in Nat
          BY <2>1, QueueTypes
        <4> QED
          BY ONLY <4>1
      <3> QED
        BY <2>1, <3>1 DEF LoopExact, InTurn
    <2>4. InTurn(loop \o queue, "public", seen["public"])
      BY PublicInTurn
    <2> QED
      BY <2>1, <2>2, <2>3, <2>4 DEF DispatchedInOrder
  <1> QED
    BY <1>1, LoopInvariant, PTL

-----------------------------------------------------------------------------
(* The list widget: its invariant                                           *)

\* The fields of a list, its adjust and its bar.
ListType ==
    [items : Seq(Item), index : [Item -> Int], item_n : Int, hlight : Item \cup {NoItem},
     top : Item \cup {NoItem}, offset_y : Int, ibar_h : Int, view_h : Int,
     value : Int, min : Int, max : Int, step_inc : Int,
     slot_size : Int, steps : Int, act_rn : {"none", "rn1", "rn2", "drag"}, move_val : Int,
     excuse : SUBSET {"moved", "deleted"}, late : SUBSET {"pending", "applied"}, undefined : BOOLEAN]

\* The items are different, and counted by their indexes.
Indexed(s) ==
    /\ s \in ListType
    /\ IsInjective(s.items)
    /\ s.item_n = Len(s.items)
    /\ \A i \in 1..Len(s.items) : s.index[s.items[i]] = i - 1
    /\ s.ibar_h > 0 /\ s.view_h >= 0

\* The ranges of the adjust and of the bar, of which the steps may be too many until the bar follows.
Geared(s) ==
    /\ s.offset_y >= 0 /\ s.value >= 0
    /\ 0 <= s.min /\ s.min <= s.max /\ s.max > 0
    /\ s.slot_size >= DragMin
    /\ s.move_val >= -1
Stepped(s) == 0 <= s.steps /\ s.steps <= BarSpan(s) * Scale

\* The item at the top is the one the offset says, unless there is an excuse.
Topped(s) ==
    /\ s.excuse = {} => s.top = IndexToItem(s, s.offset_y \div s.ibar_h)
    /\ s.top # NoItem /\ ~Contains(s.items, s.top) => "deleted" \in s.excuse

\* The adjust has the bounds of the list.
Adjusted(s) ==
    s.item_n # 0 => IF Height(s) > s.view_h THEN s.min = s.view_h /\ s.max = Height(s)
                    ELSE s.min = 1 /\ s.max = 1

\* The values are within the bounds, unless one was applied that had been computed before.
Valued(s) ==
    /\ "applied" \notin s.late => s.value <= s.max - s.min
    /\ s.move_val >= 0 /\ "pending" \notin s.late => s.move_val <= s.max - s.min
    /\ s.item_n # 0 /\ "applied" \notin s.late =>
            s.offset_y <= IF Height(s) > s.view_h THEN Height(s) - s.view_h ELSE 0

Lit(s) == s.hlight # NoItem => Contains(s.items, s.hlight)

\* A list in order.
InOrder(s) ==
    /\ Indexed(s) /\ Geared(s) /\ Stepped(s) /\ Topped(s) /\ Adjusted(s) /\ Valued(s) /\ Lit(s)
    /\ s.undefined => "deleted" \in s.excuse

ListInv == InOrder(clist)

-----------------------------------------------------------------------------
(* Arithmetic                                                               *)

\* The greater and the smaller of two.
LEMMA OfTwo ==
    ASSUME NEW a \in Int, NEW b \in Int
    PROVE  /\ Max({a, b}) = IF a >= b THEN a ELSE b
           /\ Min({a, b}) = IF a <= b THEN a ELSE b
  <1>1. Max({a, b}) = IF a >= b THEN a ELSE b
    <2>1. \E x \in {a, b} : \A y \in {a, b} : x >= y
      OBVIOUS
    <2>2. Max({a, b}) \in {a, b} /\ \A y \in {a, b} : Max({a, b}) >= y
      BY <2>1 DEF Max
    <2> QED
      BY <2>2
  <1>2. Min({a, b}) = IF a <= b THEN a ELSE b
    <2>1. \E x \in {a, b} : \A y \in {a, b} : x <= y
      OBVIOUS
    <2>2. Min({a, b}) \in {a, b} /\ \A y \in {a, b} : Min({a, b}) <= y
      BY <2>1 DEF Min
    <2> QED
      BY <2>2
  <1> QED
    BY <1>1, <1>2

\* The only one is the smallest.
LEMMA OfOne == ASSUME NEW a \in Int PROVE Min({a}) = a
  <1>1. \E x \in {a} : \A y \in {a} : x <= y
    OBVIOUS
  <1>2. Min({a}) \in {a}
    BY <1>1 DEF Min
  <1> QED
    BY <1>2

\* Products grow with a factor.
LEMMA Grows ==
    ASSUME NEW a \in Nat, NEW b \in Nat, NEW c \in Nat, a <= b
    PROVE  a * c \in Nat /\ b * c \in Nat /\ a * c <= b * c /\ c * a <= c * b /\ a * c = c * a
  <1>1. PICK d \in Nat : b = a + d
    <2>1. b - a \in Nat /\ b = a + (b - a)
      OBVIOUS
    <2> QED
      BY <2>1
  <1>2. b * c = a * c + d * c /\ a * c \in Nat /\ d * c \in Nat /\ a * c = c * a /\ c * b = b * c
    BY <1>1
  <1> QED
    BY <1>2

\* A quotient, and a bound of it.
LEMMA Quotient ==
    ASSUME NEW a \in Nat, NEW b \in Nat \ {0}
    PROVE  /\ a \div b \in Nat /\ b * (a \div b) <= a
           /\ \A c \in Nat : a <= c * b => a \div b <= c
  <1>1. a \div b \in Int /\ a % b \in 0..(b - 1) /\ a = b * (a \div b) + (a % b)
    OBVIOUS
  <1>2. PICK q \in Int, m \in Nat : q = a \div b /\ m = a % b /\ m < b /\ a = b * q + m
    BY <1>1
  <1>3. q >= 0
    <2> SUFFICES ASSUME q <= 0 - 1 PROVE FALSE
      BY <1>2
    <2>1. PICK p \in Nat : q = 0 - 1 - p
      <3>1. 0 - 1 - q \in Nat /\ q = 0 - 1 - (0 - 1 - q)
        BY <1>2
      <3> QED
        BY <3>1
    <2>2. b * q = 0 - b - b * p /\ b * p \in Nat
      BY <2>1
    <2> QED
      BY <1>2, <2>2
  <1>4. \A c \in Nat : a <= c * b => q <= c
    <2> SUFFICES ASSUME NEW c \in Nat, a <= c * b, c + 1 <= q PROVE FALSE
      BY <1>2
    <2>1. (c + 1) * b <= q * b /\ q * b = b * q
      BY <1>2, <1>3, Grows
    <2>2. (c + 1) * b = c * b + b
      OBVIOUS
    <2>3. c * b \in Nat /\ b * q \in Int
      BY <1>2
    <2> QED
      BY ONLY <1>2, <2>1, <2>2, <2>3, a \in Nat, b \in Nat, b # 0, a <= c * b
  <1>5. b * q <= a
    BY <1>2
  <1> QED
    BY <1>2, <1>3, <1>4, <1>5

\* A quotient is at least what fits, and that of a product is its other factor.
LEMMA QuotientFits ==
    ASSUME NEW a \in Nat, NEW b \in Nat \ {0}, NEW c \in Nat
    PROVE  /\ c * b <= a => c <= a \div b
           /\ (c * b) \div b = c
  <1>1. ASSUME NEW n \in Nat, c * b <= n PROVE c <= n \div b
    <2>1. n \div b \in Nat /\ n % b \in 0..(b - 1) /\ n = b * (n \div b) + (n % b)
      BY Quotient
    <2>2. PICK q \in Nat, m \in Nat : q = n \div b /\ m < b /\ n = b * q + m
      BY <2>1
    <2>3. SUFFICES ASSUME q + 1 <= c PROVE FALSE
      BY <2>2
    <2>4. (q + 1) * b <= c * b /\ c * b \in Nat
      BY <2>2, <2>3, Grows
    <2>5. (q + 1) * b = q * b + b /\ q * b = b * q /\ b * q \in Nat
      BY <2>2
    <2> QED
      BY ONLY <1>1, <2>2, <2>4, <2>5, b \in Nat
  <1>2. c * b \in Nat
    OBVIOUS
  <1>3. (c * b) \div b <= c /\ (c * b) \div b \in Nat
    BY <1>2, Quotient
  <1>4. c <= (c * b) \div b
    BY <1>1, <1>2
  <1> QED
    BY <1>1, <1>3, <1>4

\* Quotients grow with what is divided.
LEMMA QuotientGrows ==
    ASSUME NEW a \in Nat, NEW d \in Nat, a <= d, NEW b \in Nat \ {0}
    PROVE  a \div b \in Nat /\ d \div b \in Nat /\ a \div b <= d \div b
  <1>1. PICK c \in Nat : c = a \div b /\ b * c <= a
    BY Quotient
  <1>2. c * b <= d
    <2>1. c * b = b * c /\ b * c \in Nat
      BY <1>1
    <2> QED
      BY <1>1, <2>1
  <1>3. d \div b \in Nat /\ c <= d \div b
    BY <1>2, Quotient, QuotientFits
  <1> QED
    BY <1>1, <1>3

-----------------------------------------------------------------------------
(* Looking items up                                                         *)

\* A sequence without repetition has each element at one place.
LEMMA PlaceFacts ==
    ASSUME NEW s, s.items \in Seq(Item), IsInjective(s.items)
    PROVE  /\ Len(s.items) \in Nat
           /\ \A k \in 1..Len(s.items) : Place(s, s.items[k]) = k
           /\ \A i : ~Contains(s.items, i) => Place(s, i) = 0
  <1>1. Len(s.items) \in Nat /\ DOMAIN s.items = 1..Len(s.items)
    OBVIOUS
  <1>2. \A i : Place(s, i) = LET at == {k \in 1..Len(s.items) : s.items[k] = i} IN IF at # {} THEN Min(at) ELSE 0
    BY DEF Place, SelectInSeq
  <1>3. ASSUME NEW k \in 1..Len(s.items) PROVE Place(s, s.items[k]) = k
    <2>1. {j \in 1..Len(s.items) : s.items[j] = s.items[k]} = {k}
      BY <1>1 DEF IsInjective
    <2>2. Min({k}) = k
      BY <1>1, OfOne
    <2> QED
      BY <1>2, <2>1, <2>2
  <1>4. ASSUME NEW i, ~Contains(s.items, i) PROVE Place(s, i) = 0
    <2>1. {k \in 1..Len(s.items) : s.items[k] = i} = {}
      BY <1>4 DEF Contains
    <2> QED
      BY <1>2, <2>1
  <1> QED
    BY <1>1, <1>3, <1>4

\* An item is found by its index; what no item has finds none.
LEMMA IndexFinds ==
    ASSUME NEW s, Indexed(s), NEW id \in Int
    PROVE  /\ IndexToItem(s, id) = IF 0 <= id /\ id < Len(s.items) THEN s.items[id + 1] ELSE NoItem
           /\ IndexToItem(s, id) \in Item \cup {NoItem}
           /\ Len(s.items) \in Nat
  <1>1. s.items \in Seq(Item) /\ \A i \in 1..Len(s.items) : s.index[s.items[i]] = i - 1
    BY DEF Indexed, ListType
  <1>2. Len(s.items) \in Nat /\ DOMAIN s.items = 1..Len(s.items) /\ \A i \in 1..Len(s.items) : s.items[i] \in Item
    BY <1>1
  <1>3. CASE 0 <= id /\ id < Len(s.items)
    <2>1. id + 1 \in 1..Len(s.items)
      BY <1>2, <1>3
    <2>2. {i \in DOMAIN s.items : s.index[s.items[i]] = id} = {id + 1}
      BY <1>1, <1>2, <2>1
    <2>3. Min({id + 1}) = id + 1
      BY OfOne
    <2> QED
      BY <1>2, <1>3, <2>1, <2>2, <2>3 DEF IndexToItem
  <1>4. CASE ~(0 <= id /\ id < Len(s.items))
    <2>1. {i \in DOMAIN s.items : s.index[s.items[i]] = id} = {}
      BY <1>1, <1>2, <1>4
    <2> QED
      BY <1>2, <1>4, <2>1 DEF IndexToItem
  <1> QED
    BY <1>3, <1>4

\* What does not touch the items, and what does not touch the bounds.
SameItems(s, r) ==
    /\ r.items = s.items /\ r.index = s.index /\ r.item_n = s.item_n
    /\ r.ibar_h = s.ibar_h /\ r.view_h = s.view_h /\ r.undefined = s.undefined
SameGear(s, r) ==
    /\ r.min = s.min /\ r.max = s.max /\ r.step_inc = s.step_inc /\ r.slot_size = s.slot_size
    /\ r.act_rn = s.act_rn /\ r.move_val = s.move_val /\ r.late = s.late

\* The same items are found.
LEMMA SameFound ==
    ASSUME NEW s, NEW r, SameItems(s, r)
    PROVE  \A id : IndexToItem(r, id) = IndexToItem(s, id)
  BY DEF SameItems, IndexToItem

\* And they are indexed.
LEMMA SameIndexed ==
    ASSUME NEW s, NEW r \in ListType, SameItems(s, r), Indexed(s)
    PROVE  Indexed(r)
  BY DEF SameItems, Indexed

\* The view has moved to an offset, at whose top r has the item that is there.
MovedTo(s, r, offset) ==
    /\ r \in ListType /\ SameItems(s, r)
    /\ r.offset_y = offset /\ r.excuse = {}
    /\ r.top = IndexToItem(s, offset \div s.ibar_h)

\* clist_vadjust_update looks up the item at the top.
LEMMA ScrolledMoves ==
    ASSUME NEW s, Indexed(s), NEW value \in Int
    PROVE  LET r == Scrolled(s, value) IN
           /\ MovedTo(s, r, value) /\ SameGear(s, r)
           /\ r.value = s.value /\ r.steps = s.steps /\ r.hlight = s.hlight
  <1>1. s \in ListType /\ s.ibar_h \in Int /\ s.ibar_h > 0
    BY DEF Indexed, ListType
  <1>2. PICK u : u = [s EXCEPT !.offset_y = value]
    OBVIOUS
  <1>3. /\ u \in ListType /\ SameItems(s, u) /\ SameGear(s, u) /\ u.offset_y = value
        /\ u.value = s.value /\ u.steps = s.steps /\ u.hlight = s.hlight
    BY <1>1, <1>2 DEF ListType, SameItems, SameGear
  <1>4. PICK top : top = IndexToItem(s, value \div s.ibar_h)
    OBVIOUS
  <1>5. top \in Item \cup {NoItem}
    <2>1. value \div s.ibar_h \in Int
      BY <1>1
    <2> QED
      BY <1>4, <2>1, IndexFinds
  <1>6. IndexToItem(u, u.offset_y \div u.ibar_h) = top
    BY <1>3, <1>4, SameFound DEF SameItems
  <1>7. PICK r : r = [u EXCEPT !.top = top, !.excuse = {}]
    OBVIOUS
  <1>8. r = Scrolled(s, value)
    BY <1>2, <1>6, <1>7 DEF Scrolled, LookedUp
  <1>9. /\ r \in ListType /\ r.top = top /\ r.excuse = {} /\ r.offset_y = value
        /\ r.value = s.value /\ r.steps = s.steps /\ r.hlight = s.hlight
    BY <1>3, <1>5, <1>7 DEF ListType
  <1>10. SameItems(s, r) /\ SameGear(s, r)
    BY <1>3, <1>7 DEF ListType, SameItems, SameGear
  <1> QED
    BY <1>4, <1>8, <1>9, <1>10 DEF MovedTo

\* The item at the top is right then.
LEMMA MovedTopped ==
    ASSUME NEW s, NEW r, NEW offset \in Int, Indexed(s), MovedTo(s, r, offset)
    PROVE  Topped(r) /\ Indexed(r)
  <1>1. Indexed(r)
    BY SameIndexed DEF MovedTo
  <1>2. r.ibar_h \in Int /\ r.ibar_h > 0 /\ r.offset_y = offset /\ r.items \in Seq(Item)
    BY <1>1 DEF Indexed, ListType, MovedTo
  <1>3. offset \div r.ibar_h \in Int
    BY <1>2
  <1>4. r.top = IndexToItem(r, r.offset_y \div r.ibar_h)
    BY <1>2, SameFound DEF MovedTo, SameItems
  <1>5. r.top # NoItem => Contains(r.items, r.top)
    <2>1. PICK id \in Int : id = r.offset_y \div r.ibar_h
      BY <1>2, <1>3
    <2>2. r.top = IF 0 <= id /\ id < Len(r.items) THEN r.items[id + 1] ELSE NoItem
      BY <1>1, <1>4, <2>1, IndexFinds
    <2>3. Len(r.items) \in Nat
      BY <1>2
    <2>4. 0 <= id /\ id < Len(r.items) => id + 1 \in 1..Len(r.items)
      BY <2>3
    <2> QED
      BY <2>2, <2>4 DEF Contains
  <1> QED
    BY <1>1, <1>4, <1>5 DEF Topped

-----------------------------------------------------------------------------
(* The adjust and the bar                                                   *)

\* The drag is at least as long as it has to be and no longer than the slot.
LEMMA Spans ==
    ASSUME ClistAssumption, NEW s \in ListType, Geared(s)
    PROVE  /\ BarSpan(s) \in Nat /\ AdjSpan(s) \in Nat
           /\ \A v \in Int : StepsOf(s, v) \in Int
           /\ BarStep(s) \in Int /\ Scale \in Nat \ {0} /\ BarSpan(s) * Scale \in Nat
  <1>1. /\ s.min \in Nat /\ s.max \in Nat \ {0} /\ s.min <= s.max /\ s.slot_size \in Nat /\ s.slot_size >= DragMin
        /\ DragMin \in Nat /\ Scale \in Nat \ {0}
    BY DEF Geared, ListType, ClistAssumption
  <1>2. PICK q : q = (s.slot_size * s.min) \div s.max
    OBVIOUS
  <1>3. q \in Nat /\ q <= s.slot_size
    <2>1. s.slot_size * s.min \in Nat /\ s.min * s.slot_size = s.slot_size * s.min
          /\ s.slot_size * s.min <= s.slot_size * s.max
      BY <1>1, Grows
    <2> QED
      BY <1>1, <1>2, <2>1, Quotient
  <1>4. DragSize(s) \in Nat /\ DragSize(s) <= s.slot_size
    <2>1. DragSize(s) = Max({DragMin, q})
      BY <1>2 DEF DragSize
    <2>2. Max({DragMin, q}) = IF DragMin >= q THEN DragMin ELSE q
      BY <1>1, <1>3, OfTwo
    <2> QED
      BY <1>1, <1>3, <2>1, <2>2
  <1>5. BarSpan(s) \in Nat /\ AdjSpan(s) \in Nat
    BY <1>1, <1>4 DEF BarSpan, AdjSpan
  <1>6. BarSpan(s) * Scale \in Nat
    BY <1>1, <1>5
  <1>7. BarStep(s) \in Int
    <2>1. CASE AdjSpan(s) = 0
      BY <2>1 DEF BarStep
    <2>2. CASE AdjSpan(s) # 0
      <3>1. (BarSpan(s) * Scale) \div AdjSpan(s) \in Nat
        BY <1>5, <1>6, <2>2, Quotient
      <3> QED
        BY <2>2, <3>1 DEF BarStep
    <2> QED
      BY <2>1, <2>2
  <1>8. ASSUME NEW v \in Int PROVE StepsOf(s, v) \in Int
    <2>1. v * BarStep(s) \in Int /\ BarStep(s) * AdjSpan(s) \in Int
      BY <1>5, <1>7
    <2> QED
      BY <1>6, <2>1 DEF StepsOf
  <1> QED
    BY <1>1, <1>5, <1>6, <1>7, <1>8

\* The value for steps of the bar is one of the adjust's.
LEMMA ValueBound ==
    ASSUME ClistAssumption, NEW s \in ListType, Geared(s), Stepped(s), BarSpan(s) # 0
    PROVE  ValueOf(s) \in Nat /\ ValueOf(s) <= AdjSpan(s)
  <1>1. PICK b \in Nat \ {0}, a \in Nat, c \in Nat \ {0} : b = BarSpan(s) /\ a = AdjSpan(s) /\ c = Scale
    BY Spans
  <1>2. s.steps \in Nat /\ s.steps <= b * c
    BY <1>1 DEF Stepped, ListType
  <1>3. PICK q : q = s.steps \div c
    OBVIOUS
  <1>4. q \in Nat /\ q <= b
    BY <1>1, <1>2, <1>3, Quotient
  <1>5. PICK n \in Nat : n = a * c
    BY <1>1
  <1>6. PICK step : step = n \div b
    OBVIOUS
  <1>7. step \in Nat /\ b * step <= n
    BY <1>1, <1>5, <1>6, Quotient
  <1>8. q * step \in Nat /\ q * step <= b * step /\ step * b = b * step /\ b * step \in Nat
    BY <1>1, <1>4, <1>7, Grows
  <1>9. PICK m \in Nat : m = (q * step) + (n - (step * b)) /\ m <= n
    <2>1. (q * step) + (n - (step * b)) \in Nat
      BY <1>5, <1>7, <1>8
    <2>2. (q * step) + (n - (step * b)) <= n
      BY <1>5, <1>7, <1>8
    <2> QED
      BY <2>1, <2>2
  <1>10. m \div c \in Nat /\ m \div c <= a
    BY <1>1, <1>5, <1>9, Quotient
  <1>11. ValueOf(s) = m \div c
    BY <1>1, <1>3, <1>5, <1>6, <1>9 DEF ValueOf
  <1> QED
    BY <1>1, <1>10, <1>11

\* Steps are brought into the range of the bar.
LEMMA ClampedFacts ==
    ASSUME ClistAssumption, NEW s \in ListType, Geared(s), NEW n \in Int
    PROVE  Clamped(s, n) \in Int /\ 0 <= Clamped(s, n) /\ Clamped(s, n) <= BarSpan(s) * Scale
  <1>1. PICK top \in Nat : top = BarSpan(s) * Scale
    BY Spans
  <1>2. Min({n, top}) \in Int /\ Min({n, top}) <= top
    <2>1. Min({n, top}) = IF n <= top THEN n ELSE top
      BY OfTwo
    <2> QED
      BY <2>1
  <1>3. Max({0, Min({n, top})}) = IF 0 >= Min({n, top}) THEN 0 ELSE Min({n, top})
    BY <1>2, OfTwo
  <1> QED
    BY <1>1, <1>2, <1>3 DEF Clamped

\* The bar follows the adjust, the list the bar; r is s but for this, where nothing has
\* moved or the list has moved to the value of the adjust.
Followed(s, r) ==
    /\ r \in ListType /\ SameItems(s, r) /\ SameGear(s, r)
    /\ r.value = s.value /\ r.hlight = s.hlight /\ Stepped(r)
    /\ \/ r.offset_y = s.offset_y /\ r.top = s.top /\ r.excuse = s.excuse
       \/ MovedTo(s, r, s.value)

\* What is the same has the same spans.
LEMMA SameSpans ==
    ASSUME NEW s, NEW r, SameGear(s, r)
    PROVE  BarSpan(r) = BarSpan(s) /\ AdjSpan(r) = AdjSpan(s) /\ BarStep(r) = BarStep(s)
  BY DEF SameGear, BarSpan, AdjSpan, BarStep, DragSize

\* scrollbar_set and scrollbar_reset
LEMMA FollowFacts ==
    ASSUME ClistAssumption, NEW s, Indexed(s), Geared(s)
    PROVE  Followed(s, Follow(s))
  <1>1. s \in ListType /\ s.value \in Int
    BY DEF Indexed, ListType
  <1>2. PICK steps : steps = Clamped(s, StepsOf(s, s.value))
    OBVIOUS
  <1>3. steps \in Int /\ 0 <= steps /\ steps <= BarSpan(s) * Scale
    BY <1>1, <1>2, Spans, ClampedFacts
  <1>4. CASE steps = s.steps
    <2>1. Follow(s) = s
      BY <1>2, <1>4 DEF Follow
    <2> QED
      BY <1>1, <1>3, <1>4, <2>1 DEF Followed, SameItems, SameGear, Stepped
  <1>5. CASE steps # s.steps
    <2>1. PICK u : u = [s EXCEPT !.steps = steps]
      OBVIOUS
    <2>2. /\ u \in ListType /\ SameItems(s, u) /\ SameGear(s, u) /\ u.steps = steps
          /\ u.value = s.value /\ u.hlight = s.hlight
      BY <1>1, <1>3, <2>1 DEF ListType, SameItems, SameGear
    <2>3. Indexed(u)
      BY <2>2, SameIndexed
    <2>4. PICK r : r = Scrolled(u, s.value)
      OBVIOUS
    <2>5. /\ MovedTo(u, r, s.value) /\ SameGear(u, r)
          /\ r.value = u.value /\ r.steps = u.steps /\ r.hlight = u.hlight
      BY <1>1, <2>3, <2>4, ScrolledMoves
    <2>6. Follow(s) = r
      BY <1>2, <1>5, <2>1, <2>4 DEF Follow
    <2>7. SameItems(s, r) /\ SameGear(s, r)
      BY <2>2, <2>5 DEF MovedTo, SameItems, SameGear
    <2>8. MovedTo(s, r, s.value)
      BY <2>2, <2>5, <2>7, SameFound DEF MovedTo, SameItems
    <2>9. Stepped(r)
      BY <1>3, <2>2, <2>5, <2>7, SameSpans DEF Stepped
    <2> QED
      BY <2>2, <2>5, <2>6, <2>7, <2>8, <2>9 DEF Followed, MovedTo
  <1> QED
    BY <1>4, <1>5

\* The bar of a list in order that followed is in order.
LEMMA FollowedKeeps ==
    ASSUME NEW s, NEW r, Indexed(s), Geared(s), Followed(s, r)
    PROVE  /\ Indexed(r) /\ Geared(r) /\ Stepped(r)
           /\ Topped(s) => Topped(r)
           /\ Valued(s) /\ Adjusted(s) => Valued(r)
           /\ Adjusted(s) => Adjusted(r)
           /\ Lit(s) => Lit(r)
  <1>1. /\ r \in ListType /\ SameItems(s, r) /\ SameGear(s, r)
        /\ r.value = s.value /\ r.hlight = s.hlight /\ Stepped(r)
    BY DEF Followed
  <1>2. Indexed(r)
    BY <1>1, SameIndexed
  <1>3. s \in ListType /\ s.value \in Int /\ s.value >= 0
    BY DEF Indexed, ListType, Geared
  <1>4. r.offset_y = s.offset_y \/ r.offset_y = s.value
    BY DEF Followed, MovedTo
  <1>5. Geared(r)
    BY <1>1, <1>3, <1>4 DEF Geared, SameGear
  <1>6. ASSUME Topped(s) PROVE Topped(r)
    <2>1. CASE r.offset_y = s.offset_y /\ r.top = s.top /\ r.excuse = s.excuse
      BY <1>1, <1>6, <2>1, SameFound DEF Topped, SameItems
    <2>2. CASE MovedTo(s, r, s.value)
      BY <1>3, <2>2, MovedTopped
    <2> QED
      BY <2>1, <2>2 DEF Followed
  <1>7. Adjusted(s) => Adjusted(r)
    BY <1>1 DEF Adjusted, SameItems, SameGear, Height
  <1>8. ASSUME Valued(s), Adjusted(s) PROVE Valued(r)
    <2>1. /\ r.late = s.late /\ r.max = s.max /\ r.min = s.min /\ r.move_val = s.move_val
          /\ r.item_n = s.item_n /\ Height(r) = Height(s) /\ r.view_h = s.view_h
      BY <1>1 DEF SameItems, SameGear, Height
    <2>2. s.item_n # 0 /\ "applied" \notin s.late => s.value <= IF Height(s) > s.view_h THEN Height(s) - s.view_h ELSE 0
      BY <1>8 DEF Valued, Adjusted
    <2> QED
      BY <1>1, <1>4, <1>8, <2>1, <2>2 DEF Valued
  <1>9. Lit(s) => Lit(r)
    BY <1>1 DEF Lit, SameItems
  <1> QED
    BY <1>1, <1>2, <1>5, <1>6, <1>7, <1>8, <1>9

-----------------------------------------------------------------------------
(* The helpers of the list                                                  *)

\* The adjust was set to v, and bar and list have followed.
Hooked(s, r, v) ==
    /\ r \in ListType /\ SameItems(s, r) /\ SameGear(s, r)
    /\ r.value = v /\ r.hlight = s.hlight /\ Stepped(r)
    /\ \/ r.offset_y = s.offset_y /\ r.top = s.top /\ r.excuse = s.excuse
       \/ MovedTo(s, r, v)

\* egui_adjust_set_hook
LEMMA HookFacts ==
    ASSUME ClistAssumption, NEW s, Indexed(s), Geared(s), Stepped(s), NEW value \in Nat
    PROVE  \E v \in Nat : v <= value /\ v <= s.max - s.min /\ Hooked(s, SetHook(s, value), v)
  <1>1. s \in ListType /\ s.max - s.min \in Nat
    BY DEF Indexed, ListType, Geared
  <1>2. PICK v : v = Min({value, s.max - s.min})
    OBVIOUS
  <1>3. v = IF value <= s.max - s.min THEN value ELSE s.max - s.min
    <2>1. PICK m \in Nat : m = s.max - s.min
      BY <1>1
    <2>2. value \in Int /\ m \in Int
      BY <2>1
    <2>3. Min({value, m}) = IF value <= m THEN value ELSE m
      BY ONLY <2>2, OfTwo
    <2> QED
      BY <1>2, <2>1, <2>3
  <1>4. v \in Nat /\ v <= value /\ v <= s.max - s.min
    BY <1>1, <1>3
  <1>5. CASE v = s.value
    <2>1. SetHook(s, value) = s
      BY <1>2, <1>5 DEF SetHook
    <2>2. Hooked(s, s, v)
      BY <1>1, <1>5 DEF Hooked, SameItems, SameGear
    <2> QED
      BY <1>4, <2>1, <2>2
  <1>6. CASE v # s.value
    <2>1. PICK u : u = [s EXCEPT !.value = v]
      OBVIOUS
    <2>2. /\ u \in ListType /\ SameItems(s, u) /\ SameGear(s, u) /\ u.value = v
          /\ u.hlight = s.hlight /\ u.offset_y = s.offset_y /\ u.top = s.top /\ u.excuse = s.excuse
      <3>1. s \in ListType /\ v \in Int
        BY <1>1, <1>4
      <3>2. u \in ListType
        BY ONLY <2>1, <3>1 DEF ListType
      <3>3. SameItems(s, u) /\ SameGear(s, u)
        BY ONLY <2>1, <3>1 DEF ListType, SameItems, SameGear
      <3>4. u.value = v /\ u.hlight = s.hlight /\ u.offset_y = s.offset_y /\ u.top = s.top /\ u.excuse = s.excuse
        BY ONLY <2>1, <3>1 DEF ListType
      <3> QED
        BY <3>2, <3>3, <3>4
    <2>3. Indexed(u) /\ Geared(u)
      <3>1. Indexed(u)
        BY <2>2, SameIndexed
      <3> QED
        BY <1>4, <2>2, <3>1 DEF Geared, SameGear
    <2>4. PICK r : r = Follow(u)
      OBVIOUS
    <2>5. Followed(u, r)
      BY <2>3, <2>4, FollowFacts
    <2>6. SetHook(s, value) = r
      BY <1>2, <1>6, <2>1, <2>4 DEF SetHook
    <2>7. SameItems(s, r) /\ SameGear(s, r)
      BY <2>2, <2>5 DEF Followed, SameItems, SameGear
    <2>8. MovedTo(u, r, v) => MovedTo(s, r, v)
      BY <2>2, <2>7, SameFound DEF MovedTo, SameItems
    <2>9. Hooked(s, r, v)
      BY <2>2, <2>5, <2>7, <2>8 DEF Followed, Hooked
    <2> QED
      BY <1>4, <2>6, <2>9
  <1> QED
    BY <1>5, <1>6

\* The height of the list, and where an item begins and ends in it.
LEMMA Heights3 ==
    ASSUME NEW s, Indexed(s)
    PROVE  /\ Height(s) \in Nat /\ s.ibar_h \in Nat \ {0} /\ s.view_h \in Nat /\ s.item_n \in Nat
           /\ \A k \in 1..Len(s.items) :
                /\ s.index[s.items[k]] = k - 1
                /\ (k - 1) * s.ibar_h \in Nat
                /\ (k - 1) * s.ibar_h + s.ibar_h <= Height(s)
  <1>1. /\ s.ibar_h \in Nat \ {0} /\ s.view_h \in Nat /\ s.item_n \in Nat /\ s.item_n = Len(s.items)
        /\ \A k \in 1..Len(s.items) : s.index[s.items[k]] = k - 1
    BY DEF Indexed, ListType
  <1>2. ASSUME NEW k \in 1..Len(s.items)
        PROVE  (k - 1) * s.ibar_h \in Nat /\ (k - 1) * s.ibar_h + s.ibar_h <= Height(s)
    <2>1. k \in Nat /\ k - 1 \in Nat /\ k <= s.item_n
      BY <1>1
    <2>2. k * s.ibar_h <= s.item_n * s.ibar_h
      BY <1>1, <2>1, Grows
    <2>3. (k - 1) * s.ibar_h \in Nat /\ k * s.ibar_h = (k - 1) * s.ibar_h + s.ibar_h
      BY <1>1, <2>1
    <2> QED
      BY <2>2, <2>3 DEF Height
  <1>3. Height(s) \in Nat
    BY <1>1 DEF Height
  <1> QED
    BY <1>1, <1>2, <1>3

\* How far a list in order may be scrolled.
Bound(s) == IF Height(s) > s.view_h THEN Height(s) - s.view_h ELSE 0

\* set_hlight highlights an item and moves it into the view, within the bounds of a list in order.
LEMMA HlightFacts ==
    ASSUME ClistAssumption, NEW s, Indexed(s), Geared(s), Stepped(s),
           NEW ibar, Contains(s.items, ibar), NEW r, r = SetHlight(s, ibar)
    PROVE  /\ Indexed(r) /\ Geared(r) /\ Stepped(r) /\ Topped(r) /\ Lit(r)
           /\ SameItems(s, r) /\ r.hlight = ibar /\ r.excuse = {}
           /\ Adjusted(s) /\ Valued(s) => Adjusted(r) /\ Valued(r)
  <1>1. PICK k \in 1..Len(s.items) : s.items[k] = ibar
    BY DEF Contains
  <1>2. PICK h \in Nat \ {0}, view \in Nat, height \in Nat, pos \in Nat, at \in Nat :
            /\ h = s.ibar_h /\ view = s.view_h /\ height = Height(s) /\ at = s.offset_y
            /\ pos = s.index[ibar] * s.ibar_h /\ pos + h <= height
    <2>1. s.offset_y \in Nat
      BY DEF Indexed, ListType, Geared
    <2>2. s.index[ibar] = k - 1
      BY <1>1, Heights3
    <2> QED
      BY <1>1, <2>1, <2>2, Heights3
  <1>3. PICK other, offset :
            /\ other = IF height - at < view /\ at > 0 THEN Max({height - view, 0}) ELSE at
            /\ offset = IF pos < at THEN pos ELSE IF pos + h > at + view THEN pos + h - view ELSE other
    OBVIOUS
  <1>4. /\ offset \in Nat
        /\ at <= Bound(s) => offset <= Bound(s)
    <2>1. Bound(s) = IF height > view THEN height - view ELSE 0
      BY <1>2 DEF Bound
    <2>2. Max({height - view, 0}) = IF height - view >= 0 THEN height - view ELSE 0
      BY OfTwo
    <2>3. CASE pos < at
      <3>1. offset = pos
        BY ONLY <1>3, <2>3
      <3>2. pos <= height - h /\ height \in Nat /\ view \in Nat /\ pos \in Nat /\ at \in Nat
        BY <1>2
      <3> QED
        BY ONLY <2>1, <2>3, <3>1, <3>2
    <2>4. CASE ~(pos < at) /\ pos + h > at + view
      <3>1. offset = pos + h - view
        BY ONLY <1>3, <2>4
      <3>2. h \in Nat /\ height \in Nat /\ view \in Nat /\ pos \in Nat /\ at \in Nat /\ pos + h <= height
        BY <1>2
      <3> QED
        BY ONLY <2>1, <2>4, <3>1, <3>2
    <2>5. CASE ~(pos < at) /\ ~(pos + h > at + view)
      <3>1. offset = other
        BY ONLY <1>3, <2>5
      <3>2. other = IF height - at < view /\ at > 0 THEN (IF height - view >= 0 THEN height - view ELSE 0) ELSE at
        BY <1>3, <2>2
      <3> QED
        BY ONLY <2>1, <3>1, <3>2, height \in Nat, view \in Nat, at \in Nat
    <2> QED
      BY <2>3, <2>4, <2>5
  <1>5. PICK u : u = [s EXCEPT !.hlight = ibar]
    OBVIOUS
  <1>6. s \in ListType /\ ibar \in Item
    <2>1. s \in ListType
      BY DEF Indexed
    <2>2. s.items \in Seq(Item)
      BY ONLY <2>1 DEF ListType
    <2> QED
      BY ONLY <1>1, <2>1, <2>2
  <1>7. /\ u \in ListType /\ SameItems(s, u) /\ SameGear(s, u) /\ u.hlight = ibar
        /\ u.value = s.value /\ u.steps = s.steps /\ u.offset_y = s.offset_y
    BY <1>5, <1>6 DEF ListType, SameItems, SameGear
  <1>8. Indexed(u)
    BY <1>7, SameIndexed
  <1>9. PICK t : t = Scrolled(u, offset)
    OBVIOUS
  <1>10. /\ MovedTo(u, t, offset) /\ SameGear(u, t)
         /\ t.value = u.value /\ t.steps = u.steps /\ t.hlight = u.hlight
    BY <1>4, <1>8, <1>9, ScrolledMoves
  <1>11. Indexed(t) /\ Geared(t) /\ Stepped(t) /\ Topped(t)
    <2>1. Indexed(t) /\ Topped(t)
      BY <1>4, <1>8, <1>10, MovedTopped
    <2>2. SameGear(s, t) /\ t.steps = s.steps /\ t.value = s.value /\ t.offset_y = offset
      BY <1>7, <1>10 DEF SameGear, MovedTo
    <2>3. Geared(t)
      BY <1>4, <2>2 DEF Geared, SameGear
    <2>4. Stepped(t)
      BY <2>2, SameSpans DEF Stepped
    <2> QED
      BY <2>1, <2>3, <2>4
  <1>12. r = SetHook(t, offset)
    BY <1>2, <1>3, <1>5, <1>9 DEF SetHlight
  <1>13. PICK v \in Nat : v <= offset /\ v <= t.max - t.min /\ Hooked(t, r, v)
    BY <1>4, <1>11, <1>12, HookFacts
  <1>14. SameItems(s, r) /\ SameGear(s, r) /\ r.value = v /\ r.hlight = ibar /\ Stepped(r) /\ r \in ListType
    BY <1>7, <1>10, <1>13 DEF SameItems, SameGear, MovedTo, Hooked
  <1>15. Indexed(r)
    BY <1>14, SameIndexed
  <1>16. r.offset_y \in {offset, v} /\ r.excuse = {} /\ Topped(r)
    <2>1. CASE r.offset_y = t.offset_y /\ r.top = t.top /\ r.excuse = t.excuse
      <3>1. SameItems(t, r)
        BY <1>13 DEF Hooked
      <3> QED
        BY <1>10, <1>11, <2>1, <3>1, SameFound DEF Topped, SameItems, MovedTo
    <2>2. CASE MovedTo(t, r, v)
      <3>1. Topped(r)
        BY <1>11, <2>2, MovedTopped
      <3> QED
        BY <2>2, <3>1 DEF MovedTo
    <2> QED
      BY <1>13, <2>1, <2>2 DEF Hooked
  <1>17. Geared(r)
    BY <1>4, <1>14, <1>16 DEF Geared, SameGear
  <1>18. Lit(r)
    BY <1>14 DEF Lit, SameItems
  <1>19. ASSUME Adjusted(s), Valued(s) PROVE Adjusted(r) /\ Valued(r)
    <2>1. /\ r.late = s.late /\ r.max = s.max /\ r.min = s.min /\ r.move_val = s.move_val
          /\ r.item_n = s.item_n /\ Height(r) = Height(s) /\ r.view_h = s.view_h
      BY <1>14 DEF SameItems, SameGear, Height
    <2>2. Adjusted(r)
      BY <1>19, <2>1 DEF Adjusted
    <2>3. v <= s.max - s.min
      BY <1>7, <1>10, <1>13 DEF SameGear
    <2>4. ASSUME s.item_n # 0, "applied" \notin s.late PROVE r.offset_y <= Bound(s)
      <3>1. at <= Bound(s)
        BY <1>2, <1>19, <2>4 DEF Valued, Bound
      <3>2. s.max - s.min = Bound(s)
        BY <1>19, <2>4 DEF Adjusted, Bound
      <3> QED
        BY <1>4, <1>16, <2>3, <3>1, <3>2
    <2>5. Valued(r)
      BY <1>14, <1>19, <2>1, <2>3, <2>4 DEF Valued, Bound
    <2> QED
      BY <2>2, <2>5
  <1> QED
    BY <1>14, <1>15, <1>16, <1>17, <1>18, <1>19

\* reset_adjust makes adjust, bar and offset fit the list.
LEMMA ResetFacts ==
    ASSUME ClistAssumption, NEW s, Indexed(s), Geared(s), Topped(s), NEW r, r = ResetAdjust(s)
    PROVE  /\ Indexed(r) /\ Geared(r) /\ Stepped(r) /\ Topped(r) /\ Adjusted(r) /\ Valued(r)
           /\ SameItems(s, r) /\ r.hlight = s.hlight /\ r.value = r.offset_y
           /\ "deleted" \in s.excuse => "deleted" \in r.excuse \/ r.excuse = {}
  <1>1. s \in ListType /\ s.move_val \in Int
    BY DEF Indexed, ListType
  <1>2. PICK late \in SUBSET {"pending", "applied"} : late = IF s.move_val >= 0 THEN {"pending"} ELSE {}
    OBVIOUS
  <1>3. PICK h \in Nat \ {0}, view \in Nat, height \in Nat, at \in Nat :
            h = s.ibar_h /\ view = s.view_h /\ height = Height(s) /\ at = s.offset_y
    <2>1. s.offset_y \in Nat
      BY <1>1 DEF Geared, ListType
    <2> QED
      BY <2>1, Heights3
  <1>4. CASE height > view
    <2>1. PICK offset : offset = Lowered(s)
      OBVIOUS
    <2>2. offset = IF at <= height - view THEN at ELSE height - view
      <3>1. at \in Int /\ height - view \in Int
        BY <1>3
      <3>2. Min({at, height - view}) = IF at <= height - view THEN at ELSE height - view
        BY ONLY <3>1, OfTwo
      <3> QED
        BY <1>3, <2>1, <3>2 DEF Lowered
    <2>3. offset \in Nat /\ offset <= height - view
      BY <1>4, <2>2
    <2>4. PICK excuse \in SUBSET {"moved", "deleted"} :
              excuse = IF offset = at THEN s.excuse ELSE s.excuse \cup {"moved"}
      <3>1. s.excuse \in SUBSET {"moved", "deleted"}
        BY <1>1 DEF ListType
      <3> QED
        BY <3>1
    <2>5. PICK u : u = [s EXCEPT !.offset_y = offset, !.excuse = excuse]
      OBVIOUS
    <2>6. /\ u \in ListType /\ SameItems(s, u) /\ u.offset_y = offset /\ u.excuse = excuse /\ u.top = s.top
          /\ u.hlight = s.hlight /\ u.move_val = s.move_val /\ u.slot_size = s.slot_size
      <3>1. s \in ListType /\ offset \in Int /\ excuse \in SUBSET {"moved", "deleted"}
        BY <1>1, <2>3
      <3>2. u \in ListType
        BY ONLY <2>5, <3>1 DEF ListType
      <3>3. SameItems(s, u)
        BY ONLY <2>5, <3>1 DEF ListType, SameItems
      <3>4. /\ u.offset_y = offset /\ u.excuse = excuse /\ u.top = s.top
            /\ u.hlight = s.hlight /\ u.move_val = s.move_val /\ u.slot_size = s.slot_size
        BY ONLY <2>5, <3>1 DEF ListType
      <3> QED
        BY <3>2, <3>3, <3>4
    <2>7. PICK w : w = [u EXCEPT !.value = offset, !.min = view, !.max = height, !.step_inc = h, !.late = late]
      OBVIOUS
    <2>8. /\ w \in ListType /\ SameItems(s, w) /\ w.offset_y = offset /\ w.excuse = excuse /\ w.top = s.top
          /\ w.hlight = s.hlight /\ w.move_val = s.move_val /\ w.slot_size = s.slot_size
          /\ w.value = offset /\ w.min = view /\ w.max = height /\ w.late = late
      <3>1. u \in ListType /\ offset \in Int /\ view \in Int /\ height \in Int /\ h \in Int /\ late \in SUBSET {"pending", "applied"}
        BY <2>3, <2>6
      <3>2. w \in ListType
        BY ONLY <2>7, <3>1 DEF ListType
      <3>3. SameItems(u, w)
        BY ONLY <2>7, <3>1 DEF ListType, SameItems
      <3>4. /\ w.offset_y = u.offset_y /\ w.excuse = u.excuse /\ w.top = u.top
            /\ w.hlight = u.hlight /\ w.move_val = u.move_val /\ w.slot_size = u.slot_size
        BY ONLY <2>7, <3>1 DEF ListType
      <3>5. w.value = offset /\ w.min = view /\ w.max = height /\ w.late = late
        BY ONLY <2>7, <3>1 DEF ListType
      <3>6. SameItems(s, w)
        BY <2>6, <3>3 DEF SameItems
      <3> QED
        BY <2>6, <3>2, <3>4, <3>5, <3>6
    <2>9. r = Follow(w)
      <3>1. r = ResetHook(u, offset, view, height, h)
        BY <1>3, <1>4, <2>1, <2>4, <2>5 DEF ResetAdjust
      <3>2. late = IF u.move_val >= 0 THEN {"pending"} ELSE {}
        BY <1>2, <2>6
      <3> QED
        BY <2>7, <3>1, <3>2 DEF ResetHook
    <2>10. Indexed(w)
      BY <2>8, SameIndexed
    <2>11. Geared(w)
      BY <1>4, <2>3, <2>8 DEF Geared
    <2>12. Adjusted(w) /\ Valued(w)
      <3>1. Height(w) = height /\ w.view_h = view
        BY <1>3, <2>8 DEF Height, SameItems
      <3> QED
        BY <1>2, <1>4, <2>3, <2>8, <3>1 DEF Adjusted, Valued
    <2>13. Topped(w)
      <3>1. w.excuse = {} => offset = at /\ s.excuse = {}
        BY <2>4, <2>8
      <3>2. w.items = s.items /\ w.ibar_h = s.ibar_h /\ \A id : IndexToItem(w, id) = IndexToItem(s, id)
        BY <2>8, SameFound DEF SameItems
      <3>3. "deleted" \in s.excuse => "deleted" \in w.excuse
        BY <2>4, <2>8
      <3> QED
        BY <1>3, <2>8, <3>1, <3>2, <3>3 DEF Topped
    <2>14. Followed(w, r)
      BY <2>9, <2>10, <2>11, FollowFacts
    <2>15. SameItems(s, r) /\ r.hlight = s.hlight /\ r.value = r.offset_y
      BY <2>8, <2>14 DEF Followed, SameItems, MovedTo
    <2>16. "deleted" \in s.excuse => "deleted" \in r.excuse \/ r.excuse = {}
      BY <2>4, <2>8, <2>14 DEF Followed, MovedTo
    <2> QED
      BY <2>10, <2>11, <2>12, <2>13, <2>14, <2>15, <2>16, FollowedKeeps
  <1>5. CASE ~(height > view)
    <2>0. PICK zero \in Int, one \in Int : zero = 0 /\ one = 1
      OBVIOUS
    <2>1. PICK w : w = [s EXCEPT !.value = zero, !.min = one, !.max = one, !.step_inc = zero, !.late = late]
      OBVIOUS
    <2>2. /\ w \in ListType /\ SameItems(s, w) /\ w.offset_y = s.offset_y
          /\ w.hlight = s.hlight /\ w.move_val = s.move_val /\ w.slot_size = s.slot_size
          /\ w.value = 0 /\ w.min = 1 /\ w.max = 1 /\ w.late = late
      <3>1. zero \in Int /\ one \in Int /\ zero = 0 /\ one = 1 /\ s \in ListType /\ late \in SUBSET {"pending", "applied"}
        BY <1>1, <2>0
      <3>2. w \in ListType
        BY ONLY <2>1, <3>1 DEF ListType
      <3>3. SameItems(s, w)
        BY ONLY <2>1, <3>1 DEF ListType, SameItems
      <3>4. w.offset_y = s.offset_y /\ w.hlight = s.hlight /\ w.move_val = s.move_val /\ w.slot_size = s.slot_size
        BY ONLY <2>1, <3>1 DEF ListType
      <3>5. w.value = 0 /\ w.min = 1 /\ w.max = 1 /\ w.late = late
        BY ONLY <2>1, <3>1 DEF ListType
      <3> QED
        BY <3>2, <3>3, <3>4, <3>5
    <2>3. Indexed(w)
      BY <2>2, SameIndexed
    <2>4. Geared(w)
      BY <2>2 DEF Geared
    <2>5. PICK f : f = Follow(w)
      OBVIOUS
    <2>6. Followed(w, f)
      BY <2>3, <2>4, <2>5, FollowFacts
    <2>7. Indexed(f) /\ Geared(f) /\ Stepped(f)
      BY <2>3, <2>4, <2>6, FollowedKeeps
    <2>8. r = Scrolled(f, 0)
      BY <1>2, <1>3, <1>5, <2>0, <2>1, <2>5 DEF ResetAdjust, ResetHook
    <2>9. /\ MovedTo(f, r, 0) /\ SameGear(f, r)
          /\ r.value = f.value /\ r.steps = f.steps /\ r.hlight = f.hlight
      BY <2>7, <2>8, ScrolledMoves
    <2>10. Indexed(r) /\ Topped(r)
      BY <2>7, <2>9, MovedTopped
    <2>11. /\ SameItems(s, r) /\ SameGear(w, r) /\ r.value = 0 /\ r.offset_y = 0 /\ r.hlight = s.hlight /\ r.excuse = {}
      BY <2>2, <2>6, <2>9 DEF Followed, MovedTo, SameItems, SameGear
    <2>12. Geared(r)
      BY <2>4, <2>11 DEF Geared, SameGear
    <2>13. Stepped(r)
      BY <2>7, <2>9, SameSpans DEF Stepped
    <2>14. Height(r) = height /\ r.view_h = view
      BY <1>3, <2>11 DEF Height, SameItems
    <2>15. Adjusted(r)
      BY <1>5, <2>2, <2>11, <2>14 DEF Adjusted, SameGear
    <2>16. Valued(r)
      BY <1>2, <1>5, <2>2, <2>11, <2>14 DEF Valued, SameGear
    <2> QED
      BY <2>10, <2>11, <2>12, <2>13, <2>15, <2>16
  <1> QED
    BY <1>4, <1>5

\* r is s but for its items, their indexes, and the excuse.
Renewed(s, r) ==
    /\ r \in ListType
    /\ r.hlight = s.hlight /\ r.top = s.top /\ r.offset_y = s.offset_y /\ r.ibar_h = s.ibar_h
    /\ r.view_h = s.view_h /\ r.value = s.value /\ r.steps = s.steps /\ r.undefined = s.undefined
    /\ SameGear(s, r)

\* Such a list is as much in order, as far as the adjust and the bar go.
LEMMA RenewedKeeps ==
    ASSUME NEW s, NEW r, Renewed(s, r), Geared(s)
    PROVE  Geared(r) /\ (Stepped(s) => Stepped(r))
  <1>1. SameGear(s, r) /\ r.offset_y = s.offset_y /\ r.value = s.value /\ r.steps = s.steps
    BY DEF Renewed
  <1>2. Geared(r)
    BY <1>1 DEF Geared, SameGear
  <1>3. BarSpan(r) = BarSpan(s)
    BY <1>1, SameSpans
  <1>4. Stepped(s) => Stepped(r)
    BY <1>1, <1>3 DEF Stepped
  <1> QED
    BY <1>2, <1>4

\* The items from the at-th on are numbered; those before have their numbers.
LEMMA NumberedFacts ==
    ASSUME NEW s \in ListType, IsInjective(s.items), s.ibar_h > 0, s.view_h >= 0,
           NEW at \in 1..Len(s.items) + 1,
           \A i \in 1..at - 1 : s.index[s.items[i]] = i - 1
    PROVE  LET r == Numbered(s, at, at - 1) IN
           Indexed(r) /\ Renewed(s, r) /\ r.items = s.items /\ r.excuse = s.excuse
  <1>1. /\ s.items \in Seq(Item) /\ Len(s.items) \in Nat /\ at \in Nat \ {0} /\ at <= Len(s.items) + 1
        /\ s.index \in [Item -> Int]
        /\ \A k \in 1..Len(s.items) : s.items[k] \in Item
    BY DEF ListType
  <1>2. \A i \in Item : Place(s, i) \in Nat
    <2>1. \A k \in 1..Len(s.items) : Place(s, s.items[k]) = k
      BY <1>1, PlaceFacts
    <2>2. \A i : ~Contains(s.items, i) => Place(s, i) = 0
      BY <1>1, PlaceFacts
    <2>3. ASSUME NEW i \in Item PROVE Place(s, i) \in Nat
      <3>1. CASE ~Contains(s.items, i)
        BY <2>2, <3>1
      <3>2. CASE Contains(s.items, i)
        <4>1. PICK k \in 1..Len(s.items) : s.items[k] = i
          BY <3>2 DEF Contains
        <4> QED
          BY <2>1, <4>1
      <3> QED
        BY <3>1, <3>2
    <2> QED
      BY <2>3
  <1>3. PICK index : index = [i \in Item |-> IF Place(s, i) >= at THEN (at - 1) + Place(s, i) - at ELSE s.index[i]]
    OBVIOUS
  <1>4. index \in [Item -> Int]
    BY <1>1, <1>2, <1>3
  <1>5. PICK n \in Int : n = (at - 1) + Len(s.items) + 1 - at /\ n = Len(s.items)
    BY <1>1
  <1>6. PICK r : r = [s EXCEPT !.index = index, !.item_n = n]
    OBVIOUS
  <1>7. Numbered(s, at, at - 1) = r
    BY <1>3, <1>5, <1>6 DEF Numbered
  <1>8. r \in ListType /\ r.items = s.items /\ r.index = index /\ r.item_n = n /\ r.excuse = s.excuse
    BY ONLY <1>4, <1>6, s \in ListType DEF ListType
  <1>9. Renewed(s, r)
    BY ONLY <1>6, <1>8, s \in ListType DEF ListType, Renewed, SameGear
  <1>10. ASSUME NEW k \in 1..Len(r.items) PROVE r.index[r.items[k]] = k - 1
    <2>1. k \in 1..Len(s.items) /\ k \in Nat \ {0} /\ s.items[k] \in Item /\ Place(s, s.items[k]) = k
      BY <1>1, <1>8, PlaceFacts
    <2>2. index[s.items[k]] = IF k >= at THEN (at - 1) + k - at ELSE s.index[s.items[k]]
      BY <1>3, <2>1
    <2>3. CASE k >= at
      BY <1>1, <1>8, <2>1, <2>2, <2>3
    <2>4. CASE ~(k >= at)
      <3>1. k \in 1..at - 1
        BY <1>1, <2>1, <2>4
      <3> QED
        BY <1>8, <2>2, <2>4, <3>1
    <2> QED
      BY <2>3, <2>4
  <1>11. Indexed(r)
    BY <1>5, <1>8, <1>9, <1>10 DEF Indexed, Renewed
  <1> QED
    BY <1>7, <1>8, <1>9, <1>11

\* r is s with a new item before the at-th, the items numbered from there or from the first on.
Enters(s, ibar, at, from, excuse, r) ==
    /\ ibar \in Item /\ ~Contains(s.items, ibar)
    /\ at \in 1..Len(s.items) + 1 /\ from \in {1, at}
    /\ excuse = IF s.top = NoItem \/ at <= Place(s, s.top) THEN s.excuse \cup {"moved"} ELSE s.excuse
    /\ r = Numbered([s EXCEPT !.items = InsertAt(s.items, at, ibar), !.excuse = excuse], from, from - 1)

\* A new item leaves the list as much in order as its excuse says.
LEMMA InsertedFacts ==
    ASSUME NEW s, Indexed(s), Geared(s), Topped(s), Lit(s), ClistAssumption,
           NEW ibar, NEW at, NEW from, NEW excuse, NEW r, Enters(s, ibar, at, from, excuse, r)
    PROVE  /\ Indexed(r) /\ Geared(r) /\ Topped(r) /\ Lit(r) /\ Renewed(s, r)
           /\ Contains(r.items, ibar) /\ r.excuse = excuse
  <1>1. /\ ibar \in Item /\ ~Contains(s.items, ibar)
        /\ at \in 1..Len(s.items) + 1 /\ from \in {1, at}
        /\ excuse = IF s.top = NoItem \/ at <= Place(s, s.top) THEN s.excuse \cup {"moved"} ELSE s.excuse
    BY DEF Enters
  <1>2. PICK t : t = [s EXCEPT !.items = InsertAt(s.items, at, ibar), !.excuse = excuse] /\ r = Numbered(t, from, from - 1)
    BY DEF Enters
  <1> USE <1>1
  <1>3. s \in ListType /\ s.items \in Seq(Item) /\ IsInjective(s.items) /\ s.ibar_h > 0 /\ s.view_h >= 0
        /\ s.excuse \in SUBSET {"moved", "deleted"}
    BY DEF Indexed, ListType
  <1>4. PICK items : items = InsertAt(s.items, at, ibar)
    OBVIOUS
  <1>5. /\ items \in Seq(Item) /\ Len(items) = Len(s.items) + 1 /\ Len(s.items) \in Nat
        /\ \A i \in 1..Len(items) : items[i] = IF i < at THEN s.items[i] ELSE IF i = at THEN ibar ELSE s.items[i - 1]
    <2>1. PICK old \in Seq(Item) : old = s.items
      BY <1>3
    <2>2. at \in 1..Len(old) + 1 /\ ibar \in Item
      BY <2>1
    <2>3. LET i == InsertAt(old, at, ibar) IN
             /\ i \in Seq(Item) /\ Len(i) = Len(old) + 1 /\ Len(old) \in Nat
             /\ \A j \in 1..Len(i) : i[j] = IF j < at THEN old[j] ELSE IF j = at THEN ibar ELSE old[j - 1]
      BY ONLY <2>1, <2>2, InsertedEntries
    <2> QED
      BY ONLY <1>4, <2>1, <2>3
  <1>6. at \in Nat \ {0} /\ at <= Len(items) /\ Len(items) \in Nat \ {0} /\ at \in 1..Len(items)
    BY <1>5
  <1>7. \A y : Contains(items, y) <=> Contains(s.items, y) \/ y = ibar
    <2>1. Contains(items, ibar)
      BY <1>5, <1>6 DEF Contains
    <2>2. ASSUME NEW y, Contains(s.items, y) PROVE Contains(items, y)
      <3>1. PICK i \in 1..Len(s.items) : s.items[i] = y
        BY <2>2 DEF Contains
      <3>2. CASE i < at
        <4>1. i \in 1..Len(items)
          BY <1>5
        <4> QED
          BY <1>5, <3>1, <3>2, <4>1 DEF Contains
      <3>3. CASE ~(i < at)
        <4>1. i + 1 \in 1..Len(items) /\ ~(i + 1 < at) /\ i + 1 # at /\ (i + 1) - 1 = i
          BY <1>5, <1>6, <3>3
        <4> QED
          BY <1>5, <3>1, <4>1 DEF Contains
      <3> QED
        BY <3>2, <3>3
    <2>3. ASSUME NEW y, Contains(items, y), y # ibar PROVE Contains(s.items, y)
      <3>1. PICK i \in 1..Len(items) : items[i] = y
        BY <2>3 DEF Contains
      <3>2. CASE i < at
        <4>1. i \in 1..Len(s.items)
          BY <1>5, <1>6, <3>2
        <4> QED
          BY <1>5, <3>1, <3>2, <4>1 DEF Contains
      <3>3. CASE ~(i < at)
        <4>1. i # at /\ i - 1 \in 1..Len(s.items)
          BY <1>5, <1>6, <2>3, <3>1, <3>3
        <4> QED
          BY <1>5, <3>1, <3>3, <4>1 DEF Contains
      <3> QED
        BY <3>2, <3>3
    <2> QED
      BY <2>1, <2>2, <2>3
  <1>8. IsInjective(items)
    <2>0. DOMAIN items = 1..Len(items)
      BY <1>5
    <2>1. SUFFICES ASSUME NEW i \in 1..Len(items), NEW j \in 1..Len(items), items[i] = items[j], i < j PROVE FALSE
      <3>1. ASSUME NEW i \in 1..Len(items), NEW j \in 1..Len(items), items[i] = items[j], i # j PROVE FALSE
        <4>1. i < j \/ j < i
          BY <1>6, <3>1
        <4> QED
          BY <2>1, <3>1, <4>1
      <3> QED
        BY ONLY <2>0, <3>1 DEF IsInjective
    <2>2. \A a \in 1..Len(s.items) : s.items[a] # ibar
      BY DEF Contains
    <2>3. \A a, b \in 1..Len(s.items) : s.items[a] = s.items[b] => a = b
      BY <1>3 DEF IsInjective
    <2>4. /\ items[i] = IF i < at THEN s.items[i] ELSE IF i = at THEN ibar ELSE s.items[i - 1]
          /\ items[j] = IF j < at THEN s.items[j] ELSE IF j = at THEN ibar ELSE s.items[j - 1]
      BY <1>5
    <2>5. i \in Nat /\ j \in Nat /\ 1 <= i /\ i < j /\ j <= Len(s.items) + 1
      BY <1>5, <2>1
    <2>6. CASE j < at
      <3>1. i < at /\ i \in 1..Len(s.items) /\ j \in 1..Len(s.items) /\ i # j
        BY <1>5, <1>6, <2>5, <2>6
      <3> QED
        BY <2>1, <2>3, <2>4, <2>6, <3>1
    <2>7. CASE j = at
      <3>1. i < at /\ ~(j < at) /\ i \in 1..Len(s.items)
        BY <1>5, <1>6, <2>5, <2>7
      <3> QED
        BY <2>1, <2>2, <2>4, <2>7, <3>1
    <2>8. CASE j > at
      <3>1. ~(j < at) /\ j # at /\ j - 1 \in 1..Len(s.items)
        BY <1>5, <1>6, <2>5, <2>8
      <3>2. CASE i < at
        <4>1. i \in 1..Len(s.items) /\ i # j - 1
          BY <1>5, <1>6, <2>5, <2>8, <3>2
        <4> QED
          BY <2>1, <2>3, <2>4, <3>1, <3>2, <4>1
      <3>3. CASE i = at
        <4>1. ~(i < at)
          BY <1>6, <3>3
        <4> QED
          BY <2>1, <2>2, <2>4, <3>1, <3>3, <4>1
      <3>4. CASE i > at
        <4>1. ~(i < at) /\ i # at /\ i - 1 \in 1..Len(s.items) /\ i - 1 # j - 1
          BY <1>5, <1>6, <2>5, <3>4
        <4>2. s.items[i - 1] = s.items[j - 1]
          BY <2>1, <2>4, <3>1, <4>1
        <4> QED
          BY ONLY <2>3, <3>1, <4>1, <4>2
      <3> QED
        BY <1>6, <2>5, <3>2, <3>3, <3>4
    <2> QED
      BY <1>6, <2>5, <2>6, <2>7, <2>8
  <1>9. excuse \in SUBSET {"moved", "deleted"}
    BY <1>3
  <1>10. t \in ListType /\ t.items = items /\ t.index = s.index /\ t.excuse = excuse
    BY ONLY <1>2, <1>3, <1>4, <1>5, <1>9 DEF ListType
  <1>11. Renewed(s, t)
    BY ONLY <1>2, <1>3, <1>10
    DEF ListType, Renewed, SameGear
  <1>12. \A i \in 1..from - 1 : t.index[t.items[i]] = i - 1
    <2>1. SUFFICES ASSUME NEW i \in 1..from - 1 PROVE t.index[t.items[i]] = i - 1
      OBVIOUS
    <2>2. i < at /\ i \in 1..Len(s.items) /\ i \in 1..Len(items)
      BY <1>5, <1>6
    <2>3. s.index[s.items[i]] = i - 1
      BY <2>2 DEF Indexed
    <2> QED
      BY <1>5, <1>10, <2>2, <2>3
  <1>13. from \in 1..Len(t.items) + 1 /\ t.ibar_h > 0 /\ t.view_h >= 0
    BY <1>3, <1>6, <1>10, <1>11 DEF Renewed
  <1>14. Indexed(r) /\ Renewed(t, r) /\ r.items = items /\ r.excuse = excuse
    BY <1>2, <1>8, <1>10, <1>12, <1>13, NumberedFacts
  <1>15. Renewed(s, r)
    BY <1>11, <1>14 DEF Renewed, SameGear
  <1>16. Geared(r)
    BY <1>15, RenewedKeeps
  <1>17. Lit(r)
    BY <1>7, <1>14, <1>15 DEF Lit, Renewed
  <1>18. Topped(r)
    <2>1. r.top = s.top /\ r.offset_y = s.offset_y /\ r.ibar_h = s.ibar_h
      BY <1>15 DEF Renewed
    <2>2. r.top # NoItem /\ ~Contains(r.items, r.top) => "deleted" \in r.excuse
      BY <1>7, <1>14, <2>1 DEF Topped
    <2>3. ASSUME r.excuse = {} PROVE r.top = IndexToItem(r, r.offset_y \div r.ibar_h)
      <3>1. s.excuse = {} /\ s.top # NoItem /\ ~(at <= Place(s, s.top))
        BY <1>14, <2>3
      <3>2. PICK id \in Int : id = s.offset_y \div s.ibar_h
        BY <1>3 DEF ListType
      <3>3. s.top = IF 0 <= id /\ id < Len(s.items) THEN s.items[id + 1] ELSE NoItem
        BY <3>1, <3>2, IndexFinds DEF Topped
      <3>4. 0 <= id /\ id < Len(s.items) /\ s.top = s.items[id + 1] /\ id + 1 \in 1..Len(s.items)
        BY <1>5, <3>1, <3>3
      <3>5. Place(s, s.top) = id + 1
        BY <1>3, <3>4, PlaceFacts
      <3>6. id + 1 < at
        BY <1>6, <3>1, <3>5
      <3>7. items[id + 1] = s.items[id + 1]
        BY <1>5, <3>4, <3>6
      <3>8. IndexToItem(r, id) = items[id + 1]
        BY <1>5, <1>14, <3>4, IndexFinds
      <3> QED
        BY <2>1, <3>2, <3>4, <3>7, <3>8
    <2> QED
      BY <2>2, <2>3 DEF Topped
  <1> QED
    BY <1>7, <1>14, <1>15, <1>16, <1>17, <1>18

-----------------------------------------------------------------------------
(* What a program does with a list                                          *)

\* After reset_adjust the list is in order.
LEMMA ResetOrders ==
    ASSUME ClistAssumption, NEW s, Indexed(s), Geared(s), Topped(s), Lit(s), ~s.undefined
    PROVE  InOrder(ResetAdjust(s))
  <1>1. PICK r : r = ResetAdjust(s)
    OBVIOUS
  <1>2. /\ Indexed(r) /\ Geared(r) /\ Stepped(r) /\ Topped(r) /\ Adjusted(r) /\ Valued(r)
        /\ SameItems(s, r) /\ r.hlight = s.hlight
    BY <1>1, ResetFacts
  <1>3. Lit(r) /\ ~r.undefined
    BY <1>2 DEF Lit, SameItems
  <1> QED
    BY <1>1, <1>2, <1>3 DEF InOrder

\* After set_hlight a list in order is in order.
LEMMA HlightOrders ==
    ASSUME ClistAssumption, NEW s, InOrder(s), ~s.undefined, NEW ibar, Contains(s.items, ibar)
    PROVE  InOrder(SetHlight(s, ibar))
  <1>1. PICK r : r = SetHlight(s, ibar)
    OBVIOUS
  <1>2. /\ Indexed(s) /\ Geared(s) /\ Stepped(s) /\ Adjusted(s) /\ Valued(s)
    BY DEF InOrder
  <1>3. /\ Indexed(r) /\ Geared(r) /\ Stepped(r) /\ Topped(r) /\ Lit(r)
        /\ SameItems(s, r) /\ Adjusted(r) /\ Valued(r)
    BY ONLY <1>1, <1>2, ClistAssumption, Contains(s.items, ibar), HlightFacts
  <1>4. ~r.undefined
    BY <1>3 DEF SameItems
  <1> QED
    BY <1>1, <1>3, <1>4 DEF InOrder

\* An item that is highlighted if none is, before the list is reset.
LEMMA UnlitOrders ==
    ASSUME ClistAssumption, NEW s, Indexed(s), Geared(s), Stepped(s), Topped(s), Lit(s), ~s.undefined,
           NEW ibar, Contains(s.items, ibar)
    PROVE  InOrder(ResetAdjust(IfUnlit(s, ibar)))
  <1>1. CASE s.hlight = NoItem
    <2>1. PICK r : r = SetHlight(s, ibar)
      OBVIOUS
    <2>2. Indexed(r) /\ Geared(r) /\ Topped(r) /\ Lit(r) /\ SameItems(s, r)
      BY <2>1, HlightFacts
    <2>3. ~r.undefined
      BY <2>2 DEF SameItems
    <2> QED
      BY <1>1, <2>1, <2>2, <2>3, ResetOrders DEF IfUnlit
  <1>2. CASE s.hlight # NoItem
    BY <1>2, ResetOrders DEF IfUnlit
  <1> QED
    BY <1>1, <1>2

\* A list in order with a new item, as With and Numbered leave it.
LEMMA WithFacts ==
    ASSUME ClistAssumption, InOrder(clist), ~clist.undefined, NEW ibar \in New,
           NEW at \in 1..Len(clist.items) + 1, NEW from \in {1, at},
           NEW r, r = Numbered(With(at, ibar), from, from - 1)
    PROVE  /\ Indexed(r) /\ Geared(r) /\ Stepped(r) /\ Topped(r) /\ Lit(r) /\ Renewed(clist, r)
           /\ Contains(r.items, ibar) /\ ~r.undefined
           /\ clist.top = NoItem => r.excuse # {}
  <1>1. PICK s : s = clist
    OBVIOUS
  <1>2. Indexed(s) /\ Geared(s) /\ Stepped(s) /\ Topped(s) /\ Lit(s)
    BY <1>1 DEF InOrder
  <1>3. ibar \in Item /\ ~Contains(s.items, ibar)
    <2>1. DOMAIN s.items = 1..Len(s.items)
      BY <1>2 DEF Indexed, ListType
    <2> QED
      BY <1>1, <2>1 DEF New, Contains, ToSet
  <1>4. PICK excuse : excuse = IF s.top = NoItem \/ at <= Place(s, s.top) THEN s.excuse \cup {"moved"} ELSE s.excuse
    OBVIOUS
  <1>6. With(at, ibar) = [s EXCEPT !.items = InsertAt(s.items, at, ibar), !.excuse = excuse]
    BY <1>1, <1>4 DEF With
  <1>7. Enters(s, ibar, at, from, excuse, r)
    BY <1>1, <1>3, <1>4, <1>6 DEF Enters
  <1>8. /\ Indexed(r) /\ Geared(r) /\ Topped(r) /\ Lit(r) /\ Renewed(s, r)
        /\ Contains(r.items, ibar) /\ r.excuse = excuse
    BY ONLY <1>2, <1>7, ClistAssumption, InsertedFacts
  <1>9. Stepped(r)
    BY <1>2, <1>8, RenewedKeeps
  <1>10. ~r.undefined
    BY <1>1, <1>8 DEF Renewed
  <1> QED
    BY <1>1, <1>4, <1>8, <1>9, <1>10

\* egui_clist_append
LEMMA AppendOrders ==
    ASSUME ClistAssumption, InOrder(clist), ~clist.undefined, NEW ibar \in New, AppendItem(ibar)
    PROVE  InOrder(clist')
  <1>1. PICK at : at = Len(clist.items) + 1
    OBVIOUS
  <1>2. /\ at \in 1..Len(clist.items) + 1 /\ clist.item_n = at - 1
        /\ clist.top \in Item \cup {NoItem}
    BY <1>1 DEF InOrder, Indexed, ListType
  <1>3. PICK s : s = Numbered(With(at, ibar), at, at - 1)
    OBVIOUS
  <1>4. /\ Indexed(s) /\ Geared(s) /\ Stepped(s) /\ Topped(s) /\ Lit(s) /\ Renewed(clist, s)
        /\ Contains(s.items, ibar) /\ ~s.undefined
        /\ clist.top = NoItem => s.excuse # {}
    BY <1>2, <1>3, WithFacts
  <1>5. PICK top \in Item \cup {NoItem} : top = IF s.top = NoItem THEN ibar ELSE s.top
    BY <1>2, <1>4 DEF New, Renewed
  <1>6. PICK r : r = [s EXCEPT !.top = top]
    OBVIOUS
  <1>7. s \in ListType
    BY <1>4 DEF Indexed
  <1>8. /\ r \in ListType /\ r.top = top /\ r.excuse = s.excuse /\ r.hlight = s.hlight
        /\ r.offset_y = s.offset_y /\ r.value = s.value /\ r.steps = s.steps
    BY ONLY <1>5, <1>6, <1>7 DEF ListType
  <1>9. SameItems(s, r) /\ SameGear(s, r)
    BY ONLY <1>6, <1>7 DEF ListType, SameItems, SameGear
  <1>10. Indexed(r)
    BY <1>4, <1>8, <1>9, SameIndexed
  <1>11. Geared(r)
    BY <1>4, <1>8, <1>9 DEF Geared, SameGear
  <1>12. Stepped(r)
    BY <1>4, <1>8, <1>9, SameSpans DEF Stepped
  <1>13. Lit(r) /\ ~r.undefined /\ Contains(r.items, ibar)
    BY <1>4, <1>8, <1>9 DEF Lit, SameItems
  <1>14. Topped(r)
    <2>1. CASE s.top = NoItem
      <3>1. r.excuse # {} /\ r.top = ibar
        BY <1>4, <1>5, <1>8, <2>1 DEF Renewed
      <3> QED
        BY <1>13, <3>1 DEF Topped
    <2>2. CASE s.top # NoItem
      BY <1>4, <1>5, <1>8, <1>9, <2>2, SameFound DEF Topped, SameItems
    <2> QED
      BY <2>1, <2>2
  <1>15. clist' = ResetAdjust(IfUnlit(r, ibar))
    BY <1>1, <1>2, <1>3, <1>5, <1>6 DEF AppendItem
  <1> QED
    BY <1>10, <1>11, <1>12, <1>13, <1>14, <1>15, UnlitOrders

\* egui_clist_insert
LEMMA InsertOrders ==
    ASSUME ClistAssumption, InOrder(clist), ~clist.undefined, NEW ibar \in New,
           NEW at \in 1..Len(clist.items) + 1, InsertItem(ibar, at)
    PROVE  InOrder(clist')
  <1>1. /\ Len(clist.items) \in Nat /\ clist.item_n = Len(clist.items)
        /\ \A i \in 1..Len(clist.items) : clist.index[clist.items[i]] = i - 1
    BY DEF InOrder, Indexed, ListType
  <1>2. at - 1 = IF at <= Len(clist.items) THEN clist.index[clist.items[at]] ELSE clist.item_n
    BY <1>1
  <1>3. PICK s : s = Numbered(With(at, ibar), at, at - 1)
    OBVIOUS
  <1>4. /\ Indexed(s) /\ Geared(s) /\ Stepped(s) /\ Topped(s) /\ Lit(s)
        /\ Contains(s.items, ibar) /\ ~s.undefined
    BY <1>3, WithFacts
  <1>5. clist' = ResetAdjust(IfUnlit(s, ibar))
    BY <1>2, <1>3 DEF InsertItem
  <1> QED
    BY <1>4, <1>5, UnlitOrders

\* egui_clist_hlight_insert and egui_clist_hlight_insert_valist
LEMMA HlightInsertOrders ==
    ASSUME ClistAssumption, InOrder(clist), ~clist.undefined, NEW ibar \in New, NEW valist \in BOOLEAN,
           HlightInsert(ibar, valist)
    PROVE  InOrder(clist')
  <1>1. PICK at : at = IF clist.hlight = NoItem THEN 1 ELSE Place(clist, clist.hlight)
    OBVIOUS
  <1>2. at \in 1..Len(clist.items) + 1
    <2>1. Len(clist.items) \in Nat /\ clist.items \in Seq(Item) /\ IsInjective(clist.items)
      BY DEF InOrder, Indexed, ListType
    <2>2. CASE clist.hlight = NoItem
      BY <1>1, <2>1, <2>2
    <2>3. CASE clist.hlight # NoItem
      <3>1. PICK k \in 1..Len(clist.items) : clist.items[k] = clist.hlight
        BY <2>3 DEF InOrder, Lit, Contains
      <3>2. at = k
        BY <1>1, <2>1, <2>3, <3>1, PlaceFacts
      <3> QED
        BY <2>1, <3>2
    <2> QED
      BY <2>2, <2>3
  <1>3. PICK s : s = Numbered(With(at, ibar), 1, 0)
    OBVIOUS
  <1>4. /\ Indexed(s) /\ Geared(s) /\ Stepped(s) /\ Topped(s) /\ Lit(s)
        /\ Contains(s.items, ibar) /\ ~s.undefined
    <2>1. 1 - 1 = 0
      OBVIOUS
    <2> QED
      BY <1>2, <1>3, <2>1, WithFacts
  <1>5. s \in ListType /\ ibar \in Item
    BY <1>4 DEF Indexed, New
  <1>6. PICK r : r = [s EXCEPT !.hlight = ibar]
    OBVIOUS
  <1>7. /\ r \in ListType /\ r.top = s.top /\ r.excuse = s.excuse /\ r.hlight = ibar
        /\ r.offset_y = s.offset_y /\ r.value = s.value /\ r.steps = s.steps
    BY ONLY <1>5, <1>6 DEF ListType
  <1>8. SameItems(s, r) /\ SameGear(s, r)
    BY ONLY <1>5, <1>6 DEF ListType, SameItems, SameGear
  <1>9. Indexed(r)
    BY <1>4, <1>7, <1>8, SameIndexed
  <1>10. Geared(r)
    BY <1>4, <1>7, <1>8 DEF Geared, SameGear
  <1>11. Stepped(r)
    BY <1>4, <1>7, <1>8, SameSpans DEF Stepped
  <1>12. Lit(r) /\ ~r.undefined /\ Contains(r.items, ibar)
    BY <1>4, <1>7, <1>8 DEF Lit, SameItems
  <1>13. Topped(r)
    BY <1>4, <1>7, <1>8, SameFound DEF Topped, SameItems
  <1>14. CASE valist
    <2>1. PICK u : u = SetHlight(r, ibar)
      OBVIOUS
    <2>2. Indexed(u) /\ Geared(u) /\ Topped(u) /\ Lit(u) /\ SameItems(r, u)
      BY <1>9, <1>10, <1>11, <1>12, <2>1, HlightFacts
    <2>3. ~u.undefined
      BY <1>12, <2>2 DEF SameItems
    <2>4. clist' = ResetAdjust(u)
      BY <1>1, <1>3, <1>6, <1>14, <2>1 DEF HlightInsert
    <2> QED
      BY <2>2, <2>3, <2>4, ResetOrders
  <1>15. CASE ~valist
    <2>1. PICK u : u = ResetAdjust(r)
      OBVIOUS
    <2>2. InOrder(u)
      BY <1>9, <1>10, <1>12, <1>13, <2>1, ResetOrders
    <2>3. SameItems(r, u)
      BY <1>9, <1>10, <1>13, <2>1, ResetFacts
    <2>4. ~u.undefined /\ Contains(u.items, ibar)
      BY <1>12, <2>3 DEF SameItems
    <2>5. clist' = SetHlight(u, ibar)
      BY <1>1, <1>3, <1>6, <1>15, <2>1 DEF HlightInsert
    <2> QED
      BY <2>2, <2>4, <2>5, HlightOrders
  <1> QED
    BY <1>14, <1>15

\* The items without one, numbered from its place on.
LEMMA CutFacts ==
    ASSUME NEW s, Indexed(s), NEW ibar, NEW k \in 1..Len(s.items), s.items[k] = ibar,
           NEW t \in ListType, t.items = RemoveAt(s.items, k), t.index = s.index,
           t.ibar_h = s.ibar_h, t.view_h = s.view_h
    PROVE  LET r == Numbered(t, k, k - 1) IN
           /\ Indexed(r) /\ Renewed(t, r) /\ r.excuse = t.excuse /\ r.items = t.items
           /\ \A y : Contains(r.items, y) <=> Contains(s.items, y) /\ y # ibar
  <1>1. s.items \in Seq(Item) /\ IsInjective(s.items) /\ s.ibar_h > 0 /\ s.view_h >= 0
        /\ \A i \in 1..Len(s.items) : s.index[s.items[i]] = i - 1
    BY DEF Indexed, ListType
  <1>2. PICK items : items = RemoveAt(s.items, k)
    OBVIOUS
  <1>3. /\ Len(items) = Len(s.items) - 1 /\ Len(s.items) \in Nat \ {0} /\ Len(items) \in Nat
        /\ \A i \in 1..Len(items) : items[i] = IF i < k THEN s.items[i] ELSE s.items[i + 1]
        /\ items \in Seq(Item)
    <2>1. PICK old \in Seq(Item) : old = s.items
      BY <1>1
    <2>2. k \in 1..Len(old)
      BY <2>1
    <2>3. LET i == RemoveAt(old, k) IN
             /\ i \in Seq(Item) /\ Len(i) = Len(old) - 1 /\ Len(old) \in Nat \ {0} /\ Len(i) \in Nat
             /\ \A j \in 1..Len(i) : i[j] = IF j < k THEN old[j] ELSE old[j + 1]
      BY ONLY <2>1, <2>2, RemovedEntries
    <2> QED
      BY ONLY <1>2, <2>1, <2>3
  <1>4. RemoveFirst(s.items, ibar) = items
    <2>1. PICK old \in Seq(Item) : old = s.items
      BY <1>1
    <2>2. IsInjective(old) /\ k \in 1..Len(old) /\ old[k] = ibar
      BY <1>1, <2>1
    <2>3. RemoveFirst(old, ibar) = RemoveAt(old, k)
      BY ONLY <2>1, <2>2, RemovedPlace
    <2> QED
      BY ONLY <1>2, <2>1, <2>3
  <1>5. /\ IsInjective(items)
        /\ \A y : Contains(items, y) <=> Contains(s.items, y) /\ y # ibar
    BY <1>1, <1>4, RemoveFacts
  <1>6. \A i \in 1..k - 1 : t.index[t.items[i]] = i - 1
    <2>1. SUFFICES ASSUME NEW i \in 1..k - 1 PROVE t.index[t.items[i]] = i - 1
      OBVIOUS
    <2>2. i \in 1..Len(items) /\ i \in 1..Len(s.items) /\ i < k
      BY <1>3
    <2> QED
      BY <1>1, <1>2, <1>3, <2>2
  <1>7. k \in 1..Len(t.items) + 1 /\ IsInjective(t.items) /\ t.ibar_h > 0 /\ t.view_h >= 0
    BY <1>1, <1>2, <1>3, <1>5
  <1>8. PICK r : r = Numbered(t, k, k - 1)
    OBVIOUS
  <1>9. Indexed(r) /\ Renewed(t, r) /\ r.items = t.items /\ r.excuse = t.excuse
    BY <1>6, <1>7, <1>8, NumberedFacts
  <1> QED
    BY <1>2, <1>5, <1>8, <1>9

\* The item highlighted in place of a deleted one is another item, if there is one.
LEMMA HeirFacts ==
    ASSUME Indexed(clist), NEW ibar, Contains(clist.items, ibar), Heir(ibar) # NoItem
    PROVE  Contains(clist.items, Heir(ibar)) /\ Heir(ibar) # ibar
  <1>1. clist.items \in Seq(Item) /\ Len(clist.items) \in Nat /\ IsInjective(clist.items)
    BY DEF Indexed, ListType
  <1>2. PICK k \in 1..Len(clist.items) : clist.items[k] = ibar
    BY DEF Contains
  <1>3. Place(clist, ibar) = k
    BY <1>1, <1>2, PlaceFacts
  <1>4. \A i, j \in 1..Len(clist.items) : clist.items[i] = clist.items[j] => i = j
    BY <1>1 DEF IsInjective
  <1>5. CASE k < Len(clist.items)
    <2>1. Heir(ibar) = clist.items[k + 1]
      BY <1>3, <1>5 DEF Heir
    <2>2. k + 1 \in 1..Len(clist.items) /\ k + 1 # k
      BY <1>1, <1>5
    <2> QED
      BY <1>2, <1>4, <2>1, <2>2 DEF Contains
  <1>6. CASE ~(k < Len(clist.items)) /\ k > 1
    <2>1. Heir(ibar) = clist.items[k - 1]
      BY <1>3, <1>6 DEF Heir
    <2>2. k - 1 \in 1..Len(clist.items) /\ k - 1 # k
      BY <1>1, <1>6
    <2> QED
      BY <1>2, <1>4, <2>1, <2>2 DEF Contains
  <1>7. CASE ~(k < Len(clist.items)) /\ ~(k > 1)
    BY <1>3, <1>7 DEF Heir
  <1> QED
    BY <1>5, <1>6, <1>7

\* __clist_delete
LEMMA DeleteOrders ==
    ASSUME ClistAssumption, InOrder(clist), ~clist.undefined, NEW ibar \in ToSet(clist.items), DeleteItem(ibar)
    PROVE  InOrder(clist')
  <1>1. PICK s : s = clist
    OBVIOUS
  <1>2. /\ Indexed(s) /\ Geared(s) /\ Stepped(s) /\ Lit(s) /\ s \in ListType
        /\ s.items \in Seq(Item) /\ Len(s.items) \in Nat /\ IsInjective(s.items)
        /\ DOMAIN s.items = 1..Len(s.items)
    BY <1>1 DEF InOrder, Indexed, ListType
  <1>3. PICK k \in 1..Len(s.items) : s.items[k] = ibar
    BY <1>1, <1>2 DEF ToSet
  <1>4. Contains(s.items, ibar) /\ ibar \in Item
    BY <1>2, <1>3 DEF Contains
  <1>5. Place(s, ibar) = k /\ s.index[ibar] = k - 1
    BY <1>2, <1>3, PlaceFacts DEF Indexed
  <1>6. PICK heir : heir = IF s.hlight = ibar THEN Heir(ibar) ELSE s.hlight
    OBVIOUS
  <1>7. heir # NoItem => Contains(s.items, heir) /\ heir # ibar
    BY <1>1, <1>2, <1>4, <1>6, HeirFacts DEF Lit
  <1>8. heir \in Item \cup {NoItem}
    BY <1>2, <1>7 DEF Contains
  <1>9. PICK top \in Item \cup {NoItem} : top = IF s.hlight = ibar /\ heir = NoItem THEN NoItem ELSE s.top
    BY <1>2 DEF ListType
  <1>10. PICK excuse \in SUBSET {"moved", "deleted"} : excuse = IF heir = NoItem THEN s.excuse \cup {"deleted"} ELSE s.excuse
    <2>1. s.excuse \in SUBSET {"moved", "deleted"}
      BY <1>2 DEF ListType
    <2> QED
      BY <2>1
  <1>11. PICK items \in Seq(Item) : items = RemoveAt(s.items, k)
    <2>1. PICK old \in Seq(Item) : old = s.items
      BY <1>2
    <2>2. k \in 1..Len(old)
      BY <2>1
    <2>3. RemoveAt(old, k) \in Seq(Item)
      BY ONLY <2>1, <2>2, RemovedEntries
    <2> QED
      BY <2>1, <2>3
  <1>12. PICK cut : cut = [s EXCEPT !.items = items, !.hlight = heir, !.excuse = excuse, !.top = top]
    OBVIOUS
  <1>13. /\ cut \in ListType /\ cut.items = items /\ cut.index = s.index /\ cut.ibar_h = s.ibar_h
         /\ cut.view_h = s.view_h /\ cut.hlight = heir /\ cut.excuse = excuse /\ cut.top = top
         /\ cut.offset_y = s.offset_y /\ cut.value = s.value /\ cut.steps = s.steps
         /\ cut.undefined = s.undefined /\ SameGear(s, cut)
    <2>1. cut \in ListType
      BY ONLY <1>2, <1>8, <1>12 DEF ListType
    <2> QED
      BY ONLY <1>2, <1>12, <2>1 DEF ListType, SameGear
  <1>14. PICK n : n = Numbered(cut, k, k - 1)
    OBVIOUS
  <1>15. /\ Indexed(n) /\ Renewed(cut, n) /\ n.excuse = excuse /\ n.items = items
         /\ \A y : Contains(n.items, y) <=> Contains(s.items, y) /\ y # ibar
    BY ONLY <1>2, <1>3, <1>11, <1>13, <1>14, CutFacts
  <1>16. PICK r : r = [n EXCEPT !.index[ibar] = 0]
    OBVIOUS
  <1>17. /\ r \in ListType /\ r.items = n.items /\ r.item_n = n.item_n /\ r.ibar_h = n.ibar_h /\ r.view_h = n.view_h
         /\ r.hlight = n.hlight /\ r.excuse = n.excuse /\ r.top = n.top
         /\ r.offset_y = n.offset_y /\ r.value = n.value /\ r.steps = n.steps
         /\ r.undefined = n.undefined /\ SameGear(n, r)
         /\ \A i \in Item : i # ibar => r.index[i] = n.index[i]
    <2>1. PICK index : index = [n.index EXCEPT ![ibar] = 0]
      OBVIOUS
    <2>2. n \in ListType /\ n.index \in [Item -> Int]
      BY <1>15 DEF Indexed, ListType
    <2>3. index \in [Item -> Int] /\ \A i \in Item : i # ibar => index[i] = n.index[i]
      <3>1. PICK old \in [Item -> Int], zero \in Int : old = n.index /\ zero = 0
        BY <2>2
      <3>2. index = [old EXCEPT ![ibar] = zero]
        BY ONLY <2>1, <3>1
      <3> QED
        BY ONLY <3>1, <3>2
    <2>4. r = [n EXCEPT !.index = index]
      BY <1>16, <2>1
    <2>5. r \in ListType
      BY ONLY <2>2, <2>3, <2>4 DEF ListType
    <2> QED
      BY ONLY <2>2, <2>3, <2>4, <2>5 DEF ListType, SameGear
  <1>18. Indexed(r)
    <2>1. ASSUME NEW i \in 1..Len(r.items) PROVE r.index[r.items[i]] = i - 1
      <3>1. i \in 1..Len(n.items) /\ n.index[n.items[i]] = i - 1
        BY <1>15, <1>17 DEF Indexed
      <3>2. Contains(n.items, n.items[i]) /\ n.items[i] # ibar
        BY <1>15, <3>1 DEF Contains
      <3>3. n.items[i] \in Item
        BY <1>11, <1>15, <3>1
      <3> QED
        BY <1>17, <3>1, <3>2, <3>3
    <2> QED
      BY <1>15, <1>17, <2>1 DEF Indexed
  <1>19. /\ r.value = s.value /\ r.steps = s.steps /\ r.offset_y = s.offset_y /\ SameGear(s, r)
         /\ ~r.undefined /\ r.hlight = heir /\ r.excuse = excuse /\ r.top = top
    BY <1>1, <1>13, <1>15, <1>17 DEF Renewed, SameGear
  <1>20. Geared(r) /\ Stepped(r)
    BY <1>2, <1>19, SameSpans DEF Geared, Stepped, SameGear
  <1>21. clist' = ResetAdjust(IF heir = NoItem THEN r ELSE SetHlight(r, heir))
    BY <1>1, <1>5, <1>6, <1>9, <1>10, <1>11, <1>12, <1>14, <1>16 DEF DeleteItem
  <1>22. CASE heir = NoItem
    <2>1. Topped(r) /\ Lit(r)
      BY <1>10, <1>19, <1>22 DEF Topped, Lit
    <2> QED
      BY <1>18, <1>19, <1>20, <1>21, <1>22, <2>1, ResetOrders
  <1>23. CASE heir # NoItem
    <2>1. Contains(r.items, heir)
      BY <1>7, <1>15, <1>17, <1>23
    <2>2. PICK u : u = SetHlight(r, heir)
      OBVIOUS
    <2>3. Indexed(u) /\ Geared(u) /\ Topped(u) /\ Lit(u) /\ SameItems(r, u)
      BY <1>18, <1>20, <2>1, <2>2, HlightFacts
    <2>4. ~u.undefined
      BY <1>19, <2>3 DEF SameItems
    <2> QED
      BY <1>21, <1>23, <2>2, <2>3, <2>4, ResetOrders
  <1> QED
    BY <1>22, <1>23

\* r is s but for the highlighted item, the button, and the use of freed memory.
Quiet(s, r) ==
    /\ r \in ListType
    /\ r.items = s.items /\ r.index = s.index /\ r.item_n = s.item_n
    /\ r.ibar_h = s.ibar_h /\ r.view_h = s.view_h
    /\ r.min = s.min /\ r.max = s.max /\ r.slot_size = s.slot_size
    /\ r.value = s.value /\ r.steps = s.steps /\ r.offset_y = s.offset_y
    /\ r.move_val = s.move_val /\ r.late = s.late
    /\ r.top = s.top /\ r.excuse = s.excuse

\* Such a list is in order.
LEMMA QuietOrders ==
    ASSUME NEW s, InOrder(s), NEW r, Quiet(s, r), Lit(r), r.undefined => "deleted" \in r.excuse
    PROVE  InOrder(r)
  <1>1. Indexed(r)
    BY DEF InOrder, Indexed, Quiet
  <1>2. Geared(r)
    BY DEF InOrder, Geared, Quiet
  <1>3. Stepped(r)
    BY DEF InOrder, Stepped, Quiet, BarSpan, DragSize
  <1>4. Topped(r)
    BY DEF InOrder, Topped, Quiet, IndexToItem
  <1>5. Adjusted(r)
    BY DEF InOrder, Adjusted, Quiet, Height
  <1>6. Valued(r)
    BY DEF InOrder, Valued, Quiet, Height
  <1> QED
    BY <1>1, <1>2, <1>3, <1>4, <1>5, <1>6 DEF InOrder

\* egui_clist_empty
LEMMA EmptyOrders ==
    ASSUME ClistAssumption, InOrder(clist), ~clist.undefined, EmptyList
    PROVE  InOrder(clist')
  <1>1. PICK s, r : s = clist /\ r = clist'
    OBVIOUS
  <1>2. /\ Indexed(s) /\ Geared(s) /\ Stepped(s) /\ Valued(s) /\ s \in ListType
        /\ s.ibar_h \in Nat \ {0} /\ s.view_h \in Nat /\ ~s.undefined
    BY <1>1 DEF InOrder, Indexed, ListType
  <1>3. PICK items \in Seq(Item), index \in [Item -> Int], none \in Item \cup {NoItem}, zero \in Int :
            items = <<>> /\ index = [i \in Item |-> 0] /\ none = NoItem /\ zero = 0
    <2>1. PICK old : old = [i \in Item |-> 0]
      OBVIOUS
    <2>2. old \in [Item -> Int]
      BY ONLY <2>1
    <2>3. <<>> \in Seq(Item) /\ NoItem \in Item \cup {NoItem} /\ 0 \in Int
      OBVIOUS
    <2> QED
      BY ONLY <2>1, <2>2, <2>3
  <1>4. r = [s EXCEPT !.items = items, !.index = index, !.top = none, !.hlight = none,
                      !.item_n = zero, !.offset_y = zero]
    BY <1>1, <1>3 DEF EmptyList
  <1>5. r \in ListType
    BY ONLY <1>2, <1>3, <1>4 DEF ListType
  <1>6. /\ r.items = <<>> /\ r.top = NoItem /\ r.hlight = NoItem /\ r.item_n = 0 /\ r.offset_y = 0
        /\ r.ibar_h = s.ibar_h /\ r.view_h = s.view_h /\ r.value = s.value /\ r.steps = s.steps
        /\ r.undefined = s.undefined /\ SameGear(s, r)
    BY ONLY <1>2, <1>3, <1>4, <1>5 DEF ListType, SameGear
  <1>7. Indexed(r)
    BY <1>2, <1>5, <1>6 DEF Indexed, IsInjective
  <1>8. Geared(r) /\ Stepped(r)
    BY <1>2, <1>6, SameSpans DEF Geared, Stepped, SameGear
  <1>9. Topped(r)
    <2>1. PICK id \in Int : id = r.offset_y \div r.ibar_h
      BY <1>2, <1>6
    <2>2. IndexToItem(r, id) = NoItem
      BY <1>6, <1>7, IndexFinds
    <2> QED
      BY <1>6, <2>1, <2>2 DEF Topped
  <1>10. Adjusted(r) /\ Lit(r)
    BY <1>6 DEF Adjusted, Lit
  <1>11. Valued(r)
    BY <1>2, <1>6 DEF Valued, SameGear
  <1> QED
    BY <1>1, <1>2, <1>6, <1>7, <1>8, <1>9, <1>10, <1>11 DEF InOrder

\* egui_clist_unset_hlight
LEMMA UnsetOrders ==
    ASSUME ClistAssumption, InOrder(clist), ~clist.undefined, UnsetHlight
    PROVE  InOrder(clist')
  <1>1. PICK none \in Item \cup {NoItem} : none = NoItem
    OBVIOUS
  <1>2. PICK s, r : s = clist /\ r = clist'
    OBVIOUS
  <1>3. s \in ListType /\ r = [s EXCEPT !.hlight = none]
    BY <1>1, <1>2 DEF InOrder, Indexed, UnsetHlight
  <1>4. r \in ListType
    BY ONLY <1>1, <1>3 DEF ListType
  <1>5. Quiet(s, r) /\ r.undefined = s.undefined /\ r.hlight = none
    BY ONLY <1>3, <1>4 DEF ListType, Quiet
  <1> QED
    BY <1>1, <1>2, <1>5, QuietOrders DEF Lit

\* egui_clist_set_item_height
LEMMA ItemHeightOrders ==
    ASSUME ClistAssumption, InOrder(clist), ~clist.undefined, NEW h \in ItemHeights, SetItemHeight(h)
    PROVE  InOrder(clist')
  <1>1. PICK s : s = clist
    OBVIOUS
  <1>2. Indexed(s) /\ Geared(s) /\ Topped(s) /\ Lit(s) /\ s \in ListType /\ ~s.undefined
    BY <1>1 DEF InOrder, Indexed
  <1>3. PICK excuse \in SUBSET {"moved", "deleted"} : excuse = s.excuse \cup {"moved"}
    <2>1. s.excuse \in SUBSET {"moved", "deleted"}
      BY <1>2 DEF ListType
    <2> QED
      BY <2>1
  <1>4. h \in Int /\ h > 0
    BY DEF ClistAssumption
  <1>5. PICK r : r = [s EXCEPT !.ibar_h = h, !.excuse = excuse]
    OBVIOUS
  <1>6. r \in ListType
    BY ONLY <1>2, <1>3, <1>4, <1>5 DEF ListType
  <1>7. /\ r.items = s.items /\ r.index = s.index /\ r.item_n = s.item_n /\ r.view_h = s.view_h /\ r.hlight = s.hlight
        /\ r.ibar_h = h /\ r.top = s.top /\ r.excuse = excuse /\ r.undefined = s.undefined
        /\ r.offset_y = s.offset_y /\ r.value = s.value /\ SameGear(s, r)
    BY ONLY <1>2, <1>3, <1>4, <1>5, <1>6 DEF ListType, SameGear
  <1>8. Indexed(r)
    BY <1>2, <1>4, <1>6, <1>7 DEF Indexed
  <1>9. Geared(r)
    BY <1>2, <1>7 DEF Geared, SameGear
  <1>10. Topped(r) /\ Lit(r)
    BY <1>2, <1>3, <1>7 DEF Topped, Lit
  <1>11. clist' = ResetAdjust(r)
    BY <1>1, <1>3, <1>5 DEF SetItemHeight
  <1> QED
    BY <1>2, <1>7, <1>8, <1>9, <1>10, <1>11, ResetOrders

-----------------------------------------------------------------------------
(* What the window system and the user do                                   *)

\* view_resize
LEMMA ViewResizeOrders ==
    ASSUME ClistAssumption, InOrder(clist), ~clist.undefined, NEW h \in Heights, ViewResize(h)
    PROVE  InOrder(clist')
  <1>1. PICK s : s = clist
    OBVIOUS
  <1>2. Indexed(s) /\ Geared(s) /\ Topped(s) /\ Lit(s) /\ s \in ListType /\ ~s.undefined
    BY <1>1 DEF InOrder, Indexed
  <1>3. h \in Int /\ h >= 0
    BY DEF ClistAssumption
  <1>4. PICK t : t = [s EXCEPT !.view_h = h]
    OBVIOUS
  <1>5. t \in ListType
    BY ONLY <1>2, <1>3, <1>4 DEF ListType
  <1>6. /\ t.items = s.items /\ t.index = s.index /\ t.item_n = s.item_n /\ t.view_h = h /\ t.hlight = s.hlight
        /\ t.ibar_h = s.ibar_h /\ t.top = s.top /\ t.excuse = s.excuse /\ t.undefined = s.undefined
        /\ t.offset_y = s.offset_y /\ t.value = s.value /\ SameGear(s, t)
    BY ONLY <1>2, <1>3, <1>4, <1>5 DEF ListType, SameGear
  <1>7. Indexed(t)
    BY <1>2, <1>3, <1>5, <1>6 DEF Indexed
  <1>8. Geared(t)
    BY <1>2, <1>6 DEF Geared, SameGear
  <1>9. Topped(t) /\ Lit(t) /\ ~t.undefined
    BY <1>2, <1>6 DEF Topped, Lit, IndexToItem
  <1>10. PICK u : u = ResetAdjust(t)
    OBVIOUS
  <1>11. InOrder(u) /\ u.value = u.offset_y /\ ~u.undefined
    <2>1. InOrder(u)
      BY <1>7, <1>8, <1>9, <1>10, ResetOrders
    <2>2. u.value = u.offset_y /\ SameItems(t, u)
      BY <1>7, <1>8, <1>9, <1>10, ResetFacts
    <2> QED
      BY <1>9, <2>1, <2>2 DEF SameItems
  <1>12. u \in ListType /\ Indexed(u) /\ u.ibar_h \in Nat \ {0} /\ u.value \in Int
    <2>1. Indexed(u) /\ u \in ListType /\ u.ibar_h > 0
      BY <1>11 DEF InOrder, Indexed
    <2> QED
      BY ONLY <2>1 DEF ListType
  <1>13. PICK top : top = IndexToItem(u, u.offset_y \div u.ibar_h)
    OBVIOUS
  <1>14. top \in Item \cup {NoItem} /\ (top # NoItem => Contains(u.items, top))
    <2>1. PICK id \in Int : id = u.offset_y \div u.ibar_h
      BY <1>11, <1>12
    <2>2. Len(u.items) \in Nat /\ top = IF 0 <= id /\ id < Len(u.items) THEN u.items[id + 1] ELSE NoItem
      BY <1>12, <1>13, <2>1, IndexFinds
    <2>3. 0 <= id /\ id < Len(u.items) => id + 1 \in 1..Len(u.items)
      BY <2>2
    <2>4. top \in Item \cup {NoItem}
      BY <1>12, <1>13, <2>1, IndexFinds
    <2> QED
      BY <2>2, <2>3, <2>4 DEF Contains
  <1>15. LookedUp([u EXCEPT !.offset_y = u.value]).top = top
    <2>1. PICK v : v = [u EXCEPT !.offset_y = u.value]
      OBVIOUS
    <2>2. /\ v \in ListType /\ v.offset_y = u.offset_y /\ v.ibar_h = u.ibar_h
          /\ v.items = u.items /\ v.index = u.index
      BY <1>11, <1>12, <2>1 DEF ListType
    <2>3. IndexToItem(v, v.offset_y \div v.ibar_h) = top
      BY <1>13, <2>2 DEF IndexToItem
    <2> QED
      BY <2>1, <2>2, <2>3 DEF LookedUp, ListType
  <1>16. PICK r : r = [u EXCEPT !.top = top, !.excuse = {}]
    OBVIOUS
  <1>17. r \in ListType
    BY ONLY <1>12, <1>14, <1>16 DEF ListType
  <1>18. /\ r.items = u.items /\ r.index = u.index /\ r.item_n = u.item_n
         /\ r.ibar_h = u.ibar_h /\ r.view_h = u.view_h
         /\ r.min = u.min /\ r.max = u.max /\ r.slot_size = u.slot_size
         /\ r.value = u.value /\ r.steps = u.steps /\ r.offset_y = u.offset_y
         /\ r.move_val = u.move_val /\ r.late = u.late /\ r.hlight = u.hlight
         /\ r.top = top /\ r.excuse = {} /\ r.undefined = u.undefined
    BY ONLY <1>12, <1>14, <1>16, <1>17 DEF ListType
  <1>19. Topped(r)
    BY <1>13, <1>14, <1>18 DEF Topped, IndexToItem
  <1>20. Indexed(r) /\ Geared(r) /\ Lit(r)
    BY <1>11, <1>17, <1>18 DEF InOrder, Indexed, Geared, Lit
  <1>21. Stepped(r) /\ Adjusted(r) /\ Valued(r)
    BY <1>11, <1>18 DEF InOrder, Stepped, BarSpan, DragSize, Adjusted, Valued, Height
  <1>22. clist' = r
    BY <1>1, <1>4, <1>10, <1>15, <1>16 DEF ViewResize
  <1> QED
    BY <1>11, <1>18, <1>19, <1>20, <1>21, <1>22 DEF InOrder

\* vscrollbar_resize
LEMMA BarResizeOrders ==
    ASSUME ClistAssumption, InOrder(clist), ~clist.undefined, NEW n \in BarSlots, BarResize(n)
    PROVE  InOrder(clist')
  <1>1. PICK s : s = clist
    OBVIOUS
  <1>2. /\ Indexed(s) /\ Geared(s) /\ Topped(s) /\ Adjusted(s) /\ Valued(s) /\ Lit(s)
        /\ s \in ListType /\ ~s.undefined
    BY <1>1 DEF InOrder, Indexed
  <1>3. n \in Int /\ n >= DragMin
    BY DEF ClistAssumption
  <1>4. PICK t : t = [s EXCEPT !.slot_size = n]
    OBVIOUS
  <1>5. t \in ListType
    BY ONLY <1>2, <1>3, <1>4 DEF ListType
  <1>6. /\ t.items = s.items /\ t.index = s.index /\ t.item_n = s.item_n
        /\ t.ibar_h = s.ibar_h /\ t.view_h = s.view_h
        /\ t.min = s.min /\ t.max = s.max /\ t.slot_size = n
        /\ t.value = s.value /\ t.offset_y = s.offset_y
        /\ t.move_val = s.move_val /\ t.late = s.late /\ t.hlight = s.hlight
        /\ t.top = s.top /\ t.excuse = s.excuse /\ t.undefined = s.undefined
    BY ONLY <1>2, <1>3, <1>4, <1>5 DEF ListType
  <1>7. Indexed(t) /\ Lit(t)
    BY <1>2, <1>5, <1>6 DEF Indexed, Lit
  <1>8. Geared(t)
    BY <1>2, <1>3, <1>6 DEF Geared
  <1>9. Topped(t) /\ Adjusted(t) /\ Valued(t)
    BY <1>2, <1>6 DEF Topped, IndexToItem, Adjusted, Valued, Height
  <1>10. PICK r : r = Follow(t)
    OBVIOUS
  <1>11. Followed(t, r)
    BY <1>7, <1>8, <1>10, FollowFacts
  <1>12. /\ Indexed(r) /\ Geared(r) /\ Stepped(r) /\ Topped(r) /\ Valued(r) /\ Adjusted(r) /\ Lit(r)
    BY <1>7, <1>8, <1>9, <1>11, FollowedKeeps
  <1>13. ~r.undefined
    BY <1>2, <1>6, <1>11 DEF Followed, SameItems
  <1>14. clist' = r
    BY <1>1, <1>4, <1>10 DEF BarResize
  <1> QED
    BY <1>12, <1>13, <1>14 DEF InOrder

\* With an item at the top that is in the list, or none, a point is on an item of it, or on none.
LEMMA PointFacts ==
    ASSUME NEW s, Indexed(s), ~TopFreed(s), NEW y \in Int, PointToItem(s, y) # NoItem
    PROVE  Contains(s.items, PointToItem(s, y)) /\ PointToItem(s, y) \in Item
  <1>1. /\ s.items \in Seq(Item) /\ Len(s.items) \in Nat /\ IsInjective(s.items)
        /\ DOMAIN s.items = 1..Len(s.items) /\ s.ibar_h \in Nat \ {0} /\ s.offset_y \in Int
        /\ \A i \in 1..Len(s.items) : s.index[s.items[i]] = i - 1
    BY DEF Indexed, ListType
  <1>2. s.top # NoItem
    BY DEF PointToItem
  <1>3. PICK k \in 1..Len(s.items) : s.items[k] = s.top
    BY <1>1, <1>2 DEF TopFreed, ToSet
  <1>4. Place(s, s.top) = k /\ s.index[s.top] = k - 1
    BY <1>1, <1>3, PlaceFacts
  <1>5. PICK p \in Int : p = (y + s.offset_y) \div s.ibar_h
    BY <1>1
  <1>6. PICK from \in Int : from = k - 1
    OBVIOUS
  <1>7. PICK hit \in Int : hit = Max({from, p}) /\ hit >= from
    <2>1. Max({from, p}) = IF from >= p THEN from ELSE p
      BY ONLY <1>5, <1>6, OfTwo
    <2> QED
      BY <1>5, <1>6, <2>1
  <1>8. PICK at \in Int : at = k + (hit - from)
    BY <1>6, <1>7
  <1>9. PointToItem(s, y) = IF at > Len(s.items) THEN NoItem ELSE s.items[at]
    BY <1>2, <1>4, <1>5, <1>6, <1>7, <1>8 DEF PointToItem
  <1>10. at >= 1
    BY <1>6, <1>7, <1>8
  <1>11. at \in 1..Len(s.items)
    BY <1>1, <1>9, <1>10
  <1>12. PointToItem(s, y) = s.items[at]
    BY <1>1, <1>9, <1>11
  <1> QED
    BY <1>1, <1>11, <1>12 DEF Contains

\* view_lbuttondown and view_rbuttondown
LEMMA ClickOrders ==
    ASSUME ClistAssumption, InOrder(clist), ~clist.undefined, NEW y \in Int, Click(y)
    PROVE  InOrder(clist')
  <1>1. PICK s, r : s = clist /\ r = clist'
    OBVIOUS
  <1>2. /\ Indexed(s) /\ Topped(s) /\ Lit(s) /\ s \in ListType /\ InOrder(s) /\ ~s.undefined
        /\ DOMAIN s.items = 1..Len(s.items)
    BY <1>1 DEF InOrder, Indexed, ListType
  <1>3. CASE TopFreed(s) /\ r = Undefined(s)
    <2>1. r = [s EXCEPT !.undefined = TRUE]
      BY <1>3 DEF Undefined
    <2>2. r \in ListType
      BY ONLY <1>2, <2>1 DEF ListType
    <2>3. Quiet(s, r) /\ r.hlight = s.hlight
      BY ONLY <1>2, <2>1, <2>2 DEF ListType, Quiet
    <2>4. Lit(r)
      BY <1>2, <2>3 DEF Lit, Quiet
    <2>5. "deleted" \in s.excuse
      BY <1>2, <1>3 DEF Topped, TopFreed, Contains, ToSet
    <2>6. InOrder(r)
      BY <1>2, <2>3, <2>4, <2>5, QuietOrders DEF Quiet
    <2> QED
      BY <1>1, <2>6
  <1>4. CASE ~TopFreed(s) /\ PointToItem(s, y) # NoItem /\ r = [s EXCEPT !.hlight = PointToItem(s, y)]
    <2>1. PICK hit : hit = PointToItem(s, y)
      OBVIOUS
    <2>2. Contains(s.items, hit) /\ hit \in Item
      BY <1>2, <1>4, <2>1, PointFacts
    <2>3. r = [s EXCEPT !.hlight = hit]
      BY <1>4, <2>1
    <2>4. r \in ListType
      BY ONLY <1>2, <2>2, <2>3 DEF ListType
    <2>5. Quiet(s, r) /\ r.hlight = hit /\ r.undefined = s.undefined
      BY ONLY <1>2, <2>3, <2>4 DEF ListType, Quiet
    <2>6. Lit(r)
      BY <2>2, <2>5 DEF Lit, Quiet
    <2>7. InOrder(r)
      BY <1>2, <2>5, <2>6, QuietOrders
    <2> QED
      BY <1>1, <2>7
  <1> QED
    BY <1>1, <1>3, <1>4 DEF Click

\* egui_clist_set_hlight
LEMMA GiveOrders ==
    ASSUME ClistAssumption, InOrder(clist), ~clist.undefined, NEW ibar \in ToSet(clist.items), GiveHlight(ibar)
    PROVE  InOrder(clist')
  <1>1. DOMAIN clist.items = 1..Len(clist.items)
    BY DEF InOrder, Indexed, ListType
  <1>2. Contains(clist.items, ibar)
    BY <1>1 DEF ToSet, Contains
  <1> QED
    BY <1>2, HlightOrders DEF GiveHlight

\* view_keydown
LEMMA KeyOrders ==
    ASSUME ClistAssumption, InOrder(clist), ~clist.undefined, ViewKeyDown \/ ViewKeyUp
    PROVE  InOrder(clist')
  <1>1. /\ clist.items \in Seq(Item) /\ Len(clist.items) \in Nat /\ IsInjective(clist.items)
    BY DEF InOrder, Indexed, ListType
  <1>2. clist.hlight # NoItem => Place(clist, clist.hlight) \in 1..Len(clist.items)
    <2>1. SUFFICES ASSUME clist.hlight # NoItem PROVE Place(clist, clist.hlight) \in 1..Len(clist.items)
      OBVIOUS
    <2>2. PICK k \in 1..Len(clist.items) : clist.items[k] = clist.hlight
      BY <2>1 DEF InOrder, Lit, Contains
    <2> QED
      BY <1>1, <2>2, PlaceFacts
  <1>3. CASE ViewKeyDown
    <2>1. PICK at : at = IF clist.hlight = NoItem THEN 1 ELSE Place(clist, clist.hlight) + 1
      OBVIOUS
    <2>2. at <= Len(clist.items) /\ clist' = SetHlight(clist, clist.items[at])
      BY <1>3, <2>1 DEF ViewKeyDown
    <2>3. at \in 1..Len(clist.items)
      BY <1>1, <1>2, <2>1, <2>2
    <2>4. Contains(clist.items, clist.items[at])
      BY <2>3 DEF Contains
    <2> QED
      BY <2>2, <2>4, HlightOrders
  <1>4. CASE ViewKeyUp
    <2>1. PICK at : at = IF clist.hlight = NoItem THEN Len(clist.items) ELSE Place(clist, clist.hlight) - 1
      OBVIOUS
    <2>2. at >= 1 /\ clist' = SetHlight(clist, clist.items[at])
      BY <1>4, <2>1 DEF ViewKeyUp
    <2>3. at \in 1..Len(clist.items)
      BY <1>1, <1>2, <2>1, <2>2
    <2>4. Contains(clist.items, clist.items[at])
      BY <2>3 DEF Contains
    <2> QED
      BY <2>2, <2>4, HlightOrders
  <1> QED
    BY <1>3, <1>4

\* view_focus_in
LEMMA FocusOrders ==
    ASSUME NEW s, InOrder(s)
    PROVE  InOrder(GotFocus(s))
  <1>1. PICK r : r = GotFocus(s)
    OBVIOUS
  <1>2. /\ Indexed(s) /\ Topped(s) /\ Lit(s) /\ s \in ListType
        /\ DOMAIN s.items = 1..Len(s.items) /\ s.top \in Item \cup {NoItem}
    BY DEF InOrder, Indexed, ListType
  <1>3. CASE s.hlight # NoItem
    BY <1>3 DEF GotFocus
  <1>4. CASE s.hlight = NoItem /\ TopFreed(s)
    <2>1. r = [s EXCEPT !.undefined = TRUE]
      BY <1>1, <1>4 DEF GotFocus, Undefined
    <2>2. r \in ListType
      BY ONLY <1>2, <2>1 DEF ListType
    <2>3. Quiet(s, r) /\ r.hlight = s.hlight
      BY ONLY <1>2, <2>1, <2>2 DEF ListType, Quiet
    <2>4. Lit(r)
      BY <1>2, <2>3 DEF Lit, Quiet
    <2>5. "deleted" \in s.excuse
      BY <1>2, <1>4 DEF Topped, TopFreed, Contains, ToSet
    <2>6. InOrder(r)
      BY <1>2, <2>3, <2>4, <2>5, QuietOrders DEF Quiet
    <2> QED
      BY <1>1, <2>6
  <1>5. CASE s.hlight = NoItem /\ ~TopFreed(s)
    <2>1. PICK top \in Item \cup {NoItem} : top = s.top
      BY <1>2
    <2>2. r = [s EXCEPT !.hlight = top]
      BY <1>1, <1>5, <2>1 DEF GotFocus
    <2>3. r \in ListType
      BY ONLY <1>2, <2>1, <2>2 DEF ListType
    <2>4. Quiet(s, r) /\ r.hlight = top /\ r.undefined = s.undefined
      BY ONLY <1>2, <2>2, <2>3 DEF ListType, Quiet
    <2>5. Lit(r)
      BY <1>2, <1>5, <2>1, <2>4 DEF Lit, Quiet, TopFreed, ToSet, Contains
    <2>6. r.undefined => "deleted" \in r.excuse
      BY <2>4 DEF InOrder, Quiet
    <2>7. InOrder(r)
      BY <2>4, <2>5, <2>6, QuietOrders
    <2> QED
      BY <1>1, <2>7
  <1> QED
    BY <1>3, <1>4, <1>5

\* scrollbar_lbuttondown on the drag
LEMMA DragDownOrders ==
    ASSUME InOrder(clist), ~clist.undefined, DragDown
    PROVE  InOrder(clist')
  <1>1. PICK s, r : s = clist /\ r = [s EXCEPT !.act_rn = "drag"]
    OBVIOUS
  <1>2. s \in ListType /\ InOrder(s) /\ ~s.undefined /\ Lit(s)
    BY <1>1 DEF InOrder, Indexed
  <1>3. r \in ListType
    BY ONLY <1>1, <1>2 DEF ListType
  <1>4. Quiet(s, r) /\ r.hlight = s.hlight /\ r.undefined = s.undefined
    BY ONLY <1>1, <1>2, <1>3 DEF ListType, Quiet
  <1>5. Lit(r)
    BY <1>2, <1>4 DEF Lit, Quiet
  <1>6. InOrder(r)
    BY <1>2, <1>4, <1>5, QuietOrders
  <1>7. clist' = r \/ clist' = GotFocus(r)
    BY <1>1 DEF DragDown
  <1> QED
    BY <1>6, <1>7, FocusOrders

\* egui_adjust_set_hook leaves a list in order.
LEMMA HookOrders ==
    ASSUME ClistAssumption, NEW s, InOrder(s), ~s.undefined, NEW value \in Nat
    PROVE  InOrder(SetHook(s, value))
  <1>1. /\ Indexed(s) /\ Geared(s) /\ Stepped(s) /\ Topped(s) /\ Adjusted(s) /\ Valued(s) /\ Lit(s)
        /\ s \in ListType
    BY DEF InOrder, Indexed
  <1>2. PICK r : r = SetHook(s, value)
    OBVIOUS
  <1>3. PICK v \in Nat : v <= s.max - s.min /\ Hooked(s, r, v)
    BY <1>1, <1>2, HookFacts
  <1>4. SameItems(s, r) /\ SameGear(s, r) /\ r.value = v /\ r.hlight = s.hlight /\ Stepped(r) /\ r \in ListType
    BY <1>3 DEF Hooked
  <1>5. Indexed(r)
    BY <1>1, <1>4, SameIndexed
  <1>6. r.offset_y \in {s.offset_y, v} /\ Topped(r)
    <2>1. CASE r.offset_y = s.offset_y /\ r.top = s.top /\ r.excuse = s.excuse
      BY <1>1, <1>4, <2>1, SameFound DEF Topped, SameItems
    <2>2. CASE MovedTo(s, r, v)
      <3>1. Topped(r)
        BY <1>1, <2>2, MovedTopped
      <3> QED
        BY <2>2, <3>1 DEF MovedTo
    <2> QED
      BY <1>3, <2>1, <2>2 DEF Hooked
  <1>7. Geared(r)
    BY <1>1, <1>4, <1>6 DEF Geared, SameGear
  <1>8. Lit(r) /\ ~r.undefined
    BY <1>1, <1>4 DEF Lit, SameItems
  <1>9. /\ r.late = s.late /\ r.max = s.max /\ r.min = s.min /\ r.move_val = s.move_val
        /\ r.item_n = s.item_n /\ Height(r) = Height(s) /\ r.view_h = s.view_h
    BY <1>4 DEF SameItems, SameGear, Height
  <1>10. Adjusted(r)
    BY <1>1, <1>9 DEF Adjusted
  <1>11. s.item_n # 0 => s.max - s.min = Bound(s)
    BY <1>1 DEF Adjusted, Bound
  <1>12. s.item_n # 0 /\ "applied" \notin s.late => r.offset_y <= Bound(s)
    BY <1>1, <1>3, <1>6, <1>11 DEF Valued, Bound
  <1>13. Valued(r)
    BY <1>1, <1>3, <1>4, <1>9, <1>12 DEF Valued, Bound
  <1> QED
    BY <1>2, <1>4, <1>5, <1>6, <1>7, <1>8, <1>10, <1>13 DEF InOrder

\* A list that moves to an offset within its bounds is in order.
LEMMA MovedOrders ==
    ASSUME NEW s, Indexed(s), Geared(s), Stepped(s), Adjusted(s), Valued(s), Lit(s), ~s.undefined,
           NEW offset \in Nat, s.item_n # 0 /\ "applied" \notin s.late => offset <= Bound(s)
    PROVE  InOrder(Scrolled(s, offset)) /\ ~Scrolled(s, offset).undefined
           /\ Scrolled(s, offset).offset_y = offset
  <1>1. PICK r : r = Scrolled(s, offset)
    OBVIOUS
  <1>2. /\ MovedTo(s, r, offset) /\ SameGear(s, r)
        /\ r.value = s.value /\ r.steps = s.steps /\ r.hlight = s.hlight
    BY <1>1, ScrolledMoves
  <1>3. Topped(r) /\ Indexed(r) /\ r.offset_y = offset /\ SameItems(s, r)
    BY <1>2, MovedTopped DEF MovedTo
  <1>4. Geared(r)
    BY <1>2, <1>3 DEF Geared, SameGear
  <1>5. Stepped(r)
    BY <1>2, SameSpans DEF Stepped
  <1>6. Lit(r) /\ ~r.undefined
    BY <1>2, <1>3 DEF Lit, SameItems
  <1>7. /\ r.late = s.late /\ r.max = s.max /\ r.min = s.min /\ r.move_val = s.move_val
        /\ r.item_n = s.item_n /\ Height(r) = Height(s) /\ r.view_h = s.view_h
    BY <1>2, <1>3 DEF SameItems, SameGear, Height
  <1>8. Adjusted(r)
    BY <1>7 DEF Adjusted
  <1>9. Valued(r)
    BY <1>2, <1>3, <1>7 DEF Valued, Bound
  <1> QED
    BY <1>1, <1>3, <1>4, <1>5, <1>6, <1>8, <1>9 DEF InOrder

\* view_focus_out
LEMMA FocusOutOrders ==
    ASSUME ClistAssumption, InOrder(clist), ~clist.undefined, ViewFocusOut
    PROVE  InOrder(clist')
  <1>1. PICK s : s = clist
    OBVIOUS
  <1>2. /\ Indexed(s) /\ Geared(s) /\ Stepped(s) /\ Topped(s) /\ Adjusted(s) /\ Valued(s) /\ Lit(s)
        /\ s \in ListType /\ ~s.undefined /\ s.hlight # NoItem /\ InOrder(s)
        /\ s.offset_y \in Nat /\ Len(s.items) \in Nat
    BY <1>1 DEF InOrder, Indexed, ViewFocusOut, Geared, ListType
  <1>3. PICK k \in 1..Len(s.items) : s.items[k] = s.hlight
    BY <1>2 DEF Lit, Contains
  <1>4. PICK h \in Nat \ {0}, view \in Nat, height \in Nat, pos \in Nat, at \in Nat, c \in Nat :
            /\ h = s.ibar_h /\ view = s.view_h /\ height = Height(s) /\ at = s.offset_y
            /\ c = k - 1 /\ pos = c * h /\ pos = s.index[s.hlight] * s.ibar_h /\ pos + h <= height
    <2>1. s.index[s.hlight] = k - 1 /\ k - 1 \in Nat
      BY <1>2, <1>3, Heights3
    <2> QED
      BY <1>2, <1>3, <2>1, Heights3
  <1>5. Bound(s) = IF height > view THEN height - view ELSE 0
    BY <1>4 DEF Bound
  <1>6. s.item_n # 0 /\ "applied" \notin s.late => at <= Bound(s)
    BY <1>2, <1>4 DEF Valued, Bound
  <1>7. PICK t : t = IF pos < at THEN [s EXCEPT !.offset_y = pos, !.top = s.hlight]
                     ELSE Scrolled(s, pos + h - view)
    OBVIOUS
  <1>8. clist' = SetHook(t, t.offset_y) /\ (pos < at \/ pos + h > at + view)
    BY <1>1, <1>4, <1>7 DEF ViewFocusOut
  <1>9. InOrder(t) /\ ~t.undefined /\ t.offset_y \in Nat
    <2>1. CASE pos < at
      <3>1. PICK top \in Item \cup {NoItem} : top = s.hlight
        BY <1>2 DEF ListType
      <3>2. t = [s EXCEPT !.offset_y = pos, !.top = top] /\ pos \in Int
        BY <1>7, <2>1, <3>1
      <3>3. t \in ListType
        BY ONLY <1>2, <3>1, <3>2 DEF ListType
      <3>4. /\ t.top = top /\ t.excuse = s.excuse /\ t.hlight = s.hlight
            /\ t.offset_y = pos /\ t.value = s.value /\ t.steps = s.steps
        BY ONLY <1>2, <3>2, <3>3 DEF ListType
      <3>5. SameItems(s, t) /\ SameGear(s, t)
        BY ONLY <1>2, <3>2, <3>3 DEF ListType, SameItems, SameGear
      <3>6. Indexed(t)
        BY <1>2, <3>3, <3>5, SameIndexed
      <3>7. Geared(t)
        BY <1>2, <3>4, <3>5 DEF Geared, SameGear
      <3>8. Stepped(t)
        BY <1>2, <3>4, <3>5, SameSpans DEF Stepped
      <3>9. Lit(t) /\ ~t.undefined
        BY <1>2, <3>4, <3>5 DEF Lit, SameItems
      <3>10. Topped(t)
        <4>1. pos \div h = c
          BY <1>4, QuotientFits
        <4>2. 0 <= c /\ c < Len(s.items) /\ c + 1 = k /\ c \in Int
          BY <1>2, <1>4
        <4>3. IndexToItem(s, c) = s.items[k]
          BY <1>2, <4>2, IndexFinds
        <4>4. t.top = IndexToItem(t, t.offset_y \div t.ibar_h)
          BY <1>3, <1>4, <3>1, <3>4, <3>5, <4>1, <4>3, SameFound DEF SameItems
        <4>5. Contains(t.items, t.top)
          BY <1>2, <3>1, <3>4, <3>5 DEF Lit, SameItems
        <4> QED
          BY <4>4, <4>5 DEF Topped
      <3>11. /\ t.late = s.late /\ t.max = s.max /\ t.min = s.min /\ t.move_val = s.move_val
             /\ t.item_n = s.item_n /\ Height(t) = Height(s) /\ t.view_h = s.view_h
        BY <3>5 DEF SameItems, SameGear, Height
      <3>12. Adjusted(t)
        BY <1>2, <3>11 DEF Adjusted
      <3>13. s.item_n # 0 /\ "applied" \notin s.late => pos <= Bound(s)
        BY <1>4, <1>5, <1>6, <2>1
      <3>14. Valued(t)
        BY <1>2, <3>4, <3>11, <3>13 DEF Valued, Bound
      <3> QED
        BY <3>4, <3>6, <3>7, <3>8, <3>9, <3>10, <3>12, <3>14 DEF InOrder
    <2>2. CASE ~(pos < at)
      <3>1. PICK offset \in Nat : offset = pos + h - view
        <4>1. h \in Nat /\ view \in Nat /\ pos \in Nat /\ at \in Nat /\ pos + h > at + view
          BY <1>4, <1>8, <2>2
        <4>2. pos + h - view \in Nat
          BY ONLY <4>1
        <4> QED
          BY ONLY <4>2
      <3>2. offset <= Bound(s)
        <4>1. /\ h \in Nat /\ view \in Nat /\ height \in Nat /\ pos \in Nat /\ at \in Nat
              /\ pos + h <= height /\ pos + h > at + view
          BY <1>4, <1>8, <2>2
        <4> QED
          BY ONLY <1>5, <3>1, <4>1
      <3>3. t = Scrolled(s, offset)
        BY <1>7, <2>2, <3>1
      <3> QED
        BY <1>2, <3>2, <3>3, MovedOrders
    <2> QED
      BY <2>1, <2>2
  <1> QED
    BY <1>8, <1>9, HookOrders

\* With another place of the bar and another button held, a list in order is in order
\* but for that the adjust has not followed yet.
Turned(s, r) ==
    /\ r \in ListType
    /\ r.items = s.items /\ r.index = s.index /\ r.item_n = s.item_n
    /\ r.ibar_h = s.ibar_h /\ r.view_h = s.view_h
    /\ r.min = s.min /\ r.max = s.max /\ r.slot_size = s.slot_size /\ r.move_val = s.move_val
    /\ r.hlight = s.hlight /\ r.top = s.top /\ r.excuse = s.excuse /\ r.undefined = s.undefined
    /\ r.offset_y = s.offset_y /\ r.late = s.late /\ r.value = s.value

\* Then it is.
LEMMA TurnedOrders ==
    ASSUME NEW s, InOrder(s), NEW r, Turned(s, r), Stepped(r)
    PROVE  /\ InOrder(r) /\ BarSpan(r) = BarSpan(s) /\ AdjSpan(r) = AdjSpan(s) /\ Bound(r) = Bound(s)
  <1>1. Indexed(r)
    BY DEF InOrder, Indexed, Turned
  <1>2. Geared(r)
    BY DEF InOrder, Geared, Turned
  <1>3. BarSpan(r) = BarSpan(s) /\ AdjSpan(r) = AdjSpan(s) /\ Bound(r) = Bound(s)
    BY DEF Turned, BarSpan, DragSize, AdjSpan, Bound, Height
  <1>4. Topped(r) /\ Lit(r)
    BY DEF InOrder, Topped, Turned, IndexToItem, Lit
  <1>5. Adjusted(r)
    BY DEF InOrder, Adjusted, Turned, Height
  <1>6. Valued(r)
    BY DEF InOrder, Valued, Turned, Height
  <1>7. r.undefined => "deleted" \in r.excuse
    BY DEF InOrder, Turned
  <1> QED
    BY <1>1, <1>2, <1>3, <1>4, <1>5, <1>6, <1>7 DEF InOrder

\* Where the bar turns at all, there is room for it, and the value of its place is within bounds.
LEMMA TurnedValue ==
    ASSUME ClistAssumption, NEW s, InOrder(s), NEW r, Turned(s, r), Stepped(r), r.steps # s.steps
    PROVE  ValueOf(r) \in Nat /\ ValueOf(r) <= AdjSpan(r)
  <1>1. r \in ListType /\ Geared(r) /\ BarSpan(r) = BarSpan(s) /\ InOrder(r)
    BY TurnedOrders DEF Turned, InOrder
  <1>2. s.steps \in Int /\ r.steps \in Int /\ Stepped(s) /\ BarSpan(s) \in Nat /\ Scale \in Nat
    <2>1. s \in ListType /\ Geared(s) /\ Stepped(s)
      BY DEF InOrder, Indexed
    <2> QED
      BY <1>1, <2>1, Spans DEF ListType
  <1>3. BarSpan(r) # 0
    <2>1. SUFFICES ASSUME BarSpan(r) = 0 PROVE FALSE
      OBVIOUS
    <2>2. BarSpan(r) * Scale = 0 /\ BarSpan(s) * Scale = 0
      BY <1>1, <1>2, <2>1
    <2>3. s.steps = 0 /\ r.steps = 0
      BY <1>2, <2>2 DEF Stepped
    <2> QED
      BY <2>3
  <1> QED
    BY <1>1, <1>3, ValueBound

\* The adjust set to a value within its bounds, whatever button is held.
LEMMA SetOrders ==
    ASSUME NEW s, InOrder(s), ~s.undefined, NEW value \in Nat,
           NEW move_val \in Int, move_val >= -1, NEW late \in SUBSET {"pending", "applied"},
           "applied" \notin late => value <= AdjSpan(s),
           move_val >= 0 /\ "pending" \notin late => move_val <= AdjSpan(s),
           NEW t, t = [s EXCEPT !.value = value, !.move_val = move_val, !.late = late]
    PROVE  InOrder(Scrolled(t, value)) /\ ~Scrolled(t, value).undefined
  <1>1. /\ Indexed(s) /\ Geared(s) /\ Stepped(s) /\ Adjusted(s) /\ Valued(s) /\ Lit(s)
        /\ s \in ListType /\ value \in Int
    BY DEF InOrder, Indexed
  <1>2. t \in ListType
    BY ONLY <1>1, move_val \in Int, late \in SUBSET {"pending", "applied"},
            t = [s EXCEPT !.value = value, !.move_val = move_val, !.late = late] DEF ListType
  <1>3. /\ SameItems(s, t) /\ t.hlight = s.hlight /\ t.offset_y = s.offset_y /\ t.steps = s.steps
        /\ t.min = s.min /\ t.max = s.max /\ t.slot_size = s.slot_size
        /\ t.value = value /\ t.move_val = move_val /\ t.late = late
    BY ONLY <1>1, <1>2, t = [s EXCEPT !.value = value, !.move_val = move_val, !.late = late] DEF ListType, SameItems
  <1>4. Indexed(t)
    BY <1>1, <1>2, <1>3, SameIndexed
  <1>5. Geared(t)
    BY <1>1, <1>3 DEF Geared
  <1>6. Stepped(t)
    BY <1>1, <1>3 DEF Stepped, BarSpan, DragSize
  <1>7. Lit(t) /\ ~t.undefined
    BY <1>1, <1>3 DEF Lit, SameItems
  <1>8. Height(t) = Height(s) /\ t.view_h = s.view_h /\ t.item_n = s.item_n
    BY <1>3 DEF SameItems, Height
  <1>9. Adjusted(t)
    BY <1>1, <1>3, <1>8 DEF Adjusted
  <1>10. t.item_n # 0 => AdjSpan(t) = Bound(t)
    BY <1>9 DEF Adjusted, Bound, AdjSpan
  <1>11. AdjSpan(t) = AdjSpan(s)
    BY <1>3 DEF AdjSpan
  <1>12. PICK r : r = Scrolled(t, value)
    OBVIOUS
  <1>13. /\ MovedTo(t, r, value) /\ SameGear(t, r)
         /\ r.value = t.value /\ r.steps = t.steps /\ r.hlight = t.hlight
    BY <1>1, <1>4, <1>12, ScrolledMoves
  <1>14. Topped(r) /\ Indexed(r) /\ r.offset_y = value /\ SameItems(t, r)
    BY <1>1, <1>4, <1>13, MovedTopped DEF MovedTo
  <1>15. Geared(r)
    BY <1>5, <1>13, <1>14 DEF Geared, SameGear
  <1>16. Stepped(r)
    BY <1>6, <1>13, SameSpans DEF Stepped
  <1>17. Lit(r) /\ ~r.undefined
    BY <1>7, <1>13, <1>14 DEF Lit, SameItems
  <1>18. /\ r.late = late /\ r.max = t.max /\ r.min = t.min /\ r.move_val = move_val
         /\ r.item_n = t.item_n /\ Height(r) = Height(t) /\ r.view_h = t.view_h /\ r.value = value
    BY <1>3, <1>13, <1>14 DEF SameItems, SameGear, Height
  <1>19. Adjusted(r)
    BY <1>9, <1>18 DEF Adjusted
  <1>20. AdjSpan(r) = AdjSpan(s) /\ Bound(r) = Bound(t)
    BY <1>11, <1>18 DEF AdjSpan, Bound
  <1>21. Valued(r)
    <2>1. "applied" \notin r.late => r.value <= r.max - r.min
      BY <1>18, <1>20 DEF AdjSpan
    <2>2. r.move_val >= 0 /\ "pending" \notin r.late => r.move_val <= r.max - r.min
      BY <1>18, <1>20 DEF AdjSpan
    <2>3. r.item_n # 0 /\ "applied" \notin r.late => r.offset_y <= Bound(r)
      BY <1>10, <1>11, <1>14, <1>18, <1>20
    <2> QED
      BY <2>1, <2>2, <2>3 DEF Valued, Bound
  <1> QED
    BY <1>12, <1>14, <1>15, <1>16, <1>17, <1>19, <1>21 DEF InOrder

\* scrollbar_lbuttondown on a button, and timer_down_cb
LEMMA BnMovedOrders ==
    ASSUME ClistAssumption, InOrder(clist), ~clist.undefined, NEW bn \in {"rn1", "rn2"}
    PROVE  InOrder(BnMoved(bn)) /\ ~BnMoved(bn).undefined
  <1>1. PICK s : s = clist
    OBVIOUS
  <1>2. InOrder(s) /\ Geared(s) /\ s \in ListType /\ ~s.undefined /\ s.steps \in Int /\ s.step_inc \in Int
        /\ s.value \in Int /\ s.move_val \in Int /\ s.late \in SUBSET {"pending", "applied"}
    BY <1>1 DEF InOrder, Indexed, ListType
  <1>3. PICK by \in Int : by = s.step_inc * BarStep(s) + StepsOf(s, 0)
    <2>1. BarStep(s) \in Int /\ StepsOf(s, 0) \in Int
      BY <1>2, Spans
    <2> QED
      BY <1>2, <2>1
  <1>4. PICK steps \in Int : /\ steps = Clamped(s, IF bn = "rn1" THEN s.steps - by ELSE s.steps + by)
                             /\ 0 <= steps /\ steps <= BarSpan(s) * Scale
    <2>1. PICK n \in Int : n = IF bn = "rn1" THEN s.steps - by ELSE s.steps + by
      BY <1>2, <1>3
    <2> QED
      BY <1>2, <2>1, ClampedFacts
  <1>5. PICK r : r = [s EXCEPT !.act_rn = bn, !.steps = steps]
    OBVIOUS
  <1>6. r \in ListType
    BY ONLY <1>2, <1>4, <1>5, bn \in {"rn1", "rn2"} DEF ListType
  <1>7. Turned(s, r) /\ r.steps = steps
    BY ONLY <1>2, <1>4, <1>5, <1>6 DEF ListType, Turned
  <1>8. Stepped(r)
    BY <1>4, <1>7 DEF Stepped, BarSpan, DragSize, Turned
  <1>9. InOrder(r) /\ ~r.undefined
    BY <1>2, <1>7, <1>8, TurnedOrders DEF Turned
  <1>10. CASE steps = s.steps
    <2>1. BnMoved(bn) = r
      BY <1>1, <1>3, <1>4, <1>5, <1>7, <1>10 DEF BnMoved
    <2> QED
      BY <1>9, <2>1
  <1>11. CASE steps # s.steps
    <2>1. PICK value \in Nat : value = ValueOf(r) /\ value <= AdjSpan(r)
      BY <1>2, <1>7, <1>8, <1>11, TurnedValue
    <2>2. r.move_val \in Int /\ r.move_val >= -1 /\ r.late \in SUBSET {"pending", "applied"}
          /\ (r.move_val >= 0 /\ "pending" \notin r.late => r.move_val <= AdjSpan(r))
      BY <1>6, <1>9 DEF InOrder, Valued, Geared, AdjSpan, ListType
    <2>3. PICK t : t = [r EXCEPT !.value = value, !.move_val = r.move_val, !.late = r.late]
      OBVIOUS
    <2>4. InOrder(Scrolled(t, value)) /\ ~Scrolled(t, value).undefined
      BY <1>9, <2>1, <2>2, <2>3, SetOrders
    <2>5. [r EXCEPT !.value = value] = t
      BY ONLY <1>6, <2>1, <2>3 DEF ListType
    <2>6. BnMoved(bn) = Scrolled(t, value)
      BY <1>1, <1>3, <1>4, <1>5, <1>7, <1>11, <2>1, <2>5 DEF BnMoved
    <2> QED
      BY <2>4, <2>6
  <1> QED
    BY <1>10, <1>11

\* scrollbar_mousemove
LEMMA DragMoveOrders ==
    ASSUME ClistAssumption, InOrder(clist), ~clist.undefined, NEW y \in {-1, 1}, DragMove(y)
    PROVE  InOrder(clist')
  <1>1. PICK s : s = clist
    OBVIOUS
  <1>2. InOrder(s) /\ Geared(s) /\ s \in ListType /\ ~s.undefined /\ s.steps \in Int
        /\ s.late \in SUBSET {"pending", "applied"}
    BY <1>1 DEF InOrder, Indexed, ListType
  <1>3. PICK steps \in Int : /\ steps = Clamped(s, s.steps + y * Scale)
                             /\ 0 <= steps /\ steps <= BarSpan(s) * Scale
    <2>1. PICK n \in Int : n = s.steps + y * Scale
      BY <1>2, Spans
    <2> QED
      BY <1>2, <2>1, ClampedFacts
  <1>4. PICK r : r = [s EXCEPT !.steps = steps]
    OBVIOUS
  <1>5. r \in ListType
    BY ONLY <1>2, <1>3, <1>4 DEF ListType
  <1>6. Turned(s, r) /\ r.steps = steps
    BY ONLY <1>2, <1>3, <1>4, <1>5 DEF ListType, Turned
  <1>7. Stepped(r)
    BY <1>3, <1>6 DEF Stepped, BarSpan, DragSize, Turned
  <1>8. InOrder(r) /\ ~r.undefined
    BY <1>2, <1>6, <1>7, TurnedOrders DEF Turned
  <1>9. r.steps # s.steps /\ clist' = [r EXCEPT !.move_val = ValueOf(r), !.late = r.late \ {"pending"}]
    BY <1>1, <1>3, <1>4, <1>6 DEF DragMove
  <1>10. PICK value \in Nat : value = ValueOf(r) /\ value <= AdjSpan(r)
    BY <1>2, <1>6, <1>7, <1>9, TurnedValue
  <1>11. PICK late \in SUBSET {"pending", "applied"} : late = r.late \ {"pending"}
    <2>1. r.late \in SUBSET {"pending", "applied"}
      BY <1>2, <1>6 DEF Turned
    <2> QED
      BY <2>1
  <1>12. PICK t : t = [r EXCEPT !.move_val = value, !.late = late]
    OBVIOUS
  <1>13. t = clist' /\ value \in Int
    BY <1>9, <1>10, <1>11, <1>12
  <1>14. t \in ListType
    BY ONLY <1>5, <1>11, <1>12, <1>13 DEF ListType
  <1>15. /\ SameItems(r, t) /\ t.hlight = r.hlight /\ t.offset_y = r.offset_y /\ t.steps = r.steps
         /\ t.top = r.top /\ t.excuse = r.excuse /\ t.undefined = r.undefined
         /\ t.min = r.min /\ t.max = r.max /\ t.slot_size = r.slot_size
         /\ t.value = r.value /\ t.move_val = value /\ t.late = late
    BY ONLY <1>5, <1>12, <1>14 DEF ListType, SameItems
  <1>16. Indexed(t)
    BY <1>8, <1>14, <1>15, SameIndexed DEF InOrder
  <1>17. Geared(t) /\ Stepped(t)
    BY <1>8, <1>10, <1>15 DEF InOrder, Geared, Stepped, BarSpan, DragSize
  <1>18. Topped(t) /\ Lit(t)
    BY <1>8, <1>15, SameFound DEF InOrder, Topped, Lit, SameItems
  <1>19. Adjusted(t)
    BY <1>8, <1>15 DEF InOrder, Adjusted, SameItems, Height
  <1>20. Valued(t)
    <2>1. Height(t) = Height(r) /\ t.view_h = r.view_h /\ t.item_n = r.item_n
      BY <1>15 DEF SameItems, Height
    <2>2. value <= t.max - t.min
      BY <1>10, <1>15 DEF AdjSpan
    <2> QED
      BY <1>8, <1>11, <1>15, <2>1, <2>2 DEF InOrder, Valued
  <1> QED
    BY <1>8, <1>13, <1>15, <1>16, <1>17, <1>18, <1>19, <1>20 DEF InOrder

\* What timer_drag_cb and scrollbar_lbuttonup do with a value that waits.
LEMMA DraggedOrders ==
    ASSUME InOrder(clist), ~clist.undefined
    PROVE  InOrder(Dragged(clist)) /\ ~Dragged(clist).undefined
  <1>1. PICK s : s = clist
    OBVIOUS
  <1>2. InOrder(s) /\ s \in ListType /\ ~s.undefined /\ s.move_val \in Int /\ Valued(s)
        /\ s.late \in SUBSET {"pending", "applied"}
    BY <1>1 DEF InOrder, Indexed, ListType
  <1>3. CASE s.move_val < 0
    BY <1>1, <1>2, <1>3 DEF Dragged
  <1>4. CASE ~(s.move_val < 0)
    <2>1. PICK value \in Nat : value = s.move_val
      BY <1>2, <1>4
    <2>2. PICK late \in SUBSET {"pending", "applied"} : late = IF "pending" \in s.late THEN {"applied"} ELSE {}
      OBVIOUS
    <2>3. PICK none \in Int : none = -1
      OBVIOUS
    <2>4. PICK t : t = [s EXCEPT !.value = value, !.move_val = none, !.late = late]
      OBVIOUS
    <2>5. "applied" \notin late => value <= AdjSpan(s)
      BY <1>2, <2>1, <2>2 DEF Valued, AdjSpan
    <2>6. none >= -1 /\ ~(none >= 0)
      BY <2>3
    <2>7. InOrder(Scrolled(t, value)) /\ ~Scrolled(t, value).undefined
      BY ONLY <1>2, <2>1, <2>2, <2>3, <2>4, <2>5, <2>6, SetOrders
    <2>8. Dragged(s) = Scrolled(t, value)
      BY <1>4, <2>1, <2>2, <2>3, <2>4 DEF Dragged
    <2> QED
      BY <1>1, <2>7, <2>8
  <1> QED
    BY <1>3, <1>4

\* scrollbar_lbuttonup
LEMMA ButtonUpOrders ==
    ASSUME InOrder(clist), ~clist.undefined, ButtonUp
    PROVE  InOrder(clist')
  <1>1. PICK s, r : s = Dragged(clist) /\ r = [s EXCEPT !.act_rn = "none"]
    OBVIOUS
  <1>2. InOrder(s) /\ ~s.undefined /\ s \in ListType /\ Stepped(s)
    BY <1>1, DraggedOrders DEF InOrder, Indexed
  <1>3. r \in ListType
    BY ONLY <1>1, <1>2 DEF ListType
  <1>4. Turned(s, r) /\ r.steps = s.steps
    BY ONLY <1>1, <1>2, <1>3 DEF ListType, Turned
  <1>5. Stepped(r)
    BY <1>2, <1>4 DEF Stepped, BarSpan, DragSize, Turned
  <1>6. InOrder(r)
    BY <1>2, <1>4, <1>5, TurnedOrders
  <1> QED
    BY <1>1, <1>6 DEF ButtonUp

-----------------------------------------------------------------------------
(* The list stays in order, and a list in order is sound                    *)

\* The list begins in order.
LEMMA ListBegins == ASSUME ClistAssumption, ClistInit PROVE ListInv
  <1>1. PICK s : s = clist
    OBVIOUS
  <1>2. PICK index : index = [i \in Item |-> 0]
    OBVIOUS
  <1>3. index \in [Item -> Int]
    BY <1>2
  <1>4. ItemHeight \in Nat \ {0} /\ DragMin \in Nat \ {0} /\ Scale \in Nat \ {0}
    BY DEF ClistAssumption
  <1>5. s = [items |-> <<>>, index |-> index, item_n |-> 0, hlight |-> NoItem,
             top |-> NoItem, offset_y |-> 0, ibar_h |-> ItemHeight, view_h |-> 0,
             value |-> 0, min |-> 1, max |-> 1, step_inc |-> 0,
             slot_size |-> DragMin, steps |-> 0, act_rn |-> "none", move_val |-> -1,
             excuse |-> {}, late |-> {}, undefined |-> FALSE]
    BY <1>1, <1>2 DEF ClistInit
  <1>6. /\ s.items = <<>> /\ s.index = index /\ s.item_n = 0 /\ s.hlight = NoItem
        /\ s.top = NoItem /\ s.offset_y = 0 /\ s.ibar_h = ItemHeight /\ s.view_h = 0
        /\ s.value = 0 /\ s.min = 1 /\ s.max = 1
        /\ s.slot_size = DragMin /\ s.steps = 0 /\ s.move_val = -1
        /\ s.excuse = {} /\ s.late = {} /\ s.undefined = FALSE
    BY ONLY <1>5
  <1>7. s \in ListType
    <2>1. <<>> \in Seq(Item) /\ NoItem \in Item \cup {NoItem} /\ ItemHeight \in Int /\ DragMin \in Int
          /\ 0 \in Int /\ 1 \in Int /\ -1 \in Int /\ {} \in SUBSET {"moved", "deleted"}
          /\ {} \in SUBSET {"pending", "applied"} /\ FALSE \in BOOLEAN /\ "none" \in {"none", "rn1", "rn2", "drag"}
      BY <1>4
    <2> QED
      BY ONLY <1>3, <1>5, <2>1 DEF ListType
  <1>8. Indexed(s)
    BY <1>4, <1>6, <1>7 DEF Indexed, IsInjective
  <1>9. Geared(s)
    BY <1>4, <1>6 DEF Geared
  <1>10. Stepped(s)
    <2>1. BarSpan(s) * Scale \in Nat
      BY <1>7, <1>9, Spans
    <2> QED
      BY <1>6, <2>1 DEF Stepped
  <1>11. Topped(s)
    <2>1. PICK id \in Int : id = s.offset_y \div s.ibar_h
      BY <1>4, <1>6
    <2>2. IndexToItem(s, id) = NoItem
      BY <1>6, <1>8, IndexFinds
    <2> QED
      BY <1>6, <2>1, <2>2 DEF Topped
  <1>12. Adjusted(s) /\ Valued(s) /\ Lit(s)
    BY <1>6 DEF Adjusted, Valued, Lit
  <1> QED
    BY <1>1, <1>6, <1>8, <1>9, <1>10, <1>11, <1>12 DEF ListInv, InOrder

\* Every step leaves it in order.
LEMMA ListSteps == ASSUME ClistAssumption, ListInv, ClistNext PROVE ListInv'
  <1>1. InOrder(clist) /\ ~clist.undefined
    BY DEF ListInv, ClistNext
  <1> SUFFICES InOrder(clist')
    BY DEF ListInv
  <1>2. ASSUME NEW ibar \in New, AppendItem(ibar) PROVE InOrder(clist')
    BY <1>1, <1>2, AppendOrders
  <1>3. ASSUME NEW ibar \in New, NEW at \in 1..Len(clist.items) + 1, InsertItem(ibar, at) PROVE InOrder(clist')
    BY <1>1, <1>3, InsertOrders
  <1>4. ASSUME NEW ibar \in New, NEW valist \in BOOLEAN, HlightInsert(ibar, valist) PROVE InOrder(clist')
    BY <1>1, <1>4, HlightInsertOrders
  <1>5. ASSUME NEW ibar \in ToSet(clist.items), DeleteItem(ibar) PROVE InOrder(clist')
    BY <1>1, <1>5, DeleteOrders
  <1>6. ASSUME NEW ibar \in ToSet(clist.items), GiveHlight(ibar) PROVE InOrder(clist')
    BY <1>1, <1>6, GiveOrders
  <1>7. CASE EmptyList
    BY <1>1, <1>7, EmptyOrders
  <1>8. CASE UnsetHlight
    BY <1>1, <1>8, UnsetOrders
  <1>9. CASE ViewKeyDown \/ ViewKeyUp
    BY <1>1, <1>9, KeyOrders
  <1>10. CASE ViewFocusIn
    BY <1>1, <1>10, FocusOrders DEF ViewFocusIn
  <1>11. CASE ViewFocusOut
    BY <1>1, <1>11, FocusOutOrders
  <1>12. ASSUME NEW h \in ItemHeights, SetItemHeight(h) PROVE InOrder(clist')
    BY <1>1, <1>12, ItemHeightOrders
  <1>13. ASSUME NEW h \in Heights, ViewResize(h) PROVE InOrder(clist')
    BY <1>1, <1>13, ViewResizeOrders
  <1>14. ASSUME NEW n \in BarSlots, BarResize(n) PROVE InOrder(clist')
    BY <1>1, <1>14, BarResizeOrders
  <1>15. ASSUME NEW y \in 0..clist.view_h - 1, Click(y) PROVE InOrder(clist')
    BY <1>1, <1>15, ClickOrders
  <1>16. ASSUME NEW bn \in {"rn1", "rn2"}, BnDown(bn) PROVE InOrder(clist')
    <2>1. PICK r : r = BnMoved(bn) /\ InOrder(r)
      BY <1>1, BnMovedOrders
    <2>2. clist' = r \/ clist' = GotFocus(r)
      BY <1>16, <2>1 DEF BnDown
    <2> QED
      BY <2>1, <2>2, FocusOrders
  <1>17. ASSUME NEW y \in {-1, 1}, DragMove(y) PROVE InOrder(clist')
    BY <1>1, <1>17, DragMoveOrders
  <1>18. CASE DragDown
    BY <1>1, <1>18, DragDownOrders
  <1>19. CASE DragTimer
    BY <1>1, <1>19, DraggedOrders DEF DragTimer
  <1>20. CASE ButtonUp
    BY <1>1, <1>20, ButtonUpOrders
  <1> QED
    BY ONLY <1>2, <1>3, <1>4, <1>5, <1>6, <1>7, <1>8, <1>9, <1>10, <1>11, <1>12, <1>13, <1>14,
            <1>15, <1>16, <1>17, <1>18, <1>19, <1>20, ClistNext DEF ClistNext

\* Items, adjust, bar and offset of a list widget fit each other in every state, whatever
\* the program, the window system and the user do, and in any order.
THEOREM ListInvariant == ClistSpec => []ListInv
  <1>1. ASSUME ClistInit PROVE ListInv
    BY <1>1, ClistAssumption, ListBegins
  <1>2. ASSUME ListInv, [ClistNext]_clist PROVE ListInv'
    <2>1. CASE ClistNext
      BY <1>2, <2>1, ClistAssumption, ListSteps
    <2>2. CASE UNCHANGED clist
      <3>1. clist' = clist
        BY <2>2
      <3> QED
        BY <1>2, <3>1 DEF ListInv
    <2> QED
      BY <1>2, <2>1, <2>2
  <1> QED
    BY <1>1, <1>2, PTL DEF ClistSpec

\* With the right item at the top, a point of the view is on the item drawn there.
LEMMA PointRight ==
    ASSUME NEW s, Indexed(s), s.offset_y >= 0, s.top = IndexToItem(s, s.offset_y \div s.ibar_h),
           ClistAssumption, NEW y \in Nat
    PROVE  PointToItem(s, y) = IndexToItem(s, (y + s.offset_y) \div s.ibar_h)
  <1>1. /\ s.items \in Seq(Item) /\ Len(s.items) \in Nat /\ IsInjective(s.items)
        /\ \A i \in 1..Len(s.items) : s.items[i] \in Item /\ s.index[s.items[i]] = i - 1
    BY DEF Indexed, ListType
  <1>2. PICK h \in Nat \ {0}, offset \in Nat, point \in Nat :
            h = s.ibar_h /\ offset = s.offset_y /\ point = y + s.offset_y /\ offset <= point
    <2>1. s.ibar_h \in Nat \ {0} /\ s.offset_y \in Nat
      BY DEF Indexed, ListType
    <2>2. y + s.offset_y \in Nat /\ s.offset_y <= y + s.offset_y
      BY ONLY <2>1, y \in Nat
    <2> QED
      BY ONLY <2>1, <2>2
  <1>3. PICK q \in Nat, p \in Nat : q = offset \div h /\ p = point \div h /\ q <= p
    BY <1>2, QuotientGrows
  <1>4. IndexToItem(s, q) = IF q < Len(s.items) THEN s.items[q + 1] ELSE NoItem
    BY <1>3, IndexFinds
  <1>5. IndexToItem(s, p) = IF p < Len(s.items) THEN s.items[p + 1] ELSE NoItem
    BY <1>3, IndexFinds
  <1>6. s.top = IndexToItem(s, q) /\ (y + s.offset_y) \div s.ibar_h = p
    BY <1>2, <1>3
  <1>7. CASE q < Len(s.items)
    <2>1. q + 1 \in 1..Len(s.items) /\ (q + 1) - 1 = q
      BY <1>1, <1>3, <1>7
    <2>2. s.top = s.items[q + 1] /\ s.top # NoItem /\ s.index[s.top] = q
      BY <1>1, <1>4, <1>6, <1>7, <2>1 DEF ClistAssumption
    <2>3. Place(s, s.top) = q + 1
      BY <1>1, <2>1, <2>2, PlaceFacts
    <2>4. Max({q, p}) = p
      <3>1. q \in Int /\ p \in Int
        BY <1>3
      <3>2. Max({q, p}) = IF q >= p THEN q ELSE p
        BY ONLY <3>1, OfTwo
      <3> QED
        BY <1>3, <3>2
    <2>5. (q + 1) + (p - q) = p + 1 /\ (p + 1 > Len(s.items) <=> ~(p < Len(s.items)))
      BY <1>1, <1>3
    <2>6. PointToItem(s, y) = IF p + 1 > Len(s.items) THEN NoItem ELSE s.items[p + 1]
      BY <1>6, <2>2, <2>3, <2>4, <2>5 DEF PointToItem
    <2> QED
      BY <1>5, <1>6, <2>5, <2>6
  <1>8. CASE ~(q < Len(s.items))
    <2>1. ~(p < Len(s.items))
      BY <1>1, <1>3, <1>8
    <2> QED
      BY <1>4, <1>5, <1>6, <1>8, <2>1 DEF PointToItem
  <1> QED
    BY <1>7, <1>8

\* What is in order is sound.
LEMMA OrderSound == ASSUME ClistAssumption, ListInv PROVE ClistSound
  <1>1. PICK s : s = clist
    OBVIOUS
  <1>2. /\ Indexed(s) /\ Geared(s) /\ Topped(s) /\ Valued(s) /\ Lit(s) /\ s \in ListType
        /\ s.undefined => "deleted" \in s.excuse
        /\ DOMAIN s.items = 1..Len(s.items) /\ s.view_h \in Int /\ s.offset_y \in Nat
    BY <1>1 DEF ListInv, InOrder, Indexed, Geared, ListType
  <1>3. s.item_n = Len(s.items) /\ \A i \in DOMAIN s.items : s.index[s.items[i]] = i - 1
    BY <1>2 DEF Indexed
  <1>4. s.hlight \in ToSet(s.items) \cup {NoItem}
    BY <1>2 DEF Lit, Contains, ToSet
  <1>5. TopFreed(s) \/ s.undefined => "deleted" \in s.excuse
    BY <1>2 DEF Topped, TopFreed, Contains, ToSet
  <1>6. ASSUME s.excuse = {}
        PROVE  /\ s.top = IndexToItem(s, s.offset_y \div s.ibar_h)
               /\ \A y \in 0..s.view_h - 1 :
                    PointToItem(s, y) = IndexToItem(s, (y + s.offset_y) \div s.ibar_h)
    <2>1. s.top = IndexToItem(s, s.offset_y \div s.ibar_h)
      BY <1>2, <1>6 DEF Topped
    <2>2. s.offset_y >= 0 /\ \A y \in 0..s.view_h - 1 : y \in Nat
      BY <1>2
    <2> QED
      BY <1>2, <2>1, <2>2, PointRight
  <1>7. ASSUME s.item_n # 0, "applied" \notin s.late
        PROVE  s.offset_y \in 0..Max({0, Height(s) - s.view_h})
    <2>1. PICK height \in Nat, view \in Nat, room \in Int :
              height = Height(s) /\ view = s.view_h /\ room = height - view
      BY <1>2, Heights3
    <2>2. Max({0, room}) = IF 0 >= room THEN 0 ELSE room
      <3>1. 0 \in Int /\ room \in Int
        OBVIOUS
      <3> QED
        BY ONLY <3>1, OfTwo
    <2>3. s.offset_y <= IF height > view THEN height - view ELSE 0
      BY <1>2, <1>7, <2>1 DEF Valued
    <2> QED
      BY <1>2, <2>1, <2>2, <2>3
  <1> QED
    BY ONLY <1>1, <1>3, <1>4, <1>5, <1>6, <1>7 DEF ClistSound

\* Indexes, highlighted item, item at the top, the item under a point and the offset are
\* right in every state, but where the code leaves them wrong, as ClistSound says.
THEOREM ListIsSound == ClistSpec => []ClistSound
  <1>1. ListInv => ClistSound
    BY ClistAssumption, OrderSound
  <1> QED
    BY <1>1, ListInvariant, PTL
=============================================================================
