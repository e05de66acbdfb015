----------------------------- MODULE EventLoop -----------------------------
(***************************************************************************)
(* How events reach the widgets: egal/egal.c and the loop of egui_main in  *)
(* egui/gui.c. The thread that reads the window system, other threads and  *)
(* handlers running in the loop itself post events; the loop gathers what  *)
(* there is in a queue of its own and dispatches it. Private events go     *)
(* through a list of a few nodes that are used again; all others through   *)
(* the event queue, whose calls are atomic (Ring).                         *)
(***************************************************************************)
EXTENDS Naturals, Sequences, SequencesExt, FiniteSets

CONSTANTS
    QueueMax,       \* EVENT_QUEUE_MAX
    LoopMax,        \* the size of the loop's own queue
    ListMax,        \* EVENT_LIST_MAX
    MaxPosts        \* bound on the events posted

ASSUME EventLoopAssumption ==
    /\ {QueueMax, LoopMax, ListMax} \subseteq Nat \ {0}
    /\ MaxPosts \in Nat

Thread == {"window", "app", "gui"}
Nodes == 1..ListMax
None == [kind |-> "none", id |-> 0]

VARIABLES
    queue,              \* event_queue
    adding, full,       \* per thread: what it is adding, and that it found no room
    head, tail, free, next, event,    \* the list of private events and its nodes
    pc,                 \* where egal_wait_event and egui_main are
    loop,               \* the loop's own queue
    posts,              \* events posted so far
    entered, listed,    \* how many events entered the queue and the list
    seen,               \* the last event dispatched that came each way
    quitLost, young, stale    \* histories of what was lost

queueVars == <<queue, entered>>
listVars == <<head, tail, free, next, event, listed>>
pastVars == <<seen, quitLost, young, stale>>
vars == <<queueVars, adding, full, listVars, pc, loop, posts, pastVars>>

Kinds == {"window", "safe", "quit"}
Event == [kind : Kinds \cup {"private"}, id : Nat]

TypeOK ==
    /\ queue \in Seq(Event) /\ Len(queue) <= QueueMax
    /\ adding \in [Thread -> Kinds \cup {"none"}]
    /\ \A t \in Thread : full[t] => adding[t] # "none"
    /\ {head, tail, free} \subseteq 0..ListMax
    /\ next \in [Nodes -> 0..ListMax]
    /\ event \in [Nodes -> Nat]
    /\ pc \in {"drain", "async", "take", "dispatch", "exited"}
    /\ loop \in Seq(Event) /\ Len(loop) <= LoopMax
    /\ seen \in [{"private", "public"} -> Nat]
    /\ {quitLost, young, stale} \subseteq BOOLEAN

\* egal_init links the nodes into the free list, the last one first.
Init ==
    /\ queue = <<>> /\ entered = 0
    /\ adding = [t \in Thread |-> "none"]
    /\ full = [t \in Thread |-> FALSE]
    /\ head = 0 /\ tail = 0 /\ free = ListMax
    /\ next = [n \in Nodes |-> n - 1]
    /\ event = [n \in Nodes |-> 0]
    /\ listed = 0
    /\ pc = "drain" /\ loop = <<>>
    /\ posts = 0
    /\ seen = [way \in {"private", "public"} |-> 0]
    /\ quitLost = FALSE /\ young = FALSE /\ stale = FALSE

Running == pc # "exited"

\* Threads of their own post at any time; a handler only while it is dispatched.
MayPost(t) ==
    /\ Running
    /\ adding[t] = "none"
    /\ posts < MaxPosts
    /\ t = "gui" => pc = "dispatch"
    /\ posts' = posts + 1

-----------------------------------------------------------------------------
(* The event queue                                                          *)

\* The window thread posts what the window system sent, the others relayouts,
\* signals and egui_quit.
Post(t, kind) ==
    /\ MayPost(t)
    /\ (kind = "window") <=> (t = "window")
    /\ adding' = [adding EXCEPT ![t] = kind]
    /\ UNCHANGED <<queueVars, full, listVars, pc, loop, pastVars>>

Room == Len(queue) < QueueMax

EnqueuedFirst(e) == <<e>> \o queue                                  \* mutant
Enqueued(e) == Append(queue, e)

\* egal_add_event: e_queue_write_try, ...
AddTry(t) ==
    /\ Running
    /\ adding[t] # "none" /\ ~full[t]
    /\ \/ /\ Room
          /\ queue' = Enqueued([kind |-> adding[t], id |-> entered + 1])
          /\ entered' = entered + 1
          /\ adding' = [adding EXCEPT ![t] = "none"]
          /\ UNCHANGED full
       \/ /\ ~Room
          /\ full' = [full EXCEPT ![t] = TRUE]
          /\ UNCHANGED <<queueVars, adding>>
    /\ UNCHANGED <<listVars, pc, loop, posts, pastVars>>

\* ... and, when there was no room, e_queue_throw of the oldest event there is by
\* then, and again from the beginning.
ThrownAt == 1
GiveUp(t) == [adding EXCEPT ![t] = "none"]                         \* mutant
TryAgain(t) == adding
AddThrow(t) ==
    /\ Running
    /\ full[t]
    /\ full' = [full EXCEPT ![t] = FALSE]
    /\ adding' = TryAgain(t)
    /\ \/ /\ queue # <<>>
          /\ queue' = RemoveAt(queue, ThrownAt)
          /\ quitLost' = (quitLost \/ queue[ThrownAt].kind = "quit")
          /\ young' = (young \/ entered - queue[ThrownAt].id < QueueMax - 1)
       \/ queue = <<>> /\ UNCHANGED <<queue, quitLost, young>>
    /\ stale' = (stale \/ Room)
    /\ UNCHANGED <<entered, listVars, pc, loop, posts, seen>>

-----------------------------------------------------------------------------
(* The list of private events                                               *)

AppendAfter(h) == IF h = 0 THEN 0 ELSE tail
Into(n) == n

\* egal_add_async_event: a free node, or the first of the list when none is free,
\* goes to the end of the list.
PostPrivate(t) ==
    /\ t # "window"
    /\ MayPost(t)
    /\ LET tmp == IF free = 0 THEN head ELSE free
           first == IF free = 0 THEN next[head] ELSE head
           last == AppendAfter(first) IN
       /\ free' = IF free = 0 THEN 0 ELSE next[free]
       /\ event' = [event EXCEPT ![Into(tmp)] = listed + 1]
       /\ next' = [n \in Nodes |-> IF n = tmp THEN 0 ELSE IF n = last THEN tmp ELSE next[n]]
       /\ head' = IF last = 0 THEN tmp ELSE first
       /\ tail' = tmp
    /\ listed' = listed + 1
    /\ UNCHANGED <<queueVars, adding, full, pc, loop, pastVars>>

-----------------------------------------------------------------------------
(* The loop                                                                 *)

LoopStep == UNCHANGED <<entered, adding, full, posts, young, stale>>
LoopRoom == Len(loop) < LoopMax
Way(e) == IF e.kind = "private" THEN "private" ELSE "public"

\* egal_wait_event moves the queue into the loop's own. The event for which that
\* one has no room is lost.
Drain ==
    /\ pc = "drain"
    /\ \/ /\ queue # <<>> /\ LoopRoom
          /\ queue' = Tail(queue)
          /\ loop' = Append(loop, Head(queue))
          /\ UNCHANGED <<pc, quitLost>>
       \/ /\ queue # <<>> /\ ~LoopRoom
          /\ queue' = Tail(queue)
          /\ quitLost' = (quitLost \/ Head(queue).kind = "quit")
          /\ pc' = "dispatch"
          /\ UNCHANGED loop
       \/ /\ queue = <<>>
          /\ pc' = "async"
          /\ UNCHANGED <<queue, loop, quitLost>>
    /\ UNCHANGED <<listVars, seen>>
    /\ LoopStep

Waiting == head # 0

\* get_async_event looks at the list before it locks it. With nothing to do the
\* loop sleeps and is given a timeout, which no widget sees.
AsyncLook ==
    /\ pc = "async"
    /\ pc' = IF Waiting THEN "take" ELSE "dispatch"
    /\ UNCHANGED <<queue, listVars, loop, seen, quitLost>>
    /\ LoopStep

NodeFreed == head
AsyncTake ==
    /\ pc = "take"
    /\ loop' = IF LoopRoom THEN Append(loop, [kind |-> "private", id |-> event[head]]) ELSE loop
    /\ head' = next[head]
    /\ next' = [next EXCEPT ![head] = free]
    /\ free' = NodeFreed
    /\ pc' = "dispatch"
    /\ UNCHANGED <<queue, tail, event, listed, seen, quitLost>>
    /\ LoopStep

\* egui_main dispatches what it was given, and starts over. A handler that posts
\* is done before the next event.
Dispatch ==
    /\ pc = "dispatch"
    /\ adding["gui"] = "none"
    /\ \/ /\ loop = <<>>
          /\ pc' = "drain"
          /\ UNCHANGED <<loop, seen>>
       \/ /\ loop # <<>>
          /\ loop' = Tail(loop)
          /\ seen' = [seen EXCEPT ![Way(Head(loop))] = Head(loop).id]
          /\ pc' = IF Head(loop).kind = "quit" THEN "exited" ELSE pc
    /\ UNCHANGED <<queue, listVars, quitLost>>
    /\ LoopStep

-----------------------------------------------------------------------------

Posting == \E t \in Thread : PostPrivate(t) \/ \E kind \in Kinds : Post(t, kind)
Adding(t) == AddTry(t) \/ AddThrow(t)
Loop == Drain \/ AsyncLook \/ AsyncTake \/ Dispatch

Next == Posting \/ (\E t \in Thread : Adding(t)) \/ Loop

\* The loop runs; the handler it runs and the other threads finish what they add.
Fairness == WF_vars(Loop) /\ \A t \in Thread : WF_vars(Adding(t))

Spec == Init /\ [][Next]_vars /\ Fairness

-----------------------------------------------------------------------------
(* Properties                                                               *)

\* The events of a way are in the order in which they took it, after the n-th.
InTurn(s, way, n) ==
    \A i \in 1..Len(s) : Way(s[i]) = way =>
        /\ n < s[i].id
        /\ \A j \in 1..i - 1 : Way(s[j]) = way => s[j].id < s[i].id

\* An event is thrown out of the queue only after a queue full of events came
\* after it, unless one who had found the queue full throws out of a queue that
\* was emptied meanwhile.
ThrownOld == young => stale

\* The nodes s are a list, from first on.
Linked(first, s) ==
    /\ first = IF s = <<>> THEN 0 ELSE s[1]
    /\ \A i \in 1..Len(s) : next[s[i]] = IF i < Len(s) THEN s[i + 1] ELSE 0

\* Every node is on one of the two lists, once, and tail is the last one waiting;
\* what waits are the newest private events: one that is given up for another is
\* the oldest, and an update that was asked for last is never lost there.
NewestWait ==
    \E waiting, unused \in SeqOf(Nodes, ListMax) :
        /\ Linked(head, waiting) /\ Linked(free, unused)
        /\ Len(waiting) + Len(unused) = ListMax
        /\ ToSet(waiting) \cup ToSet(unused) = Nodes
        /\ head # 0 => Last(waiting) = tail
        /\ \A i \in 1..Len(waiting) : event[waiting[i]] = listed - Len(waiting) + i

\* Events of each of the two ways are dispatched in the order they took it, none
\* of them twice, whichever were lost on the way; those thrown were old, and those
\* of the list of private events that were given up were the oldest.
DispatchedInOrder ==
    /\ TypeOK
    /\ ThrownOld /\ NewestWait
    /\ InTurn(loop, "private", seen.private)
    /\ InTurn(loop \o queue, "public", seen.public)

\* A call of egui_quit ends the loop, unless the event is thrown out of the queue
\* or finds no room in the loop's own.
QuitEnds ==
    (\E t \in Thread : adding[t] = "quit") ~> (pc = "exited" \/ quitLost)
=============================================================================
