----------------------------- MODULE ThreadPool -----------------------------
(***************************************************************************)
(* The thread pool of msg/thread.c. A free thread sleeps on its own mutex, *)
(* which alloc_thread opens to hand it a job; free_thread pushes it back   *)
(* on the list of free threads before it goes to sleep again. The critical *)
(* sections under ThreadPool.lock are single steps.                        *)
(***************************************************************************)
EXTENDS Naturals, Sequences, FiniteSets

CONSTANTS
    Job,        \* the jobs callers hand to alloc_thread
    NoJob,      \* th->handler == NULL
    MaxThreads, \* the argument of create_thread_pool
    Batch       \* how many threads alloc_thread_pool creates at once (10)

ASSUME PoolAssumption ==
    /\ NoJob \notin Job
    /\ MaxThreads \in Nat \ {0}
    /\ Batch \in Nat \ {0}

Thread == 1..MaxThreads

VARIABLES
    head,      \* ThreadPool.head: the free threads, last freed first
    cur,       \* ThreadPool.cur: how many threads exist
    handler,   \* Pthread_t.handler with its argument
    unlocked,  \* the threads whose mutex is open
    pc         \* where a thread is in pthread_handler

poolVars == <<head, cur, handler, unlocked, pc>>

PoolTypeOK ==
    /\ head \in Seq(Thread)
    /\ cur \in 0..(MaxThreads - 1)
    /\ handler \in [Thread -> Job \cup {NoJob}]
    /\ unlocked \subseteq Thread
    /\ pc \in [Thread -> {"none", "lock", "run", "free"}]

PoolInit ==
    /\ head = <<>>
    /\ cur = 0
    /\ handler = [t \in Thread |-> NoJob]
    /\ unlocked = {}
    /\ pc = [t \in Thread |-> "none"]

\* alloc_thread_pool stops one short of max.
MayGrowLess == cur + 2 < MaxThreads                                \* mutant
MayGrow == cur + 1 < MaxThreads
GrownTo == IF cur + Batch < MaxThreads THEN cur + Batch ELSE MaxThreads - 1

\* The list after growing: the thread created last is its first.
Grown == [i \in 1..(GrownTo - cur) |-> GrownTo - i + 1]

\* A job is in the hands of the pool from alloc_thread until it returns.
Held(j) == \E t \in Thread : handler[t] = j /\ (t \in unlocked \/ pc[t] = "run")

HandToKeeping(h, j) ==                                             \* mutant
    /\ head' = h
    /\ handler' = [handler EXCEPT ![Head(h)] = j]
    /\ unlocked' = unlocked \cup {Head(h)}

\* The first thread of list h takes job j and finds its mutex open.
HandTo(h, j) ==
    /\ head' = Tail(h)
    /\ handler' = [handler EXCEPT ![Head(h)] = j]
    /\ unlocked' = unlocked \cup {Head(h)}

AllocFree(j) ==
    /\ ~Held(j)
    /\ head # <<>>
    /\ HandTo(head, j)
    /\ UNCHANGED <<cur, pc>>

AllocGrow(j) ==
    /\ ~Held(j)
    /\ head = <<>>
    /\ MayGrow
    /\ HandTo(Grown, j)
    /\ cur' = GrownTo
    /\ pc' = [t \in Thread |-> IF t \in (cur + 1)..GrownTo THEN "lock" ELSE pc[t]]

LockLeftOpen(t) ==                                                 \* mutant
    /\ pc[t] = "lock"
    /\ t \in unlocked
    /\ pc' = [pc EXCEPT ![t] = "run"]
    /\ UNCHANGED <<head, cur, handler, unlocked>>

\* pthread_handler: its mutex is open, and closes behind it.
Lock(t) ==
    /\ pc[t] = "lock"
    /\ t \in unlocked
    /\ unlocked' = unlocked \ {t}
    /\ pc' = [pc EXCEPT ![t] = IF handler[t] # NoJob THEN "run" ELSE "free"]
    /\ UNCHANGED <<head, cur, handler>>

\* The job returns.
Return(t) ==
    /\ pc[t] = "run"
    /\ pc' = [pc EXCEPT ![t] = "free"]
    /\ UNCHANGED <<head, cur, handler, unlocked>>

FreeThread(t) ==
    /\ pc[t] = "free"
    /\ handler' = [handler EXCEPT ![t] = NoJob]
    /\ head' = <<t>> \o head
    /\ pc' = [pc EXCEPT ![t] = "lock"]
    /\ UNCHANGED <<cur, unlocked>>

PoolNext ==
    \/ \E j \in Job : AllocFree(j) \/ AllocGrow(j)
    \/ \E t \in Thread : Lock(t) \/ Return(t) \/ FreeThread(t)

\* A pool thread that can take a step of its own takes it; jobs need not return.
PoolFairness == \A t \in Thread : WF_poolVars(Lock(t)) /\ WF_poolVars(FreeThread(t))

PoolSpec == PoolInit /\ [][PoolNext]_poolVars /\ PoolFairness

-----------------------------------------------------------------------------
(* Properties                                                               *)

\* The threads that may be handed a job are exactly those asleep with a closed
\* mutex, each once on the list: no thread is given a second job, none is lost.
FreeListExact ==
    /\ {head[i] : i \in 1..Len(head)} = {t \in Thread : pc[t] = "lock" /\ t \notin unlocked}
    /\ \A i, k \in 1..Len(head) : head[i] = head[k] => i = k
    /\ \A t \in unlocked : pc[t] = "lock" /\ handler[t] # NoJob

\* alloc_thread refuses a job only while every thread the pool may have is busy
\* with a job or on its way back from one.
RefusesOnlyWhenBusy ==
    head = <<>> /\ ~MayGrow =>
        Cardinality({t \in Thread : t \in unlocked \/ pc[t] \in {"run", "free"}}) = MaxThreads - 1

Accepted == {handler[t] : t \in unlocked}
Running == {handler[t] : t \in {s \in Thread : pc[s] = "run"}}

\* The pool is a job pool: every accepted job starts, once.
Pool == INSTANCE JobPool WITH Capacity <- MaxThreads - 1, accepted <- Accepted, running <- Running
IsJobPool == Pool!Spec
=============================================================================
