------------------------------ MODULE JobPool -------------------------------
(***************************************************************************)
(* What the thread pool of msg/thread.c promises: a job it accepts is run  *)
(* once, by one thread, and no more than Capacity jobs are in its hands.   *)
(***************************************************************************)
EXTENDS Naturals, FiniteSets

CONSTANTS Job, Capacity

VARIABLES accepted, running

jobVars == <<accepted, running>>

Init ==
    /\ accepted = {}
    /\ running = {}

Submit(j) ==
    /\ j \notin accepted \cup running
    /\ Cardinality(accepted \cup running) < Capacity
    /\ accepted' = accepted \cup {j}
    /\ UNCHANGED running

Start(j) ==
    /\ j \in accepted
    /\ accepted' = accepted \ {j}
    /\ running' = running \cup {j}

Finish(j) ==
    /\ j \in running
    /\ running' = running \ {j}
    /\ UNCHANGED accepted

Next == \E j \in Job : Submit(j) \/ Start(j) \/ Finish(j)

\* No job is run that was not accepted, nor one twice, nor too many at a time.
Safety == Init /\ [][Next]_jobVars

\* An accepted job is started, whatever happens to the others.
Spec == Safety /\ \A j \in Job : WF_jobVars(Start(j))
=============================================================================
