---------------------------- MODULE MCThreadPool ----------------------------
(* Instances of ThreadPool for TLC.                                         *)
EXTENDS ThreadPool, TLC
CONSTANTS j1, j2, j3, j4, j5
FiveJobs == {j1, j2, j3, j4, j5}
=============================================================================
