---------------------------- MODULE MCRendezvous ----------------------------
(* Two transfers at a time. *)
EXTENDS Rendezvous, TLC

CONSTANTS t1, t2

MCCred == {t1, t2}
\* One end of the second transfer never connects.
MCAbsent == {<<t2, 2>>}
MCKinds == {"cancel", "write", "hangup"}
MCFaults == MCKinds \X MCCred
MCSymmetry == Permutations(MCCred)
=============================================================================
