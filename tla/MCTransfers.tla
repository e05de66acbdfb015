---------------------------- MODULE MCTransfers ----------------------------
(* Two users who send each other a file each. *)
EXTENDS Transfers, TLC

CONSTANTS a, b, t1, t2

MCUser == {a, b}
MCTransfer == {t1, t2}
\* A file each way, or both the same way.
MCRoutes == {t1 :> <<a, b>> @@ t2 :> <<b, a>>, t1 :> <<a, b>> @@ t2 :> <<a, b>>}
MCAsking == {a}
MCNobody == {}
=============================================================================
