----------------------------- MODULE MCUStream -----------------------------
(* A network that loses nothing, with files of two packets for a ring of    *)
(* one and a half (the ring of client.c holds no whole number of packets,   *)
(* either) and of three for a ring of two; and one that loses up to two     *)
(* datagrams.                                                               *)
EXTENDS UStream
MCSettings == {[packets |-> 2, ring |-> 3, closes |-> 1, losses |-> 0],
               [packets |-> 3, ring |-> 4, closes |-> 1, losses |-> 0],
               [packets |-> 2, ring |-> 4, closes |-> 2, losses |-> 2]}
=============================================================================
