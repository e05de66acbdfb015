----------------------------- MODULE MCUdpOffer -----------------------------
(* Two files, from one sender to one receiver or in opposite directions.    *)
EXTENDS UdpOffer, TLC

CONSTANTS a, b, t1, t2

MCUser == {a, b}
MCTransfer == {t1, t2}
MCRoutes == {t1 :> <<a, b>> @@ t2 :> <<a, b>>, t1 :> <<a, b>> @@ t2 :> <<b, a>>}
=============================================================================
