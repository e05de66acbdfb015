---------------------------- MODULE BoundedFifo ----------------------------
(***************************************************************************)
(* What a byte queue promises its callers: a first-in first-out buffer of  *)
(* bounded capacity that takes as much as there is room for and hands out  *)
(* as much as there is. Ring implements it.                                *)
(***************************************************************************)
EXTENDS Naturals, Sequences

CONSTANTS Byte, Capacity, Args

VARIABLES contents, got    \* what is queued, what the last read was given

Least(m, n) == IF m <= n THEN m ELSE n

Init == contents = <<>> /\ got = <<>>

Put(s) ==
    LET n == Least(Len(s), Capacity - Len(contents))
    IN  contents' = [i \in 1..(Len(contents) + n) |->
                        IF i <= Len(contents) THEN contents[i] ELSE s[i - Len(contents)]]
        /\ UNCHANGED got

Rest(n) == [i \in 1..(Len(contents) - n) |-> contents[n + i]]

Get(m) ==
    LET n == Least(m, Len(contents))
    IN  /\ got' = [i \in 1..n |-> contents[i]]
        /\ contents' = Rest(n)

Discard(m) ==
    /\ contents' = Rest(Least(m, Len(contents)))
    /\ UNCHANGED got

Next ==
    \/ \E s \in Args : Put(s)
    \/ \E m \in 0..(Capacity + 1) : Get(m) \/ Discard(m)

Spec == Init /\ [][Next]_<<contents, got>>
=============================================================================
