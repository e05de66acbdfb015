-------------------------------- MODULE Ring --------------------------------
(***************************************************************************)
(* The ring of bytes of elib/queue.c, which msg/share.c has once more as   *)
(* Buffer: pos is the first byte, len how many there are, and both reads   *)
(* and writes are done in the pieces that lie in one stretch of the array. *)
(* The caller holds the lock (queue->lock, or rlock in msg/usock.c) from   *)
(* the first step of a call to the last.                                   *)
(***************************************************************************)
EXTENDS Integers, Sequences

CONSTANTS
    Size,       \* queue->size
    Byte,
    Args        \* the sequences callers write

ASSUME RingAssumption ==
    /\ Size \in Nat \ {0}
    /\ Args \subseteq Seq(Byte)

VARIABLES
    data, pos, len,     \* the fields of Queue
    op,                 \* the call in progress
    todo,               \* what a write has still to copy in
    want,               \* how many bytes a read has still to copy out
    got                 \* what the read has copied out so far

vars == <<data, pos, len, op, todo, want, got>>

Slots == 0..(Size - 1)
Least(m, n) == IF m <= n THEN m ELSE n
Space == Size - len

\* The slot of the i-th queued byte.
Slot(i) == IF pos + i - 1 >= Size THEN pos + i - 1 - Size ELSE pos + i - 1

TypeOK ==
    /\ data \in [Slots -> Byte]
    /\ pos \in 0..Size
    /\ len \in 0..Size
    /\ op \in {"idle", "write", "read", "throw"}
    /\ todo \in Seq(Byte)
    /\ want \in 0..len
    /\ got \in Seq(Byte)

Init ==
    /\ data \in [Slots -> Byte]
    /\ pos = 0 /\ len = 0
    /\ op = "idle" /\ todo = <<>> /\ want = 0 /\ got = <<>>

-----------------------------------------------------------------------------
(* Writing                                                                  *)

Piece(s, from, to) == [i \in 1..(to - from + 1) |-> s[from + i - 1]]

Accepted(s) == Least(Len(s), Space)

\* e_queue_write takes what there is room for.
Write(s) ==
    /\ op = "idle"
    /\ op' = "write"
    /\ todo' = Piece(s, 1, Accepted(s))
    /\ UNCHANGED <<data, pos, len, want, got>>

\* e_queue_write_try takes all or nothing.
WriteTry(s) == Len(s) <= Space /\ Write(s)

\* The first free slot, and how many free slots follow it without a break.
Begin == IF len = 0 THEN 0 ELSE (pos + len) % Size
Stretch ==
    IF len = 0 THEN Size
    ELSE IF Begin > pos THEN Size - Begin ELSE pos - Begin

WritePiece ==
    /\ op = "write" /\ Len(todo) > 0
    /\ LET n == Least(Stretch, Len(todo)) IN
       /\ data' = [i \in Slots |-> IF Begin <= i /\ i < Begin + n
                                   THEN todo[i - Begin + 1] ELSE data[i]]
       /\ len' = len + n
       /\ todo' = Piece(todo, n + 1, Len(todo))
    /\ UNCHANGED <<pos, op, want, got>>

WriteDone ==
    /\ op = "write" /\ Len(todo) = 0
    /\ op' = "idle"
    /\ UNCHANGED <<data, pos, len, todo, want, got>>

-----------------------------------------------------------------------------
(* Reading                                                                  *)

\* e_queue_read, and e_queue_throw, which copies nothing.
Read(m) ==
    /\ op = "idle"
    /\ op' = "read"
    /\ want' = Least(m, len)
    /\ got' = <<>>
    /\ UNCHANGED <<data, pos, len, todo>>

ReadTry(m) == m <= len /\ Read(m)

Throw(m) ==
    /\ op = "idle"
    /\ op' = "throw"
    /\ want' = Least(m, len)
    /\ UNCHANGED <<data, pos, len, todo, got>>

\* The bytes at pos are copied, if anybody wants them.
Copied(n) ==
    IF op = "throw" THEN got
    ELSE [i \in 1..(Len(got) + n) |-> IF i <= Len(got) THEN got[i] ELSE data[pos + i - Len(got) - 1]]

\* What lies at the end of the array goes first.
ReadWrapped ==
    /\ op \in {"read", "throw"}
    /\ pos + want > Size
    /\ LET n == Size - pos IN
       /\ got' = Copied(n)
       /\ len' = len - n
       /\ want' = want - n
    /\ pos' = 0
    /\ UNCHANGED <<data, op, todo>>

PosKept == pos + want                                              \* mutant
PosAfter == IF len = want THEN 0 ELSE pos + want

ReadRest ==
    /\ op \in {"read", "throw"}
    /\ pos + want <= Size
    /\ got' = Copied(want)
    /\ len' = len - want
    /\ pos' = PosAfter
    /\ want' = 0
    /\ op' = "idle"
    /\ UNCHANGED <<data, todo>>

-----------------------------------------------------------------------------
(* Looking without taking                                                   *)

\* e_queue_seek: n bytes from the given offset; e_queue_peek has no offset.
StartOfArray(offset) == IF pos + offset > Size THEN 0 ELSE pos + offset   \* mutant
Start(offset) == IF pos + offset > Size THEN pos + offset - Size ELSE pos + offset
Seek(offset, n) ==
    LET p == Start(offset)
        wraps == p + n > Size
        head == IF wraps THEN Size - p ELSE 0
    IN  [i \in 1..n |-> IF i <= head THEN data[p + i - 1]
                        ELSE data[(IF wraps THEN 0 ELSE p) + i - head - 1]]

-----------------------------------------------------------------------------

Next ==
    \/ \E s \in Args : Write(s) \/ WriteTry(s)
    \/ WritePiece \/ WriteDone
    \/ \E m \in 0..(Size + 1) : Read(m) \/ ReadTry(m) \/ Throw(m)
    \/ ReadWrapped \/ ReadRest

Spec == Init /\ [][Next]_vars

-----------------------------------------------------------------------------
(* What the ring holds                                                      *)

\* To a caller a write has happened when it starts, and so has a read.
Contents ==
    [i \in 1..(len - want + Len(todo)) |->
        IF i <= len - want THEN data[Slot(want + i)] ELSE todo[i - (len - want)]]
Received ==
    IF op = "throw" THEN got
    ELSE [i \in 1..(Len(got) + want) |->
            IF i <= Len(got) THEN got[i] ELSE data[Slot(i - Len(got))]]

Fifo == INSTANCE BoundedFifo WITH contents <- Contents, got <- Received, Capacity <- Size

\* Cut into pieces or not, calls lose, repeat and reorder nothing and never take
\* more than there is room for: the ring is a bounded first-in first-out buffer.
IsFifo == Fifo!Spec

\* What peek and seek return between calls is what is queued there.
SeekAgrees ==
    op = "idle" => \A offset, n \in 0..Size :
        offset + n <= len => Seek(offset, n) = [i \in 1..n |-> Contents[offset + i]]
=============================================================================
