------------------------------ MODULE UStream ------------------------------
(***************************************************************************)
(* The stop-and-wait stream over UDP of msg/usock.c, used in one direction *)
(* as client.c uses it: usock_write at one end, usock_read at the other,   *)
(* each beside its usock_read_handler thread, until the writer closes.     *)
(* A umsg is two datagrams, header and payload, and two threads write to   *)
(* each socket without a common lock.                                      *)
(***************************************************************************)
EXTENDS Naturals, Sequences, SequencesExt, FiniteSetsExt

CONSTANTS
    PacketLen,   \* units of data in a packet
    ReadMax,     \* the size usock_read is called with, in units
    WriteTries, ReadTries,   \* sends of usock_write and of UMSG_CONT before it gives up
    Settings     \* each: how many packets the file is written in, MAX_UBUF in
                 \* units, how often usock_close sends UMSG_CLOSE before it gives
                 \* up, and how many datagrams may be lost (bound)

ASSUME UStreamAssumption ==
    /\ {PacketLen, ReadMax, WriteTries, ReadTries} \subseteq Nat \ {0}
    /\ \A s \in Settings :
        /\ s \in [packets : Nat \ {0}, ring : Nat, closes : Nat \ {0}, losses : Nat]
        /\ PacketLen <= s.ring

VARIABLES
    setting,             \* never changes
    toR, toW,            \* datagrams on their way, in order
    wpc, wcount, wtries, \* usock_write: its place, w_pack_count, sends made
    busy, wconnected,    \* USOCK_PEER_BUSY and USOCK_CONNECT at the writer
    wrx, wh,             \* the writer's handler: umsg being read, reply being sent
    rpc, rtries, mcount, \* usock_read: its place, CONTs sent, the count in them
    rbuf, tbuf, tsize, rcount,   \* fields of the reader's USocket
    rlock,               \* who holds rlock
    rrx, rh,             \* the reader's handler
    connected,           \* USOCK_CONNECT at the reader
    delivered,           \* what usock_read has returned
    losses, split, crossed, garbled   \* histories

netVars == <<toR, toW, losses>>
writerVars == <<wpc, wcount, wtries, busy, wconnected>>
readerVars == <<rpc, rtries, mcount, delivered>>
bufVars == <<rbuf, tbuf, tsize, rcount>>
vars == <<setting, netVars, writerVars, wrx, wh, readerVars, bufVars, rlock, rrx, rh,
          connected, split, crossed, garbled>>

packets == setting.packets
RingSize == setting.ring
CloseTries == setting.closes
LossBound == setting.losses

\* Packet n carries the units Units(n).
Units(n) == [i \in 1..PacketLen |-> (n - 1) * PacketLen + i]
Sent == [i \in 1..(packets * PacketLen) |-> i]

Hdr(type, n) == [k |-> "hdr", type |-> type, n |-> n]
Data(n) == [k |-> "data", type |-> "", n |-> n]
\* A count looks alike in every umsg; its type is history.
Count(type, n) == [k |-> "count", type |-> type, n |-> n]
Nothing == [type |-> "none", n |-> 0]
Umsg(type, n) == [type |-> type, n |-> n]
Umsgs == [type : {"none", "PACK", "PACK_COUNT", "BUSY", "CONT", "REPLY_CONT"},
          n : 0..(packets + 1)]
Reading == [at |-> "read", type |-> "none", n |-> 0]
Dead == [at |-> "dead", type |-> "none", n |-> 0]

TypeOK ==
    /\ setting \in Settings
    /\ wpc \in {"idle", "header", "payload", "wait", "woken", "busy", "close", "closing",
                "hung", "closed"}
    /\ wcount \in 1..(packets + 1) /\ wtries \in 0..Max({WriteTries, CloseTries})
    /\ rpc \in {"idle", "contheader", "contpayload", "contwait", "contwoken", "contlate",
                "take", "takewait", "takewoken", "eof", "close", "closing", "hung", "closed"}
    /\ rtries \in 0..Max({ReadTries, CloseTries}) /\ mcount \in 0..packets
    /\ {busy, wconnected, connected} \subseteq BOOLEAN
    /\ Len(rbuf) <= RingSize /\ tsize \in 0..PacketLen /\ Len(tbuf) \in {0, PacketLen}
    /\ rcount \in 0..packets
    /\ rlock \in {"free", "reader", "handler"}
    /\ wrx \in Umsgs /\ rrx \in Umsgs
    /\ wh.at \in {"read", "header", "payload", "dead"}
    /\ rh.at \in {"read", "pack", "packed", "header", "payload", "dead"}
    /\ ToSet(delivered) \subseteq 0..(packets * PacketLen)
    /\ losses \in 0..LossBound
    /\ {split, crossed, garbled} \subseteq BOOLEAN

Init ==
    /\ setting \in Settings
    /\ toR = <<>> /\ toW = <<>>
    /\ wpc = "idle" /\ wcount = 1 /\ wtries = 0 /\ busy = FALSE /\ wconnected = TRUE
    /\ wrx = Nothing /\ wh = Reading
    /\ rpc = "idle" /\ rtries = 0 /\ mcount = 0
    /\ rbuf = <<>> /\ tbuf = <<>> /\ tsize = 0 /\ rcount = 0
    /\ rlock = "free" /\ rrx = Nothing /\ rh = Reading
    /\ connected = TRUE /\ delivered = <<>>
    /\ losses = 0 /\ split = FALSE /\ crossed = FALSE /\ garbled = FALSE

\* A datagram is written; the network keeps the order, and may lose some.
PutR(d) == /\ \/ toR' = Append(toR, d) /\ UNCHANGED losses
              \/ losses < LossBound /\ losses' = losses + 1 /\ UNCHANGED toR
           /\ UNCHANGED toW
PutW(d) == /\ \/ toW' = Append(toW, d) /\ UNCHANGED losses
              \/ losses < LossBound /\ losses' = losses + 1 /\ UNCHANGED toW
           /\ UNCHANGED toR

\* Two threads are sending on one socket, or one sends what it decided before
\* the other changed what it looked at.
Sending(h) == h.at \in {"packed", "header", "payload"}

-----------------------------------------------------------------------------
(* usock_write and usock_close                                              *)

WriterUnchanged == UNCHANGED <<wrx, wh, readerVars, bufVars, rlock, rrx, rh,
                               connected, split, garbled>>

WriteHeader ==
    /\ wpc = "header" \/ (wpc = "idle" /\ wconnected)
    /\ PutR(Hdr("PACK", wcount))
    /\ wpc' = "payload"
    /\ crossed' = (crossed \/ Sending(wh))
    /\ UNCHANGED <<wcount, wtries, busy, wconnected>>
    /\ WriterUnchanged

WritePayload ==
    /\ wpc = "payload"
    /\ PutR(Data(wcount))
    /\ wpc' = "wait"
    /\ UNCHANGED <<wcount, wtries, busy, wconnected, crossed>>
    /\ WriterUnchanged

\* A write that fails ends the file: usock_send_file returns and the socket is
\* closed, without UMSG_CLOSE when the peer has sent one before.
Failed == IF wconnected THEN "close" ELSE "closed"

Retry == "header"
WriteTimeout ==
    /\ wpc = "wait"
    /\ \/ /\ wconnected /\ wtries + 1 < WriteTries
          /\ wtries' = wtries + 1
          /\ wpc' = Retry
       \/ /\ ~wconnected \/ wtries + 1 = WriteTries
          /\ wtries' = 0
          /\ wpc' = Failed
    /\ UNCHANGED <<netVars, wcount, busy, wconnected, crossed>>
    /\ WriterUnchanged

\* Signalled: done, unless the peer is busy; then it waits without a timeout.
WriteWoken ==
    /\ wpc = "woken" /\ wconnected
    /\ \/ /\ busy
          /\ wpc' = "busy"
          /\ UNCHANGED <<wcount, wtries>>
       \/ /\ ~busy
          /\ wcount' = wcount + 1
          /\ wtries' = 0
          /\ wpc' = IF wcount = packets THEN "close" ELSE "idle"
    /\ UNCHANGED <<netVars, busy, wconnected, crossed>>
    /\ WriterUnchanged

\* The peer has closed the connection: usock_write fails, or finds so when it is
\* called, and usock_close has nothing to say.
WriteClosed ==
    /\ ~wconnected
    /\ wpc \in {"idle", "woken"} \/ (wpc = "close" /\ wtries = 0)
    /\ wpc' = "closed"
    /\ UNCHANGED <<netVars, wcount, wtries, busy, wconnected, crossed>>
    /\ WriterUnchanged

\* usock_close sends UMSG_CLOSE until it is answered, or often enough, and then
\* locks wlock, which it holds, once more.
Close ==
    /\ wpc = "close"
    /\ wconnected \/ wtries > 0
    /\ PutR(Hdr("CLOSE", wcount))
    /\ wtries' = wtries + 1
    /\ wpc' = "closing"
    /\ crossed' = (crossed \/ Sending(wh))
    /\ UNCHANGED <<wcount, busy, wconnected>>
    /\ WriterUnchanged

CloseTimeout ==
    /\ wpc = "closing"
    /\ wpc' = IF wtries < CloseTries THEN "close" ELSE "hung"
    /\ UNCHANGED <<netVars, wcount, wtries, busy, wconnected, crossed>>
    /\ WriterUnchanged

-----------------------------------------------------------------------------
(* usock_read_handler at the writer                                         *)

SignalledOnce == IF wpc = "wait" THEN "woken" ELSE wpc              \* mutant
\* pthread_cond_signal(&wcond): it is lost when nobody waits.
Signalled ==
    IF wpc \in {"wait", "busy"} THEN "woken" ELSE IF wpc = "closing" THEN "hung" ELSE wpc

\* An answer counts only for the packet being written.
AnswersAny(n) == TRUE                                              \* mutant
Answers(n) == n = wcount

\* A complete umsg with a count.
WriterTakes(type, n) ==
    \/ /\ type = "PACK_COUNT"
       /\ wpc' = IF Answers(n) THEN Signalled ELSE wpc
       /\ UNCHANGED <<busy, wh>>
    \/ /\ type = "BUSY"
       /\ busy' = (busy \/ Answers(n))
       /\ wpc' = IF Answers(n) THEN Signalled ELSE wpc
       /\ UNCHANGED wh
    \/ /\ type = "CONT"
       /\ wh' = [at |-> "header", type |-> "REPLY_CONT", n |-> n]
       /\ UNCHANGED <<busy, wpc>>

\* The next datagram is a header or the count that belongs to one. A header in
\* the place of a count is read as one; a count in the place of a header is too
\* short.
WriterReads ==
    /\ wh.at = "read"
    /\ toW # <<>>
    /\ toW' = Tail(toW)
    /\ LET d == Head(toW) IN
       \/ /\ wrx = Nothing /\ d.k = "hdr" /\ d.type = "REPLY_CLOSE"
          /\ wh' = Dead
          /\ wpc' = Signalled
          /\ UNCHANGED <<wrx, busy, garbled>>
       \/ /\ wrx = Nothing /\ d.k = "hdr" /\ d.type \notin {"CLOSE", "REPLY_CLOSE"}
          /\ wrx' = Umsg(d.type, 0)
          /\ UNCHANGED <<wh, wpc, busy, garbled>>
       \/ /\ wrx = Nothing /\ d.k = "count"
          /\ wh' = Dead
          /\ garbled' = TRUE
          /\ UNCHANGED <<wrx, wpc, busy>>
       \/ /\ wrx # Nothing
          /\ WriterTakes(wrx.type, d.n)
          /\ wrx' = Nothing
          /\ garbled' = (garbled \/ d.k # "count" \/ d.type # wrx.type)
    /\ wrx = Nothing => Head(toW).type # "CLOSE"
    /\ UNCHANGED <<toR, losses, wcount, wtries, wconnected, readerVars, bufVars, rlock, rrx, rh,
                   connected, split, crossed>>

\* UMSG_CLOSE of a reader that gave up: it wakes no usock_write.
WriterTakesClose ==
    /\ wh.at = "read" /\ wrx = Nothing
    /\ toW # <<>> /\ Head(toW).type = "CLOSE"
    /\ toW' = Tail(toW)
    /\ \/ toR' = Append(toR, Hdr("REPLY_CLOSE", wcount)) /\ UNCHANGED losses
       \/ losses < LossBound /\ losses' = losses + 1 /\ UNCHANGED toR
    /\ wconnected' = FALSE
    /\ wh' = Dead
    /\ crossed' = (crossed \/ wpc = "payload")
    /\ UNCHANGED <<wpc, wcount, wtries, busy, wrx, readerVars, bufVars, rlock, rrx, rh,
                   connected, split, garbled>>

\* The answer to UMSG_CONT, and then the end of being busy.
WriterReplies ==
    /\ \/ /\ wh.at = "header"
          /\ PutR(Hdr(wh.type, wcount))
          /\ wh' = [wh EXCEPT !.at = "payload"]
          /\ crossed' = (crossed \/ wpc = "payload")
          /\ UNCHANGED <<wpc, busy>>
       \/ /\ wh.at = "payload"
          /\ PutR(Count("REPLY_CONT", wh.n))
          /\ wh' = Reading
          /\ busy' = (busy /\ wh.n # wcount)
          /\ wpc' = IF busy /\ wh.n = wcount THEN Signalled ELSE wpc
          /\ UNCHANGED crossed
    /\ UNCHANGED <<wcount, wtries, wconnected, wrx, readerVars, bufVars, rlock, rrx, rh, connected,
                   split, garbled>>

-----------------------------------------------------------------------------
(* usock_read                                                               *)

ReaderUnchanged == UNCHANGED <<toR, writerVars, wrx, wh, rcount, rrx, rh, connected, garbled>>

\* Entering: a packet that did not fit goes to the ring now, as much as fits of
\* it; what is left of it is not moved to the front of tbuf.
Spilled == tsize - (IF tsize <= RingSize - Len(rbuf) THEN tsize ELSE RingSize - Len(rbuf))
ReadEnter ==
    /\ rpc = "idle"
    /\ connected
    /\ rlock = "free"
    /\ rlock' = "reader"
    /\ rbuf' = rbuf \o SubSeq(tbuf, 1, tsize - Spilled)
    /\ tsize' = Spilled
    /\ split' = (split \/ (Spilled # 0 /\ Spilled # tsize))
    /\ rpc' = IF tsize > 0 /\ Spilled = 0 THEN "contheader" ELSE "take"
    /\ tbuf' = IF Spilled = 0 THEN <<>> ELSE tbuf
    /\ mcount' = IF rpc' = "contheader" THEN rcount ELSE 0
    /\ UNCHANGED <<toW, losses, rtries, delivered, crossed>>
    /\ ReaderUnchanged

\* A connection that was closed reads as the end, whatever the ring still holds.
ReadClosed ==
    /\ rpc = "idle"
    /\ ~connected
    /\ rpc' = "eof"
    /\ UNCHANGED <<toW, losses, rbuf, tbuf, tsize, rtries, mcount, delivered, rlock, split, crossed>>
    /\ ReaderUnchanged

ContHeader ==
    /\ rpc = "contheader"
    /\ PutW(Hdr("CONT", 1))
    /\ rpc' = "contpayload"
    /\ crossed' = (crossed \/ Sending(rh))
    /\ UNCHANGED <<writerVars, wrx, wh, rtries, mcount, delivered, bufVars, rlock, rrx, rh,
                   connected, split, garbled>>

\* Every UMSG_CONT carries the count of when usock_read was entered. The wait for
\* UMSG_REPLY_CONT gives rlock up.
ContPayload ==
    /\ rpc = "contpayload"
    /\ PutW(Count("CONT", mcount))
    /\ rpc' = "contwait"
    /\ rlock' = "free"
    /\ UNCHANGED <<writerVars, wrx, wh, rtries, mcount, delivered, bufVars, rrx, rh,
                   connected, split, crossed, garbled>>

ContTimeout ==
    /\ rpc = "contwait"
    /\ rpc' = "contlate"
    /\ UNCHANGED <<toW, losses, rbuf, tbuf, tsize, rtries, mcount, delivered, rlock, split, crossed>>
    /\ ReaderUnchanged

\* The last attempt returns -1 and keeps rlock; usock_recv_file ends, and the
\* socket is closed as the writer closes its own.
ContAgain ==
    /\ rpc = "contlate"
    /\ rlock = "free"
    /\ rlock' = "reader"
    /\ \/ /\ rtries + 1 < ReadTries
          /\ rtries' = rtries + 1
          /\ rpc' = "contheader"
          /\ UNCHANGED mcount
       \/ /\ rtries + 1 = ReadTries
          /\ rtries' = 0 /\ mcount' = 0
          /\ rpc' = IF connected THEN "close" ELSE "closed"
    /\ UNCHANGED <<toW, losses, rbuf, tbuf, tsize, delivered, split, crossed>>
    /\ ReaderUnchanged

ReaderClose ==
    /\ rpc = "close"
    /\ PutW(Hdr("CLOSE", 1))
    /\ rtries' = rtries + 1
    /\ rpc' = "closing"
    /\ crossed' = (crossed \/ Sending(rh))
    /\ UNCHANGED <<writerVars, wrx, wh, mcount, delivered, bufVars, rlock, rrx, rh,
                   connected, split, garbled>>

ReaderCloseTimeout ==
    /\ rpc = "closing"
    /\ rpc' = IF rtries < CloseTries THEN "close" ELSE "hung"
    /\ UNCHANGED <<toW, losses, rbuf, tbuf, tsize, rtries, mcount, delivered, rlock, split, crossed>>
    /\ ReaderUnchanged

\* pthread_cond_timedwait and pthread_cond_wait come back with rlock.
Woken ==
    /\ rpc \in {"contwoken", "takewoken"}
    /\ rlock = "free"
    /\ rlock' = "reader"
    /\ rpc' = "take"
    /\ rtries' = 0 /\ mcount' = 0
    /\ UNCHANGED <<toW, losses, rbuf, tbuf, tsize, delivered, split, crossed>>
    /\ ReaderUnchanged

Take ==
    /\ rpc = "take"
    /\ rlock' = "free"
    /\ \/ /\ rbuf # <<>>
          /\ LET n == Min({ReadMax, Len(rbuf)}) IN
             /\ delivered' = delivered \o SubSeq(rbuf, 1, n)
             /\ rbuf' = SubSeq(rbuf, n + 1, Len(rbuf))
          /\ rpc' = "idle"
       \/ /\ rbuf = <<>>
          /\ rpc' = IF connected THEN "takewait" ELSE "eof"
          /\ UNCHANGED <<delivered, rbuf>>
    /\ UNCHANGED <<toW, losses, tbuf, tsize, rtries, mcount, split, crossed>>
    /\ ReaderUnchanged

-----------------------------------------------------------------------------
(* usock_read_handler at the reader                                         *)

\* pthread_cond_signal(&rcond).
ReaderSignalled ==
    IF rpc = "contwait" THEN "contwoken" ELSE IF rpc = "takewait" THEN "takewoken" ELSE rpc

HandlerUnchanged == UNCHANGED <<toW, losses, writerVars, wrx, wh, rtries, mcount, delivered, crossed, split>>

\* The next datagram: a header, the payload of a packet, or a count. What is in
\* the wrong place is taken for what was expected, as far as its length allows.
ReaderReads ==
    /\ rh.at = "read"
    /\ toR # <<>>
    /\ toR' = Tail(toR)
    /\ LET d == Head(toR) IN
       \/ /\ rrx = Nothing /\ d.k = "hdr" /\ d.type \notin {"CLOSE", "REPLY_CLOSE"}
          /\ rrx' = Umsg(d.type, d.n)
          /\ UNCHANGED <<rh, rpc, garbled>>
       \/ /\ rrx = Nothing /\ d.k # "hdr"
          /\ garbled' = TRUE
          /\ UNCHANGED <<rrx, rpc, rh>>
       \/ /\ rrx.type = "REPLY_CONT"
          /\ rpc' = IF d.n = rcount THEN ReaderSignalled ELSE rpc
          /\ rrx' = Nothing
          /\ garbled' = (garbled \/ d.k # "count")
          /\ UNCHANGED rh
       \/ /\ rrx.type = "PACK" /\ d.k = "data"
          /\ rh' = [at |-> "pack", type |-> rrx.type, n |-> rrx.n]
          /\ rrx' = Umsg("none", d.n)
          /\ UNCHANGED <<rpc, garbled>>
       \/ /\ rrx.type = "PACK" /\ d.k # "data"
          /\ garbled' = TRUE
          /\ UNCHANGED <<rrx, rh, rpc>>
    /\ rlock' = rlock
    /\ UNCHANGED <<bufVars, connected>>
    /\ HandlerUnchanged

\* Every packet is taken, whatever its count.
InOrderNot(n) == TRUE                                              \* mutant
NewPacket(n) == n > rcount

\* UMSG_PACK under rlock: the next packet goes to the ring, or to tbuf when the
\* ring has no room for all of it; one that leaves a gap ends the thread.
TakePacket ==
    /\ rh.at = "pack"
    /\ rlock = "free"
    /\ LET fits == RingSize - Len(rbuf) >= PacketLen IN
       \/ /\ NewPacket(rh.n) /\ rh.n <= rcount + 1
          /\ rcount' = rh.n
          /\ \/ fits /\ rbuf' = rbuf \o Units(rrx.n) /\ UNCHANGED <<tbuf, tsize>>
             \/ ~fits /\ tbuf' = Units(rrx.n) /\ tsize' = PacketLen /\ UNCHANGED rbuf
          /\ rh' = [rh EXCEPT !.at = "packed"]
          /\ rpc' = ReaderSignalled
       \/ /\ ~NewPacket(rh.n)
          /\ rh' = [rh EXCEPT !.at = "packed"]
          /\ rpc' = ReaderSignalled
          /\ UNCHANGED bufVars
       \/ /\ NewPacket(rh.n) /\ rh.n > rcount + 1
          /\ rh' = Dead
          /\ UNCHANGED <<bufVars, rpc>>
    /\ rrx' = Nothing
    /\ UNCHANGED <<toR, rlock, connected, garbled>>
    /\ HandlerUnchanged

\* Without rlock it looks whether the packet fitted, to answer.
ChooseReply ==
    /\ rh.at = "packed"
    /\ rh' = [rh EXCEPT !.at = "header", !.type = IF tsize > 0 THEN "BUSY" ELSE "PACK_COUNT"]
    /\ UNCHANGED <<toR, rpc, bufVars, rlock, rrx, connected, garbled>>
    /\ HandlerUnchanged

ReaderReplies ==
    /\ \/ /\ rh.at = "header"
          /\ PutW(Hdr(rh.type, 1))
          /\ rh' = [rh EXCEPT !.at = "payload"]
          /\ crossed' = (crossed \/ rpc = "contpayload")
       \/ /\ rh.at = "payload"
          /\ PutW(Count(rh.type, rh.n))
          /\ rh' = Reading
          /\ UNCHANGED crossed
    /\ UNCHANGED <<writerVars, wrx, wh, readerVars, bufVars, rlock, rrx, connected,
                   split, garbled>>

\* UMSG_CLOSE: answered, and the thread ends, unlocking rlock on its way out
\* whoever holds it.
TakeClose ==
    /\ rh.at = "read" /\ rrx = Nothing
    /\ toR # <<>> /\ Head(toR).type = "CLOSE"
    /\ toR' = Tail(toR)
    /\ \/ toW' = Append(toW, Hdr("REPLY_CLOSE", 1)) /\ UNCHANGED losses
       \/ losses < LossBound /\ losses' = losses + 1 /\ UNCHANGED toW
    /\ connected' = FALSE
    /\ rlock' = "free"
    /\ rh' = Dead
    /\ rpc' = ReaderSignalled
    /\ crossed' = (crossed \/ rpc = "contpayload")
    /\ UNCHANGED <<writerVars, wrx, wh, rtries, mcount, delivered, bufVars, rrx, split, garbled>>

\* UMSG_REPLY_CLOSE: the usock_close that waits for it goes on to hang.
TakeReplyClose ==
    /\ rh.at = "read" /\ rrx = Nothing
    /\ toR # <<>> /\ Head(toR).type = "REPLY_CLOSE"
    /\ toR' = Tail(toR)
    /\ rpc' = IF rpc = "closing" THEN "hung" ELSE rpc
    /\ rlock' = "free"
    /\ rh' = Dead
    /\ UNCHANGED <<bufVars, rrx, connected, garbled>>
    /\ HandlerUnchanged

-----------------------------------------------------------------------------

Writer == WriteHeader \/ WritePayload \/ WriteWoken \/ WriteClosed \/ Close
WriterTimers == WriteTimeout \/ CloseTimeout
WriterHandler == WriterReads \/ WriterTakesClose \/ WriterReplies
Reader == \/ ReadEnter \/ ReadClosed \/ ContHeader \/ ContPayload \/ ContAgain
          \/ Woken \/ Take \/ ReaderClose
ReaderTimers == ContTimeout \/ ReaderCloseTimeout
ReaderHandler == \/ ReaderReads \/ TakePacket \/ ChooseReply \/ ReaderReplies
                 \/ TakeClose \/ TakeReplyClose

\* Once a datagram was taken for another nothing more is said of the stream.
Run(A) == ~garbled /\ A /\ UNCHANGED setting

Next ==
    \/ Run(Writer) \/ Run(WriterTimers) \/ Run(WriterHandler)
    \/ Run(Reader) \/ Run(ReaderTimers) \/ Run(ReaderHandler)

\* The four threads run, and timeouts come.
Fairness ==
    /\ WF_vars(Run(Writer)) /\ WF_vars(Run(WriterTimers)) /\ WF_vars(Run(WriterHandler))
    /\ SF_vars(Run(Reader)) /\ WF_vars(Run(ReaderTimers)) /\ SF_vars(Run(ReaderHandler))

Spec == Init /\ [][Next]_vars /\ Fairness

-----------------------------------------------------------------------------
(* Properties                                                               *)

\* What usock_read returns is what usock_write was given, in order, without a
\* gap or a repetition, as long as no packet was split on its way into the
\* ring and no datagram was taken for another; and that happens only after a
\* datagram was lost, or two threads had sent on a socket at once.
DeliveredInOrder ==
    /\ TypeOK
    /\ garbled => crossed \/ losses > 0
    /\ IsPrefix(delivered \o rbuf, Sent) \/ split \/ garbled

\* usock_write does not move on to the next packet before the reader has the one
\* it wrote, however often it was sent.
AcknowledgedArrived == wcount <= rcount + 1 \/ garbled

\* The writer comes to an end, or into the usock_close that hangs, unless an
\* answer that it is busy was overtaken by the news that it may go on, it was
\* busy when the reader gave up and closed, or datagrams were lost.
WriterEnds ==
    <>( \/ wpc \in {"hung", "closed"} \/ (wpc = "busy" /\ ~wconnected)
        \/ crossed \/ losses > 0)

\* usock_recv_file announces "recv file finish" (msg/client.c:282) when usock_read
\* returns 0: then, if nothing was lost and every packet was acknowledged, it has
\* written the whole file. UMSG_CLOSE makes usock_read return 0 with the end of the
\* file still in the ring, so this does not hold.
FinishedWhole ==
    rpc = "eof" /\ losses = 0 /\ wcount = packets + 1 => delivered = Sent
=============================================================================
