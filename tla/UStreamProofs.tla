---------------------------- MODULE UStreamProofs ----------------------------
(***************************************************************************)
(* The stream over UDP of msg/usock.c, for every length of packet, size of *)
(* ring, number of packets, of tries and of datagrams lost: unless a       *)
(* datagram was taken for another, a packet that was acknowledged has      *)
(* arrived; and unless, besides, a packet was split on its way into the    *)
(* ring, what usock_read returns is what was written, in order.            *)
(***************************************************************************)
EXTENDS UStream, TLAPS, SequenceTheorems

\* What may be on its way. PACK_COUNT, BUSY and CONT go to the writer, each with
\* a count, and so does REPLY_CONT to the reader.
Unit == 0..(packets * PacketLen)
ToR == {d \in [k : {"hdr", "data", "count"}, n : 0..(packets + 1),
               type : {"", "PACK", "CLOSE", "REPLY_CONT", "REPLY_CLOSE"}] :
          /\ d.k = "hdr" => d.type # ""
          /\ d.k = "data" \/ d.type = "PACK" => d.n \in 1..packets
          /\ d.k = "data" => d.type = ""
          /\ d.k = "count" => d.type = "REPLY_CONT"}
ToW == {d \in [k : {"hdr", "count"}, n : 0..(packets + 1),
               type : {"PACK_COUNT", "BUSY", "CONT", "CLOSE", "REPLY_CLOSE"}] :
          d.k = "count" => d.n \in 0..packets /\ d.type \in {"PACK_COUNT", "BUSY", "CONT"}}

\* The types of the writer's side, of the reader's and of its buffers. Who still
\* sends has tries left, and a packet left to be sent.
Writing == {"idle", "header", "payload", "wait", "woken", "busy"}
Ended == {"close", "closing", "hung", "closed"}
WriterType ==
    /\ toR \in Seq(ToR)
    /\ wpc \in Writing \cup Ended /\ wcount \in 1..(packets + 1)
    /\ wpc \in Writing => wcount <= packets /\ wtries < WriteTries
    /\ wpc = "close" => wtries < CloseTries
    /\ wtries \in 0..Max({WriteTries, CloseTries})
    /\ wrx \in Umsgs /\ wrx.type \in {"none", "PACK_COUNT", "BUSY", "CONT"} /\ (wrx.type = "none" => wrx = Nothing)
    /\ wh \in [at : {"read", "header", "payload", "dead"}, type : {"none", "REPLY_CONT"}, n : 0..(packets + 1)]
    /\ wh.at \in {"header", "payload"} => wh.type = "REPLY_CONT"
    /\ busy \in BOOLEAN /\ wconnected \in BOOLEAN
Conts == {"contheader", "contpayload", "contwait", "contlate"}
ReaderType ==
    /\ toW \in Seq(ToW)
    /\ rpc \in Conts \cup {"idle", "contwoken", "take", "takewait", "takewoken", "eof", "close", "closing", "hung", "closed"}
    /\ rtries \in 0..Max({ReadTries, CloseTries}) /\ mcount \in 0..packets
    /\ rpc \in Conts \cup {"idle", "take", "takewait"} => rtries < ReadTries
    /\ rpc = "close" => rtries < CloseTries
    /\ rrx \in Umsgs /\ rrx.type \in {"none", "PACK", "REPLY_CONT"}
    /\ rrx.type = "PACK" \/ rh.at = "pack" => rrx.n \in 1..packets
    /\ rh \in [at : {"read", "pack", "packed", "header", "payload", "dead"}, type : {"none", "PACK", "BUSY", "PACK_COUNT"}, n : 0..packets]
    /\ rh.at # "read" => rrx.type = "none"
    /\ rh.at # "pack" /\ rrx.type = "none" => rrx = Nothing
    /\ rh.at \in {"pack", "packed"} => rh.type = "PACK"
    /\ rh.at \in {"header", "payload"} => rh.type \in {"BUSY", "PACK_COUNT"}
    /\ rlock \in {"free", "reader", "handler"} /\ connected \in BOOLEAN
BufferType ==
    /\ rbuf \in Seq(Unit) /\ tbuf \in Seq(Unit) /\ delivered \in Seq(Unit)
    /\ Len(rbuf) <= RingSize /\ tsize \in 0..PacketLen /\ Len(tbuf) \in {0, PacketLen}
    /\ tsize > 0 => Len(tbuf) = PacketLen
    /\ rcount \in 0..packets
StreamType ==
    /\ setting \in Settings
    /\ losses \in 0..LossBound
    /\ {split, crossed, garbled} \subseteq BOOLEAN
    /\ WriterType /\ ReaderType /\ BufferType

\* usock_close's message and its answer are on their way only after the last packet.
Closes ==
    wpc \notin Ended =>
        /\ \A i \in 1..Len(toR) : toR[i].type # "CLOSE"
        /\ \A i \in 1..Len(toW) : toW[i].type # "REPLY_CLOSE"

\* A datagram is expected where it is on its way: behind a header of Opens its
\* payload, behind all else a header, at the receiver (e) as at the sender (last).
Opens == {"PACK", "REPLY_CONT", "PACK_COUNT", "BUSY", "CONT"}
Expects(d) == IF d.k = "hdr" /\ d.type \in Opens THEN d.type ELSE "none"
Fits(e, d) ==
    IF e = "none" THEN d.k = "hdr"
    ELSE IF e = "PACK" THEN d.k = "data" ELSE d.k = "count" /\ d.type = e
ExpectedAt(s, e, i) == IF i = 1 THEN e ELSE Expects(s[i - 1])
Framed(s, e, last) ==
    /\ \A i \in 1..Len(s) : Fits(ExpectedAt(s, e, i), s[i])
    /\ ExpectedAt(s, e, Len(s) + 1) = last

\* As long as nothing is lost and the two threads of an end do not cross, every
\* datagram is where it is expected.
WriterSends == IF wpc = "payload" THEN "PACK" ELSE IF wh.at = "payload" THEN "REPLY_CONT" ELSE "none"
ReaderSends == IF rpc = "contpayload" THEN "CONT" ELSE IF rh.at = "payload" THEN rh.type ELSE "none"
Frames ==
    losses = 0 /\ ~crossed =>
        /\ ~garbled
        /\ Framed(toR, rrx.type, WriterSends) /\ ~(wpc = "payload" /\ wh.at = "payload")
        /\ Framed(toW, wrx.type, ReaderSends) /\ ~(rpc = "contpayload" /\ rh.at = "payload")

\* What the reader acknowledges it has, and has moved to its ring; it says busy
\* of what it has yet to move.
Settled(n) == n <= rcount /\ (n = rcount => tsize = 0)
Says(d) == d.n <= rcount /\ (d.type # "BUSY" => Settled(d.n))
Said == \A i \in 1..Len(toW) : toW[i].k = "count" => Says(toW[i])
Answered == {"packed", "header", "payload"}
Acks ==
    /\ rcount <= wcount /\ Settled(wcount - 1)
    /\ wpc = "woken" => wcount <= rcount /\ (busy \/ Settled(wcount))
    /\ Said
    /\ rh.at \in Answered => rh.n <= rcount /\ (rh.type = "PACK_COUNT" => Settled(rh.n))
    /\ rpc \in Conts => Settled(mcount)
    /\ wh.at \in {"header", "payload"} => Settled(wh.n)

\* The packets are on their way in order, none ahead of the writer's count.
Numbered(d) == d.k = "data" \/ (d.k = "hdr" /\ d.type = "PACK")
InOrder(s, lo, hi) ==
    /\ \A i \in 1..Len(s) : Numbered(s[i]) => lo <= s[i].n /\ s[i].n <= hi
    /\ \A i, j \in 1..Len(s) : i < j /\ Numbered(s[i]) /\ Numbered(s[j]) => s[i].n <= s[j].n
ReadNow == IF rrx.type = "PACK" THEN rrx.n ELSE 0
Numbers ==
    /\ InOrder(toR, ReadNow, wcount)
    /\ ReadNow <= wcount
    /\ rh.at = "pack" => rh.n <= wcount /\ (rh.n <= rcount \/ rh.n = rrx.n)

\* The packets received are what is delivered, what is in the ring and, if it has
\* not been moved yet, the last of them in tbuf.
First(k) == [i \in 1..k |-> i]
Content ==
    \/ tsize = 0 /\ delivered \o rbuf = First(rcount * PacketLen)
    \/ /\ tsize = PacketLen /\ rcount > 0 /\ tbuf = Units(rcount)
       /\ delivered \o rbuf = First((rcount - 1) * PacketLen)

StreamInv == StreamType /\ Closes /\ Frames /\ (garbled \/ (Acks /\ Numbers /\ (Content \/ split)))

-----------------------------------------------------------------------------
(* Numbers, sequences and channels                                          *)

\* The numbers of a setting.
LEMMA Params ==
    ASSUME UStreamAssumption, setting \in Settings
    PROVE  /\ packets \in Nat \ {0} /\ RingSize \in Nat /\ CloseTries \in Nat \ {0} /\ LossBound \in Nat
           /\ PacketLen \in Nat \ {0} /\ ReadMax \in Nat \ {0} /\ WriteTries \in Nat \ {0} /\ ReadTries \in Nat \ {0}
           /\ PacketLen <= RingSize
           /\ \A n \in 0..CloseTries : n \in 0..Max({WriteTries, CloseTries}) /\ n \in 0..Max({ReadTries, CloseTries})
           /\ \A n \in 0..WriteTries : n \in 0..Max({WriteTries, CloseTries})
           /\ \A n \in 0..ReadTries : n \in 0..Max({ReadTries, CloseTries})
  <1>1. /\ packets \in Nat \ {0} /\ RingSize \in Nat /\ CloseTries \in Nat \ {0} /\ LossBound \in Nat
        /\ PacketLen \in Nat \ {0} /\ ReadMax \in Nat \ {0} /\ WriteTries \in Nat \ {0} /\ ReadTries \in Nat \ {0}
        /\ PacketLen <= RingSize
    BY DEF UStreamAssumption, packets, RingSize, CloseTries, LossBound
  <1>2. ASSUME NEW a \in Nat, NEW b \in Nat
        PROVE  Max({a, b}) \in Nat /\ a <= Max({a, b}) /\ b <= Max({a, b})
    <2>1. \E x \in {a, b} : \A y \in {a, b} : x >= y
      OBVIOUS
    <2>2. Max({a, b}) \in {a, b} /\ \A y \in {a, b} : Max({a, b}) >= y
      BY <2>1 DEF Max
    <2> QED
      BY <2>2
  <1>3. /\ Max({WriteTries, CloseTries}) \in Nat /\ WriteTries <= Max({WriteTries, CloseTries}) /\ CloseTries <= Max({WriteTries, CloseTries})
        /\ Max({ReadTries, CloseTries}) \in Nat /\ ReadTries <= Max({ReadTries, CloseTries}) /\ CloseTries <= Max({ReadTries, CloseTries})
    BY <1>1, <1>2
  <1> QED
    BY <1>1, <1>3

\* A setting stays, and with it what follows from it.
LEMMA Same ==
    ASSUME setting' = setting
    PROVE  /\ packets' = packets /\ RingSize' = RingSize /\ CloseTries' = CloseTries /\ LossBound' = LossBound
           /\ Unit' = Unit /\ ToR' = ToR /\ ToW' = ToW /\ Umsgs' = Umsgs
  BY DEF packets, RingSize, CloseTries, LossBound, Unit, ToR, ToW, Umsgs

\* A datagram is sent behind the others.
LEMMA SentBehind ==
    ASSUME NEW S, NEW s \in Seq(S), NEW d \in S
    PROVE  /\ Append(s, d) \in Seq(S)
           /\ \A i \in 1..Len(Append(s, d)) : \/ i \in 1..Len(s) /\ Append(s, d)[i] = s[i]
                                              \/ Append(s, d)[i] = d
           /\ \A e, f : Framed(s, e, f) /\ Fits(f, d) => Framed(Append(s, d), e, Expects(d))
           /\ \A lo, hi \in Nat : InOrder(s, lo, hi) /\ lo <= hi /\ (Numbered(d) => d.n = hi) => InOrder(Append(s, d), lo, hi)
  <1> DEFINE a == Append(s, d)
  <1>1. /\ a \in Seq(S) /\ Len(s) \in Nat /\ Len(a) = Len(s) + 1 /\ a[Len(s) + 1] = d
        /\ \A i \in 1..Len(s) : a[i] = s[i]
    OBVIOUS
  <1> HIDE DEF a
  <1>2. \A i \in 1..Len(a) : i \in 1..Len(s) \/ i = Len(s) + 1
    BY <1>1
  <1>3. ASSUME NEW e, NEW f, Framed(s, e, f), Fits(f, d) PROVE Framed(a, e, Expects(d))
    <2>1. \A i \in 1..Len(a) : ExpectedAt(a, e, i) = ExpectedAt(s, e, i)
      BY <1>1, <1>2 DEF ExpectedAt
    <2>2. ExpectedAt(a, e, Len(a) + 1) = Expects(d)
      BY <1>1 DEF ExpectedAt
    <2>3. \A i \in 1..Len(a) : Fits(ExpectedAt(a, e, i), a[i])
      BY <1>1, <1>2, <1>3, <2>1 DEF Framed
    <2> QED
      BY <2>2, <2>3 DEF Framed
  <1>4. ASSUME NEW lo \in Nat, NEW hi \in Nat, InOrder(s, lo, hi), lo <= hi, Numbered(d) => d.n = hi
        PROVE  InOrder(a, lo, hi)
    BY <1>1, <1>2, <1>4 DEF InOrder
  <1> QED
    BY <1>1, <1>2, <1>3, <1>4 DEF a

\* A datagram is read from the front.
LEMMA ReadFirst ==
    ASSUME NEW S, NEW s \in Seq(S), s # <<>>
    PROVE  /\ Head(s) \in S /\ Tail(s) \in Seq(S)
           /\ 1 \in 1..Len(s) /\ Head(s) = s[1]
           /\ \A i \in 1..Len(Tail(s)) : i + 1 \in 1..Len(s) /\ Tail(s)[i] = s[i + 1]
           /\ \A e, f : Framed(s, e, f) => Fits(e, Head(s)) /\ Framed(Tail(s), Expects(Head(s)), f)
           /\ \A lo, hi : InOrder(s, lo, hi) =>
                /\ InOrder(Tail(s), lo, hi)
                /\ Numbered(Head(s)) => lo <= Head(s).n /\ Head(s).n <= hi /\ InOrder(Tail(s), Head(s).n, hi)
  <1> DEFINE h == Tail(s)
  <1>1. /\ Len(s) \in Nat \ {0} /\ Head(s) = s[1] /\ Head(s) \in S
        /\ h \in Seq(S) /\ Len(h) = Len(s) - 1 /\ Len(h) \in Nat
        /\ \A i \in 1..Len(h) : h[i] = s[i + 1]
    OBVIOUS
  <1> HIDE DEF h
  <1>2. 1 \in 1..Len(s) /\ \A i \in 1..Len(h) : i + 1 \in 1..Len(s) /\ h[i] = s[i + 1] /\ i < i + 1 /\ 1 < i + 1
    BY <1>1
  <1>3. ASSUME NEW e, NEW f, Framed(s, e, f) PROVE Fits(e, s[1]) /\ Framed(h, Expects(s[1]), f)
    <2>1. \A i \in 1..Len(h) + 1 : ExpectedAt(h, Expects(s[1]), i) = ExpectedAt(s, e, i + 1)
      BY <1>1, <1>2 DEF ExpectedAt
    <2>2. Len(h) + 1 \in 1..Len(h) + 1 /\ Len(h) + 1 + 1 = Len(s) + 1
      BY <1>1
    <2>3. ExpectedAt(h, Expects(s[1]), Len(h) + 1) = f
      BY <1>3, <2>1, <2>2 DEF Framed
    <2>4. \A i \in 1..Len(h) : Fits(ExpectedAt(h, Expects(s[1]), i), h[i])
      BY <1>1, <1>2, <1>3, <2>1 DEF Framed
    <2>5. Fits(e, s[1])
      BY <1>2, <1>3 DEF Framed, ExpectedAt
    <2> QED
      BY <2>3, <2>4, <2>5 DEF Framed
  <1>4. ASSUME NEW lo, NEW hi, InOrder(s, lo, hi)
        PROVE  /\ InOrder(h, lo, hi)
               /\ Numbered(s[1]) => lo <= s[1].n /\ s[1].n <= hi /\ InOrder(h, s[1].n, hi)
    <2>1. \A i, j \in 1..Len(h) : i < j => i + 1 < j + 1
      BY <1>1
    <2>2. InOrder(h, lo, hi)
      BY <1>2, <1>4, <2>1 DEF InOrder
    <2>3. Numbered(s[1]) => InOrder(h, s[1].n, hi)
      BY <1>2, <1>4, <2>1 DEF InOrder
    <2>4. Numbered(s[1]) => lo <= s[1].n /\ s[1].n <= hi
      BY <1>2, <1>4 DEF InOrder
    <2> QED
      BY <2>2, <2>3, <2>4
  <1> QED
    BY <1>1, <1>2, <1>3, <1>4 DEF h

\* A datagram goes on its way, or is lost.
SentR(d) == \/ toR' = Append(toR, d) /\ UNCHANGED losses
            \/ losses < LossBound /\ losses' = losses + 1 /\ UNCHANGED toR
SentW(d) == \/ toW' = Append(toW, d) /\ UNCHANGED losses
            \/ losses < LossBound /\ losses' = losses + 1 /\ UNCHANGED toW

\* What is sent to the reader joins the channel or is lost.
LEMMA SentRFacts ==
    ASSUME StreamType, setting' = setting, NEW d \in ToR, SentR(d), UStreamAssumption
    PROVE  /\ toR' \in Seq(ToR) /\ losses' \in 0..LossBound
           /\ losses' = 0 => losses = 0
           /\ \A i \in 1..Len(toR') : (\E j \in 1..Len(toR) : toR'[i] = toR[j]) \/ toR'[i] = d
           /\ losses' = 0 => \A e, f : Framed(toR, e, f) /\ Fits(f, d) => Framed(toR', e, Expects(d))
           /\ \A lo, hi \in Nat : InOrder(toR, lo, hi) /\ lo <= hi /\ (Numbered(d) => d.n = hi) => InOrder(toR', lo, hi)
  <1>1. toR \in Seq(ToR) /\ losses \in 0..LossBound /\ LossBound \in Nat
    BY Params DEF StreamType, WriterType
  <1>2. CASE losses < LossBound /\ losses' = losses + 1 /\ UNCHANGED toR
    BY <1>1, <1>2
  <1>3. CASE toR' = Append(toR, d) /\ UNCHANGED losses
    <2>1. \A i \in 1..Len(toR') : (\E j \in 1..Len(toR) : toR'[i] = toR[j]) \/ toR'[i] = d
      BY <1>1, <1>3, SentBehind
    <2>2. \A e, f : Framed(toR, e, f) /\ Fits(f, d) => Framed(toR', e, Expects(d))
      BY <1>1, <1>3, SentBehind
    <2>3. \A lo, hi \in Nat : InOrder(toR, lo, hi) /\ lo <= hi /\ (Numbered(d) => d.n = hi) => InOrder(toR', lo, hi)
      BY <1>1, <1>3, SentBehind
    <2>4. toR' \in Seq(ToR)
      BY <1>1, <1>3
    <2> QED
      BY <1>1, <1>3, <2>1, <2>2, <2>3, <2>4
  <1> QED
    BY <1>2, <1>3 DEF SentR

\* The same of the other direction.
LEMMA SentWFacts ==
    ASSUME StreamType, setting' = setting, NEW d \in ToW, SentW(d), UStreamAssumption
    PROVE  /\ toW' \in Seq(ToW) /\ losses' \in 0..LossBound
           /\ losses' = 0 => losses = 0
           /\ \A i \in 1..Len(toW') : (\E j \in 1..Len(toW) : toW'[i] = toW[j]) \/ toW'[i] = d
           /\ losses' = 0 => \A e, f : Framed(toW, e, f) /\ Fits(f, d) => Framed(toW', e, Expects(d))
  <1>1. toW \in Seq(ToW) /\ losses \in 0..LossBound /\ LossBound \in Nat
    BY Params DEF StreamType, ReaderType
  <1>2. CASE losses < LossBound /\ losses' = losses + 1 /\ UNCHANGED toW
    BY <1>1, <1>2
  <1>3. CASE toW' = Append(toW, d) /\ UNCHANGED losses
    <2>1. \A i \in 1..Len(toW') : (\E j \in 1..Len(toW) : toW'[i] = toW[j]) \/ toW'[i] = d
      BY <1>1, <1>3, SentBehind
    <2>2. \A e, f : Framed(toW, e, f) /\ Fits(f, d) => Framed(toW', e, Expects(d))
      BY <1>1, <1>3, SentBehind
    <2>4. toW' \in Seq(ToW)
      BY <1>1, <1>3
    <2> QED
      BY <1>1, <1>3, <2>1, <2>2, <2>4
  <1> QED
    BY <1>2, <1>3 DEF SentW

-----------------------------------------------------------------------------
(* What a step leaves alone                                                 *)

\* A step that sends nothing of the end leaves the end as it was.
EndStill ==
    /\ wpc \in Ended => wpc' \in Ended
    /\ wpc' \notin Ended => \A i \in 1..Len(toR') : toR'[i].type = "CLOSE" => \E j \in 1..Len(toR) : toR'[i] = toR[j]
    /\ wpc' \notin Ended => \A i \in 1..Len(toW') : toW'[i].type = "REPLY_CLOSE" => \E j \in 1..Len(toW) : toW'[i] = toW[j]

\* Such a step keeps Closes.
LEMMA ClosesStay ==
    ASSUME Closes, EndStill
    PROVE  Closes'
  BY DEF Closes, EndStill, Ended

\* A step that neither sends nor receives leaves the frames as they were.
FramesStill ==
    /\ toR' = toR /\ toW' = toW /\ losses' = losses /\ garbled' = garbled
    /\ rrx'.type = rrx.type /\ wrx'.type = wrx.type
    /\ crossed' = crossed
    /\ wpc' = "payload" <=> wpc = "payload"
    /\ wh'.at = "payload" <=> wh.at = "payload"
    /\ rpc' = "contpayload" <=> rpc = "contpayload"
    /\ (rh'.at = "payload" <=> rh.at = "payload") /\ (rh.at = "payload" => rh'.type = rh.type)

\* Such a step keeps Frames.
LEMMA FramesStay ==
    ASSUME Frames, FramesStill
    PROVE  Frames'
  <1>1. WriterSends' = WriterSends
    BY DEF WriterSends, FramesStill
  <1>2. ReaderSends' = ReaderSends
    BY DEF ReaderSends, FramesStill
  <1>3. \A e, f : (Framed(toR, e, f) <=> Framed(toR', e, f)) /\ (Framed(toW, e, f) <=> Framed(toW', e, f))
    BY DEF FramesStill
  <1> QED
    BY <1>1, <1>2, <1>3 DEF Frames, FramesStill

\* A step that answers nothing leaves the acknowledgements as they were.
AcksStill ==
    /\ toW' = toW /\ rcount' = rcount /\ tsize' = tsize /\ wcount' = wcount
    /\ wpc' = "woken" => wpc = "woken" /\ busy' = busy
    /\ rh'.at \in Answered => rh' = rh
    /\ rpc' \in Conts => rpc \in Conts /\ mcount' = mcount
    /\ wh'.at \in {"header", "payload"} => wh.at \in {"header", "payload"} /\ wh'.n = wh.n

\* Such a step keeps Acks.
LEMMA AcksStay ==
    ASSUME Acks, AcksStill
    PROVE  Acks'
  BY DEF Acks, AcksStill, Settled, Said, Says

\* A step that moves no packet leaves their order as it was.
NumbersStill ==
    /\ toR' = toR /\ wcount' = wcount /\ rcount' = rcount
    /\ rrx' = rrx
    /\ rh'.at = "pack" => rh' = rh

\* Such a step keeps Numbers.
LEMMA NumbersStay ==
    ASSUME Numbers, NumbersStill
    PROVE  Numbers'
  <1>1. ReadNow' = ReadNow
    BY DEF ReadNow, NumbersStill
  <1> QED
    BY <1>1 DEF Numbers, NumbersStill, InOrder

\* A step that touches no buffer leaves what is in them.
ContentStill == UNCHANGED <<setting, bufVars, delivered, split>>

\* Such a step keeps Content, unless a packet was split.
LEMMA ContentStay ==
    ASSUME Content \/ split, ContentStill
    PROVE  (Content \/ split)'
  BY DEF Content, ContentStill, bufVars, Units

\* The types of an end that rests.
LEMMA TypesStay ==
    ASSUME setting' = setting
    PROVE  /\ WriterType /\ toR' \in Seq(ToR) /\ UNCHANGED <<writerVars, wrx, wh>> => WriterType'
           /\ ReaderType /\ toW' \in Seq(ToW) /\ UNCHANGED <<rpc, rtries, mcount, rrx, rh, rlock, connected>> => ReaderType'
           /\ BufferType /\ UNCHANGED <<bufVars, delivered>> => BufferType'
  <1>1. WriterType /\ toR' \in Seq(ToR) /\ UNCHANGED <<writerVars, wrx, wh>> => WriterType'
    BY Same DEF WriterType, writerVars
  <1>2. ReaderType /\ toW' \in Seq(ToW) /\ UNCHANGED <<rpc, rtries, mcount, rrx, rh, rlock, connected>> => ReaderType'
    BY Same DEF ReaderType
  <1>3. BufferType /\ UNCHANGED <<bufVars, delivered>> => BufferType'
    BY Same DEF BufferType, bufVars
  <1> QED
    BY <1>1, <1>2, <1>3

\* The datagrams of the stream, and what they leave to be expected.
LEMMA HeaderFacts ==
    ASSUME NEW type, NEW n
    PROVE  /\ Hdr(type, n).k = "hdr" /\ Hdr(type, n).type = type /\ Hdr(type, n).n = n
           /\ Fits("none", Hdr(type, n))
           /\ type \in Opens => Expects(Hdr(type, n)) = type
           /\ type \notin Opens => Expects(Hdr(type, n)) = "none"
           /\ packets \in Nat /\ n \in 1..packets => Hdr("PACK", n) \in ToR
           /\ packets \in Nat /\ type \in {"CLOSE", "REPLY_CONT", "REPLY_CLOSE"} /\ n \in 0..(packets + 1) => Hdr(type, n) \in ToR
           /\ packets \in Nat /\ type \in {"PACK_COUNT", "BUSY", "CONT", "CLOSE", "REPLY_CLOSE"} /\ n = 1 => Hdr(type, n) \in ToW
  <1>1. Hdr(type, n).k = "hdr" /\ Hdr(type, n).type = type /\ Hdr(type, n).n = n
    BY DEF Hdr
  <1>2. /\ Fits("none", Hdr(type, n))
        /\ type \in Opens => Expects(Hdr(type, n)) = type
        /\ type \notin Opens => Expects(Hdr(type, n)) = "none"
    BY <1>1 DEF Fits, Expects
  <1>3. packets \in Nat /\ n \in 1..packets => Hdr("PACK", n) \in ToR
    <2> SUFFICES ASSUME packets \in Nat, n \in 1..packets PROVE Hdr("PACK", n) \in ToR
      OBVIOUS
    <2>1. n \in 0..(packets + 1)
      OBVIOUS
    <2> QED
      BY <2>1 DEF ToR, Hdr
  <1>4. packets \in Nat /\ type \in {"CLOSE", "REPLY_CONT", "REPLY_CLOSE"} /\ n \in 0..(packets + 1) => Hdr(type, n) \in ToR
    BY DEF ToR, Hdr
  <1>5. packets \in Nat /\ type \in {"PACK_COUNT", "BUSY", "CONT", "CLOSE", "REPLY_CLOSE"} /\ n = 1 => Hdr(type, n) \in ToW
    BY DEF ToW, Hdr
  <1> QED
    BY <1>1, <1>2, <1>3, <1>4, <1>5

\* What follows a header.
LEMMA PayloadFacts ==
    ASSUME NEW type, NEW n
    PROVE  /\ Count(type, n).k = "count" /\ Count(type, n).type = type /\ Count(type, n).n = n
           /\ Data(n).k = "data" /\ Data(n).type = "" /\ Data(n).n = n
           /\ Fits("PACK", Data(n)) /\ Expects(Data(n)) = "none" /\ Expects(Count(type, n)) = "none"
           /\ type \in {"REPLY_CONT", "PACK_COUNT", "BUSY", "CONT"} => Fits(type, Count(type, n))
           /\ packets \in Nat /\ n \in 1..packets => Data(n) \in ToR
           /\ packets \in Nat /\ n \in 0..(packets + 1) => Count("REPLY_CONT", n) \in ToR
           /\ packets \in Nat /\ type \in {"PACK_COUNT", "BUSY", "CONT"} /\ n \in 0..packets => Count(type, n) \in ToW
  <1>1. /\ Count(type, n).k = "count" /\ Count(type, n).type = type /\ Count(type, n).n = n
        /\ Data(n).k = "data" /\ Data(n).type = "" /\ Data(n).n = n
    BY DEF Count, Data
  <1>2. /\ Fits("PACK", Data(n)) /\ Expects(Data(n)) = "none" /\ Expects(Count(type, n)) = "none"
        /\ type \in {"REPLY_CONT", "PACK_COUNT", "BUSY", "CONT"} => Fits(type, Count(type, n))
    BY <1>1 DEF Fits, Expects
  <1>3. packets \in Nat /\ n \in 1..packets => Data(n) \in ToR
    <2> SUFFICES ASSUME packets \in Nat, n \in 1..packets PROVE Data(n) \in ToR
      OBVIOUS
    <2>1. n \in 0..(packets + 1)
      OBVIOUS
    <2> QED
      BY <2>1 DEF ToR, Data
  <1>4. packets \in Nat /\ n \in 0..(packets + 1) => Count("REPLY_CONT", n) \in ToR
    BY DEF ToR, Count
  <1>5. packets \in Nat /\ type \in {"PACK_COUNT", "BUSY", "CONT"} /\ n \in 0..packets => Count(type, n) \in ToW
    BY DEF ToW, Count
  <1> QED
    BY <1>1, <1>2, <1>3, <1>4, <1>5

-----------------------------------------------------------------------------
(* What sending does                                                        *)

\* What the writer's threads send, each umsg whole, leaves the stream framed and its packets in order.
LEMMA ToReader ==
    ASSUME UStreamAssumption, StreamInv, ~garbled, setting' = setting, NEW d \in ToR, SentR(d), toW' = toW,
           Numbered(d) => d.n = wcount,
           UNCHANGED <<wcount, wrx, rpc, rrx, rh, rcount, garbled>>, crossed => crossed',
           losses' = 0 /\ ~crossed' =>
               Fits(WriterSends, d) /\ WriterSends' = Expects(d) /\ ~(wpc' = "payload" /\ wh'.at = "payload"),
           wpc \in Ended \/ d.type = "CLOSE" => wpc' \in Ended
    PROVE  toR' \in Seq(ToR) /\ losses' \in 0..LossBound' /\ Closes' /\ Frames' /\ Numbers'
  <1>1. StreamType /\ Closes /\ Frames /\ Numbers /\ wcount \in Nat
    BY DEF StreamInv, StreamType, WriterType
  <1>2. /\ toR' \in Seq(ToR) /\ losses' \in 0..LossBound
        /\ losses' = 0 => losses = 0
        /\ \A i \in 1..Len(toR') : (\E j \in 1..Len(toR) : toR'[i] = toR[j]) \/ toR'[i] = d
        /\ losses' = 0 => \A e, f : Framed(toR, e, f) /\ Fits(f, d) => Framed(toR', e, Expects(d))
        /\ \A lo, hi \in Nat : InOrder(toR, lo, hi) /\ lo <= hi /\ (Numbered(d) => d.n = hi) => InOrder(toR', lo, hi)
    BY <1>1, SentRFacts
  <1>3. Closes'
    BY <1>1, <1>2 DEF Closes
  <1>4. Frames'
    <2> SUFFICES ASSUME losses' = 0, ~crossed' PROVE Frames'
      BY DEF Frames
    <2>1. losses = 0 /\ ~crossed /\ ReaderSends' = ReaderSends
      BY <1>2 DEF ReaderSends
    <2>2. Framed(toR', rrx.type, WriterSends')
      BY <1>1, <1>2, <2>1 DEF Frames
    <2>3. Framed(toW', wrx'.type, ReaderSends')
      BY <1>1, <2>1 DEF Frames
    <2> QED
      BY <1>1, <2>1, <2>2, <2>3 DEF Frames
  <1>5. Numbers'
    <2>1. ReadNow' = ReadNow /\ ReadNow \in Nat
      BY <1>1 DEF ReadNow, StreamType, ReaderType, Umsgs
    <2>2. InOrder(toR', ReadNow, wcount)
      BY <1>1, <1>2, <2>1 DEF Numbers
    <2> QED
      BY <1>1, <2>1, <2>2 DEF Numbers, InOrder
  <1> QED
    BY <1>2, <1>3, <1>4, <1>5, Same

\* What the reader's threads send, each umsg whole, leaves the stream framed.
LEMMA ToWriter ==
    ASSUME UStreamAssumption, StreamInv, ~garbled, setting' = setting, NEW d \in ToW, SentW(d), toR' = toR,
           UNCHANGED <<wpc, wrx, wh, rrx, rcount, tsize, garbled>>, crossed => crossed',
           losses' = 0 /\ ~crossed' =>
               Fits(ReaderSends, d) /\ ReaderSends' = Expects(d) /\ ~(rpc' = "contpayload" /\ rh'.at = "payload"),
           d.type # "REPLY_CLOSE",
           d.k = "count" => Says(d)
    PROVE  toW' \in Seq(ToW) /\ losses' \in 0..LossBound' /\ Closes' /\ Frames' /\ Said'
  <1>1. StreamType /\ Closes /\ Frames /\ Acks
    BY DEF StreamInv
  <1>2. /\ toW' \in Seq(ToW) /\ losses' \in 0..LossBound
        /\ losses' = 0 => losses = 0
        /\ \A i \in 1..Len(toW') : (\E j \in 1..Len(toW) : toW'[i] = toW[j]) \/ toW'[i] = d
        /\ losses' = 0 => \A e, f : Framed(toW, e, f) /\ Fits(f, d) => Framed(toW', e, Expects(d))
    BY <1>1, SentWFacts
  <1>3. Closes'
    BY <1>1, <1>2 DEF Closes
  <1>4. Frames'
    <2> SUFFICES ASSUME losses' = 0, ~crossed' PROVE Frames'
      BY DEF Frames
    <2>1. losses = 0 /\ ~crossed /\ WriterSends' = WriterSends
      BY <1>2 DEF WriterSends
    <2>2. Framed(toW', wrx.type, ReaderSends')
      BY <1>1, <1>2, <2>1 DEF Frames
    <2>3. Framed(toR', rrx'.type, WriterSends')
      BY <1>1, <2>1 DEF Frames
    <2> QED
      BY <1>1, <2>1, <2>2, <2>3 DEF Frames
  <1>5. Said'
    BY <1>1, <1>2 DEF Acks, Said, Says, Settled
  <1> QED
    BY <1>2, <1>3, <1>4, <1>5, Same

-----------------------------------------------------------------------------
(* usock_write and usock_close                                              *)

\* usock_write sends the header of its packet.
LEMMA WriteHeaderKeeps ==
    ASSUME UStreamAssumption, StreamInv, ~garbled, setting' = setting, WriteHeader
    PROVE  StreamInv'
  <1> DEFINE d == Hdr("PACK", wcount)
  <1>1. StreamType /\ WriterType /\ ReaderType /\ BufferType /\ wcount \in 1..packets /\ packets \in Nat
        /\ wpc \in {"idle", "header"}
    BY Params DEF StreamInv, StreamType, WriterType, WriteHeader, Writing
  <1>2. d \in ToR /\ d.type = "PACK" /\ d.n = wcount /\ Expects(d) = "PACK" /\ Fits("none", d)
    BY <1>1, HeaderFacts DEF Opens
  <1>3. SentR(d) /\ toW' = toW /\ wpc' = "payload" /\ crossed' = (crossed \/ Sending(wh))
        /\ UNCHANGED <<wcount, wtries, busy, wconnected, wrx, wh, readerVars, bufVars, rlock, rrx, rh,
                       connected, split, garbled>>
    BY DEF WriteHeader, WriterUnchanged, PutR, SentR
  <1> HIDE DEF d
  <1> USE DEF readerVars, bufVars
  <1>4. ~crossed' => WriterSends = "none" /\ WriterSends' = "PACK" /\ wh'.at # "payload"
    BY <1>1, <1>3 DEF WriterSends, Sending
  <1>5. toR' \in Seq(ToR) /\ losses' \in 0..LossBound' /\ Closes' /\ Frames' /\ Numbers'
    BY <1>1, <1>2, <1>3, <1>4, ToReader DEF Ended
  <1>6. StreamType'
    <2>1. WriterType'
      BY <1>1, <1>3, <1>5, Same DEF WriterType, Writing, Ended
    <2> QED
      BY <1>1, <1>3, <1>5, <2>1, TypesStay DEF StreamType, ReaderType
  <1>7. Acks'
    BY <1>3, AcksStay DEF AcksStill, StreamInv
  <1>8. (Content \/ split)'
    BY <1>3, ContentStay DEF ContentStill, StreamInv
  <1> QED
    BY <1>5, <1>6, <1>7, <1>8 DEF StreamInv

\* And its data.
LEMMA WritePayloadKeeps ==
    ASSUME UStreamAssumption, StreamInv, ~garbled, setting' = setting, WritePayload
    PROVE  StreamInv'
  <1> DEFINE d == Data(wcount)
  <1>1. StreamType /\ WriterType /\ ReaderType /\ BufferType /\ wcount \in 1..packets /\ packets \in Nat
        /\ wpc = "payload" /\ Frames
    BY Params DEF StreamInv, StreamType, WriterType, WritePayload, Writing
  <1>2. d \in ToR /\ d.type = "" /\ d.n = wcount /\ Expects(d) = "none" /\ Fits("PACK", d)
    BY <1>1, PayloadFacts
  <1>3. SentR(d) /\ toW' = toW /\ wpc' = "wait"
        /\ UNCHANGED <<wcount, wtries, busy, wconnected, wrx, wh, readerVars, bufVars, rlock, rrx, rh,
                       connected, split, garbled, crossed>>
    BY DEF WritePayload, WriterUnchanged, PutR, SentR
  <1> HIDE DEF d
  <1> USE DEF readerVars, bufVars
  <1>4. losses' = 0 /\ ~crossed' => WriterSends = "PACK" /\ WriterSends' = "none"
    <2>1. losses' = 0 => losses = 0
      BY <1>1, <1>2, <1>3, SentRFacts
    <2> QED
      BY <1>1, <1>3, <2>1 DEF WriterSends, Frames
  <1>5. toR' \in Seq(ToR) /\ losses' \in 0..LossBound' /\ Closes' /\ Frames' /\ Numbers'
    BY <1>1, <1>2, <1>3, <1>4, ToReader DEF Ended
  <1>6. StreamType'
    <2>1. WriterType'
      BY <1>1, <1>3, <1>5, Same DEF WriterType, Writing, Ended
    <2> QED
      BY <1>1, <1>3, <1>5, <2>1, TypesStay DEF StreamType, ReaderType
  <1>7. Acks'
    BY <1>3, AcksStay DEF AcksStill, StreamInv
  <1>8. (Content \/ split)'
    BY <1>3, ContentStay DEF ContentStill, StreamInv
  <1> QED
    BY <1>5, <1>6, <1>7, <1>8 DEF StreamInv

\* A timeout, and the discovery that the connection is closed, move usock_write only.
LEMMA WriterTurns ==
    ASSUME UStreamAssumption, StreamInv, ~garbled, setting' = setting,
           WriteTimeout \/ WriteClosed \/ CloseTimeout
    PROVE  StreamInv'
  <1> USE DEF readerVars, bufVars, netVars
  <1>1. StreamType /\ WriterType /\ ReaderType /\ BufferType
    BY DEF StreamInv, StreamType
  <1>2. UNCHANGED <<toR, toW, losses, wcount, busy, wconnected, wrx, wh, readerVars, bufVars, rlock, rrx, rh,
                    connected, split, garbled, crossed>>
    BY DEF WriteTimeout, WriteClosed, CloseTimeout, WriterUnchanged
  <1>3. /\ wpc \in {"wait", "idle", "woken", "close", "closing"}
        /\ wpc' \in {"header", "close", "closed", "hung"} /\ (wpc \in {"close", "closing"} => wpc' \in Ended)
    BY DEF WriteTimeout, WriteClosed, CloseTimeout, Retry, Failed, Ended
  <1>4. WriterType'
    <2>1. CASE WriteTimeout
      <3>1. \/ wpc' = "header" /\ wtries' = wtries + 1 /\ wtries + 1 < WriteTries
            \/ wpc' \in {"close", "closed"} /\ wtries' = 0
        BY <2>1 DEF WriteTimeout, Retry, Failed
      <3>2. wtries' \in 0..Max({WriteTries, CloseTries}) /\ (wpc' = "header" => wtries' < WriteTries)
            /\ (wpc' = "close" => wtries' < CloseTries)
        <4>1. wtries \in Nat /\ CloseTries \in Nat \ {0} /\ WriteTries \in Nat \ {0}
          BY <1>1, Params DEF StreamType, WriterType
        <4>2. 0 \in 0..CloseTries /\ (wtries + 1 < WriteTries => wtries + 1 \in 0..WriteTries)
          BY <4>1
        <4>3. 0 \in 0..Max({WriteTries, CloseTries})
              /\ (wtries + 1 < WriteTries => wtries + 1 \in 0..Max({WriteTries, CloseTries}))
          BY <1>1, <4>2, Params DEF StreamType
        <4> QED
          BY <3>1, <4>1, <4>3
      <3> QED
        BY <1>1, <1>2, <1>3, <2>1, <3>2, Same DEF WriterType, Writing, Ended, WriteTimeout
    <2>2. CASE WriteClosed
      BY <1>1, <1>2, <2>2, Same DEF WriterType, WriteClosed, Writing, Ended
    <2>3. CASE CloseTimeout
      BY <1>1, <1>2, <2>3, Same DEF WriterType, CloseTimeout, Writing, Ended
    <2> QED
      BY <2>1, <2>2, <2>3
  <1>5. StreamType'
    BY <1>1, <1>2, <1>4, TypesStay, Same DEF StreamType, ReaderType
  <1>6. Closes'
    BY <1>2, <1>3, ClosesStay DEF EndStill, Ended, StreamInv
  <1>7. Frames'
    BY <1>2, <1>3, FramesStay DEF FramesStill, StreamInv
  <1>8. Acks'
    BY <1>2, <1>3, AcksStay DEF AcksStill, StreamInv
  <1>9. Numbers'
    BY <1>2, NumbersStay DEF NumbersStill, StreamInv
  <1>10. (Content \/ split)'
    BY <1>2, ContentStay DEF ContentStill, StreamInv
  <1> QED
    BY <1>5, <1>6, <1>7, <1>8, <1>9, <1>10 DEF StreamInv

\* Signalled: the packet is done, or the peer is busy.
LEMMA WriteWokenKeeps ==
    ASSUME UStreamAssumption, StreamInv, ~garbled, setting' = setting, WriteWoken
    PROVE  StreamInv'
  <1> USE DEF readerVars, bufVars, netVars
  <1>1. StreamType /\ WriterType /\ ReaderType /\ BufferType /\ wcount \in 1..packets /\ packets \in Nat
        /\ rcount \in Nat /\ wtries \in Nat /\ CloseTries \in Nat \ {0} /\ WriteTries \in Nat \ {0}
        /\ 0 \in 0..Max({WriteTries, CloseTries})
    <2>1. StreamType /\ WriterType /\ ReaderType /\ BufferType /\ wpc = "woken"
      BY DEF StreamInv, StreamType, WriteWoken
    <2>2. packets \in Nat /\ CloseTries \in Nat \ {0} /\ WriteTries \in Nat \ {0}
      BY <2>1, Params DEF StreamType
    <2>3. 0 \in 0..CloseTries
      BY <2>2
    <2>4. 0 \in 0..Max({WriteTries, CloseTries})
      BY <2>1, <2>3, Params DEF StreamType
    <2> QED
      BY <2>1, <2>2, <2>4 DEF WriterType, BufferType, Writing
  <1>2. UNCHANGED <<toR, toW, losses, busy, wconnected, wrx, wh, readerVars, bufVars, rlock, rrx, rh,
                    connected, split, garbled, crossed>>
        /\ wpc = "woken" /\ wpc' \in {"busy", "close", "idle"}
        /\ \/ wpc' = "busy" /\ UNCHANGED <<wcount, wtries>>
           \/ ~busy /\ wcount' = wcount + 1 /\ wtries' = 0 /\ wpc' = IF wcount = packets THEN "close" ELSE "idle"
    BY DEF WriteWoken, WriterUnchanged
  <1>3. WriterType'
    BY <1>1, <1>2, Same DEF WriterType, Writing, Ended
  <1>4. StreamType'
    BY <1>1, <1>2, <1>3, TypesStay, Same DEF StreamType, ReaderType
  <1>5. Closes'
    BY <1>2, ClosesStay DEF EndStill, Ended, StreamInv
  <1>6. Frames'
    BY <1>2, FramesStay DEF FramesStill, StreamInv
  <1>7. Acks' /\ Numbers'
    <2>1. CASE wpc' = "busy" /\ UNCHANGED <<wcount, wtries>>
      BY <1>2, <2>1, AcksStay, NumbersStay DEF AcksStill, NumbersStill, StreamInv
    <2>2. CASE ~busy /\ wcount' = wcount + 1
      <3>1. Acks /\ wcount <= rcount /\ Settled(wcount)
        BY <1>2, <2>2 DEF StreamInv, Acks
      <3>2. Acks'
        <4>1. rcount' <= wcount' /\ wcount' - 1 = wcount /\ Said'
          BY <1>1, <1>2, <2>2, <3>1 DEF Acks, Said, Says, Settled
        <4> QED
          BY <1>1, <1>2, <2>2, <3>1, <4>1 DEF Acks, Settled
      <3>3. ReadNow' = ReadNow /\ ReadNow \in Nat
        BY <1>1, <1>2 DEF ReadNow, ReaderType, Umsgs
      <3>4. Numbers /\ \A i \in 1..Len(toR) : toR[i].n \in Nat
        <4>1. Numbers /\ \A i \in 1..Len(toR) : toR[i] \in ToR
          BY <1>1, <1>2 DEF StreamInv, WriterType
        <4>2. \A d \in ToR : d.n \in 0..(packets + 1)
          BY DEF ToR
        <4> QED
          BY <1>1, <4>1, <4>2
      <3>5. InOrder(toR, ReadNow, wcount + 1)
        BY <1>1, <3>3, <3>4 DEF Numbers, InOrder
      <3>6. rh.n \in Nat
        BY <1>1 DEF ReaderType
      <3> QED
        BY <1>1, <1>2, <2>2, <3>2, <3>3, <3>4, <3>5, <3>6 DEF Numbers, InOrder
    <2> QED
      BY <1>2, <2>1, <2>2
  <1>8. (Content \/ split)'
    BY <1>2, ContentStay DEF ContentStill, StreamInv
  <1> QED
    BY <1>4, <1>5, <1>6, <1>7, <1>8 DEF StreamInv

\* UMSG_CLOSE goes out.
LEMMA CloseKeeps ==
    ASSUME UStreamAssumption, StreamInv, ~garbled, setting' = setting, Close
    PROVE  StreamInv'
  <1> DEFINE d == Hdr("CLOSE", wcount)
  <1>1. StreamType /\ WriterType /\ ReaderType /\ BufferType /\ wcount \in 1..(packets + 1) /\ packets \in Nat
        /\ wpc = "close" /\ wtries + 1 \in 0..Max({WriteTries, CloseTries})
    <2>1. StreamType /\ WriterType /\ ReaderType /\ BufferType /\ wpc = "close"
      BY DEF StreamInv, StreamType, Close
    <2>2. packets \in Nat /\ CloseTries \in Nat \ {0} /\ wtries \in Nat /\ wtries < CloseTries
      BY <2>1, Params DEF StreamType, WriterType
    <2>3. wtries + 1 \in 0..CloseTries
      BY <2>2
    <2>4. wtries + 1 \in 0..Max({WriteTries, CloseTries})
      BY <2>1, <2>3, Params DEF StreamType
    <2> QED
      BY <2>1, <2>2, <2>4 DEF WriterType
  <1>2. d \in ToR /\ d.type = "CLOSE" /\ d.k = "hdr" /\ d.n = wcount /\ Expects(d) = "none" /\ Fits("none", d)
    BY <1>1, HeaderFacts DEF Opens
  <1>3. SentR(d) /\ toW' = toW /\ wpc' = "closing" /\ wtries' = wtries + 1 /\ crossed' = (crossed \/ Sending(wh))
        /\ UNCHANGED <<wcount, busy, wconnected, wrx, wh, readerVars, bufVars, rlock, rrx, rh,
                       connected, split, garbled>>
    BY DEF Close, WriterUnchanged, PutR, SentR
  <1> HIDE DEF d
  <1> USE DEF readerVars, bufVars
  <1>4. ~crossed' => WriterSends = "none" /\ WriterSends' = "none" /\ wh'.at # "payload"
    BY <1>1, <1>3 DEF WriterSends, Sending
  <1>5. toR' \in Seq(ToR) /\ losses' \in 0..LossBound' /\ Closes' /\ Frames' /\ Numbers'
    BY <1>1, <1>2, <1>3, <1>4, ToReader DEF Ended
  <1>6. StreamType'
    <2>1. WriterType'
      BY <1>1, <1>3, <1>5, Same DEF WriterType, Writing, Ended
    <2> QED
      BY <1>1, <1>3, <1>5, <2>1, TypesStay DEF StreamType, ReaderType
  <1>7. Acks'
    BY <1>3, AcksStay DEF AcksStill, StreamInv
  <1>8. (Content \/ split)'
    BY <1>3, ContentStay DEF ContentStill, StreamInv
  <1> QED
    BY <1>5, <1>6, <1>7, <1>8 DEF StreamInv

-----------------------------------------------------------------------------
(* usock_read_handler at the writer                                         *)

\* The writer's handler takes the first datagram.
LEMMA WriterTookFirst ==
    ASSUME UStreamAssumption, StreamInv, toW # <<>>
    PROVE  /\ Head(toW) \in ToW /\ Tail(toW) \in Seq(ToW)
           /\ 1 \in 1..Len(toW) /\ Head(toW) = toW[1]
           /\ \A i \in 1..Len(Tail(toW)) : \E j \in 1..Len(toW) : Tail(toW)[i] = toW[j]
           /\ losses = 0 /\ ~crossed =>
                Fits(wrx.type, Head(toW)) /\ Framed(Tail(toW), Expects(Head(toW)), ReaderSends)
           /\ Head(toW).type = "REPLY_CLOSE" => wpc \in Ended
           /\ ~garbled /\ Head(toW).k = "count" => Says(Head(toW))
  <1>1. toW \in Seq(ToW) /\ Closes /\ Frames /\ (garbled \/ Acks)
    BY DEF StreamInv, StreamType, ReaderType
  <1>2. /\ Head(toW) \in ToW /\ Tail(toW) \in Seq(ToW)
        /\ 1 \in 1..Len(toW) /\ Head(toW) = toW[1]
        /\ \A i \in 1..Len(Tail(toW)) : i + 1 \in 1..Len(toW) /\ Tail(toW)[i] = toW[i + 1]
        /\ \A e, f : Framed(toW, e, f) => Fits(e, Head(toW)) /\ Framed(Tail(toW), Expects(Head(toW)), f)
    BY <1>1, ReadFirst
  <1>3. losses = 0 /\ ~crossed =>
            Fits(wrx.type, Head(toW)) /\ Framed(Tail(toW), Expects(Head(toW)), ReaderSends)
    BY <1>1, <1>2 DEF Frames
  <1>4. \A i \in 1..Len(Tail(toW)) : \E j \in 1..Len(toW) : Tail(toW)[i] = toW[j]
    BY <1>2
  <1>5. Head(toW).type = "REPLY_CLOSE" => wpc \in Ended
    BY <1>1, <1>2 DEF Closes
  <1>6. ~garbled /\ Head(toW).k = "count" => Says(Head(toW))
    BY <1>1, <1>2 DEF Acks, Said
  <1> QED
    BY <1>2, <1>3, <1>4, <1>5, <1>6

\* What taking a datagram does to the frames and to the end, whatever it was.
LEMMA WriterTook ==
    ASSUME UStreamAssumption, StreamInv, ~garbled, setting' = setting, toW # <<>>, toW' = Tail(toW),
           UNCHANGED <<toR, losses, rrx, rpc, rh, rcount, tsize, crossed>>,
           wpc # "payload" => wpc' # "payload", wpc = "payload" => wpc' = "payload",
           wpc \in Ended => wpc' \in Ended,
           wh.at = "read", wh'.at # "payload",
           losses = 0 /\ ~crossed => ~garbled' /\ wrx'.type = Expects(Head(toW))
    PROVE  Closes' /\ Frames' /\ Said'
  <1>1. Closes /\ Frames /\ Acks
    BY DEF StreamInv
  <1>2. \A i \in 1..Len(toW') : \E j \in 1..Len(toW) : toW'[i] = toW[j]
    BY WriterTookFirst
  <1>3. Closes'
    BY <1>1, <1>2 DEF Closes
  <1>4. Said'
    BY <1>1, <1>2 DEF Acks, Said, Says, Settled
  <1>5. Frames'
    <2> SUFFICES ASSUME losses = 0, ~crossed PROVE Frames'
      BY DEF Frames
    <2>1. WriterSends' = WriterSends /\ ReaderSends' = ReaderSends
      BY DEF WriterSends, ReaderSends
    <2>2. Framed(toW', wrx'.type, ReaderSends') /\ ~garbled'
      BY <2>1, WriterTookFirst
    <2>3. Framed(toR', rrx'.type, WriterSends')
      BY <1>1, <2>1 DEF Frames
    <2> QED
      BY <1>1, <2>1, <2>2, <2>3 DEF Frames
  <1> QED
    BY <1>3, <1>4, <1>5

\* A datagram is taken for a header, or for the count of one.
LEMMA WriterReadsKeeps ==
    ASSUME UStreamAssumption, StreamInv, ~garbled, setting' = setting, WriterReads
    PROVE  StreamInv'
  <1> DEFINE d == Head(toW)
  <1>1. StreamType /\ WriterType /\ ReaderType /\ BufferType /\ packets \in Nat /\ wcount \in Nat /\ Acks /\ Numbers
    BY Params DEF StreamInv, StreamType, WriterType
  <1>2. toW # <<>> /\ toW' = Tail(toW) /\ wh.at = "read"
        /\ UNCHANGED <<toR, losses, wcount, wtries, wconnected, readerVars, bufVars, rlock, rrx, rh,
                       connected, split, crossed>>
    BY DEF WriterReads
  <1> USE DEF readerVars, bufVars
  <1>3. /\ d \in ToW /\ toW' \in Seq(ToW)
        /\ losses = 0 /\ ~crossed => Fits(wrx.type, d)
        /\ d.type = "REPLY_CLOSE" => wpc \in Ended
        /\ d.k = "count" => Says(d)
        /\ d.n \in 0..(packets + 1)
        /\ d.k \in {"hdr", "count"}
        /\ d.type \notin {"CLOSE", "REPLY_CLOSE"} => d.type \in {"PACK_COUNT", "BUSY", "CONT"}
    <2>1. d \in ToW /\ toW' \in Seq(ToW) /\ (losses = 0 /\ ~crossed => Fits(wrx.type, d))
          /\ (d.type = "REPLY_CLOSE" => wpc \in Ended) /\ (d.k = "count" => Says(d))
      BY <1>2, WriterTookFirst
    <2>2. \A c \in ToW : c.n \in 0..(packets + 1) /\ c.k \in {"hdr", "count"}
                         /\ c.type \in {"PACK_COUNT", "BUSY", "CONT", "CLOSE", "REPLY_CLOSE"}
      BY DEF ToW
    <2> QED
      BY <2>1, <2>2
  <1>4. \/ /\ wrx = Nothing /\ d.k = "hdr" /\ d.type = "REPLY_CLOSE"
           /\ wh' = Dead /\ wpc' = Signalled /\ UNCHANGED <<wrx, busy, garbled>>
        \/ /\ wrx = Nothing /\ d.k = "hdr" /\ d.type \notin {"CLOSE", "REPLY_CLOSE"}
           /\ wrx' = Umsg(d.type, 0) /\ UNCHANGED <<wh, wpc, busy, garbled>>
        \/ /\ wrx = Nothing /\ d.k = "count"
           /\ wh' = Dead /\ garbled' = TRUE /\ UNCHANGED <<wrx, wpc, busy>>
        \/ /\ wrx # Nothing /\ WriterTakes(wrx.type, d.n) /\ wrx' = Nothing
           /\ garbled' = (garbled \/ d.k # "count" \/ d.type # wrx.type)
    BY DEF WriterReads
  <1> HIDE DEF d
  <1>5. (Content \/ split)'
    BY <1>2, ContentStay DEF ContentStill, StreamInv
  <1>6. Numbers' \/ garbled'
    BY <1>1, <1>2 DEF Numbers, ReadNow, InOrder
  <1>7. CASE /\ wrx = Nothing /\ d.k = "hdr" /\ d.type = "REPLY_CLOSE"
             /\ wh' = Dead /\ wpc' = Signalled /\ UNCHANGED <<wrx, busy, garbled>>
    <2>1. wpc \in Ended /\ wpc' \in Ended /\ (wpc' = "close" => wpc = "close")
      BY <1>3, <1>7 DEF Signalled, Ended
    <2>2. Closes' /\ Frames' /\ Said'
      BY <1>2, <1>3, <1>7, <2>1, WriterTook DEF Expects, Opens, Nothing, Dead, Ended, d
    <2>3. StreamType'
      <3>1. WriterType'
        BY <1>1, <1>2, <1>7, <2>1, Same DEF WriterType, Dead, Writing, Ended
      <3> QED
        BY <1>1, <1>2, <1>3, <1>7, <3>1, TypesStay, Same DEF StreamType
    <2>4. Acks'
      BY <1>1, <1>2, <1>7, <2>1, <2>2 DEF Acks, Settled, Dead, Ended
    <2> QED
      BY <1>5, <1>6, <1>7, <2>2, <2>3, <2>4 DEF StreamInv
  <1>8. CASE /\ wrx = Nothing /\ d.k = "hdr" /\ d.type \notin {"CLOSE", "REPLY_CLOSE"}
             /\ wrx' = Umsg(d.type, 0) /\ UNCHANGED <<wh, wpc, busy, garbled>>
    <2>1. d.type \in {"PACK_COUNT", "BUSY", "CONT"} /\ wrx' \in Umsgs /\ wrx'.type = d.type
      BY <1>1, <1>3, <1>8 DEF Umsg, Umsgs
    <2>2. Closes' /\ Frames' /\ Said'
      BY <1>2, <1>3, <1>8, <2>1, WriterTook DEF Expects, Opens, d
    <2>3. StreamType'
      <3>1. WriterType'
        BY <1>1, <1>2, <1>8, <2>1, Same DEF WriterType
      <3> QED
        BY <1>1, <1>2, <1>3, <1>8, <3>1, TypesStay, Same DEF StreamType
    <2>4. Acks'
      BY <1>1, <1>2, <1>8, <2>2 DEF Acks, Settled
    <2> QED
      BY <1>5, <1>6, <1>8, <2>2, <2>3, <2>4 DEF StreamInv
  <1>9. CASE /\ wrx = Nothing /\ d.k = "count"
             /\ wh' = Dead /\ garbled' = TRUE /\ UNCHANGED <<wrx, wpc, busy>>
    <2>1. losses > 0 \/ crossed
      BY <1>1, <1>3, <1>9 DEF Fits, Nothing, StreamType
    <2>2. Closes' /\ Frames'
      BY <1>1, <1>2, <1>9, <2>1, WriterTook DEF Dead, StreamType
    <2>3. StreamType'
      <3>1. WriterType'
        BY <1>1, <1>2, <1>9, Same DEF WriterType, Dead
      <3> QED
        BY <1>1, <1>2, <1>3, <1>9, <3>1, TypesStay, Same DEF StreamType
    <2> QED
      BY <1>9, <2>2, <2>3 DEF StreamInv
  <1>10. CASE /\ wrx # Nothing /\ WriterTakes(wrx.type, d.n) /\ wrx' = Nothing
              /\ garbled' = (garbled \/ d.k # "count" \/ d.type # wrx.type)
    <2>1. wrx.type \in {"PACK_COUNT", "BUSY", "CONT"}
      BY <1>1, <1>10 DEF WriterType
    <2>2. \/ wrx.type = "PACK_COUNT" /\ UNCHANGED <<busy, wh>>
             /\ wpc' = IF d.n = wcount THEN Signalled ELSE wpc
          \/ wrx.type = "BUSY" /\ UNCHANGED wh /\ busy' = (busy \/ d.n = wcount)
             /\ wpc' = IF d.n = wcount THEN Signalled ELSE wpc
          \/ wrx.type = "CONT" /\ wh' = [at |-> "header", type |-> "REPLY_CONT", n |-> d.n] /\ UNCHANGED <<busy, wpc>>
      BY <1>10 DEF WriterTakes, Answers
    <2>3. /\ wpc \in Ended => wpc' \in Ended
          /\ wpc' = wpc \/ (wpc \in {"wait", "busy"} /\ wpc' = "woken") \/ (wpc' = "hung" /\ wpc = "closing")
          /\ busy' \in BOOLEAN
      BY <1>1, <2>2 DEF Signalled, Ended, WriterType
    <2>4. losses = 0 /\ ~crossed => d.k = "count" /\ d.type = wrx.type
      BY <1>3, <2>1 DEF Fits
    <2>5. Closes' /\ Frames' /\ Said'
      <3>1. wh'.at # "payload"
        BY <1>2, <2>2
      <3>2. losses = 0 /\ ~crossed => ~garbled' /\ wrx'.type = Expects(d)
        BY <1>10, <2>4 DEF Expects, Nothing
      <3>3. (wpc # "payload" => wpc' # "payload") /\ (wpc = "payload" => wpc' = "payload")
        BY <2>3
      <3> QED
        BY <1>2, <2>3, <3>1, <3>2, <3>3, WriterTook DEF d
    <2>6. StreamType'
      <3>1. wh' \in [at : {"read", "header", "payload", "dead"}, type : {"none", "REPLY_CONT"}, n : 0..(packets + 1)]
            /\ (wh'.at \in {"header", "payload"} => wh'.type = "REPLY_CONT")
        BY <1>1, <1>3, <2>2 DEF WriterType
      <3>2. wrx' \in Umsgs /\ wrx'.type = "none"
        BY <1>1, <1>10 DEF Nothing, Umsgs
      <3>3. WriterType'
        BY <1>1, <1>2, <1>10, <2>3, <3>1, <3>2, Same DEF WriterType, Writing, Ended
      <3> QED
        BY <1>1, <1>2, <1>3, <1>10, <3>3, TypesStay, Same DEF StreamType
    <2>7. ASSUME ~garbled' PROVE Acks'
      <3>1. d.n <= rcount /\ (wrx.type # "BUSY" => Settled(d.n))
        BY <1>3, <1>10, <2>7 DEF Says
      <3>2. wpc' = "woken" => wcount <= rcount /\ (busy' \/ Settled(wcount))
        BY <1>1, <2>2, <2>3, <3>1 DEF Acks
      <3>3. wh'.at \in {"header", "payload"} => Settled(wh'.n)
        BY <1>1, <1>2, <2>2, <3>1 DEF Acks
      <3> QED
        BY <1>1, <1>2, <2>5, <3>2, <3>3 DEF Acks, Settled
    <2> QED
      BY <1>5, <1>6, <2>5, <2>6, <2>7 DEF StreamInv
  <1> QED
    BY <1>4, <1>7, <1>8, <1>9, <1>10

\* UMSG_CLOSE of a reader that gave up is answered, and the handler ends.
LEMMA WriterTakesCloseKeeps ==
    ASSUME UStreamAssumption, StreamInv, ~garbled, setting' = setting, WriterTakesClose
    PROVE  StreamInv'
  <1> DEFINE d == Hdr("REPLY_CLOSE", wcount)
  <1>1. StreamType /\ WriterType /\ ReaderType /\ BufferType /\ packets \in Nat /\ wcount \in 1..(packets + 1) /\ Acks /\ Numbers
    BY Params DEF StreamInv, StreamType, WriterType
  <1>2. toW # <<>> /\ toW' = Tail(toW) /\ wh.at = "read" /\ wrx = Nothing /\ Head(toW).type = "CLOSE"
        /\ SentR(d) /\ wconnected' = FALSE /\ wh' = Dead /\ crossed' = (crossed \/ wpc = "payload")
        /\ UNCHANGED <<wpc, wcount, wtries, busy, wrx, readerVars, bufVars, rlock, rrx, rh,
                       connected, split, garbled>>
    BY DEF WriterTakesClose, SentR
  <1>3. d \in ToR /\ d.type = "REPLY_CLOSE" /\ d.k = "hdr" /\ Expects(d) = "none" /\ Fits("none", d)
    BY <1>1, HeaderFacts DEF Opens
  <1> HIDE DEF d
  <1> USE DEF readerVars, bufVars
  <1>4. /\ toW' \in Seq(ToW)
        /\ \A i \in 1..Len(toW') : \E j \in 1..Len(toW) : toW'[i] = toW[j]
        /\ losses = 0 /\ ~crossed => Framed(toW', Expects(Head(toW)), ReaderSends)
    BY <1>2, WriterTookFirst
  <1>5. /\ toR' \in Seq(ToR) /\ losses' \in 0..LossBound
        /\ losses' = 0 => losses = 0
        /\ \A i \in 1..Len(toR') : (\E j \in 1..Len(toR) : toR'[i] = toR[j]) \/ toR'[i] = d
        /\ losses' = 0 => \A e, f : Framed(toR, e, f) /\ Fits(f, d) => Framed(toR', e, Expects(d))
        /\ \A lo, hi \in Nat : InOrder(toR, lo, hi) /\ lo <= hi /\ (Numbered(d) => d.n = hi) => InOrder(toR', lo, hi)
    BY <1>1, <1>2, <1>3, SentRFacts
  <1>6. StreamType'
    <2>1. wh' \in [at : {"read", "header", "payload", "dead"}, type : {"none", "REPLY_CONT"}, n : 0..(packets + 1)]
          /\ wh'.at = "dead"
      BY <1>1, <1>2 DEF Dead
    <2>2. WriterType'
      BY <1>1, <1>2, <1>5, <2>1, Same DEF WriterType
    <2> QED
      BY <1>1, <1>2, <1>4, <1>5, <2>2, TypesStay, Same DEF StreamType
  <1>7. Closes'
    BY <1>2, <1>3, <1>4, <1>5 DEF StreamInv, Closes
  <1>8. Frames'
    <2> SUFFICES ASSUME losses' = 0, ~crossed' PROVE Frames'
      BY DEF Frames
    <2>1. losses = 0 /\ ~crossed /\ wpc # "payload" /\ wpc' # "payload" /\ wh'.at # "payload"
      BY <1>2, <1>5 DEF Dead
    <2>2. WriterSends = "none" /\ WriterSends' = "none" /\ ReaderSends' = ReaderSends
      BY <1>2, <2>1 DEF WriterSends, ReaderSends
    <2>3. Expects(Head(toW)) = "none" /\ wrx.type = "none"
      BY <1>2 DEF Expects, Opens, Nothing
    <2>4. Framed(toW', wrx'.type, ReaderSends')
      BY <1>2, <1>4, <2>1, <2>2, <2>3
    <2>5. Framed(toR', rrx'.type, WriterSends')
      BY <1>2, <1>3, <1>5, <2>1, <2>2 DEF StreamInv, Frames
    <2> QED
      BY <1>2, <2>1, <2>4, <2>5 DEF StreamInv, Frames
  <1>9. Acks'
    BY <1>1, <1>2, <1>4 DEF Acks, Said, Says, Settled, Dead
  <1>10. Numbers'
    <2>1. ReadNow' = ReadNow /\ ReadNow \in Nat
      BY <1>1, <1>2 DEF ReadNow, ReaderType, Umsgs
    <2>2. ~Numbered(d) /\ wcount \in Nat /\ InOrder(toR, ReadNow, wcount) /\ ReadNow <= wcount
      BY <1>1, <1>3 DEF Numbers, Numbered
    <2>3. InOrder(toR', ReadNow, wcount)
      BY <1>5, <2>1, <2>2
    <2> QED
      BY <1>1, <1>2, <2>1, <2>3 DEF Numbers, InOrder
  <1>11. (Content \/ split)'
    BY <1>2, ContentStay DEF ContentStill, StreamInv
  <1> QED
    BY <1>6, <1>7, <1>8, <1>9, <1>10, <1>11 DEF StreamInv

\* UMSG_REPLY_CONT, its header and its count.
LEMMA WriterRepliesKeeps ==
    ASSUME UStreamAssumption, StreamInv, ~garbled, setting' = setting, WriterReplies
    PROVE  StreamInv'
  <1> USE DEF readerVars, bufVars
  <1>1. StreamType /\ WriterType /\ ReaderType /\ BufferType /\ packets \in Nat /\ wcount \in 1..(packets + 1)
        /\ Acks /\ Frames
    BY Params DEF StreamInv, StreamType, WriterType
  <1>2. UNCHANGED <<wcount, wtries, wconnected, wrx, readerVars, bufVars, rlock, rrx, rh, connected, split, garbled>>
    BY DEF WriterReplies
  <1>3. wh \in [at : {"read", "header", "payload", "dead"}, type : {"none", "REPLY_CONT"}, n : 0..(packets + 1)]
        /\ (wh.at \in {"header", "payload"} => wh.type = "REPLY_CONT")
    BY <1>1 DEF WriterType
  <1>4. (Content \/ split)'
    BY <1>2, ContentStay DEF ContentStill, StreamInv
  <1>5. CASE /\ wh.at = "header" /\ PutR(Hdr(wh.type, wcount)) /\ wh' = [wh EXCEPT !.at = "payload"]
             /\ crossed' = (crossed \/ wpc = "payload") /\ UNCHANGED <<wpc, busy>>
    <2> DEFINE d == Hdr("REPLY_CONT", wcount)
    <2>1. d \in ToR /\ d.type = "REPLY_CONT" /\ d.k = "hdr" /\ Expects(d) = "REPLY_CONT" /\ Fits("none", d)
      BY <1>1, HeaderFacts DEF Opens
    <2>2. SentR(d) /\ toW' = toW
      BY <1>3, <1>5 DEF PutR, SentR
    <2> HIDE DEF d
    <2>3. wh' \in [at : {"read", "header", "payload", "dead"}, type : {"none", "REPLY_CONT"}, n : 0..(packets + 1)]
          /\ wh'.at = "payload" /\ wh'.type = "REPLY_CONT" /\ wh'.n = wh.n
      BY <1>3, <1>5
    <2>4. ~crossed' => WriterSends = "none" /\ WriterSends' = "REPLY_CONT" /\ wpc' # "payload"
      BY <1>5, <2>3 DEF WriterSends
    <2>5. toR' \in Seq(ToR) /\ losses' \in 0..LossBound' /\ Closes' /\ Frames' /\ Numbers'
      BY <1>1, <1>2, <1>5, <2>1, <2>2, <2>4, ToReader DEF Numbered
    <2>6. StreamType'
      <3>1. WriterType'
        BY <1>1, <1>2, <1>5, <2>3, <2>5, Same DEF WriterType
      <3> QED
        BY <1>1, <1>2, <1>5, <2>2, <2>5, <3>1, TypesStay DEF StreamType, ReaderType
    <2>7. Acks'
      BY <1>2, <1>5, <2>2, <2>3, AcksStay DEF AcksStill, StreamInv
    <2> QED
      BY <1>4, <2>5, <2>6, <2>7 DEF StreamInv
  <1>6. CASE /\ wh.at = "payload" /\ PutR(Count("REPLY_CONT", wh.n)) /\ wh' = Reading
             /\ busy' = (busy /\ wh.n # wcount)
             /\ wpc' = (IF busy /\ wh.n = wcount THEN Signalled ELSE wpc) /\ UNCHANGED crossed
    <2> DEFINE d == Count("REPLY_CONT", wh.n)
    <2>1. d \in ToR /\ d.type = "REPLY_CONT" /\ d.k = "count" /\ Expects(d) = "none" /\ Fits("REPLY_CONT", d)
      <3>1. wh.n \in 0..(packets + 1)
        BY <1>3
      <3>2. d \in ToR
        BY <1>1, <3>1, PayloadFacts
      <3> QED
        BY <3>2 DEF Count, Fits, Expects
    <2>2. SentR(d) /\ toW' = toW
      BY <1>6 DEF PutR, SentR
    <2> HIDE DEF d
    <2>3. /\ wpc \in Ended => wpc' \in Ended
          /\ wpc' = wpc \/ (wpc \in {"wait", "busy"} /\ wpc' = "woken") \/ (wpc' = "hung" /\ wpc = "closing")
          /\ wpc' # wpc => wh.n = wcount
          /\ busy' \in BOOLEAN
      BY <1>1, <1>6 DEF Signalled, Ended, WriterType
    <2>4. losses' = 0 /\ ~crossed' => WriterSends = "REPLY_CONT" /\ WriterSends' = "none" /\ wh'.at # "payload"
      <3>1. losses' = 0 => losses = 0
        BY <1>1, <2>1, <2>2, SentRFacts
      <3> QED
        BY <1>1, <1>6, <2>3, <3>1 DEF WriterSends, Frames, Reading
    <2>5. toR' \in Seq(ToR) /\ losses' \in 0..LossBound' /\ Closes' /\ Frames' /\ Numbers'
      BY <1>1, <1>2, <1>6, <2>1, <2>2, <2>3, <2>4, ToReader DEF Numbered
    <2>6. StreamType'
      <3>1. wh' \in [at : {"read", "header", "payload", "dead"}, type : {"none", "REPLY_CONT"}, n : 0..(packets + 1)]
            /\ wh'.at = "read"
        BY <1>1, <1>6 DEF Reading
      <3>2. WriterType'
        BY <1>1, <1>2, <1>6, <2>3, <2>5, <3>1, Same DEF WriterType, Writing, Ended
      <3> QED
        BY <1>1, <1>2, <1>6, <2>2, <2>5, <3>2, TypesStay DEF StreamType, ReaderType
    <2>7. Acks'
      <3>1. Settled(wh.n)
        BY <1>1, <1>6 DEF Acks
      <3>2. wpc' = "woken" => wcount <= rcount /\ (busy' \/ Settled(wcount))
        BY <1>1, <1>6, <2>3, <3>1 DEF Acks, Settled
      <3> QED
        BY <1>1, <1>2, <1>6, <2>2, <3>2 DEF Acks, Said, Says, Settled, Reading
    <2> QED
      BY <1>4, <2>5, <2>6, <2>7 DEF StreamInv
  <1> QED
    BY <1>5, <1>6 DEF WriterReplies

-----------------------------------------------------------------------------
(* usock_read                                                               *)

\* The units of the packets before the n-th, with those of the n-th.
LEMMA Joined ==
    ASSUME UStreamAssumption, setting \in Settings, NEW n \in 1..packets
    PROVE  /\ Units(n) \in Seq(Unit) /\ Len(Units(n)) = PacketLen
           /\ First((n - 1) * PacketLen) \o Units(n) = First(n * PacketLen)
  <1>1. packets \in Nat /\ PacketLen \in Nat \ {0} /\ n \in Nat /\ n <= packets
    BY Params
  <1> DEFINE k == (n - 1) * PacketLen
             m == n * PacketLen
             p == packets * PacketLen
  <1>2. k \in Nat /\ m = k + PacketLen /\ p \in Nat /\ m <= p
    <2>1. \A a, b \in Nat : a * b \in Nat
      OBVIOUS
    <2>2. n - 1 \in Nat /\ packets - n \in Nat /\ PacketLen \in Nat
      BY <1>1
    <2>3. k \in Nat /\ p \in Nat /\ (packets - n) * PacketLen \in Nat
      BY <1>1, <2>1, <2>2
    <2>4. k = m - PacketLen /\ (packets - n) * PacketLen = p - m
      BY <1>1
    <2> QED
      BY <1>1, <2>3, <2>4
  <1>3. Units(n) = [i \in 1..PacketLen |-> k + i] /\ Unit = 0..p
    BY DEF Units, Unit
  <1> HIDE DEF k, m, p
  <1>4. Units(n) \in Seq(Unit) /\ Len(Units(n)) = PacketLen
    BY <1>1, <1>2, <1>3
  <1>5. First(k) \in Seq(Nat) /\ Len(First(k)) = k /\ First(m) \in Seq(Nat) /\ Len(First(m)) = m
    BY <1>1, <1>2 DEF First
  <1>6. First(k) \o Units(n) = First(m)
    <2> DEFINE f == First(k)
               u == Units(n)
    <2>1. u \in Seq(Nat) /\ Len(u) = PacketLen /\ \A i \in 1..PacketLen : u[i] = k + i
      BY <1>1, <1>2, <1>3
    <2>2. f \in Seq(Nat) /\ Len(f) = k /\ \A i \in 1..k : f[i] = i
      BY <1>2 DEF First
    <2> HIDE DEF f, u
    <2>3. /\ f \o u \in Seq(Nat) /\ Len(f \o u) = Len(f) + Len(u)
          /\ \A i \in 1..Len(f) + Len(u) : (f \o u)[i] = IF i <= Len(f) THEN f[i] ELSE u[i - Len(f)]
      BY <2>1, <2>2, ConcatProperties
    <2>4. Len(f \o u) = m
      BY <1>2, <2>1, <2>2, <2>3
    <2>5. ASSUME NEW i \in 1..m PROVE (f \o u)[i] = i
      <3>1. CASE i <= k
        BY <1>1, <1>2, <2>1, <2>2, <2>3, <3>1
      <3>2. CASE i > k
        <4>1. i - k \in 1..PacketLen /\ k + (i - k) = i
          BY <1>1, <1>2, <3>2
        <4>2. (f \o u)[i] = u[i - k]
          BY <1>1, <1>2, <2>1, <2>2, <2>3, <3>2
        <4> QED
          BY <2>1, <4>1, <4>2
      <3>3. i <= k \/ i > k
        BY <1>1, <1>2
      <3> QED
        BY <3>1, <3>2, <3>3
    <2>6. \A i \in 1..m : First(m)[i] = i
      BY DEF First
    <2>7. f \o u = First(m)
      BY <1>5, <2>3, <2>4, <2>5, <2>6, SeqEqual
    <2> QED
      BY <2>7 DEF f, u
  <1> QED
    BY <1>4, <1>6 DEF k, m

\* A sequence is cut in two.
LEMMA Cut ==
    ASSUME NEW S, NEW b \in Seq(S), NEW n \in 0..Len(b)
    PROVE  /\ SubSeq(b, 1, n) \in Seq(S) /\ SubSeq(b, n + 1, Len(b)) \in Seq(S)
           /\ Len(SubSeq(b, 1, n)) = n /\ Len(SubSeq(b, n + 1, Len(b))) = Len(b) - n
           /\ SubSeq(b, 1, n) \o SubSeq(b, n + 1, Len(b)) = b
  <1> DEFINE x == SubSeq(b, 1, n)
             y == SubSeq(b, n + 1, Len(b))
  <1>1. x \in Seq(S) /\ Len(x) = n /\ y \in Seq(S) /\ Len(y) = Len(b) - n
    OBVIOUS
  <1>2. x \o y = b
    <2>1. 1 \in 1..Len(b) + 1 /\ n \in 1 - 1..Len(b) /\ Len(b) \in n..Len(b)
      OBVIOUS
    <2>2. x \o y = SubSeq(b, 1, Len(b))
      BY <2>1, ConcatAdjacentSubSeq
    <2> QED
      BY <2>2, SubSeqFull
  <1> QED
    BY <1>1, <1>2

\* What is appended in two parts.
LEMMA Appended ==
    \A S : \A a, x, y \in Seq(S) : a \o x \in Seq(S) /\ (a \o x) \o y = a \o (x \o y)
  BY ConcatAssociative

\* A timeout, a signal and the discovery that the connection is closed move usock_read only.
LEMMA ReaderTurns ==
    ASSUME UStreamAssumption, StreamInv, ~garbled, setting' = setting,
           ReadClosed \/ ContTimeout \/ ContAgain \/ ReaderCloseTimeout \/ Woken
    PROVE  StreamInv'
  <1> USE DEF writerVars, bufVars
  <1>1. StreamType /\ WriterType /\ ReaderType /\ BufferType /\ rtries \in Nat
    BY DEF StreamInv, StreamType, ReaderType
  <1>2. UNCHANGED <<toR, toW, losses, writerVars, wrx, wh, bufVars, rrx, rh,
                    connected, split, garbled, crossed, delivered>>
    BY DEF ReadClosed, ContTimeout, ContAgain, ReaderCloseTimeout, Woken, ReaderUnchanged
  <1>3. /\ rpc # "contpayload" /\ rpc' # "contpayload"
        /\ rpc' \in Conts => rpc \in Conts /\ mcount' = mcount
    BY DEF ReadClosed, ContTimeout, ContAgain, ReaderCloseTimeout, Woken, Conts
  <1>4. 0 \in 0..packets /\ 0 < ReadTries /\ 0 < CloseTries /\ 0 \in 0..Max({ReadTries, CloseTries})
        /\ (rtries + 1 < ReadTries => rtries + 1 \in 0..Max({ReadTries, CloseTries}))
    <2>1. packets \in Nat /\ CloseTries \in Nat \ {0} /\ ReadTries \in Nat \ {0}
      BY <1>1, Params DEF StreamType
    <2>2. 0 \in 0..CloseTries /\ (rtries + 1 < ReadTries => rtries + 1 \in 0..ReadTries)
      BY <1>1, <2>1
    <2> QED
      BY <1>1, <2>1, <2>2, Params DEF StreamType
  <1>5. /\ rpc' \in Conts \cup {"eof", "take", "close", "closed", "hung"}
        /\ rpc' \in Conts \cup {"take"} => rtries' < ReadTries
        /\ rpc' = "close" => rtries' < CloseTries
        /\ rtries' \in 0..Max({ReadTries, CloseTries}) /\ mcount' \in 0..packets
        /\ rlock' \in {"free", "reader", "handler"}
    <2>1. CASE ReadClosed \/ ReaderCloseTimeout
      BY <1>1, <2>1 DEF ReadClosed, ReaderCloseTimeout, Conts, ReaderType
    <2>2. CASE ContTimeout
      BY <1>1, <2>2 DEF ContTimeout, Conts, ReaderType
    <2>3. CASE ContAgain
      BY <1>1, <1>4, <2>3 DEF ContAgain, Conts, ReaderType
    <2>4. CASE Woken
      BY <1>1, <1>4, <2>4 DEF Woken, Conts, ReaderType
    <2> QED
      BY <2>1, <2>2, <2>3, <2>4
  <1>6. ReaderType'
    BY <1>1, <1>2, <1>5, Same DEF ReaderType, Conts
  <1>7. StreamType'
    BY <1>1, <1>2, <1>6, TypesStay, Same DEF StreamType, WriterType
  <1>8. Closes'
    BY <1>2, ClosesStay DEF EndStill, StreamInv
  <1>9. Frames'
    BY <1>2, <1>3, FramesStay DEF FramesStill, StreamInv
  <1>10. Acks'
    BY <1>2, <1>3, AcksStay DEF AcksStill, StreamInv
  <1>11. Numbers'
    BY <1>2, NumbersStay DEF NumbersStill, StreamInv
  <1>12. (Content \/ split)'
    BY <1>2, ContentStay DEF ContentStill, StreamInv
  <1> QED
    BY <1>7, <1>8, <1>9, <1>10, <1>11, <1>12 DEF StreamInv

\* usock_read is entered: what did not fit goes to the ring, as much as fits now.
LEMMA ReadEnterKeeps ==
    ASSUME UStreamAssumption, StreamInv, ~garbled, setting' = setting, ReadEnter
    PROVE  StreamInv'
  <1> USE DEF writerVars, bufVars
  <1>1. StreamType /\ WriterType /\ ReaderType /\ BufferType /\ Acks /\ (Content \/ split)
    BY DEF StreamInv, StreamType
  <1>2. RingSize \in Nat /\ PacketLen \in Nat \ {0} /\ packets \in Nat
    BY <1>1, Params DEF StreamType
  <1> DEFINE n == tsize - Spilled
  <1>3. /\ Spilled \in 0..tsize /\ n \in 0..tsize /\ n + Len(rbuf) <= RingSize
        /\ tsize \in 0..PacketLen /\ Len(rbuf) \in Nat /\ Spilled + n = tsize
    <2>1. tsize \in Nat /\ Len(rbuf) \in Nat /\ Len(rbuf) <= RingSize /\ tsize <= PacketLen
      BY <1>1 DEF BufferType
    <2> QED
      BY <1>2, <2>1 DEF Spilled
  <1>4. /\ rpc = "idle" /\ rlock' = "reader" /\ rbuf' = rbuf \o SubSeq(tbuf, 1, n) /\ tsize' = Spilled
        /\ split' = (split \/ (Spilled # 0 /\ Spilled # tsize))
        /\ rpc' = (IF tsize > 0 /\ Spilled = 0 THEN "contheader" ELSE "take")
        /\ tbuf' = (IF Spilled = 0 THEN <<>> ELSE tbuf)
        /\ mcount' = (IF rpc' = "contheader" THEN rcount ELSE 0)
        /\ UNCHANGED <<toR, toW, losses, rtries, delivered, crossed, writerVars, wrx, wh, rcount, rrx, rh, connected, garbled>>
    BY DEF ReadEnter, ReaderUnchanged
  <1>5. tbuf \in Seq(Unit) /\ rbuf \in Seq(Unit) /\ n \in 0..Len(tbuf) /\ (tsize > 0 => Len(tbuf) = PacketLen)
    BY <1>1, <1>2, <1>3 DEF BufferType
  <1>6. SubSeq(tbuf, 1, n) \in Seq(Unit) /\ Len(SubSeq(tbuf, 1, n)) = n
    BY <1>5, Cut
  <1> HIDE DEF n
  <1>7. BufferType'
    <2>1. rbuf' \in Seq(Unit) /\ Len(rbuf') <= RingSize
      BY <1>3, <1>4, <1>5, <1>6
    <2>2. tbuf' \in Seq(Unit) /\ Len(tbuf') \in {0, PacketLen} /\ (tsize' > 0 => Len(tbuf') = PacketLen)
      BY <1>1, <1>3, <1>4, <1>5 DEF BufferType
    <2>3. tsize' \in 0..PacketLen
      BY <1>2, <1>3, <1>4
    <2> QED
      BY <1>1, <1>4, <2>1, <2>2, <2>3, Same DEF BufferType
  <1>8. ReaderType'
    <2>1. mcount' \in 0..packets /\ rpc' \in {"contheader", "take"}
      BY <1>1, <1>2, <1>4 DEF BufferType
    <2> QED
      BY <1>1, <1>4, <2>1, Same DEF ReaderType, Conts
  <1>9. split' \in BOOLEAN
    BY <1>1, <1>4 DEF StreamType
  <1>10. StreamType'
    BY <1>1, <1>4, <1>7, <1>8, <1>9, TypesStay, Same DEF StreamType, WriterType
  <1>11. Closes'
    BY <1>4, ClosesStay DEF EndStill, StreamInv
  <1>12. Frames'
    BY <1>4, FramesStay DEF FramesStill, StreamInv
  <1>13. Acks'
    <2>1. \A i \in Nat : Settled(i) => Settled(i)'
      BY <1>3, <1>4 DEF Settled
    <2>2. Said'
      BY <1>1, <1>3, <1>4 DEF Acks, Said, Says, Settled
    <2>3. rpc' \in Conts => Settled(mcount)'
      <3>1. rpc' \in Conts => Spilled = 0 /\ mcount' = rcount
        BY <1>4 DEF Conts
      <3> QED
        BY <1>1, <1>4, <3>1 DEF Settled, BufferType
    <2> QED
      BY <1>1, <1>3, <1>4, <2>2, <2>3 DEF Acks, Settled
  <1>14. Numbers'
    BY <1>4, NumbersStay DEF NumbersStill, StreamInv
  <1>15. (Content \/ split)'
    <2>1. CASE split \/ (Spilled # 0 /\ Spilled # tsize)
      BY <1>4, <2>1
    <2>2. CASE Content /\ tsize = 0
      <3>1. n = 0 /\ Spilled = 0
        BY <1>3, <2>2
      <3>2. rbuf' = rbuf
        BY <1>4, <1>5, <1>6, <3>1
      <3> QED
        BY <1>2, <1>4, <2>2, <3>1, <3>2 DEF Content
    <2>3. CASE Content /\ tsize # 0 /\ Spilled = 0
      <3>1. n = PacketLen /\ tbuf = Units(rcount) /\ rcount \in 1..packets
            /\ delivered \o rbuf = First((rcount - 1) * PacketLen)
        BY <1>1, <1>3, <2>3 DEF Content, BufferType
      <3>2. tbuf \in Seq(Unit) /\ Len(tbuf) = PacketLen /\ SubSeq(tbuf, 1, n) = tbuf
        BY <1>2, <1>5, <2>3, <3>1, <1>3
      <3>3. delivered \o rbuf' = (delivered \o rbuf) \o Units(rcount)
        <4>1. rbuf' = rbuf \o tbuf
          BY <1>4, <3>2
        <4>2. delivered \in Seq(Unit) /\ rbuf \in Seq(Unit) /\ tbuf \in Seq(Unit)
          BY <1>1, <1>5 DEF BufferType
        <4>3. (delivered \o rbuf) \o tbuf = delivered \o (rbuf \o tbuf)
          BY ONLY <4>2, Appended
        <4> QED
          BY <3>1, <4>1, <4>3
      <3>4. delivered' \o rbuf' = First(rcount * PacketLen)
        BY <1>1, <1>4, <3>1, <3>3, Joined DEF StreamType
      <3> QED
        BY <1>4, <2>3, <3>4 DEF Content
    <2>4. CASE Content /\ tsize # 0 /\ Spilled = tsize
      <3>1. n = 0 /\ Spilled # 0
        BY <1>3, <2>4
      <3>2. rbuf' = rbuf /\ tbuf' = tbuf
        BY <1>4, <1>5, <1>6, <3>1
      <3> QED
        BY <1>4, <2>4, <3>2 DEF Content, Units
    <2> QED
      BY <1>1, <2>1, <2>2, <2>3, <2>4
  <1> QED
    BY <1>10, <1>11, <1>12, <1>13, <1>14, <1>15 DEF StreamInv

\* What the ring holds is returned, or it is waited for.
LEMMA TakeKeeps ==
    ASSUME UStreamAssumption, StreamInv, ~garbled, setting' = setting, Take
    PROVE  StreamInv'
  <1> USE DEF writerVars, bufVars
  <1>1. StreamType /\ WriterType /\ ReaderType /\ BufferType /\ (Content \/ split)
        /\ rbuf \in Seq(Unit) /\ delivered \in Seq(Unit) /\ Len(rbuf) <= RingSize /\ RingSize \in Nat
    BY Params DEF StreamInv, StreamType, BufferType
  <1>2. /\ rpc = "take" /\ rlock' = "free" /\ rpc' \in {"idle", "takewait", "eof"}
        /\ UNCHANGED <<toR, toW, losses, tbuf, tsize, rtries, mcount, split, crossed,
                       writerVars, wrx, wh, rcount, rrx, rh, connected, garbled>>
    BY DEF Take, ReaderUnchanged
  <1>3. /\ rbuf' \in Seq(Unit) /\ delivered' \in Seq(Unit) /\ Len(rbuf') <= RingSize
        /\ delivered' \o rbuf' = delivered \o rbuf
    <2>1. CASE UNCHANGED <<delivered, rbuf>>
      BY <1>1, <2>1
    <2>2. CASE rbuf # <<>> /\ ~UNCHANGED <<delivered, rbuf>>
      <3> DEFINE n == Min({ReadMax, Len(rbuf)})
      <3>1. n \in 0..Len(rbuf)
        <4>1. ReadMax \in Nat /\ Len(rbuf) \in Nat
          BY <1>1, Params DEF StreamType
        <4>2. \E x \in {ReadMax, Len(rbuf)} : \A y \in {ReadMax, Len(rbuf)} : x <= y
          BY <4>1
        <4>3. n \in {ReadMax, Len(rbuf)} /\ \A y \in {ReadMax, Len(rbuf)} : n <= y
          BY <4>2 DEF Min
        <4> QED
          BY <4>1, <4>3
      <3>2. delivered' = delivered \o SubSeq(rbuf, 1, n) /\ rbuf' = SubSeq(rbuf, n + 1, Len(rbuf))
        BY <2>2 DEF Take
      <3> HIDE DEF n
      <3>3. /\ rbuf' \in Seq(Unit) /\ Len(rbuf') = Len(rbuf) - n
            /\ delivered' \in Seq(Unit) /\ delivered' \o rbuf' = delivered \o rbuf
        <4> DEFINE x == SubSeq(rbuf, 1, n)
                   y == SubSeq(rbuf, n + 1, Len(rbuf))
        <4>1. x \in Seq(Unit) /\ y \in Seq(Unit) /\ Len(y) = Len(rbuf) - n /\ x \o y = rbuf
          BY <1>1, <3>1, Cut
        <4> HIDE DEF x, y
        <4>2. delivered \o x \in Seq(Unit) /\ (delivered \o x) \o y = delivered \o (x \o y)
          <5>1. delivered \in Seq(Unit) /\ x \in Seq(Unit) /\ y \in Seq(Unit)
            BY <1>1, <4>1
          <5> QED
            BY ONLY <5>1, Appended
        <4>3. delivered' = delivered \o x /\ rbuf' = y
          BY <3>2 DEF x, y
        <4> QED
          BY <4>1, <4>2, <4>3
      <3> QED
        BY <1>1, <3>1, <3>3
    <2> QED
      BY <2>1, <2>2 DEF Take
  <1>4. BufferType'
    BY <1>1, <1>2, <1>3, Same DEF BufferType
  <1>5. ReaderType'
    BY <1>1, <1>2, Same DEF ReaderType, Conts
  <1>6. StreamType'
    BY <1>1, <1>2, <1>4, <1>5, TypesStay, Same DEF StreamType, WriterType
  <1>7. Closes'
    BY <1>2, ClosesStay DEF EndStill, StreamInv
  <1>8. Frames'
    BY <1>2, FramesStay DEF FramesStill, StreamInv
  <1>9. Acks'
    BY <1>2, AcksStay DEF AcksStill, Conts, StreamInv
  <1>10. Numbers'
    BY <1>2, NumbersStay DEF NumbersStill, StreamInv
  <1>11. (Content \/ split)'
    BY <1>1, <1>2, <1>3 DEF Content, Units
  <1> QED
    BY <1>6, <1>7, <1>8, <1>9, <1>10, <1>11 DEF StreamInv

\* UMSG_CONT, its header and its count, and UMSG_CLOSE go out.
LEMMA ReaderSendsKeeps ==
    ASSUME UStreamAssumption, StreamInv, ~garbled, setting' = setting,
           ContHeader \/ ContPayload \/ ReaderClose
    PROVE  StreamInv'
  <1> USE DEF writerVars, bufVars
  <1>1. StreamType /\ WriterType /\ ReaderType /\ BufferType /\ packets \in Nat /\ Acks /\ Frames
        /\ mcount \in 0..packets
    BY Params DEF StreamInv, StreamType, ReaderType
  <1>2. UNCHANGED <<toR, writerVars, wrx, wh, mcount, delivered, bufVars, rrx, rh, connected, split, garbled>>
        /\ (rpc' \in Conts => rpc \in Conts)
    BY DEF ContHeader, ContPayload, ReaderClose, PutW, Conts
  <1>3. (Content \/ split)' /\ Numbers'
    BY <1>2, ContentStay, NumbersStay DEF ContentStill, NumbersStill, StreamInv
  <1>4. toW' \in Seq(ToW) /\ losses' \in 0..LossBound' /\ Closes' /\ Frames' /\ Said'
    <2>1. CASE ContHeader
      <3> DEFINE d == Hdr("CONT", 1)
      <3>1. d \in ToW /\ d.type = "CONT" /\ d.k = "hdr" /\ Expects(d) = "CONT" /\ Fits("none", d)
        BY <1>1, HeaderFacts DEF Opens
      <3>2. SentW(d) /\ rpc' = "contpayload" /\ crossed' = (crossed \/ Sending(rh)) /\ rpc = "contheader"
        BY <2>1 DEF ContHeader, PutW, SentW
      <3> HIDE DEF d
      <3>3. ~crossed' => ReaderSends = "none" /\ ReaderSends' = "CONT" /\ rh'.at # "payload"
        BY <1>2, <3>2 DEF ReaderSends, Sending
      <3> QED
        BY <1>1, <1>2, <3>1, <3>2, <3>3, ToWriter
    <2>2. CASE ContPayload
      <3> DEFINE d == Count("CONT", mcount)
      <3>1. d \in ToW /\ d.type = "CONT" /\ d.k = "count" /\ d.n = mcount /\ Expects(d) = "none" /\ Fits("CONT", d)
        <4>1. d \in ToW
          BY <1>1, PayloadFacts
        <4> QED
          BY <4>1 DEF Count, Fits, Expects
      <3>2. SentW(d) /\ rpc' = "contwait" /\ crossed' = crossed /\ rpc = "contpayload"
        BY <2>2 DEF ContPayload, PutW, SentW
      <3> HIDE DEF d
      <3>3. losses' = 0 /\ ~crossed' => ReaderSends = "CONT" /\ ReaderSends' = "none"
        <4>1. losses' = 0 => losses = 0
          BY <1>1, <3>1, <3>2, SentWFacts
        <4> QED
          BY <1>1, <1>2, <3>2, <4>1 DEF ReaderSends, Frames
      <3>4. Says(d)
        BY <1>1, <3>1, <3>2 DEF Acks, Conts, Says, Settled
      <3> QED
        BY <1>1, <1>2, <3>1, <3>2, <3>3, <3>4, ToWriter
    <2>3. CASE ReaderClose
      <3> DEFINE d == Hdr("CLOSE", 1)
      <3>1. d \in ToW /\ d.type = "CLOSE" /\ d.k = "hdr" /\ Expects(d) = "none" /\ Fits("none", d)
        BY <1>1, HeaderFacts DEF Opens
      <3>2. SentW(d) /\ rpc' = "closing" /\ crossed' = (crossed \/ Sending(rh)) /\ rpc = "close"
        BY <2>3 DEF ReaderClose, PutW, SentW
      <3> HIDE DEF d
      <3>3. ~crossed' => ReaderSends = "none" /\ ReaderSends' = "none" /\ rh'.at # "payload"
        BY <1>2, <3>2 DEF ReaderSends, Sending
      <3> QED
        BY <1>1, <1>2, <3>1, <3>2, <3>3, ToWriter
    <2> QED
      BY <2>1, <2>2, <2>3
  <1>5. ReaderType'
    <2>1. CASE ContHeader \/ ContPayload
      BY <1>1, <1>2, <1>4, <2>1, Same DEF ContHeader, ContPayload, ReaderType, Conts
    <2>2. CASE ReaderClose
      <3>1. rtries \in Nat /\ rtries < CloseTries /\ CloseTries \in Nat
        BY <1>1, <2>2, Params DEF ReaderClose, ReaderType, StreamType
      <3>2. rtries + 1 \in 0..CloseTries
        BY <3>1
      <3>3. rtries' \in 0..Max({ReadTries, CloseTries})
        BY <1>1, <2>2, <3>2, Params DEF ReaderClose, StreamType
      <3> QED
        BY <1>1, <1>2, <1>4, <2>2, <3>3, Same DEF ReaderClose, ReaderType, Conts
    <2> QED
      BY <2>1, <2>2
  <1>6. StreamType'
    <2>1. crossed' \in BOOLEAN
      BY <1>1 DEF ContHeader, ContPayload, ReaderClose, StreamType
    <2> QED
      BY <1>1, <1>2, <1>4, <1>5, <2>1, TypesStay, Same DEF StreamType, WriterType
  <1>7. Acks'
    BY <1>1, <1>2, <1>4 DEF Acks, Settled
  <1> QED
    BY <1>3, <1>4, <1>6, <1>7 DEF StreamInv

-----------------------------------------------------------------------------
(* usock_read_handler at the reader                                         *)

\* pthread_cond_signal moves usock_read out of a wait, and only there.
LEMMA ReaderSignals ==
    ASSUME ReaderType
    PROVE  /\ ReaderSignalled = rpc \/ (rpc \in {"contwait", "takewait"} /\ ReaderSignalled \in {"contwoken", "takewoken"})
           /\ ReaderSignalled = "contpayload" <=> rpc = "contpayload"
           /\ ReaderSignalled \in Conts => rpc \in Conts
           /\ ReaderSignalled \in Conts \cup {"idle", "contwoken", "take", "takewait", "takewoken", "eof", "close",
                                             "closing", "hung", "closed"}
           /\ ReaderSignalled \in Conts \cup {"idle", "take", "takewait"} => rtries < ReadTries
           /\ ReaderSignalled = "close" => rpc = "close"
  BY DEF ReaderSignalled, Conts, ReaderType

\* The reader's handler takes the first datagram.
LEMMA ReaderTookFirst ==
    ASSUME UStreamAssumption, StreamInv, ~garbled, toR # <<>>
    PROVE  /\ Head(toR) \in ToR /\ Tail(toR) \in Seq(ToR)
           /\ \A i \in 1..Len(Tail(toR)) : \E j \in 1..Len(toR) : Tail(toR)[i] = toR[j]
           /\ losses = 0 /\ ~crossed =>
                Fits(rrx.type, Head(toR)) /\ Framed(Tail(toR), Expects(Head(toR)), WriterSends)
           /\ Head(toR).type = "CLOSE" => wpc \in Ended
           /\ InOrder(Tail(toR), ReadNow, wcount) /\ InOrder(Tail(toR), 0, wcount)
           /\ Numbered(Head(toR)) => /\ ReadNow <= Head(toR).n /\ Head(toR).n <= wcount
                                     /\ InOrder(Tail(toR), Head(toR).n, wcount)
  <1>1. toR \in Seq(ToR) /\ Closes /\ Frames /\ Numbers /\ packets \in Nat /\ wcount \in Nat /\ ReadNow \in Nat
    BY Params DEF StreamInv, StreamType, WriterType, ReaderType, ReadNow, Umsgs
  <1>2. /\ Head(toR) \in ToR /\ Tail(toR) \in Seq(ToR)
        /\ 1 \in 1..Len(toR) /\ Head(toR) = toR[1]
        /\ \A i \in 1..Len(Tail(toR)) : i + 1 \in 1..Len(toR) /\ Tail(toR)[i] = toR[i + 1]
        /\ \A e, f : Framed(toR, e, f) => Fits(e, Head(toR)) /\ Framed(Tail(toR), Expects(Head(toR)), f)
        /\ \A lo, hi : InOrder(toR, lo, hi) =>
             /\ InOrder(Tail(toR), lo, hi)
             /\ Numbered(Head(toR)) => lo <= Head(toR).n /\ Head(toR).n <= hi /\ InOrder(Tail(toR), Head(toR).n, hi)
    BY <1>1, ReadFirst
  <1>3. losses = 0 /\ ~crossed =>
            Fits(rrx.type, Head(toR)) /\ Framed(Tail(toR), Expects(Head(toR)), WriterSends)
    BY <1>1, <1>2 DEF Frames
  <1>4. \A i \in 1..Len(Tail(toR)) : \E j \in 1..Len(toR) : Tail(toR)[i] = toR[j]
    BY <1>2
  <1>5. Head(toR).type = "CLOSE" => wpc \in Ended
    BY <1>1, <1>2 DEF Closes
  <1>6. /\ InOrder(Tail(toR), ReadNow, wcount)
        /\ Numbered(Head(toR)) => /\ ReadNow <= Head(toR).n /\ Head(toR).n <= wcount
                                  /\ InOrder(Tail(toR), Head(toR).n, wcount)
    BY <1>1, <1>2 DEF Numbers
  <1>7. InOrder(Tail(toR), 0, wcount)
    <2>1. \A d \in ToR : d.n \in 0..(packets + 1)
      BY DEF ToR
    <2>2. \A i \in 1..Len(Tail(toR)) : Tail(toR)[i].n \in Nat
      BY <1>1, <1>2, <2>1
    <2> QED
      BY <1>6, <2>2 DEF InOrder
  <1> QED
    BY <1>2, <1>3, <1>4, <1>5, <1>6, <1>7

\* What taking a datagram does to the frames and to the end, whatever it was.
LEMMA ReaderTook ==
    ASSUME UStreamAssumption, StreamInv, ~garbled, setting' = setting, toR # <<>>, toR' = Tail(toR),
           UNCHANGED <<toW, losses, wrx, wpc, wh, crossed>>,
           rpc' = "contpayload" <=> rpc = "contpayload",
           rh.at # "payload", rh'.at # "payload",
           losses = 0 /\ ~crossed => ~garbled' /\ rrx'.type = Expects(Head(toR))
    PROVE  Closes' /\ Frames'
  <1>1. Closes /\ Frames
    BY DEF StreamInv
  <1>2. \A i \in 1..Len(toR') : \E j \in 1..Len(toR) : toR'[i] = toR[j]
    BY ReaderTookFirst
  <1>3. Closes'
    BY <1>1, <1>2 DEF Closes
  <1>4. Frames'
    <2> SUFFICES ASSUME losses = 0, ~crossed PROVE Frames'
      BY DEF Frames
    <2>1. WriterSends' = WriterSends /\ ReaderSends' = ReaderSends
      BY DEF WriterSends, ReaderSends
    <2>2. Framed(toR', rrx'.type, WriterSends') /\ ~garbled'
      BY <2>1, ReaderTookFirst
    <2>3. Framed(toW', wrx'.type, ReaderSends')
      BY <1>1, <2>1 DEF Frames
    <2> QED
      BY <1>1, <2>1, <2>2, <2>3 DEF Frames
  <1> QED
    BY <1>3, <1>4

\* A datagram is taken for a header, or for what belongs to one.
LEMMA ReaderReadsKeeps ==
    ASSUME UStreamAssumption, StreamInv, ~garbled, setting' = setting, ReaderReads
    PROVE  StreamInv'
  <1> DEFINE d == Head(toR)
  <1> USE DEF writerVars, bufVars
  <1>1. StreamType /\ WriterType /\ ReaderType /\ BufferType /\ packets \in Nat /\ wcount \in Nat /\ Acks /\ Numbers
        /\ rcount \in Nat
    BY Params DEF StreamInv, StreamType, WriterType, BufferType
  <1>2. toR # <<>> /\ toR' = Tail(toR) /\ rh.at = "read"
        /\ UNCHANGED <<rlock, bufVars, connected, toW, losses, writerVars, wrx, wh, rtries, mcount, delivered, crossed, split>>
    BY DEF ReaderReads, HandlerUnchanged
  <1>3. /\ d \in ToR /\ toR' \in Seq(ToR)
        /\ losses = 0 /\ ~crossed => Fits(rrx.type, d)
        /\ InOrder(toR', 0, wcount)
        /\ Numbered(d) => ReadNow <= d.n /\ d.n <= wcount /\ InOrder(toR', d.n, wcount)
    BY <1>2, ReaderTookFirst
  <1>4. /\ d.n \in 0..(packets + 1) /\ d.k \in {"hdr", "data", "count"}
        /\ d.k = "hdr" /\ d.type \notin {"CLOSE", "REPLY_CLOSE"} => d.type \in {"PACK", "REPLY_CONT"}
        /\ d.k = "data" \/ d.type = "PACK" => d.n \in 1..packets
    <2>1. \A c \in ToR : /\ c.n \in 0..(packets + 1) /\ c.k \in {"hdr", "data", "count"}
                         /\ c.k = "hdr" /\ c.type \notin {"CLOSE", "REPLY_CLOSE"} => c.type \in {"PACK", "REPLY_CONT"}
                         /\ c.k = "data" \/ c.type = "PACK" => c.n \in 1..packets
      BY DEF ToR
    <2> QED
      BY <1>3, <2>1
  <1>5. \/ /\ rrx = Nothing /\ d.k = "hdr" /\ d.type \notin {"CLOSE", "REPLY_CLOSE"}
           /\ rrx' = Umsg(d.type, d.n) /\ UNCHANGED <<rh, rpc, garbled>>
        \/ garbled' = TRUE /\ rrx = Nothing /\ d.k # "hdr" /\ UNCHANGED <<rrx, rpc, rh>>
        \/ /\ rrx.type = "REPLY_CONT" /\ rpc' = (IF d.n = rcount THEN ReaderSignalled ELSE rpc)
           /\ rrx' = Nothing /\ garbled' = (garbled \/ d.k # "count") /\ UNCHANGED rh
        \/ /\ rrx.type = "PACK" /\ d.k = "data"
           /\ rh' = [at |-> "pack", type |-> rrx.type, n |-> rrx.n]
           /\ rrx' = Umsg("none", d.n) /\ UNCHANGED <<rpc, garbled>>
        \/ garbled' = TRUE /\ rrx.type = "PACK" /\ d.k # "data" /\ UNCHANGED <<rrx, rpc, rh>>
    BY DEF ReaderReads
  <1> HIDE DEF d
  <1>6. (Content \/ split)'
    BY <1>2, ContentStay DEF ContentStill, StreamInv
  <1>7. CASE /\ rrx = Nothing /\ d.k = "hdr" /\ d.type \notin {"CLOSE", "REPLY_CLOSE"}
             /\ rrx' = Umsg(d.type, d.n) /\ UNCHANGED <<rh, rpc, garbled>>
    <2>1. d.type \in {"PACK", "REPLY_CONT"} /\ rrx' \in Umsgs /\ rrx'.type = d.type /\ rrx'.n = d.n
      BY <1>4, <1>7 DEF Umsg, Umsgs
    <2>2. Closes' /\ Frames'
      BY <1>2, <1>7, <2>1, ReaderTook DEF Expects, Opens, d
    <2>3. StreamType'
      <3>1. ReaderType'
        BY <1>1, <1>2, <1>4, <1>7, <2>1, Same DEF ReaderType
      <3> QED
        BY <1>1, <1>2, <1>3, <1>7, <3>1, TypesStay, Same DEF StreamType
    <2>4. Acks'
      BY <1>2, <1>7, AcksStay DEF AcksStill, StreamInv
    <2>5. Numbers'
      <3>1. ReadNow' = IF d.type = "PACK" THEN d.n ELSE 0
        BY <2>1 DEF ReadNow
      <3>2. d.type = "PACK" => d.n <= wcount /\ InOrder(toR', d.n, wcount)
        BY <1>3, <1>7 DEF Numbered
      <3>3. InOrder(toR', ReadNow', wcount) /\ ReadNow' <= wcount
        BY <1>1, <1>3, <2>1, <3>1, <3>2
      <3> QED
        BY <1>1, <1>2, <1>7, <3>3 DEF Numbers, InOrder
    <2> QED
      BY <1>6, <2>2, <2>3, <2>4, <2>5 DEF StreamInv
  <1>8. CASE \/ garbled' = TRUE /\ rrx = Nothing /\ d.k # "hdr" /\ UNCHANGED <<rrx, rpc, rh>>
             \/ garbled' = TRUE /\ rrx.type = "PACK" /\ d.k # "data" /\ UNCHANGED <<rrx, rpc, rh>>
    <2>1. ~(losses = 0 /\ ~crossed)
      BY <1>3, <1>8 DEF Fits, Nothing
    <2>2. Closes' /\ Frames'
      BY <1>2, <1>8, <2>1, ReaderTook
    <2>3. StreamType'
      <3>1. ReaderType'
        BY <1>1, <1>2, <1>8, Same DEF ReaderType
      <3> QED
        BY <1>1, <1>2, <1>3, <1>8, <3>1, TypesStay, Same DEF StreamType
    <2> QED
      BY <1>8, <2>2, <2>3 DEF StreamInv
  <1>9. CASE /\ rrx.type = "REPLY_CONT" /\ rpc' = (IF d.n = rcount THEN ReaderSignalled ELSE rpc)
             /\ rrx' = Nothing /\ garbled' = (garbled \/ d.k # "count") /\ UNCHANGED rh
    <2>1. losses = 0 /\ ~crossed => d.k = "count"
      BY <1>3, <1>9 DEF Fits
    <2>2. /\ rpc' = "contpayload" <=> rpc = "contpayload"
          /\ rpc' \in Conts => rpc \in Conts
          /\ rpc' \in Conts \cup {"idle", "contwoken", "take", "takewait", "takewoken", "eof", "close",
                                  "closing", "hung", "closed"}
          /\ rpc' \in Conts \cup {"idle", "take", "takewait"} => rtries < ReadTries
          /\ rpc' = "close" => rpc = "close"
      BY <1>1, <1>9, ReaderSignals DEF ReaderType
    <2>3. rrx'.type = "none" /\ (d.k = "count" => Expects(d) = "none")
      BY <1>9 DEF Nothing, Expects
    <2>4. Closes' /\ Frames'
      BY <1>2, <1>9, <2>1, <2>2, <2>3, ReaderTook DEF d
    <2>5. StreamType'
      <3>1. rrx' \in Umsgs
        BY <1>1, <1>9 DEF Nothing, Umsgs
      <3>2. ReaderType'
        BY <1>1, <1>2, <1>9, <2>2, <2>3, <3>1, Same DEF ReaderType
      <3> QED
        BY <1>1, <1>2, <1>3, <1>9, <3>2, TypesStay, Same DEF StreamType
    <2>6. Acks'
      BY <1>2, <1>9, <2>2, AcksStay DEF AcksStill, StreamInv
    <2>7. Numbers'
      <3>1. ReadNow' = 0
        BY <2>3 DEF ReadNow
      <3> QED
        BY <1>1, <1>2, <1>3, <1>9, <3>1 DEF Numbers, InOrder
    <2> QED
      BY <1>6, <2>4, <2>5, <2>6, <2>7 DEF StreamInv
  <1>10. CASE /\ rrx.type = "PACK" /\ d.k = "data"
              /\ rh' = [at |-> "pack", type |-> rrx.type, n |-> rrx.n]
              /\ rrx' = Umsg("none", d.n) /\ UNCHANGED <<rpc, garbled>>
    <2>1. rrx' \in Umsgs /\ rrx'.type = "none" /\ rrx'.n = d.n /\ d.n \in 1..packets /\ Expects(d) = "none"
      BY <1>4, <1>10 DEF Umsg, Umsgs, Expects
    <2>2. rrx.n \in 1..packets /\ rh'.at = "pack" /\ rh'.n = rrx.n /\ rh'.type = "PACK"
          /\ rh' \in [at : {"read", "pack", "packed", "header", "payload", "dead"},
                      type : {"none", "PACK", "BUSY", "PACK_COUNT"}, n : 0..packets]
      BY <1>1, <1>10 DEF ReaderType
    <2>3. Closes' /\ Frames'
      BY <1>2, <1>10, <2>1, <2>2, ReaderTook DEF d
    <2>4. StreamType'
      <3>1. ReaderType'
        BY <1>1, <1>2, <1>10, <2>1, <2>2, Same DEF ReaderType
      <3> QED
        BY <1>1, <1>2, <1>3, <1>10, <3>1, TypesStay, Same DEF StreamType
    <2>5. Acks'
      BY <1>2, <1>10, <2>2, AcksStay DEF AcksStill, Answered, StreamInv
    <2>6. Numbers'
      <3>1. ReadNow' = 0 /\ ReadNow = rrx.n
        BY <1>10, <2>1 DEF ReadNow
      <3>2. rrx.n <= d.n /\ d.n <= wcount
        BY <1>3, <1>10, <3>1 DEF Numbered
      <3>3. wcount <= rcount + 1
        BY <1>1 DEF Acks, Settled
      <3>4. rrx.n <= wcount /\ (rrx.n <= rcount \/ rrx.n = d.n)
        BY <1>1, <2>1, <2>2, <3>2, <3>3
      <3> QED
        BY <1>1, <1>2, <1>3, <2>1, <2>2, <3>1, <3>4 DEF Numbers, InOrder
    <2> QED
      BY <1>6, <2>3, <2>4, <2>5, <2>6 DEF StreamInv
  <1> QED
    BY <1>5, <1>7, <1>8, <1>9, <1>10

\* A packet is taken, the next one or one that came before.
LEMMA TakePacketKeeps ==
    ASSUME UStreamAssumption, StreamInv, ~garbled, setting' = setting, TakePacket
    PROVE  StreamInv'
  <1> USE DEF writerVars, bufVars
  <1>1. StreamType /\ WriterType /\ ReaderType /\ BufferType /\ packets \in Nat /\ wcount \in Nat /\ Acks /\ Numbers
        /\ (Content \/ split) /\ rcount \in Nat /\ RingSize \in Nat /\ PacketLen \in Nat \ {0} /\ tsize \in Nat
    BY Params DEF StreamInv, StreamType, WriterType, BufferType
  <1>2. /\ rh.at = "pack" /\ rrx' = Nothing
        /\ UNCHANGED <<toR, rlock, connected, garbled, toW, losses, writerVars, wrx, wh, rtries, mcount, delivered, crossed, split>>
    BY DEF TakePacket, HandlerUnchanged
  <1>3. /\ rh \in [at : {"read", "pack", "packed", "header", "payload", "dead"},
                   type : {"none", "PACK", "BUSY", "PACK_COUNT"}, n : 0..packets]
        /\ rh.type = "PACK" /\ rrx.type = "none" /\ rrx.n \in 1..packets /\ rh.n \in Nat
        /\ rh.n <= wcount /\ (rh.n <= rcount \/ rh.n = rrx.n) /\ ReadNow = 0 /\ ReadNow' = 0
        /\ rrx' \in Umsgs /\ rrx'.type = "none"
    BY <1>1, <1>2 DEF ReaderType, Numbers, ReadNow, Nothing, Umsgs
  <1>4. /\ rpc' = "contpayload" <=> rpc = "contpayload"
        /\ rpc' \in Conts => rpc \in Conts
        /\ rpc' \in Conts \cup {"idle", "contwoken", "take", "takewait", "takewoken", "eof", "close",
                                "closing", "hung", "closed"}
        /\ rpc' \in Conts \cup {"idle", "take", "takewait"} => rtries < ReadTries
        /\ rpc' = "close" => rpc = "close"
    <2>1. rpc' = rpc \/ rpc' = ReaderSignalled
      BY DEF TakePacket
    <2> QED
      BY <1>1, <2>1, ReaderSignals DEF ReaderType
  <1>5. /\ rh' \in [at : {"read", "pack", "packed", "header", "payload", "dead"},
                    type : {"none", "PACK", "BUSY", "PACK_COUNT"}, n : 0..packets]
        /\ (rh'.at = "packed" /\ rh'.type = "PACK" /\ rh'.n = rh.n) \/ rh'.at = "dead"
    <2>1. rh' = [rh EXCEPT !.at = "packed"] \/ rh' = Dead
      BY DEF TakePacket
    <2> QED
      BY <1>1, <1>3, <2>1 DEF Dead
  <1>6. \/ /\ rh.n = rcount + 1 /\ rcount' = rh.n /\ rh'.at = "packed"
           /\ \/ RingSize - Len(rbuf) >= PacketLen /\ rbuf' = rbuf \o Units(rrx.n) /\ UNCHANGED <<tbuf, tsize>>
              \/ tbuf' = Units(rrx.n) /\ tsize' = PacketLen /\ UNCHANGED rbuf
        \/ /\ rh.n <= rcount \/ rh'.at = "dead"
           /\ UNCHANGED <<rbuf, tbuf, tsize, rcount>>
    <2>1. \/ /\ rh.n > rcount /\ rh.n <= rcount + 1
             /\ rcount' = rh.n
             /\ \/ RingSize - Len(rbuf) >= PacketLen /\ rbuf' = rbuf \o Units(rrx.n) /\ UNCHANGED <<tbuf, tsize>>
                \/ tbuf' = Units(rrx.n) /\ tsize' = PacketLen /\ UNCHANGED rbuf
             /\ rh' = [rh EXCEPT !.at = "packed"]
          \/ ~(rh.n > rcount) /\ UNCHANGED bufVars
          \/ rh' = Dead /\ UNCHANGED bufVars
      BY DEF TakePacket, NewPacket
    <2> QED
      BY <1>1, <1>3, <1>5, <2>1 DEF Dead
  <1>7. ReaderType'
    BY <1>1, <1>2, <1>3, <1>4, <1>5, Same DEF ReaderType, Nothing
  <1>8. Closes'
    BY <1>2, ClosesStay DEF EndStill, StreamInv
  <1>9. Frames'
    BY <1>2, <1>3, <1>4, <1>5, FramesStay DEF FramesStill, StreamInv
  <1>10. CASE /\ rh.n <= rcount \/ rh'.at = "dead"
              /\ UNCHANGED <<rbuf, tbuf, tsize, rcount>>
    <2>1. StreamType'
      BY <1>1, <1>2, <1>7, <1>10, TypesStay, Same DEF StreamType, WriterType
    <2>2. Acks'
      <3>1. rh'.at \in Answered => rh'.n <= rcount' /\ rh'.type # "PACK_COUNT"
        BY <1>5, <1>10 DEF Answered
      <3> QED
        BY <1>1, <1>2, <1>4, <1>10, <3>1 DEF Acks, Said, Says, Settled
    <2>3. Numbers'
      BY <1>1, <1>2, <1>3, <1>5, <1>10 DEF Numbers, InOrder
    <2>4. (Content \/ split)'
      BY <1>2, <1>10, ContentStay DEF ContentStill, StreamInv
    <2> QED
      BY <1>8, <1>9, <2>1, <2>2, <2>3, <2>4 DEF StreamInv
  <1>11. CASE /\ rh.n = rcount + 1 /\ rcount' = rh.n /\ rh'.at = "packed"
              /\ \/ RingSize - Len(rbuf) >= PacketLen /\ rbuf' = rbuf \o Units(rrx.n) /\ UNCHANGED <<tbuf, tsize>>
                 \/ tbuf' = Units(rrx.n) /\ tsize' = PacketLen /\ UNCHANGED rbuf
    <2>1. wcount = rcount + 1 /\ rrx.n = rcount + 1 /\ tsize = 0 /\ rcount' = rcount + 1 /\ rh'.n = rcount + 1
          /\ rcount + 1 \in 1..packets
      BY <1>1, <1>3, <1>5, <1>11 DEF Acks, Settled
    <2>2. Units(rrx.n) \in Seq(Unit) /\ Len(Units(rrx.n)) = PacketLen
          /\ First((rrx.n - 1) * PacketLen) \o Units(rrx.n) = First(rrx.n * PacketLen)
      BY <1>1, <1>3, Joined DEF StreamType
    <2>3. BufferType'
      <3>1. rbuf \in Seq(Unit) /\ Len(rbuf) \in Nat /\ Len(rbuf) <= RingSize
        BY <1>1 DEF BufferType
      <3> DEFINE u == Units(rrx.n)
      <3>2. u \in Seq(Unit) /\ Len(u) = PacketLen
        BY <2>2
      <3>3. tbuf \in Seq(Unit) /\ Len(tbuf) \in {0, PacketLen}
        BY <1>1 DEF BufferType
      <3>4. \/ RingSize - Len(rbuf) >= PacketLen /\ rbuf' = rbuf \o u /\ tbuf' = tbuf /\ tsize' = tsize
            \/ tbuf' = u /\ tsize' = PacketLen /\ rbuf' = rbuf
        BY <1>11
      <3> HIDE DEF u
      <3>5. rbuf \o u \in Seq(Unit) /\ Len(rbuf \o u) = Len(rbuf) + PacketLen
        BY <3>1, <3>2
      <3>6. rbuf' \in Seq(Unit) /\ Len(rbuf') <= RingSize
        <4>1. CASE RingSize - Len(rbuf) >= PacketLen /\ rbuf' = rbuf \o u
          <5>1. Len(rbuf) + PacketLen <= RingSize
            BY <1>1, <3>1, <4>1
          <5> QED
            BY <3>5, <4>1, <5>1
        <4>2. CASE rbuf' = rbuf
          BY <3>1, <4>2
        <4> QED
          BY <3>4, <4>1, <4>2
      <3>7. tbuf' \in Seq(Unit) /\ Len(tbuf') \in {0, PacketLen} /\ (tsize' > 0 => Len(tbuf') = PacketLen)
            /\ tsize' \in 0..PacketLen
        BY <1>1, <2>1, <3>2, <3>3, <3>4
      <3>8. rcount' \in 0..packets
        BY <1>1, <2>1
      <3> QED
        BY <1>1, <1>2, <3>6, <3>7, <3>8, Same DEF BufferType
    <2>4. StreamType'
      BY <1>1, <1>2, <1>7, <2>3, TypesStay, Same DEF StreamType, WriterType
    <2>5. Acks'
      <3>1. \A d \in ToW : d.n \in 0..(packets + 1)
        BY DEF ToW
      <3>2. \A i \in 1..Len(toW) : toW[i].n \in Nat
        BY <1>1, <3>1 DEF ReaderType
      <3>3. mcount \in Nat /\ wh.n \in Nat /\ toW' = toW
        BY <1>1, <1>2 DEF ReaderType, WriterType
      <3>4. \A i \in Nat : i <= rcount => i <= rcount' /\ i # rcount'
        BY <1>1, <2>1
      <3>5. Said'
        BY <1>1, <3>2, <3>3, <3>4 DEF Acks, Said, Says, Settled
      <3>6. rpc' \in Conts => mcount' <= rcount' /\ mcount' # rcount'
        BY <1>1, <1>2, <1>4, <3>3, <3>4 DEF Acks, Settled
      <3>7. wh'.at \in {"header", "payload"} => wh'.n <= rcount' /\ wh'.n # rcount'
        BY <1>1, <1>2, <3>3, <3>4 DEF Acks, Settled
      <3>8. wcount' - 1 <= rcount' /\ wcount' - 1 # rcount' /\ rcount' <= wcount' /\ wpc' # "woken"
        BY <1>1, <1>2, <2>1 DEF Acks
      <3>9. rh'.at \in Answered => rh'.n <= rcount' /\ rh'.type # "PACK_COUNT"
        BY <1>1, <1>5, <1>11, <2>1
      <3> QED
        BY <3>5, <3>6, <3>7, <3>8, <3>9 DEF Acks, Settled
    <2>6. Numbers'
      BY <1>1, <1>2, <1>3, <1>5, <1>11 DEF Numbers, InOrder
    <2>7. ASSUME ~split PROVE Content'
      <3>1. delivered \o rbuf = First(rcount * PacketLen) /\ rcount = rrx.n - 1
        BY <1>1, <2>1, <2>7 DEF Content
      <3>2. CASE rbuf' = rbuf \o Units(rrx.n) /\ UNCHANGED <<tbuf, tsize>>
        <4>1. delivered \in Seq(Unit) /\ rbuf \in Seq(Unit) /\ Units(rrx.n) \in Seq(Unit)
          BY <1>1, <2>2 DEF BufferType
        <4>2. (delivered \o rbuf) \o Units(rrx.n) = delivered \o (rbuf \o Units(rrx.n))
          BY ONLY <4>1, Appended
        <4>3. delivered' \o rbuf' = First(rcount' * PacketLen)
          BY <1>2, <1>11, <2>1, <2>2, <3>1, <3>2, <4>2
        <4> QED
          BY <2>1, <3>2, <4>3 DEF Content
      <3>3. CASE tbuf' = Units(rrx.n) /\ tsize' = PacketLen /\ UNCHANGED rbuf
        <4>1. Units(rcount)' = Units(rcount')
          BY DEF Units
        <4> QED
          BY <1>1, <1>2, <2>1, <3>1, <3>3, <4>1 DEF Content
      <3> QED
        BY <1>11, <3>2, <3>3
    <2> QED
      BY <1>2, <1>8, <1>9, <2>4, <2>5, <2>6, <2>7 DEF StreamInv
  <1> QED
    BY <1>6, <1>10, <1>11

\* The answer is chosen by what tbuf holds.
LEMMA ChooseReplyKeeps ==
    ASSUME UStreamAssumption, StreamInv, ~garbled, setting' = setting, ChooseReply
    PROVE  StreamInv'
  <1> USE DEF writerVars, bufVars
  <1>1. StreamType /\ WriterType /\ ReaderType /\ BufferType /\ Acks /\ tsize \in Nat
    BY DEF StreamInv, StreamType, BufferType
  <1>2. /\ rh.at = "packed"
        /\ UNCHANGED <<toR, rpc, bufVars, rlock, rrx, connected, garbled, toW, losses, writerVars, wrx, wh, rtries,
                       mcount, delivered, crossed, split>>
    BY DEF ChooseReply, HandlerUnchanged
  <1>3. /\ rh' \in [at : {"read", "pack", "packed", "header", "payload", "dead"},
                    type : {"none", "PACK", "BUSY", "PACK_COUNT"}, n : 0..packets]
        /\ rh'.at = "header" /\ rh'.type = (IF tsize > 0 THEN "BUSY" ELSE "PACK_COUNT") /\ rh'.n = rh.n
    BY <1>1 DEF ChooseReply, ReaderType
  <1>4. ReaderType'
    BY <1>1, <1>2, <1>3, Same DEF ReaderType
  <1>5. StreamType'
    BY <1>1, <1>2, <1>4, TypesStay, Same DEF StreamType, WriterType
  <1>6. Closes'
    BY <1>2, ClosesStay DEF EndStill, StreamInv
  <1>7. Frames'
    BY <1>2, <1>3, FramesStay DEF FramesStill, StreamInv
  <1>8. Acks'
    <2>1. rh.n <= rcount
      BY <1>1, <1>2 DEF Acks, Answered
    <2>2. rh'.type = "PACK_COUNT" => rh'.n <= rcount' /\ tsize' = 0
      BY <1>1, <1>2, <1>3, <2>1
    <2> QED
      BY <1>1, <1>2, <1>3, <2>1, <2>2 DEF Acks, Said, Says, Settled
  <1>9. Numbers'
    BY <1>2, <1>3, NumbersStay DEF NumbersStill, StreamInv
  <1>10. (Content \/ split)'
    BY <1>2, ContentStay DEF ContentStill, StreamInv
  <1> QED
    BY <1>5, <1>6, <1>7, <1>8, <1>9, <1>10 DEF StreamInv

\* And sent, its header and its count.
LEMMA ReaderRepliesKeeps ==
    ASSUME UStreamAssumption, StreamInv, ~garbled, setting' = setting, ReaderReplies
    PROVE  StreamInv'
  <1> USE DEF writerVars, bufVars, readerVars
  <1>1. StreamType /\ WriterType /\ ReaderType /\ BufferType /\ packets \in Nat /\ Acks /\ Frames
    BY Params DEF StreamInv, StreamType
  <1>2. UNCHANGED <<toR, writerVars, wrx, wh, readerVars, bufVars, rlock, rrx, connected, split, garbled>>
    BY DEF ReaderReplies, PutW
  <1>3. /\ rh \in [at : {"read", "pack", "packed", "header", "payload", "dead"},
                   type : {"none", "PACK", "BUSY", "PACK_COUNT"}, n : 0..packets]
        /\ rh.at \in {"header", "payload"} => /\ rh.type \in {"BUSY", "PACK_COUNT"} /\ rh.n <= rcount
                                              /\ rh.type = "PACK_COUNT" => Settled(rh.n)
    BY <1>1 DEF ReaderType, Acks, Answered
  <1>4. CASE /\ rh.at = "header" /\ PutW(Hdr(rh.type, 1)) /\ rh' = [rh EXCEPT !.at = "payload"]
             /\ crossed' = (crossed \/ rpc = "contpayload")
    <2> DEFINE d == Hdr(rh.type, 1)
    <2>1. d \in ToW
      BY <1>1, <1>3, <1>4, HeaderFacts
    <2>2. d.type = rh.type /\ d.k = "hdr" /\ Expects(d) = rh.type /\ Fits("none", d)
      BY <1>3, <1>4 DEF Hdr, Expects, Opens, Fits
    <2>3. SentW(d)
      BY <1>4 DEF PutW, SentW
    <2> HIDE DEF d
    <2>4. /\ rh' \in [at : {"read", "pack", "packed", "header", "payload", "dead"},
                      type : {"none", "PACK", "BUSY", "PACK_COUNT"}, n : 0..packets]
          /\ rh'.at = "payload" /\ rh'.type = rh.type /\ rh'.n = rh.n
      BY <1>3, <1>4
    <2>5. ~crossed' => ReaderSends = "none" /\ ReaderSends' = rh.type /\ rpc' # "contpayload"
      BY <1>2, <1>4, <2>4 DEF ReaderSends
    <2>6. toW' \in Seq(ToW) /\ losses' \in 0..LossBound' /\ Closes' /\ Frames' /\ Said'
      BY <1>2, <1>3, <1>4, <2>1, <2>2, <2>3, <2>5, ToWriter
    <2>7. StreamType'
      <3>1. ReaderType'
        BY <1>1, <1>2, <1>3, <1>4, <2>4, <2>6, Same DEF ReaderType
      <3> QED
        BY <1>1, <1>2, <1>4, <2>6, <3>1, TypesStay, Same DEF StreamType, WriterType
    <2>8. Acks'
      BY <1>1, <1>2, <1>3, <1>4, <2>4, <2>6 DEF Acks, Settled
    <2>9. Numbers' /\ (Content \/ split)'
      BY <1>2, <2>4, NumbersStay, ContentStay DEF NumbersStill, ContentStill, StreamInv
    <2> QED
      BY <2>6, <2>7, <2>8, <2>9 DEF StreamInv
  <1>5. CASE rh.at = "payload" /\ PutW(Count(rh.type, rh.n)) /\ rh' = Reading /\ UNCHANGED crossed
    <2> DEFINE d == Count(rh.type, rh.n)
    <2>1. d \in ToW
      <3>1. rh.n \in 0..packets /\ rh.type \in {"PACK_COUNT", "BUSY", "CONT"}
        BY <1>3, <1>5
      <3> QED
        BY <1>1, <3>1, PayloadFacts
    <2>2. d.type = rh.type /\ d.k = "count" /\ d.n = rh.n /\ Expects(d) = "none" /\ Fits(rh.type, d)
      BY <1>3, <1>5 DEF Count, Expects, Fits
    <2>3. SentW(d)
      BY <1>5 DEF PutW, SentW
    <2> HIDE DEF d
    <2>4. /\ rh' \in [at : {"read", "pack", "packed", "header", "payload", "dead"},
                      type : {"none", "PACK", "BUSY", "PACK_COUNT"}, n : 0..packets]
          /\ rh'.at = "read"
      BY <1>1, <1>5 DEF Reading
    <2>5. losses' = 0 /\ ~crossed' => ReaderSends = rh.type /\ ReaderSends' = "none"
      <3>1. losses' = 0 => losses = 0
        BY <1>1, <2>1, <2>3, SentWFacts
      <3> QED
        BY <1>1, <1>2, <1>5, <2>4, <3>1 DEF ReaderSends, Frames
    <2>6. Says(d) /\ d.type # "REPLY_CLOSE"
      BY <1>3, <1>5, <2>2 DEF Says
    <2>7. toW' \in Seq(ToW) /\ losses' \in 0..LossBound' /\ Closes' /\ Frames' /\ Said'
      BY <1>2, <1>5, <2>1, <2>2, <2>3, <2>4, <2>5, <2>6, ToWriter
    <2>8. StreamType'
      <3>1. ReaderType'
        BY <1>1, <1>2, <1>5, <2>4, <2>7, Same DEF ReaderType
      <3> QED
        BY <1>1, <1>2, <1>5, <2>7, <3>1, TypesStay, Same DEF StreamType, WriterType
    <2>9. Acks'
      BY <1>1, <1>2, <2>4, <2>7 DEF Acks, Settled, Answered
    <2>10. Numbers' /\ (Content \/ split)'
      BY <1>2, <2>4, NumbersStay, ContentStay DEF NumbersStill, ContentStill, StreamInv
    <2> QED
      BY <2>7, <2>8, <2>9, <2>10 DEF StreamInv
  <1> QED
    BY <1>4, <1>5 DEF ReaderReplies

\* UMSG_CLOSE is answered, and the handler ends.
LEMMA TakeCloseKeeps ==
    ASSUME UStreamAssumption, StreamInv, ~garbled, setting' = setting, TakeClose
    PROVE  StreamInv'
  <1> DEFINE d == Hdr("REPLY_CLOSE", 1)
  <1> USE DEF writerVars, bufVars
  <1>1. StreamType /\ WriterType /\ ReaderType /\ BufferType /\ packets \in Nat /\ Acks /\ Numbers /\ Frames /\ Closes
    BY Params DEF StreamInv, StreamType
  <1>2. toR # <<>> /\ toR' = Tail(toR) /\ rh.at = "read" /\ rrx = Nothing /\ Head(toR).type = "CLOSE"
        /\ SentW(d) /\ connected' = FALSE /\ rlock' = "free" /\ rh' = Dead /\ rpc' = ReaderSignalled
        /\ crossed' = (crossed \/ rpc = "contpayload")
        /\ UNCHANGED <<writerVars, wrx, wh, rtries, mcount, delivered, bufVars, rrx, split, garbled>>
    BY DEF TakeClose, SentW
  <1>3. d \in ToW /\ d.type = "REPLY_CLOSE" /\ d.k = "hdr" /\ Expects(d) = "none" /\ Fits("none", d)
    BY <1>1, HeaderFacts DEF Opens
  <1> HIDE DEF d
  <1>4. /\ toR' \in Seq(ToR)
        /\ \A i \in 1..Len(toR') : \E j \in 1..Len(toR) : toR'[i] = toR[j]
        /\ losses = 0 /\ ~crossed => Framed(toR', Expects(Head(toR)), WriterSends)
        /\ wpc \in Ended
        /\ InOrder(toR', ReadNow, wcount)
    BY <1>2, ReaderTookFirst
  <1>5. /\ toW' \in Seq(ToW) /\ losses' \in 0..LossBound
        /\ losses' = 0 => losses = 0
        /\ \A i \in 1..Len(toW') : (\E j \in 1..Len(toW) : toW'[i] = toW[j]) \/ toW'[i] = d
        /\ losses' = 0 => \A e, f : Framed(toW, e, f) /\ Fits(f, d) => Framed(toW', e, Expects(d))
    BY <1>1, <1>2, <1>3, SentWFacts
  <1>6. /\ rpc' = "contpayload" <=> rpc = "contpayload"
        /\ rpc' \in Conts => rpc \in Conts
        /\ rpc' \in Conts \cup {"idle", "contwoken", "take", "takewait", "takewoken", "eof", "close",
                                "closing", "hung", "closed"}
        /\ rpc' \in Conts \cup {"idle", "take", "takewait"} => rtries < ReadTries
        /\ rpc' = "close" => rpc = "close"
    BY <1>1, <1>2, ReaderSignals DEF ReaderType
  <1>7. StreamType'
    <2>1. /\ rh' \in [at : {"read", "pack", "packed", "header", "payload", "dead"},
                      type : {"none", "PACK", "BUSY", "PACK_COUNT"}, n : 0..packets]
          /\ rh'.at = "dead" /\ rrx'.type = "none"
      BY <1>1, <1>2 DEF Dead, Nothing
    <2>2. ReaderType'
      BY <1>1, <1>2, <1>5, <1>6, <2>1, Same DEF ReaderType
    <2> QED
      BY <1>1, <1>2, <1>4, <1>5, <2>2, TypesStay, Same DEF StreamType, WriterType
  <1>8. Closes'
    BY <1>2, <1>4 DEF Closes
  <1>9. Frames'
    <2> SUFFICES ASSUME losses' = 0, ~crossed' PROVE Frames'
      BY DEF Frames
    <2>1. losses = 0 /\ ~crossed /\ rpc # "contpayload" /\ rpc' # "contpayload" /\ rh'.at # "payload"
      BY <1>2, <1>5, <1>6 DEF Dead
    <2>2. ReaderSends = "none" /\ ReaderSends' = "none" /\ WriterSends' = WriterSends
      BY <1>2, <2>1 DEF WriterSends, ReaderSends
    <2>3. Expects(Head(toR)) = "none" /\ rrx.type = "none"
      BY <1>2 DEF Expects, Opens, Nothing
    <2>4. Framed(toR', rrx'.type, WriterSends')
      BY <1>2, <1>4, <2>1, <2>2, <2>3
    <2>5. Framed(toW', wrx'.type, ReaderSends')
      BY <1>1, <1>2, <1>3, <1>5, <2>1, <2>2 DEF Frames
    <2> QED
      BY <1>1, <1>2, <2>1, <2>4, <2>5 DEF Frames
  <1>10. Acks'
    <2>1. Said'
      BY <1>1, <1>2, <1>3, <1>5 DEF Acks, Said, Says, Settled
    <2> QED
      BY <1>1, <1>2, <1>6, <2>1 DEF Acks, Settled, Dead, Answered
  <1>11. Numbers'
    BY <1>1, <1>2, <1>4 DEF Numbers, InOrder, ReadNow, Dead
  <1>12. (Content \/ split)'
    BY <1>2, ContentStay DEF ContentStill, StreamInv
  <1> QED
    BY <1>7, <1>8, <1>9, <1>10, <1>11, <1>12 DEF StreamInv

\* UMSG_REPLY_CLOSE ends the handler.
LEMMA TakeReplyCloseKeeps ==
    ASSUME UStreamAssumption, StreamInv, ~garbled, setting' = setting, TakeReplyClose
    PROVE  StreamInv'
  <1> USE DEF writerVars, bufVars
  <1>1. StreamType /\ WriterType /\ ReaderType /\ BufferType /\ packets \in Nat /\ Numbers
    BY Params DEF StreamInv, StreamType
  <1>2. toR # <<>> /\ toR' = Tail(toR) /\ rh.at = "read" /\ rrx = Nothing /\ Head(toR).type = "REPLY_CLOSE"
        /\ rpc' = (IF rpc = "closing" THEN "hung" ELSE rpc) /\ rlock' = "free" /\ rh' = Dead
        /\ UNCHANGED <<bufVars, rrx, connected, garbled, toW, losses, writerVars, wrx, wh, rtries, mcount,
                       delivered, crossed, split>>
    BY DEF TakeReplyClose, HandlerUnchanged
  <1>3. toR' \in Seq(ToR) /\ InOrder(toR', ReadNow, wcount)
    BY <1>2, ReaderTookFirst
  <1>4. Closes' /\ Frames'
    <2>1. Expects(Head(toR)) = "none" /\ rrx'.type = "none" /\ rh'.at # "payload"
          /\ (rpc' = "contpayload" <=> rpc = "contpayload")
      BY <1>2 DEF Expects, Opens, Nothing, Dead
    <2> QED
      BY <1>2, <2>1, ReaderTook
  <1>5. StreamType'
    <2>1. /\ rh' \in [at : {"read", "pack", "packed", "header", "payload", "dead"},
                      type : {"none", "PACK", "BUSY", "PACK_COUNT"}, n : 0..packets]
          /\ rh'.at = "dead" /\ rrx'.type = "none"
      BY <1>1, <1>2 DEF Dead, Nothing
    <2>2. ReaderType'
      BY <1>1, <1>2, <2>1, Same DEF ReaderType, Conts
    <2> QED
      BY <1>1, <1>2, <1>3, <2>2, TypesStay, Same DEF StreamType
  <1>6. Acks'
    BY <1>2, AcksStay DEF AcksStill, Answered, Conts, Dead, StreamInv
  <1>7. Numbers'
    BY <1>1, <1>2, <1>3 DEF Numbers, InOrder, ReadNow, Dead
  <1>8. (Content \/ split)'
    BY <1>2, ContentStay DEF ContentStill, StreamInv
  <1> QED
    BY <1>4, <1>5, <1>6, <1>7, <1>8 DEF StreamInv

-----------------------------------------------------------------------------
(* The theorems                                                             *)

\* The stream starts empty.
LEMMA StreamStarts ==
    ASSUME UStreamAssumption, Init
    PROVE  StreamInv
  <1>1. /\ setting \in Settings /\ packets \in Nat \ {0} /\ RingSize \in Nat /\ LossBound \in Nat
        /\ PacketLen \in Nat \ {0} /\ WriteTries \in Nat \ {0} /\ ReadTries \in Nat \ {0} /\ CloseTries \in Nat \ {0}
        /\ 0 \in 0..Max({WriteTries, CloseTries}) /\ 0 \in 0..Max({ReadTries, CloseTries})
    <2>1. setting \in Settings
      BY DEF Init
    <2>2. /\ packets \in Nat \ {0} /\ RingSize \in Nat /\ LossBound \in Nat
          /\ PacketLen \in Nat \ {0} /\ WriteTries \in Nat \ {0} /\ ReadTries \in Nat \ {0} /\ CloseTries \in Nat \ {0}
      BY <2>1, Params
    <2>3. 0 \in 0..CloseTries
      BY <2>2
    <2> QED
      BY <2>1, <2>2, <2>3, Params
  <1>2. WriterType
    <2>1. toR = <<>> /\ wpc = "idle" /\ wcount = 1 /\ wtries = 0 /\ busy = FALSE /\ wconnected = TRUE
          /\ wrx = Nothing /\ wh = Reading
      BY DEF Init
    <2>2. wcount \in 1..(packets + 1) /\ wcount <= packets /\ 0 \in 0..(packets + 1) /\ wtries < WriteTries
      BY <1>1, <2>1
    <2>3. wrx \in Umsgs /\ wrx.type = "none"
      BY <2>1, <2>2 DEF Umsgs, Nothing
    <2>4. wh \in [at : {"read", "header", "payload", "dead"}, type : {"none", "REPLY_CONT"}, n : 0..(packets + 1)]
          /\ wh.at = "read"
      BY <2>1, <2>2 DEF Reading
    <2>5. toR \in Seq(ToR)
      BY <2>1
    <2> QED
      BY <1>1, <2>1, <2>2, <2>3, <2>4, <2>5 DEF WriterType, Writing, Ended
  <1>3. ReaderType
    BY <1>1 DEF Init, ReaderType, Conts, Umsgs, Nothing, Reading
  <1>4. BufferType
    BY <1>1 DEF Init, BufferType
  <1>5. StreamType
    <2>1. losses \in 0..LossBound /\ {split, crossed, garbled} \subseteq BOOLEAN
      <3>1. losses = 0 /\ split = FALSE /\ crossed = FALSE /\ garbled = FALSE
        BY DEF Init
      <3>2. losses \in 0..LossBound
        BY <1>1, <3>1
      <3>3. split \in BOOLEAN /\ crossed \in BOOLEAN /\ garbled \in BOOLEAN
        BY <3>1, Zenon
      <3> QED
        BY <3>2, <3>3
    <2> QED
      BY <1>1, <1>2, <1>3, <1>4, <2>1 DEF StreamType
  <1>6. Closes
    BY DEF Init, Closes
  <1>7. Frames
    BY DEF Init, Frames, Framed, ExpectedAt, WriterSends, ReaderSends, Nothing, Reading
  <1>8. Acks
    BY DEF Init, Acks, Said, Settled, Conts, Answered, Reading
  <1>9. Numbers
    BY DEF Init, Numbers, InOrder, ReadNow, Nothing, Reading
  <1>10. Content
    <2>1. 0 * PacketLen = 0 /\ First(0) = <<>>
      BY <1>1 DEF First
    <2> QED
      BY <2>1 DEF Init, Content
  <1> QED
    BY <1>5, <1>6, <1>7, <1>8, <1>9, <1>10 DEF StreamInv

\* No step of the four threads breaks the invariant.
LEMMA StreamSteps ==
    ASSUME UStreamAssumption, StreamInv, [Next]_vars
    PROVE  StreamInv'
  <1>1. CASE UNCHANGED vars
    <2> USE <1>1 DEF vars, netVars, writerVars, readerVars, bufVars
    <2>1. StreamType'
      BY TypesStay, Same DEF StreamInv, StreamType, WriterType, ReaderType
    <2>2. Closes'
      BY ClosesStay DEF EndStill, StreamInv
    <2>3. Frames'
      BY FramesStay DEF FramesStill, StreamInv
    <2>4. Acks => Acks'
      BY AcksStay DEF AcksStill
    <2>5. Numbers => Numbers'
      BY NumbersStay DEF NumbersStill
    <2>6. Content \/ split => (Content \/ split)'
      BY ContentStay DEF ContentStill
    <2> QED
      BY <2>1, <2>2, <2>3, <2>4, <2>5, <2>6 DEF StreamInv
  <1>2. CASE Run(Writer)
    BY <1>2, WriteHeaderKeeps, WritePayloadKeeps, WriteWokenKeeps, WriterTurns, CloseKeeps DEF Run, Writer
  <1>3. CASE Run(WriterTimers)
    BY <1>3, WriterTurns DEF Run, WriterTimers
  <1>4. CASE Run(WriterHandler)
    BY <1>4, WriterReadsKeeps, WriterTakesCloseKeeps, WriterRepliesKeeps DEF Run, WriterHandler
  <1>5. CASE Run(Reader)
    BY <1>5, ReadEnterKeeps, ReaderTurns, ReaderSendsKeeps, TakeKeeps DEF Run, Reader
  <1>6. CASE Run(ReaderTimers)
    BY <1>6, ReaderTurns DEF Run, ReaderTimers
  <1>7. CASE Run(ReaderHandler)
    BY <1>7, ReaderReadsKeeps, TakePacketKeeps, ChooseReplyKeeps, ReaderRepliesKeeps, TakeCloseKeeps,
       TakeReplyCloseKeeps DEF Run, ReaderHandler
  <1> QED
    BY <1>1, <1>2, <1>3, <1>4, <1>5, <1>6, <1>7 DEF Next

\* The inductive invariant: what the two ends know of each other, and what is on its way.
THEOREM StreamInvariant == Spec => []StreamInv
  <1>1. Init => StreamInv
    BY StreamStarts, UStreamAssumption
  <1>2. StreamInv /\ [Next]_vars => StreamInv'
    BY StreamSteps, UStreamAssumption
  <1> QED
    BY <1>1, <1>2, PTL DEF Spec

\* usock_write does not move on before the reader has the packet.
THEOREM PacketsArrive == Spec => []AcknowledgedArrived
  <1>1. StreamInv => AcknowledgedArrived
    <2> SUFFICES ASSUME StreamInv, ~garbled PROVE wcount <= rcount + 1
      BY DEF AcknowledgedArrived
    <2>1. Settled(wcount - 1) /\ wcount \in Nat /\ rcount \in Nat
      BY UStreamAssumption, Params DEF StreamInv, Acks, StreamType, WriterType, BufferType
    <2> QED
      BY <2>1 DEF Settled
  <1> QED
    BY <1>1, StreamInvariant, PTL

\* What the buffers hold is the beginning of what was written.
LEMMA ReadInOrder ==
    ASSUME UStreamAssumption, StreamType, Content
    PROVE  IsPrefix(delivered \o rbuf, Sent)
  <1>1. packets \in Nat /\ rcount \in 0..packets /\ PacketLen \in Nat /\ tsize \in Nat /\ PacketLen # 0
    BY Params DEF StreamType, BufferType
  <1>2. PICK j \in 0..packets : delivered \o rbuf = First(j * PacketLen)
    <2>1. rcount > 0 => rcount - 1 \in 0..packets
      BY <1>1
    <2> QED
      BY <1>1, <2>1 DEF Content
  <1> DEFINE k == j * PacketLen
             p == packets * PacketLen
  <1>3. k \in Nat /\ p \in Nat /\ k <= p
    <2>1. \A a, b \in Nat : a * b \in Nat
      OBVIOUS
    <2>2. packets - j \in Nat /\ j \in Nat
      BY <1>1
    <2>3. k \in Nat /\ p \in Nat /\ (packets - j) * PacketLen \in Nat
      BY <1>1, <2>1, <2>2
    <2>4. (packets - j) * PacketLen = p - k
      BY <1>1, <2>2
    <2> QED
      BY <2>3, <2>4
  <1>4. Sent = [i \in 1..p |-> i]
    BY DEF Sent
  <1> HIDE DEF k, p
  <1>5. First(k) \in Seq(Nat) /\ Sent \in Seq(Nat) /\ Len(First(k)) = k /\ Len(Sent) = p
    BY <1>3, <1>4 DEF First
  <1>6. SubSeq(First(k), 1, k) = SubSeq(Sent, 1, k)
    <2>1. \A i \in 1..k : First(k)[i] = i /\ Sent[i] = i
      BY <1>3, <1>4 DEF First
    <2>2. SubSeq(First(k), 1, k) \in Seq(Nat) /\ Len(SubSeq(First(k), 1, k)) = k
          /\ \A i \in 1..k : SubSeq(First(k), 1, k)[i] = First(k)[i]
      BY <1>3, <1>5
    <2>3. SubSeq(Sent, 1, k) \in Seq(Nat) /\ Len(SubSeq(Sent, 1, k)) = k
          /\ \A i \in 1..k : SubSeq(Sent, 1, k)[i] = Sent[i]
      BY <1>3, <1>5
    <2> QED
      BY <2>1, <2>2, <2>3, SeqEqual
  <1>7. IsPrefix(First(k), Sent)
    BY <1>3, <1>5, <1>6 DEF IsPrefix
  <1> QED
    BY <1>2, <1>7 DEF k

\* What usock_read returns is the beginning of what usock_write was given.
THEOREM StreamInOrder == Spec => []DeliveredInOrder
  <1>1. StreamInv => DeliveredInOrder
    <2> SUFFICES ASSUME StreamInv PROVE DeliveredInOrder
      OBVIOUS
    <2>1. StreamType /\ WriterType /\ ReaderType /\ BufferType
      BY DEF StreamInv, StreamType
    <2>2. TypeOK
      <3>1. ToSet(delivered) \subseteq 0..(packets * PacketLen)
        <4>1. delivered \in Seq(Unit)
          BY <2>1 DEF BufferType
        <4>2. \A i \in DOMAIN delivered : delivered[i] \in Unit
          BY <4>1
        <4> QED
          BY <4>2 DEF ToSet, Unit
      <3>2. /\ wpc \in {"idle", "header", "payload", "wait", "woken", "busy", "close", "closing", "hung", "closed"}
            /\ wcount \in 1..(packets + 1) /\ wtries \in 0..Max({WriteTries, CloseTries})
            /\ busy \in BOOLEAN /\ wconnected \in BOOLEAN /\ wrx \in Umsgs
            /\ wh.at \in {"read", "header", "payload", "dead"}
        BY <2>1 DEF WriterType, Writing, Ended
      <3>3. /\ rpc \in {"idle", "contheader", "contpayload", "contwait", "contwoken", "contlate",
                        "take", "takewait", "takewoken", "eof", "close", "closing", "hung", "closed"}
            /\ rtries \in 0..Max({ReadTries, CloseTries}) /\ mcount \in 0..packets
            /\ rlock \in {"free", "reader", "handler"} /\ connected \in BOOLEAN /\ rrx \in Umsgs
            /\ rh.at \in {"read", "pack", "packed", "header", "payload", "dead"}
        BY <2>1 DEF ReaderType, Conts
      <3>4. Len(rbuf) <= RingSize /\ tsize \in 0..PacketLen /\ Len(tbuf) \in {0, PacketLen} /\ rcount \in 0..packets
        BY <2>1 DEF BufferType
      <3> QED
        BY <2>1, <3>1, <3>2, <3>3, <3>4 DEF TypeOK, StreamType
    <2>3. garbled => crossed \/ losses > 0
      BY <2>1 DEF StreamInv, Frames, StreamType
    <2>4. IsPrefix(delivered \o rbuf, Sent) \/ split \/ garbled
      BY <2>1, ReadInOrder, UStreamAssumption DEF StreamInv
    <2> QED
      BY <2>2, <2>3, <2>4 DEF DeliveredInOrder
  <1> QED
    BY <1>1, StreamInvariant, PTL
=============================================================================
