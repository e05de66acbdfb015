--------------------------- MODULE UdpOfferProofs ---------------------------
(***************************************************************************)
(* For every set of users and transfers, whoever offers what to whom, and  *)
(* any number of repetitions: an offer over UDP connects its own two ends, *)
(* and an item is freed once.                                              *)
(***************************************************************************)
EXTENDS UdpOffer, ListFacts, TLAPS

-----------------------------------------------------------------------------
(* The invariant                                                            *)

\* The datagram that announces the sender of t.
Cred(t) == Datum(SSock(t), Server, "CRED", 0)

\* Where an offer is: with its sender, in the ready queue, told or taken up,
\* and what of it is under way.
Untold(t) == addr[t] = NoAddr /\ \A a \in Transfer : <<"OFFER", t, a>> \notin mail
Fresh(t) ==
    /\ ~Contains(ready, t) /\ Untold(t)
    /\ <<"UREADYTRANS", t>> \notin mail /\ sthread[t] = "none" /\ Cred(t) \notin air
CourseOf(t) ==
    /\ t \notin offered => Fresh(t) /\ <<"REQTRANS", t>> \notin mail
    /\ <<"REQTRANS", t>> \in mail => Fresh(t)
    /\ Contains(ready, t) => Untold(t)
    /\ \A a \in Transfer : <<"OFFER", t, a>> \in mail =>
          addr[t] = NoAddr /\ \A b \in Transfer : <<"OFFER", t, b>> \in mail => a = b
    /\ addr[t] = NoAddr => ritem[t] = "none" /\ rthread[t] = "none"
    /\ <<"UREADYTRANS", t>> \in mail => sthread[t] = "none" /\ Cred(t) \notin air
    /\ sthread[t] = "created" => Cred(t) \notin air

\* While no datagram was doubled, a credential finds its own offer waiting.
OwnOf(t) ==
    /\ addr[t] \in {NoAddr, t}
    /\ \A a \in Transfer : <<"OFFER", t, a>> \in mail => a = t
    /\ <<"UREADYTRANS", t>> \in mail \/ sthread[t] = "created" \/ Cred(t) \in air => Contains(ready, t)

\* A sender that has met its receiver is connected to it; an answer comes from
\* one who met, a reply from one who is connected.
Met(t) == sthread[t] \in {"answering", "connected"}
Handshakes ==
    /\ \A t \in Transfer : Met(t) => peer[t] = t
    /\ \A m \in air :
        /\ m.body = "ACCEPT" => \E t \in Transfer : m.from = SSock(t) /\ m.to = RSock(t) /\ Met(t)
        /\ m.body = "REPLY" => \E t \in Transfer : m.from = RSock(t) /\ rthread[t] = "connected"
    /\ \A t \in Transfer :
        /\ rthread[t] = "connected" => addr[t] = t /\ Met(t)
        /\ sthread[t] = "connected" /\ SSock(t) \notin misread => rthread[t] = "connected"

\* A thread that begins has its item.
Kept ==
    /\ ~undefined
    /\ \A t \in Transfer :
        /\ sthread[t] = "created" => sitem[t] = "QueReady"
        /\ rthread[t] = "waiting" => ritem[t] # "none"

Spoiled == trouble \cap {"cut", "bad path"} # {}
Courses ==
    /\ \A t \in Transfer : CourseOf(t)
    /\ "duplicated" \notin trouble => \A t \in Transfer : OwnOf(t)
OfferInv == TypeOK /\ Courses /\ Handshakes /\ (Kept \/ Spoiled)

-----------------------------------------------------------------------------
(* What a step leaves alone                                                 *)

\* A step apart from the offers: it tells the server nothing and is told nothing.
OffersStill ==
    /\ UNCHANGED <<mail, ready, addr, offered>>
    /\ "duplicated" \notin trouble' => "duplicated" \notin trouble
    /\ \A t \in Transfer :
        /\ sthread[t] = "none" => sthread'[t] = "none"
        /\ sthread'[t] = "created" => sthread[t] = "created"
        /\ Cred(t) \in air' => Cred(t) \in air
        /\ addr[t] = NoAddr => ritem'[t] = "none" /\ rthread'[t] = "none"

\* Such a step keeps their courses.
LEMMA CoursesStay ==
    ASSUME Courses, OffersStill
    PROVE  Courses'
  <1>1. \A t \in Transfer : Cred(t)' = Cred(t)
    BY DEF Cred, Datum, SSock
  <1>2. ASSUME NEW t \in Transfer PROVE CourseOf(t)'
    <2>1. CourseOf(t)
      BY DEF Courses
    <2>2. Untold(t)' <=> Untold(t)
      BY DEF OffersStill, Untold
    <2>3. Fresh(t) => Fresh(t)'
      BY <1>1, <2>2 DEF Fresh, OffersStill
    <2> QED
      BY <1>1, <2>1, <2>2, <2>3 DEF CourseOf, OffersStill
  <1>3. ASSUME NEW t \in Transfer, "duplicated" \notin trouble' PROVE OwnOf(t)'
    <2>1. OwnOf(t)
      BY <1>3 DEF Courses, OffersStill
    <2> QED
      BY <1>1, <2>1 DEF OwnOf, OffersStill
  <1> QED
    BY <1>2, <1>3 DEF Courses

\* A step apart from the handshakes: nobody meets or connects anew.
MeetingsStill ==
    /\ misread \subseteq misread'
    /\ \A m \in air' : m \in air \/ m.body \notin {"ACCEPT", "REPLY"}
    /\ \A t \in Transfer :
        /\ Met(t)' <=> Met(t)
        /\ Met(t) => peer'[t] = peer[t] /\ (sthread'[t] = "connected" => sthread[t] = "connected")
        /\ rthread'[t] = "connected" <=> rthread[t] = "connected"
        /\ rthread[t] = "connected" => addr'[t] = addr[t]

\* Such a step keeps the handshakes.
LEMMA HandshakesStay ==
    ASSUME Handshakes, MeetingsStill
    PROVE  Handshakes'
  <1>1. \A t : SSock(t)' = SSock(t) /\ RSock(t)' = RSock(t)
    BY DEF SSock, RSock
  <1>2. \A t \in Transfer : Met(t)' => peer'[t] = t
    BY DEF Handshakes, MeetingsStill
  <1>3. ASSUME NEW m \in air'
        PROVE  /\ m.body = "ACCEPT" => \E t \in Transfer : m.from = SSock(t) /\ m.to = RSock(t) /\ Met(t)'
               /\ m.body = "REPLY" => \E t \in Transfer : m.from = RSock(t) /\ rthread'[t] = "connected"
    BY DEF Handshakes, MeetingsStill
  <1>4. ASSUME NEW t \in Transfer
        PROVE  /\ rthread'[t] = "connected" => addr'[t] = t /\ Met(t)'
               /\ sthread'[t] = "connected" /\ SSock(t) \notin misread' => rthread'[t] = "connected"
    BY DEF Handshakes, MeetingsStill, Met
  <1> QED
    BY <1>1, <1>2, <1>3, <1>4 DEF Handshakes

\* A step that starts no thread frees nothing that one needs, or is a spoiler.
ItemsStill ==
    /\ trouble \subseteq trouble'
    /\ Spoiled' \/ ~undefined'
    /\ \A t \in Transfer :
        /\ sthread'[t] = "created" => sthread[t] = "created" /\ (sitem'[t] = sitem[t] \/ Spoiled')
        /\ rthread'[t] = "waiting" => rthread[t] = "waiting" /\ (ritem'[t] = ritem[t] \/ ritem'[t] # "none" \/ Spoiled')

\* Such a step keeps the items.
LEMMA ItemsStay ==
    ASSUME Kept \/ Spoiled, ItemsStill
    PROVE  (Kept \/ Spoiled)'
  <1>1. Spoiled => Spoiled'
    BY DEF Spoiled, ItemsStill
  <1> QED
    BY <1>1 DEF Kept, ItemsStill

-----------------------------------------------------------------------------
(* Datagrams, commands and trouble                                          *)

\* The sockets, and the datagrams sent between them.
LEMMA DatumFacts ==
    ASSUME UdpOfferAssumption
    PROVE  /\ \A t \in Transfer : SSock(t) \in Socket /\ RSock(t) \in Socket
           /\ \A t, u \in Transfer : /\ SSock(t) = SSock(u) => t = u
                                     /\ RSock(t) = RSock(u) => t = u
                                     /\ SSock(t) # RSock(u)
           /\ \A t \in Transfer : SSock(t) # Server /\ RSock(t) # Server /\ RSock(t)[1] = t
           /\ \A a, b, d, n : /\ Datum(a, b, d, n).from = a /\ Datum(a, b, d, n).to = b
                              /\ Datum(a, b, d, n).body = d
           /\ \A a \in Socket, b \in Socket \cup {Server}, d \in Body, n \in 0..MaxSends :
                Datum(a, b, d, n) \in Datagram
           /\ 0 \in 0..MaxSends
           /\ \A n \in 0..MaxSends : SendsLeft(n) => n + 1 \in 0..MaxSends
  <1>1. \A t \in Transfer : SSock(t) \in Socket /\ RSock(t) \in Socket
    BY DEF SSock, RSock, Socket
  <1>2. \A t, u \in Transfer : /\ SSock(t) = SSock(u) => t = u
                               /\ RSock(t) = RSock(u) => t = u
                               /\ SSock(t) # RSock(u)
    BY DEF SSock, RSock
  <1>3. \A t \in Transfer : SSock(t) # Server /\ RSock(t) # Server /\ RSock(t)[1] = t
    BY DEF SSock, RSock, Server
  <1>4. \A a, b, d, n : /\ Datum(a, b, d, n).from = a /\ Datum(a, b, d, n).to = b
                        /\ Datum(a, b, d, n).body = d
    BY DEF Datum
  <1>5. \A a \in Socket, b \in Socket \cup {Server}, d \in Body, n \in 0..MaxSends :
                Datum(a, b, d, n) \in Datagram
    BY DEF Datum, Datagram
  <1>6. 0 \in 0..MaxSends /\ \A n \in 0..MaxSends : SendsLeft(n) => n + 1 \in 0..MaxSends
    BY DEF UdpOfferAssumption, SendsLeft
  <1> QED
    BY <1>1, <1>2, <1>3, <1>4, <1>5, <1>6

\* Trouble only grows, and a spoiler stays one.
LEMMA HappensFacts ==
    ASSUME NEW kind \in Trouble, Happens(kind)
    PROVE  /\ trouble \subseteq trouble'
           /\ trouble \subseteq Trouble => trouble' \subseteq Trouble
           /\ kind \in {"cut", "bad path"} => Spoiled'
  BY DEF Happens, Spoiled

\* Commands differ by name and by transfer.
LEMMA MailFacts ==
    ASSUME NEW t \in Transfer
    PROVE  /\ \A u, a \in Transfer : <<"OFFER", u, a>> # <<"REQTRANS", t>> /\ <<"OFFER", u, a>> # <<"UREADYTRANS", t>>
           /\ \A u \in Transfer : <<"REQTRANS", u>> # <<"UREADYTRANS", t>>
           /\ \A u \in Transfer : <<"REQTRANS", u>> = <<"REQTRANS", t>> => u = t
           /\ \A u \in Transfer : <<"UREADYTRANS", u>> = <<"UREADYTRANS", t>> => u = t
           /\ \A u, a, b \in Transfer : <<"OFFER", u, b>> = <<"OFFER", t, a>> => u = t /\ b = a
           /\ <<"REQTRANS", t>> \in Mail /\ <<"UREADYTRANS", t>> \in Mail
           /\ \A a \in Transfer : <<"OFFER", t, a>> \in Mail
  <1>1. <<"REQTRANS", t>> \in Mail /\ <<"UREADYTRANS", t>> \in Mail
    BY DEF Mail
  <1>2. \A a \in Transfer : <<"OFFER", t, a>> \in Mail
    BY DEF Mail
  <1>3. \A u \in Transfer : <<"REQTRANS", u>> # <<"UREADYTRANS", t>>
    OBVIOUS
  <1>4. \A u \in Transfer : <<"REQTRANS", u>> = <<"REQTRANS", t>> => u = t
    OBVIOUS
  <1>5. \A u \in Transfer : <<"UREADYTRANS", u>> = <<"UREADYTRANS", t>> => u = t
    OBVIOUS
  <1>6. \A u, a, b \in Transfer : <<"OFFER", u, b>> = <<"OFFER", t, a>> => u = t /\ b = a
    OBVIOUS
  <1>7. \A u, a \in Transfer : <<"OFFER", u, a>> # <<"REQTRANS", t>> /\ <<"OFFER", u, a>> # <<"UREADYTRANS", t>>
    OBVIOUS
  <1> QED
    BY <1>1, <1>2, <1>3, <1>4, <1>5, <1>6, <1>7

-----------------------------------------------------------------------------
(* Clients end, and time passes                                             *)

\* A client that dies leaves all but the living as it was.
LEMMA StillAlive ==
    ASSUME OfferInv, alive' \subseteq alive, session' \subseteq session,
           trouble \subseteq trouble', trouble' \subseteq Trouble,
           UNCHANGED <<route, ready, mail, air, senderVars, receiverVars, undefined, offered,
                       accepted, misread>>
    PROVE  OfferInv'
  <1> USE DEF senderVars, receiverVars
  <1>1. TypeOK'
    BY DEF OfferInv, TypeOK
  <1>2. OffersStill
    BY DEF OffersStill, Cred, OfferInv, Courses, CourseOf, Datum, SSock
  <1>3. MeetingsStill
    BY DEF MeetingsStill, Met
  <1>4. ItemsStill
    BY DEF ItemsStill, Spoiled, OfferInv, Kept
  <1> QED
    BY <1>1, <1>2, <1>3, <1>4, CoursesStay, HandshakesStay, ItemsStay DEF OfferInv

\* Disconnect changes the sessions alone.
LEMMA DisconnectKeeps ==
    ASSUME OfferInv, NEW u \in User, Disconnect(u), UNCHANGED route
    PROVE  OfferInv'
  <1>1. trouble \subseteq Trouble
    BY DEF OfferInv, TypeOK
  <1> QED
    BY <1>1, StillAlive DEF Disconnect, historyVars

\* Die changes the living alone.
LEMMA DieKeeps ==
    ASSUME OfferInv, NEW u \in User, Die(u), UNCHANGED route
    PROVE  OfferInv'
  <1>1. trouble \subseteq Trouble /\ "died" \in Trouble
    BY DEF OfferInv, TypeOK, Trouble
  <1>2. trouble \subseteq trouble' /\ trouble' \subseteq Trouble
    BY <1>1, HappensFacts DEF Die
  <1> QED
    BY <1>2, StillAlive DEF Die, serverVars

\* A receiver that gives up dies.
LEMMA GiveUpConnectKeeps ==
    ASSUME OfferInv, NEW t \in Transfer, GiveUpConnect(t), UNCHANGED route
    PROVE  OfferInv'
  <1>1. trouble \subseteq Trouble
    BY DEF OfferInv, TypeOK
  <1> QED
    BY <1>1, StillAlive DEF GiveUpConnect, ClosesNull, serverVars, historyVars

-----------------------------------------------------------------------------
(* The handshake                                                            *)

\* send_connect_msg keeps the invariant: what it sends is no announcement and no answer.
LEMMA SendCredKeeps ==
    ASSUME UdpOfferAssumption, OfferInv, NEW t \in Transfer, SendCred(t), UNCHANGED route, ~undefined
    PROVE  OfferInv'
  <1> USE DEF serverVars, senderVars, historyVars
  <1> DEFINE m == Datum(RSock(t), SSock(addr[t]), "CRED", rsends[t])
  <1>1. addr[t] \in Transfer /\ rsends[t] \in 0..MaxSends /\ SendsLeft(rsends[t])
    BY DEF SendCred, OfferInv, TypeOK, Courses, CourseOf
  <1>2. air' = air \cup {m} /\ m \in Datagram /\ m.body = "CRED" /\ m.to # Server
    <2>1. air' = air \cup {m}
      BY DEF SendCred, Send
    <2>2. RSock(t) \in Socket /\ SSock(addr[t]) \in Socket /\ SSock(addr[t]) # Server
      BY <1>1, DatumFacts
    <2>3. m \in Datagram
      BY <1>1, <2>2, DatumFacts DEF Body
    <2> QED
      BY <2>1, <2>2, <2>3, DatumFacts
  <1>3. \A u \in Transfer : Cred(u)' = Cred(u) /\ Cred(u) # m
    BY <1>2, DatumFacts DEF Cred, SSock, Datum
  <1> HIDE DEF m
  <1>4. TypeOK'
    BY <1>1, <1>2, DatumFacts DEF OfferInv, TypeOK, SendCred
  <1>5. OffersStill
    BY <1>2, <1>3 DEF OffersStill, OfferInv, Courses, CourseOf, SendCred
  <1>6. MeetingsStill
    BY <1>2 DEF MeetingsStill, Met, SendCred
  <1>7. ItemsStill
    BY DEF ItemsStill, Spoiled, OfferInv, Kept, SendCred
  <1> QED
    BY <1>4, <1>5, <1>6, <1>7, CoursesStay, HandshakesStay, ItemsStay DEF OfferInv

\* Its own cred takes usock_accept to the receiver of its file.
LEMMA TakeCredKeeps ==
    ASSUME UdpOfferAssumption, OfferInv, NEW t \in Transfer, TakeCred(t), UNCHANGED route, ~undefined
    PROVE  OfferInv'
  <1> USE DEF serverVars, senderVars, receiverVars, historyVars
  <1>1. PICK m \in air :
        /\ m.to = SSock(t)
        /\ air' = air \ {m}
        /\ \/ /\ OwnCred(t, m)
              /\ sthread' = [sthread EXCEPT ![t] = "answering"]
              /\ peer' = [peer EXCEPT ![t] = m.from[1]]
           \/ ~OwnCred(t, m) /\ UNCHANGED <<sthread, peer>>
    BY DEF TakeCred
  <1>2. sthread \in [Transfer -> {"none", "created", "accepting", "answering", "connected"}]
        /\ peer \in [Transfer -> Transfer \cup {NoAddr}] /\ sthread[t] = "accepting"
    BY DEF OfferInv, TypeOK, TakeCred
  <1>3. /\ \A u \in Transfer \ {t} : sthread'[u] = sthread[u] /\ peer'[u] = peer[u]
        /\ sthread' \in [Transfer -> {"none", "created", "accepting", "answering", "connected"}]
        /\ peer' \in [Transfer -> Transfer \cup {NoAddr}]
        /\ \/ sthread'[t] = "answering" /\ peer'[t] = t
           \/ sthread'[t] = "accepting" /\ peer'[t] = peer[t]
    BY <1>1, <1>2, DatumFacts DEF OwnCred
  <1>4. \A u \in Transfer : Cred(u)' = Cred(u)
    BY DEF Cred, Datum, SSock
  <1>5. TypeOK'
    BY <1>1, <1>3 DEF OfferInv, TypeOK, TakeCred
  <1>6. OffersStill
    BY <1>1, <1>2, <1>3, <1>4 DEF OffersStill, OfferInv, Courses, CourseOf, TakeCred
  <1>7. Handshakes'
    <2>1. \A u : SSock(u)' = SSock(u) /\ RSock(u)' = RSock(u)
      BY DEF SSock, RSock
    <2>2. \A u \in Transfer : Met(u) => Met(u)'
      BY <1>2, <1>3 DEF Met
    <2>3. \A u \in Transfer : Met(u)' => peer'[u] = u
      BY <1>3 DEF Met, OfferInv, Handshakes
    <2>4. \A n \in air' :
            /\ n.body = "ACCEPT" => \E u \in Transfer : n.from = SSock(u) /\ n.to = RSock(u) /\ Met(u)'
            /\ n.body = "REPLY" => \E u \in Transfer : n.from = RSock(u) /\ rthread'[u] = "connected"
      BY <1>1, <2>2 DEF OfferInv, Handshakes, TakeCred
    <2>5. \A u \in Transfer :
            /\ rthread'[u] = "connected" => addr'[u] = u /\ Met(u)'
            /\ sthread'[u] = "connected" /\ SSock(u) \notin misread' => rthread'[u] = "connected"
      BY <1>3, <2>2 DEF OfferInv, Handshakes, TakeCred
    <2> QED
      BY <2>1, <2>3, <2>4, <2>5 DEF Handshakes
  <1>8. ItemsStill
    BY <1>3 DEF ItemsStill, Spoiled, OfferInv, Kept, TakeCred
  <1> QED
    BY <1>5, <1>6, <1>7, <1>8, CoursesStay, ItemsStay DEF OfferInv

\* send_accept_msg answers the receiver whom the sender has met.
LEMMA SendAcceptKeeps ==
    ASSUME UdpOfferAssumption, OfferInv, NEW t \in Transfer, SendAccept(t), UNCHANGED route, ~undefined
    PROVE  OfferInv'
  <1> USE DEF serverVars, senderVars, receiverVars, historyVars
  <1> DEFINE m == Datum(SSock(t), RSock(peer[t]), "ACCEPT", ssends[t])
  <1>1. Met(t) /\ peer[t] = t /\ ssends[t] \in 0..MaxSends /\ SendsLeft(ssends[t])
    BY DEF SendAccept, OfferInv, TypeOK, Handshakes, Met
  <1>2. /\ air' = air \cup {m} /\ m \in Datagram /\ m.body = "ACCEPT"
        /\ m.from = SSock(t) /\ m.to = RSock(t) /\ m.to # Server
    BY <1>1, DatumFacts DEF SendAccept, Send, Body
  <1>3. \A u \in Transfer : Cred(u)' = Cred(u) /\ Cred(u) # m
    BY <1>2, DatumFacts DEF Cred, SSock, Datum
  <1> HIDE DEF m
  <1>4. TypeOK'
    BY <1>1, <1>2, DatumFacts DEF OfferInv, TypeOK, SendAccept
  <1>5. OffersStill
    BY <1>2, <1>3 DEF OffersStill, OfferInv, Courses, CourseOf, SendAccept
  <1>6. Handshakes'
    <2>1. \A u : SSock(u)' = SSock(u) /\ RSock(u)' = RSock(u)
      BY DEF SSock, RSock
    <2>2. \A u : Met(u)' <=> Met(u)
      BY DEF SendAccept, Met
    <2>3. \A n \in air' :
            /\ n.body = "ACCEPT" => \E u \in Transfer : n.from = SSock(u) /\ n.to = RSock(u) /\ Met(u)'
            /\ n.body = "REPLY" => \E u \in Transfer : n.from = RSock(u) /\ rthread'[u] = "connected"
      BY <1>1, <1>2, <2>2 DEF OfferInv, Handshakes, SendAccept
    <2> QED
      BY <2>1, <2>2, <2>3 DEF OfferInv, Handshakes, SendAccept
  <1>7. ItemsStill
    BY DEF ItemsStill, Spoiled, OfferInv, Kept, SendAccept
  <1> QED
    BY <1>4, <1>5, <1>6, <1>7, CoursesStay, ItemsStay DEF OfferInv

\* An answer that the receiver takes for one came from its own sender; what is
\* no answer ends it.
LEMMA TakeAcceptKeeps ==
    ASSUME UdpOfferAssumption, OfferInv, NEW t \in Transfer, TakeAccept(t), UNCHANGED route, ~undefined
    PROVE  OfferInv'
  <1> USE DEF serverVars, senderVars, historyVars
  <1> DEFINE r == Datum(RSock(t), SSock(addr[t]), "REPLY", 0)
  <1>1. PICK m \in air :
        /\ m.to = RSock(t) /\ m.from = SSock(addr[t])
        /\ \/ /\ m.body = "ACCEPT"
              /\ rthread' = [rthread EXCEPT ![t] = "connected"]
              /\ air' = (air \ {m}) \cup {Datum(RSock(t), m.from, "REPLY", 0)}
              /\ UNCHANGED <<alive, misread>>
           \/ /\ m.body # "ACCEPT"
              /\ ClosesNull(To(t))
              /\ air' = air \ {m}
              /\ misread' = misread \cup {RSock(t)}
              /\ UNCHANGED rthread
    BY DEF TakeAccept
  <1>2. /\ addr[t] \in Transfer /\ rthread[t] = "connecting"
        /\ rthread \in [Transfer -> {"none", "waiting", "connecting", "connected"}]
        /\ air \subseteq Datagram /\ alive \subseteq User /\ misread \subseteq Socket
    BY DEF TakeAccept, OfferInv, TypeOK, Courses, CourseOf
  <1>3. r \in Datagram /\ r.body = "REPLY" /\ r.from = RSock(t) /\ r.to # Server
    BY <1>2, DatumFacts DEF Body
  <1>4. \A u \in Transfer : Cred(u)' = Cred(u) /\ Cred(u) # r
    BY <1>3, DatumFacts DEF Cred, SSock, Datum
  <1>5. CASE m.body = "ACCEPT"
    <2>1. air' = (air \ {m}) \cup {r} /\ alive' = alive /\ misread' = misread
          /\ rthread' = [rthread EXCEPT ![t] = "connected"]
      BY <1>1, <1>5
    <2>2. addr[t] = t /\ Met(t)
      <3>1. PICK u \in Transfer : m.from = SSock(u) /\ m.to = RSock(u) /\ Met(u)
        BY <1>5 DEF OfferInv, Handshakes
      <3>2. u = t
        BY <1>1, <3>1, DatumFacts
      <3>3. SSock(addr[t]) = SSock(u)
        BY <1>1, <3>1
      <3>4. addr[t] = u
        BY <1>2, <3>3 DEF SSock
      <3> QED
        BY <3>1, <3>2, <3>4
    <2> HIDE DEF r
    <2>3. TypeOK'
      BY <1>2, <1>3, <2>1 DEF OfferInv, TypeOK, TakeAccept
    <2>4. OffersStill
      BY <1>2, <1>4, <2>1, <2>2 DEF OffersStill, OfferInv, Courses, CourseOf, TakeAccept
    <2>5. Handshakes'
      <3>1. \A u : SSock(u)' = SSock(u) /\ RSock(u)' = RSock(u)
        BY DEF SSock, RSock
      <3>2. \A u : Met(u)' <=> Met(u)
        BY DEF TakeAccept, Met
      <3>3. \A u \in Transfer : rthread'[u] = "connected" <=> u = t \/ rthread[u] = "connected"
        BY <1>2, <2>1
      <3>4. \A n \in air' :
              /\ n.body = "ACCEPT" => \E u \in Transfer : n.from = SSock(u) /\ n.to = RSock(u) /\ Met(u)'
              /\ n.body = "REPLY" => \E u \in Transfer : n.from = RSock(u) /\ rthread'[u] = "connected"
        BY <1>3, <2>1, <3>2, <3>3 DEF OfferInv, Handshakes
      <3>5. \A u \in Transfer : Met(u)' => peer'[u] = u
        BY <3>2 DEF OfferInv, Handshakes, TakeAccept
      <3>6. \A u \in Transfer :
              /\ rthread'[u] = "connected" => addr'[u] = u /\ Met(u)'
              /\ sthread'[u] = "connected" /\ SSock(u) \notin misread' => rthread'[u] = "connected"
        BY <2>1, <2>2, <3>2, <3>3 DEF OfferInv, Handshakes, TakeAccept
      <3> QED
        BY <3>1, <3>4, <3>5, <3>6 DEF Handshakes
    <2>6. ItemsStill
      BY <1>2, <2>1 DEF ItemsStill, Spoiled, OfferInv, Kept, TakeAccept
    <2> QED
      BY <2>3, <2>4, <2>5, <2>6, CoursesStay, ItemsStay DEF OfferInv
  <1>6. CASE m.body # "ACCEPT"
    <2>1. air' = air \ {m} /\ rthread' = rthread /\ misread' = misread \cup {RSock(t)}
          /\ alive' \subseteq User
      BY <1>1, <1>2, <1>6 DEF ClosesNull
    <2> HIDE DEF r
    <2>2. TypeOK'
      BY <1>2, <2>1, DatumFacts DEF OfferInv, TypeOK, TakeAccept
    <2>3. OffersStill
      BY <1>4, <2>1 DEF OffersStill, OfferInv, Courses, CourseOf, TakeAccept
    <2>4. MeetingsStill
      BY <2>1 DEF MeetingsStill, Met, TakeAccept
    <2>5. ItemsStill
      BY <2>1 DEF ItemsStill, Spoiled, OfferInv, Kept, TakeAccept
    <2> QED
      BY <2>2, <2>3, <2>4, <2>5, CoursesStay, HandshakesStay, ItemsStay DEF OfferInv
  <1> QED
    BY <1>5, <1>6

\* A sender that takes a reply for one is right, and one that takes something
\* else for it has misread.
LEMMA TakeReplyKeeps ==
    ASSUME UdpOfferAssumption, OfferInv, NEW t \in Transfer, TakeReply(t), UNCHANGED route, ~undefined
    PROVE  OfferInv'
  <1> USE DEF serverVars, senderVars, receiverVars, historyVars
  <1> DEFINE p == Datum(SSock(t), RSock(t), "PACK", 0)
  <1>1. Met(t) /\ peer[t] = t /\ sthread' = [sthread EXCEPT ![t] = "connected"]
        /\ sthread \in [Transfer -> {"none", "created", "accepting", "answering", "connected"}]
        /\ sthread[t] = "answering" /\ misread \subseteq Socket
    BY DEF TakeReply, OfferInv, Handshakes, Met, TypeOK
  <1>2. PICK m \in air :
        /\ m.to = SSock(t) /\ m.from = RSock(t)
        /\ air' = (air \ {m}) \cup {p}
        /\ misread' = IF m.body = "REPLY" THEN misread ELSE misread \cup {SSock(t)}
    BY <1>1 DEF TakeReply
  <1>3. p \in Datagram /\ p.body = "PACK" /\ p.to # Server
    BY DatumFacts DEF Body
  <1>4. \A u \in Transfer : Cred(u)' = Cred(u) /\ Cred(u) # p
    BY <1>3, DatumFacts DEF Cred, SSock, Datum
  <1> HIDE DEF p
  <1>5. TypeOK'
    BY <1>1, <1>2, <1>3, DatumFacts DEF OfferInv, TypeOK, TakeReply
  <1>6. OffersStill
    BY <1>1, <1>2, <1>4 DEF OffersStill, OfferInv, Courses, CourseOf, TakeReply
  <1>7. Handshakes'
    <2>1. \A u : SSock(u)' = SSock(u) /\ RSock(u)' = RSock(u)
      BY DEF SSock, RSock
    <2>2. \A u \in Transfer : Met(u)' <=> Met(u)
      BY <1>1 DEF Met
    <2>3. m.body = "REPLY" => rthread[t] = "connected"
      <3> SUFFICES ASSUME m.body = "REPLY" PROVE rthread[t] = "connected"
        OBVIOUS
      <3>1. PICK u \in Transfer : m.from = RSock(u) /\ rthread[u] = "connected"
        BY DEF OfferInv, Handshakes
      <3> QED
        BY <1>2, <3>1, DatumFacts
    <2>4. \A n \in air' :
            /\ n.body = "ACCEPT" => \E u \in Transfer : n.from = SSock(u) /\ n.to = RSock(u) /\ Met(u)'
            /\ n.body = "REPLY" => \E u \in Transfer : n.from = RSock(u) /\ rthread'[u] = "connected"
      BY <1>2, <1>3, <2>2 DEF OfferInv, Handshakes, TakeReply
    <2>5. \A u \in Transfer : Met(u)' => peer'[u] = u
      BY <2>2 DEF OfferInv, Handshakes, TakeReply
    <2>6. \A u \in Transfer : rthread'[u] = "connected" => addr'[u] = u /\ Met(u)'
      BY <2>2 DEF OfferInv, Handshakes, TakeReply
    <2>7. ASSUME NEW u \in Transfer, sthread'[u] = "connected", SSock(u) \notin misread'
          PROVE  rthread'[u] = "connected"
      <3>1. rthread' = rthread
        BY DEF TakeReply
      <3>2. CASE u = t
        BY <1>2, <2>3, <2>7, <3>1, <3>2
      <3>3. CASE u # t
        BY <1>1, <1>2, <2>7, <3>1, <3>3 DEF OfferInv, Handshakes
      <3> QED
        BY <3>2, <3>3
    <2> QED
      BY <2>1, <2>4, <2>5, <2>6, <2>7 DEF Handshakes
  <1>8. ItemsStill
    BY <1>1 DEF ItemsStill, Spoiled, OfferInv, Kept, TakeReply
  <1> QED
    BY <1>5, <1>6, <1>7, <1>8, CoursesStay, ItemsStay DEF OfferInv

\* A sender that gives up dies, or misreads what nobody wrote.
LEMMA GiveUpAcceptKeeps ==
    ASSUME UdpOfferAssumption, OfferInv, NEW t \in Transfer, GiveUpAccept(t), UNCHANGED route, ~undefined
    PROVE  OfferInv'
  <1>1. CASE alive' = alive \ {From(t)} /\ UNCHANGED <<sthread, misread>>
    <2>1. trouble \subseteq Trouble
      BY DEF OfferInv, TypeOK
    <2> QED
      BY <1>1, <2>1, StillAlive DEF GiveUpAccept, serverVars, senderVars, receiverVars
  <1>2. CASE sthread' = [sthread EXCEPT ![t] = "connected"] /\ misread' = misread \cup {SSock(t)}
             /\ UNCHANGED alive
    <2> USE DEF serverVars, senderVars, receiverVars
    <2>1. sthread \in [Transfer -> {"none", "created", "accepting", "answering", "connected"}]
          /\ sthread[t] = "answering"
      BY DEF GiveUpAccept, OfferInv, TypeOK
    <2>2. \A u \in Transfer : Cred(u)' = Cred(u)
      BY DEF Cred, Datum, SSock
    <2>3. TypeOK'
      BY <1>2, <2>1, DatumFacts DEF OfferInv, TypeOK, GiveUpAccept
    <2>4. OffersStill
      BY <1>2, <2>1, <2>2 DEF OffersStill, OfferInv, Courses, CourseOf, GiveUpAccept
    <2>5. Handshakes'
      <3>1. \A u : SSock(u)' = SSock(u) /\ RSock(u)' = RSock(u)
        BY DEF SSock, RSock
      <3>2. \A u \in Transfer : Met(u)' <=> Met(u)
        BY <1>2, <2>1 DEF Met
      <3>3. \A u \in Transfer : sthread'[u] = "connected" => sthread[u] = "connected" \/ u = t
        BY <1>2, <2>1
      <3> QED
        BY <1>2, <3>1, <3>2, <3>3 DEF OfferInv, Handshakes, GiveUpAccept
    <2>6. ItemsStill
      BY <1>2, <2>1 DEF ItemsStill, Spoiled, OfferInv, Kept, GiveUpAccept
    <2> QED
      BY <2>3, <2>4, <2>5, <2>6, CoursesStay, ItemsStay DEF OfferInv
  <1> QED
    BY <1>1, <1>2 DEF GiveUpAccept, ClosesNull

\* A datagram lost was never needed to be right.
LEMMA LoseKeeps ==
    ASSUME OfferInv, Lose, UNCHANGED route, ~undefined
    PROVE  OfferInv'
  <1> USE DEF serverVars, senderVars, receiverVars
  <1>1. PICK m \in air : Happens(Kind(m)) /\ air' = air \ {m}
    BY DEF Lose
  <1>2. /\ UNCHANGED <<alive, serverVars, mail, senderVars, receiverVars, undefined, offered, accepted,
                       misread>>
        /\ trouble \subseteq Trouble
    BY DEF Lose, OfferInv, TypeOK
  <1>3. Kind(m) \in Trouble
    BY DEF Kind, Trouble
  <1>4. trouble \subseteq trouble' /\ trouble' \subseteq Trouble
    BY <1>1, <1>2, <1>3, HappensFacts
  <1>5. TypeOK'
    BY <1>1, <1>2, <1>4 DEF OfferInv, TypeOK
  <1>6. OffersStill
    BY <1>1, <1>2, <1>4 DEF OffersStill, Cred, Datum, SSock, OfferInv, Courses, CourseOf
  <1>7. MeetingsStill
    BY <1>1, <1>2 DEF MeetingsStill, Met
  <1>8. ItemsStill
    BY <1>2, <1>4 DEF ItemsStill, Spoiled, OfferInv, Kept
  <1> QED
    BY <1>5, <1>6, <1>7, <1>8, CoursesStay, HandshakesStay, ItemsStay DEF OfferInv

-----------------------------------------------------------------------------
(* Items and their threads                                                  *)

\* A sender who cancels without a thread harms nobody, and one with a thread cuts it.
LEMMA CancelSentKeeps ==
    ASSUME OfferInv, NEW t \in Transfer, CancelSent(t), UNCHANGED route, ~undefined
    PROVE  OfferInv'
  <1> USE DEF serverVars, receiverVars
  <1> DEFINE kind == IF sthread[t] = "none" THEN "cancelled" ELSE "cut"
  <1>1. kind \in Trouble /\ Happens(kind) /\ trouble \subseteq Trouble
    BY DEF Trouble, CancelSent, OfferInv, TypeOK
  <1>2. /\ trouble \subseteq trouble' /\ trouble' \subseteq Trouble
        /\ kind = "cut" => Spoiled'
    BY <1>1, HappensFacts
  <1>3. sthread[t] = "none" \/ Spoiled'
    BY <1>2
  <1> HIDE DEF kind
  <1>4. sitem \in [Transfer -> {"none", "QueReady"}] /\ sitem' = [sitem EXCEPT ![t] = "none"]
        /\ undefined' = (undefined \/ sthread[t] # "none")
    BY DEF CancelSent, OfferInv, TypeOK
  <1>5. /\ sitem' \in [Transfer -> {"none", "QueReady"}]
        /\ \A u \in Transfer \ {t} : sitem'[u] = sitem[u]
    BY <1>4
  <1>6. TypeOK'
    BY <1>2, <1>4, <1>5 DEF OfferInv, TypeOK, CancelSent
  <1>7. OffersStill
    BY <1>2 DEF OffersStill, Cred, Datum, SSock, OfferInv, Courses, CourseOf, CancelSent
  <1>8. MeetingsStill
    BY DEF MeetingsStill, Met, CancelSent
  <1>9. ItemsStill
    <2>1. Spoiled' \/ ~undefined'
      BY <1>3, <1>4
    <2>2. \A u \in Transfer : sthread'[u] = sthread[u] /\ rthread'[u] = rthread[u] /\ ritem'[u] = ritem[u]
      BY DEF CancelSent
    <2>3. \A u \in Transfer : sthread[u] = "created" => sitem'[u] = sitem[u] \/ Spoiled'
      BY <1>3, <1>5
    <2> QED
      BY <1>2, <2>1, <2>2, <2>3 DEF ItemsStill
  <1> QED
    BY <1>6, <1>7, <1>8, <1>9, CoursesStay, HandshakesStay, ItemsStay DEF OfferInv

\* A receiver who accepts has his item, or is the user who named a bad path.
LEMMA AcceptItemKeeps ==
    ASSUME OfferInv, NEW t \in Transfer, AcceptItem(t), UNCHANGED route, ~undefined
    PROVE  OfferInv'
  <1> USE DEF serverVars, senderVars
  <1>1. /\ ritem[t] = "QuePend" /\ trouble \subseteq Trouble /\ "bad path" \in Trouble
        /\ ritem \in [Transfer -> {"none", "QuePend", "QueReady"}]
        /\ gate \in [Transfer -> {"locked", "UDPSTART", "UDPSTOP"}]
    BY DEF AcceptItem, OfferInv, TypeOK, Trouble
  <1>2. addr[t] # NoAddr /\ t \in offered
    BY <1>1 DEF OfferInv, Courses, CourseOf, Fresh, Untold
  <1>3. /\ ritem' \in [Transfer -> {"none", "QuePend", "QueReady"}]
        /\ gate' \in [Transfer -> {"locked", "UDPSTART", "UDPSTOP"}]
        /\ \A u \in Transfer \ {t} : ritem'[u] = ritem[u]
        /\ undefined' \in BOOLEAN /\ accepted' \subseteq offered
    <2>1. undefined \in BOOLEAN /\ accepted \subseteq offered
      BY DEF OfferInv, TypeOK
    <2>2. \/ /\ ritem' = [ritem EXCEPT ![t] = "QueReady"]
             /\ gate' = [gate EXCEPT ![t] = "UDPSTART"]
             /\ accepted' = accepted \cup {t} /\ undefined' = undefined
          \/ /\ ritem' = [ritem EXCEPT ![t] = "none"]
             /\ undefined' = TRUE /\ gate' = gate /\ accepted' = accepted
      BY DEF AcceptItem
    <2> QED
      BY <1>1, <1>2, <2>1, <2>2
  <1>4. trouble \subseteq trouble' /\ trouble' \subseteq Trouble
    BY <1>1, HappensFacts DEF AcceptItem
  <1>5. \/ ritem'[t] = "QueReady" /\ undefined' = undefined
        \/ Spoiled'
    BY <1>1, HappensFacts DEF AcceptItem
  <1>6. TypeOK'
    BY <1>3, <1>4 DEF OfferInv, TypeOK, AcceptItem
  <1>7. OffersStill
    BY <1>2, <1>3, <1>4 DEF OffersStill, Cred, Datum, SSock, OfferInv, Courses, CourseOf, AcceptItem
  <1>8. MeetingsStill
    BY DEF MeetingsStill, Met, AcceptItem
  <1>9. ItemsStill
    BY <1>3, <1>4, <1>5 DEF ItemsStill, AcceptItem
  <1> QED
    BY <1>6, <1>7, <1>8, <1>9, CoursesStay, HandshakesStay, ItemsStay DEF OfferInv

\* A receiver who cancels cuts his thread.
LEMMA CancelReceivedKeeps ==
    ASSUME OfferInv, NEW t \in Transfer, CancelReceived(t), UNCHANGED route, ~undefined
    PROVE  OfferInv'
  <1> USE DEF serverVars, senderVars
  <1>1. /\ ritem[t] # "none" /\ trouble \subseteq Trouble /\ "cut" \in Trouble
        /\ ritem \in [Transfer -> {"none", "QuePend", "QueReady"}]
        /\ gate \in [Transfer -> {"locked", "UDPSTART", "UDPSTOP"}]
    BY DEF CancelReceived, OfferInv, TypeOK, Trouble
  <1>2. addr[t] # NoAddr
    BY <1>1 DEF OfferInv, Courses, CourseOf
  <1>3. /\ ritem' \in [Transfer -> {"none", "QuePend", "QueReady"}]
        /\ gate' \in [Transfer -> {"locked", "UDPSTART", "UDPSTOP"}]
        /\ \A u \in Transfer \ {t} : ritem'[u] = ritem[u]
        /\ undefined' \in BOOLEAN
    BY <1>1 DEF CancelReceived, OfferInv, TypeOK
  <1>4. trouble \subseteq trouble' /\ trouble' \subseteq Trouble /\ Spoiled'
    BY <1>1, HappensFacts DEF CancelReceived
  <1>6. TypeOK'
    BY <1>3, <1>4 DEF OfferInv, TypeOK, CancelReceived
  <1>7. OffersStill
    BY <1>2, <1>3, <1>4 DEF OffersStill, Cred, Datum, SSock, OfferInv, Courses, CourseOf, CancelReceived
  <1>8. MeetingsStill
    BY DEF MeetingsStill, Met, CancelReceived
  <1> QED
    BY <1>4, <1>6, <1>7, <1>8, CoursesStay, HandshakesStay DEF OfferInv, Spoiled

\* A thread that gets the lock finds its item, unless the user took it away.
LEMMA ThreadStartsKeeps ==
    ASSUME OfferInv, NEW t \in Transfer, ThreadStarts(t), UNCHANGED route, ~undefined
    PROVE  OfferInv'
  <1> USE DEF serverVars, senderVars
  <1>1. /\ rthread[t] = "waiting" /\ trouble \subseteq Trouble /\ "no socket" \in Trouble
        /\ ritem \in [Transfer -> {"none", "QuePend", "QueReady"}]
        /\ rthread \in [Transfer -> {"none", "waiting", "connecting", "connected"}]
    BY DEF ThreadStarts, OfferInv, TypeOK, Trouble
  <1>2. addr[t] # NoAddr
    BY <1>1 DEF OfferInv, Courses, CourseOf
  <1>3. /\ ritem' \in [Transfer -> {"none", "QuePend", "QueReady"}]
        /\ rthread' \in [Transfer -> {"none", "waiting", "connecting", "connected"}]
        /\ \A u \in Transfer \ {t} : ritem'[u] = ritem[u] /\ rthread'[u] = rthread[u]
        /\ rthread'[t] \in {"none", "connecting"}
    BY <1>1 DEF ThreadStarts
  <1>4. trouble \subseteq trouble' /\ trouble' \subseteq Trouble
    BY <1>1, HappensFacts DEF ThreadStarts
  <1>5. Spoiled' \/ ~undefined'
    BY <1>1, <1>4 DEF ThreadStarts, OfferInv, Kept, Spoiled
  <1>6. TypeOK'
    BY <1>3, <1>4 DEF OfferInv, TypeOK, ThreadStarts
  <1>7. OffersStill
    BY <1>2, <1>3, <1>4 DEF OffersStill, Cred, Datum, SSock, OfferInv, Courses, CourseOf, ThreadStarts
  <1>8. MeetingsStill
    BY <1>1, <1>3 DEF MeetingsStill, Met, ThreadStarts
  <1>9. ItemsStill
    BY <1>3, <1>4, <1>5 DEF ItemsStill, ThreadStarts
  <1> QED
    BY <1>6, <1>7, <1>8, <1>9, CoursesStay, HandshakesStay, ItemsStay DEF OfferInv

-----------------------------------------------------------------------------
(* The course of an offer                                                   *)

\* server_request_transfer keeps the courses: the offer begins to wait when its
\* sender is asked.
LEMMA RequestKeeps ==
    ASSUME OfferInv, NEW t \in Transfer, Request(t), UNCHANGED route, ~undefined
    PROVE  OfferInv'
  <1> USE DEF senderVars, receiverVars, historyVars
  <1>1. /\ UNCHANGED <<route, alive, session, air, sitem, sthread, peer, ssends, ritem, gate, addr,
                       rthread, rsends, undefined, trouble, offered, accepted, misread>>
        /\ ready \in Seq(Transfer) /\ IsInjective(ready) /\ mail \subseteq Mail
        /\ <<"REQTRANS", t>> \in mail
    BY DEF Request, OfferInv, TypeOK
  <1>2. Fresh(t) /\ t \in offered
    BY <1>1 DEF OfferInv, Courses, CourseOf
  <1>3. /\ ready' \in Seq(Transfer) /\ IsInjective(ready')
        /\ \A u \in Transfer : Contains(ready, u) => Contains(ready', u)
        /\ \A u \in Transfer : Contains(ready', u) <=> Contains(ready, u) \/ (u = t /\ To(t) \in session)
        /\ mail' = IF To(t) \in session THEN (mail \ {<<"REQTRANS", t>>}) \cup {<<"UREADYTRANS", t>>}
                                        ELSE mail \ {<<"REQTRANS", t>>}
    <2>1. ~Contains(ready, t)
      BY <1>2 DEF Fresh
    <2>2. /\ <<t>> \o ready \in Seq(Transfer) /\ IsInjective(<<t>> \o ready)
          /\ \A u : Contains(<<t>> \o ready, u) <=> Contains(ready, u) \/ u = t
      BY <1>1, <2>1, ConsFacts
    <2> DEFINE g == <<t>> \o ready
    <2>3. \/ To(t) \in session /\ ready' = g
             /\ mail' = (mail \ {<<"REQTRANS", t>>}) \cup {<<"UREADYTRANS", t>>}
          \/ To(t) \notin session /\ ready' = ready /\ mail' = mail \ {<<"REQTRANS", t>>}
      BY DEF Request
    <2>4. g \in Seq(Transfer) /\ IsInjective(g) /\ \A u : Contains(g, u) <=> Contains(ready, u) \/ u = t
      BY <2>2
    <2> HIDE DEF g
    <2> QED
      BY <1>1, <2>3, <2>4
  <1>4. /\ mail' \subseteq Mail
        /\ <<"REQTRANS", t>> \notin mail'
        /\ \A u \in Transfer : <<"REQTRANS", u>> \in mail' => <<"REQTRANS", u>> \in mail
        /\ \A u \in Transfer : <<"UREADYTRANS", u>> \in mail' => <<"UREADYTRANS", u>> \in mail \/ (u = t /\ To(t) \in session)
        /\ \A u, a \in Transfer : <<"OFFER", u, a>> \in mail' <=> <<"OFFER", u, a>> \in mail
    BY <1>1, <1>3, MailFacts
  <1>5. \A u \in Transfer : Cred(u)' = Cred(u) /\ (Untold(u)' <=> Untold(u))
    BY <1>1, <1>4 DEF Cred, Datum, SSock, Untold
  <1>6. TypeOK'
    BY <1>1, <1>3, <1>4 DEF OfferInv, TypeOK
  <1>7. Courses'
    <2>1. ASSUME NEW u \in Transfer PROVE CourseOf(u)'
      <3>1. CourseOf(u)
        BY DEF OfferInv, Courses
      <3>2. u # t /\ Fresh(u) => Fresh(u)'
        BY <1>1, <1>3, <1>4, <1>5 DEF Fresh
      <3>3. CASE u = t
        <4>1. Untold(t)' /\ addr'[t] = NoAddr /\ sthread'[t] = "none" /\ Cred(t)' \notin air'
          BY <1>1, <1>2, <1>5 DEF Fresh, Untold
        <4>2. \A a \in Transfer : <<"OFFER", t, a>> \notin mail'
          BY <4>1 DEF Untold
        <4>3. ritem'[t] = "none" /\ rthread'[t] = "none"
          BY <1>1, <3>1, <3>3, <4>1 DEF CourseOf
        <4> QED
          BY <1>1, <1>2, <1>4, <3>3, <4>1, <4>2, <4>3 DEF CourseOf
      <3>4. CASE u # t
        BY <1>1, <1>3, <1>4, <1>5, <3>1, <3>2, <3>4 DEF CourseOf
      <3> QED
        BY <3>3, <3>4
    <2>2. ASSUME NEW u \in Transfer, "duplicated" \notin trouble' PROVE OwnOf(u)'
      <3>1. OwnOf(u)
        BY <1>1, <2>2 DEF OfferInv, Courses
      <3> QED
        BY <1>1, <1>3, <1>4, <1>5, <3>1 DEF OwnOf
    <2> QED
      BY <2>1, <2>2 DEF Courses
  <1>8. MeetingsStill
    BY <1>1 DEF MeetingsStill, Met
  <1>9. ItemsStill
    BY <1>1 DEF ItemsStill, Spoiled, OfferInv, Kept
  <1> QED
    BY <1>6, <1>7, <1>8, <1>9, HandshakesStay, ItemsStay DEF OfferInv

\* udp_transfer_handler keeps the courses: the offer found leaves the ready queue
\* as its receiver is told.
LEMMA CredentialKeeps ==
    ASSUME OfferInv, NEW t \in Transfer, Credential(t), UNCHANGED route, ~undefined
    PROVE  OfferInv'
  <1> USE DEF senderVars, receiverVars
  <1> DEFINE r == Ready(t)
  <1>1. /\ UNCHANGED <<route, alive, session, sitem, sthread, peer, ssends, ritem, gate, addr,
                       rthread, rsends, undefined, offered, accepted, misread>>
        /\ ready \in Seq(Transfer) /\ IsInjective(ready) /\ mail \subseteq Mail
        /\ Cred(t) \in air /\ air' \subseteq air /\ trouble \subseteq Trouble /\ "duplicated" \in Trouble
    BY DEF Credential, OfferInv, TypeOK, Cred, Trouble
  <1>2. /\ trouble \subseteq trouble' /\ trouble' \subseteq Trouble
        /\ "duplicated" \in trouble' \/ (air' = air \ {Cred(t)} /\ trouble' = trouble)
    BY <1>1, HappensFacts DEF Credential, Happens, Cred
  <1>3. \A u \in Transfer : Cred(u)' = Cred(u)
    BY DEF Cred, Datum, SSock
  <1>4. MeetingsStill
    BY <1>1 DEF MeetingsStill, Met
  <1>5. ItemsStill
    BY <1>1, <1>2 DEF ItemsStill, Spoiled, OfferInv, Kept
  <1>6. CASE ready = <<>>
    <2>1. ready' = ready /\ mail' = mail
      BY <1>6 DEF Credential
    <2>2. TypeOK'
      BY <1>1, <1>2, <2>1 DEF OfferInv, TypeOK
    <2>3. OffersStill
      BY <1>1, <1>2, <1>3, <2>1 DEF OffersStill, OfferInv, Courses, CourseOf
    <2> QED
      BY <1>4, <1>5, <2>2, <2>3, CoursesStay, HandshakesStay, ItemsStay DEF OfferInv
  <1>7. CASE ready # <<>>
    <2>1. r \in Transfer /\ Contains(ready, r) /\ (Contains(ready, t) => r = t)
      BY <1>1, <1>7 DEF Ready, Contains, Last
    <2>2. ready' = RemoveFirst(ready, r)
          /\ mail' = IF To(r) \in session THEN mail \cup {<<"OFFER", r, t>>} ELSE mail
      BY <1>7 DEF Credential
    <2> HIDE DEF r
    <2>3. /\ ready' \in Seq(Transfer) /\ IsInjective(ready')
          /\ \A u \in Transfer : Contains(ready', u) <=> Contains(ready, u) /\ u # r
      BY <1>1, <2>2, RemoveFacts
    <2>4. /\ mail' \subseteq Mail
          /\ \A u \in Transfer : <<"REQTRANS", u>> \in mail' <=> <<"REQTRANS", u>> \in mail
          /\ \A u \in Transfer : <<"UREADYTRANS", u>> \in mail' <=> <<"UREADYTRANS", u>> \in mail
          /\ \A u, a \in Transfer : <<"OFFER", u, a>> \in mail' => <<"OFFER", u, a>> \in mail \/ (u = r /\ a = t)
          /\ \A u, a \in Transfer : <<"OFFER", u, a>> \in mail => <<"OFFER", u, a>> \in mail'
      <3>1. mail' = mail \/ mail' = mail \cup {<<"OFFER", r, t>>}
        BY <2>2
      <3>2. /\ <<"OFFER", r, t>> \in Mail
            /\ \A u \in Transfer : <<"OFFER", r, t>> # <<"REQTRANS", u>> /\ <<"OFFER", r, t>> # <<"UREADYTRANS", u>>
            /\ \A u, a \in Transfer : <<"OFFER", u, a>> = <<"OFFER", r, t>> => u = r /\ a = t
        BY <2>1, MailFacts
      <3> QED
        BY <1>1, <3>1, <3>2
    <2>5. Untold(r) /\ r \in offered /\ <<"REQTRANS", r>> \notin mail
      BY <2>1 DEF OfferInv, Courses, CourseOf, Fresh
    <2>6. TypeOK'
      BY <1>1, <1>2, <2>3, <2>4 DEF OfferInv, TypeOK
    <2>7. ASSUME NEW u \in Transfer PROVE CourseOf(u)'
      <3>1. CourseOf(u)
        BY DEF OfferInv, Courses
      <3>2. u # r => (Untold(u)' <=> Untold(u))
        BY <1>1, <2>4 DEF Untold
      <3>3. u # r /\ Fresh(u) => Fresh(u)'
        BY <1>1, <1>3, <2>3, <2>4, <3>2 DEF Fresh
      <3>4. CASE u = r
        BY <1>1, <1>3, <2>3, <2>4, <2>5, <3>1, <3>4 DEF CourseOf, Untold
      <3>5. CASE u # r
        BY <1>1, <1>3, <2>3, <2>4, <3>1, <3>2, <3>3, <3>5 DEF CourseOf
      <3> QED
        BY <3>4, <3>5
    <2>8. ASSUME NEW u \in Transfer, "duplicated" \notin trouble' PROVE OwnOf(u)'
      <3>1. OwnOf(u) /\ OwnOf(t) /\ air' = air \ {Cred(t)}
        BY <1>2, <2>8 DEF OfferInv, Courses
      <3>2. r = t
        BY <1>1, <2>1, <3>1 DEF OwnOf
      <3>3. <<"UREADYTRANS", t>> \notin mail /\ sthread[t] # "created"
        BY <1>1 DEF OfferInv, Courses, CourseOf
      <3> QED
        BY <1>1, <1>3, <2>3, <2>4, <3>1, <3>2, <3>3 DEF OwnOf
    <2> QED
      BY <1>4, <1>5, <2>6, <2>7, <2>8, HandshakesStay, ItemsStay DEF OfferInv, Courses
  <1> QED
    BY <1>6, <1>7

\* A file offered begins its course.
LEMMA SendFileKeeps ==
    ASSUME OfferInv, NEW t \in Transfer, SendFile(t), UNCHANGED route, ~undefined
    PROVE  OfferInv'
  <1> USE DEF serverVars, receiverVars
  <1>1. /\ UNCHANGED <<route, alive, session, ready, air, sthread, peer, ssends, ritem, gate, addr,
                       rthread, rsends, undefined, trouble, accepted, misread>>
        /\ t \notin offered /\ offered' = offered \cup {t}
        /\ mail' = mail \cup {<<"REQTRANS", t>>} /\ mail \subseteq Mail
        /\ sitem' = [sitem EXCEPT ![t] = "QueReady"] /\ sitem \in [Transfer -> {"none", "QueReady"}]
    BY DEF SendFile, OfferInv, TypeOK
  <1>2. /\ mail' \subseteq Mail
        /\ \A u \in Transfer : <<"REQTRANS", u>> \in mail' <=> <<"REQTRANS", u>> \in mail \/ u = t
        /\ \A u \in Transfer : <<"UREADYTRANS", u>> \in mail' <=> <<"UREADYTRANS", u>> \in mail
        /\ \A u, a \in Transfer : <<"OFFER", u, a>> \in mail' <=> <<"OFFER", u, a>> \in mail
    BY <1>1, MailFacts
  <1>3. \A u \in Transfer : /\ Cred(u)' = Cred(u)
                            /\ Untold(u)' <=> Untold(u)
    BY <1>1, <1>2 DEF Cred, Datum, SSock, Untold
  <1>4. TypeOK'
    BY <1>1, <1>2 DEF OfferInv, TypeOK
  <1>5. ASSUME NEW u \in Transfer PROVE CourseOf(u)'
    <2>1. CourseOf(u) /\ Fresh(t)
      BY <1>1 DEF OfferInv, Courses, CourseOf
    <2>2. Fresh(u)' <=> Fresh(u)
      BY <1>1, <1>2, <1>3 DEF Fresh
    <2> QED
      BY <1>1, <1>2, <1>3, <2>1, <2>2 DEF CourseOf
  <1>6. ASSUME NEW u \in Transfer, "duplicated" \notin trouble' PROVE OwnOf(u)'
    <2>1. OwnOf(u)
      BY <1>1, <1>6 DEF OfferInv, Courses
    <2> QED
      BY <1>1, <1>2, <1>3, <2>1 DEF OwnOf
  <1>7. MeetingsStill
    BY <1>1 DEF MeetingsStill, Met
  <1>8. (Kept \/ Spoiled)'
    BY <1>1 DEF OfferInv, Kept, Spoiled
  <1> QED
    BY <1>4, <1>5, <1>6, <1>7, <1>8, HandshakesStay DEF OfferInv, Courses

\* sm_uready_transfer starts a thread for an item that is ready, and only once.
LEMMA UReadyKeeps ==
    ASSUME OfferInv, NEW t \in Transfer, UReady(t), UNCHANGED route, ~undefined
    PROVE  OfferInv'
  <1> USE DEF serverVars, receiverVars, historyVars
  <1>1. /\ UNCHANGED <<route, alive, session, ready, air, sitem, peer, ssends, ritem, gate, addr,
                       rthread, rsends, undefined, trouble, offered, accepted, misread>>
        /\ <<"UREADYTRANS", t>> \in mail
        /\ mail' = mail \ {<<"UREADYTRANS", t>>} /\ mail \subseteq Mail
        /\ sthread \in [Transfer -> {"none", "created", "accepting", "answering", "connected"}]
        /\ sthread' = IF sitem[t] = "QueReady" THEN [sthread EXCEPT ![t] = "created"] ELSE sthread
    BY DEF UReady, OfferInv, TypeOK, ReadyItem
  <1>2. /\ \A u \in Transfer : <<"REQTRANS", u>> \in mail' <=> <<"REQTRANS", u>> \in mail
        /\ \A u \in Transfer : <<"UREADYTRANS", u>> \in mail' <=> <<"UREADYTRANS", u>> \in mail /\ u # t
        /\ \A u, a \in Transfer : <<"OFFER", u, a>> \in mail' <=> <<"OFFER", u, a>> \in mail
    BY <1>1, MailFacts
  <1>3. \A u \in Transfer : /\ Cred(u)' = Cred(u)
                            /\ Untold(u)' <=> Untold(u)
    BY <1>1, <1>2 DEF Cred, Datum, SSock, Untold
  <1>4. /\ sthread[t] = "none" /\ Cred(t) \notin air
        /\ ~Fresh(t) /\ t \in offered /\ <<"REQTRANS", t>> \notin mail
    BY <1>1 DEF OfferInv, Courses, CourseOf, Fresh
  <1>5. /\ sthread' \in [Transfer -> {"none", "created", "accepting", "answering", "connected"}]
        /\ \A u \in Transfer \ {t} : sthread'[u] = sthread[u]
        /\ sthread'[t] \in {"none", "created"}
        /\ sthread'[t] = "created" => sitem[t] = "QueReady"
    BY <1>1, <1>4
  <1>6. TypeOK'
    BY <1>1, <1>5 DEF OfferInv, TypeOK
  <1>7. ASSUME NEW u \in Transfer PROVE CourseOf(u)'
    <2>1. CourseOf(u)
      BY DEF OfferInv, Courses
    <2>2. u # t => (Fresh(u)' <=> Fresh(u))
      BY <1>1, <1>2, <1>3, <1>5 DEF Fresh
    <2> QED
      BY <1>1, <1>2, <1>3, <1>4, <1>5, <2>1, <2>2 DEF CourseOf
  <1>8. ASSUME NEW u \in Transfer, "duplicated" \notin trouble' PROVE OwnOf(u)'
    <2>1. OwnOf(u)
      BY <1>1, <1>8 DEF OfferInv, Courses
    <2> QED
      BY <1>1, <1>2, <1>3, <1>5, <2>1 DEF OwnOf
  <1>9. MeetingsStill
    BY <1>1, <1>4, <1>5 DEF MeetingsStill, Met
  <1>10. (Kept \/ Spoiled)'
    BY <1>1, <1>5 DEF OfferInv, Kept, Spoiled
  <1> QED
    BY <1>6, <1>7, <1>8, <1>9, <1>10, HandshakesStay DEF OfferInv, Courses

\* udp_ready_handler announces a sender whose item is there.
LEMMA AnnounceKeeps ==
    ASSUME UdpOfferAssumption, OfferInv, NEW t \in Transfer, Announce(t), UNCHANGED route, ~undefined
    PROVE  OfferInv'
  <1> USE DEF serverVars, receiverVars
  <1>1. /\ UNCHANGED <<route, alive, session, ready, mail, peer, ssends, ritem, gate, addr,
                       rthread, rsends, offered, accepted, misread>>
        /\ sthread \in [Transfer -> {"none", "created", "accepting", "answering", "connected"}]
        /\ sitem \in [Transfer -> {"none", "QueReady"}]
        /\ trouble \subseteq Trouble /\ "no socket" \in Trouble /\ air \subseteq Datagram
        /\ sthread[t] = "created"
        /\ undefined' = (undefined \/ sitem[t] = "none")
    BY DEF Announce, OfferInv, TypeOK, Trouble
  <1>2. Cred(t) \in Datagram /\ Cred(t).body = "CRED"
    <2>1. SSock(t) \in Socket /\ "CRED" \in Body /\ 0 \in 0..MaxSends
      BY DatumFacts DEF Body
    <2> QED
      BY <2>1 DEF Cred, Datum, Datagram
  <1>3. /\ trouble \subseteq trouble' /\ trouble' \subseteq Trouble
        /\ air \subseteq air' /\ air' \subseteq air \cup {Cred(t)}
    BY <1>1, HappensFacts DEF Announce, Send, Cred
  <1>4. /\ sthread' \in [Transfer -> {"none", "created", "accepting", "answering", "connected"}]
        /\ sitem' \in [Transfer -> {"none", "QueReady"}]
        /\ \A u \in Transfer \ {t} : sthread'[u] = sthread[u] /\ sitem'[u] = sitem[u]
        /\ sthread'[t] \in {"none", "accepting"}
    BY <1>1 DEF Announce
  <1>5. \A u \in Transfer : /\ Cred(u)' = Cred(u)
                            /\ u # t => Cred(u) # Cred(t)
                            /\ Untold(u)' <=> Untold(u)
    BY <1>1 DEF Cred, Datum, SSock, Untold
  <1>6. /\ <<"UREADYTRANS", t>> \notin mail
        /\ ~Fresh(t) /\ t \in offered /\ <<"REQTRANS", t>> \notin mail
    BY <1>1 DEF OfferInv, Courses, CourseOf, Fresh
  <1>7. TypeOK'
    BY <1>1, <1>2, <1>3, <1>4 DEF OfferInv, TypeOK
  <1>8. ASSUME NEW u \in Transfer PROVE CourseOf(u)'
    <2>1. CourseOf(u)
      BY DEF OfferInv, Courses
    <2>2. u # t => (Fresh(u)' <=> Fresh(u))
      BY <1>1, <1>3, <1>4, <1>5 DEF Fresh
    <2> QED
      BY <1>1, <1>3, <1>4, <1>5, <1>6, <2>1, <2>2 DEF CourseOf
  <1>9. ASSUME NEW u \in Transfer, "duplicated" \notin trouble' PROVE OwnOf(u)'
    <2>1. OwnOf(u)
      BY <1>3, <1>9 DEF OfferInv, Courses
    <2> QED
      BY <1>1, <1>3, <1>4, <1>5, <2>1 DEF OwnOf
  <1>10. MeetingsStill
    BY <1>1, <1>2, <1>3, <1>4 DEF MeetingsStill, Met
  <1>11. (Kept \/ Spoiled)'
    BY <1>1, <1>3, <1>4 DEF OfferInv, Kept, Spoiled
  <1> QED
    BY <1>7, <1>8, <1>9, <1>10, <1>11, HandshakesStay DEF OfferInv, Courses

\* A receiver is told of an offer once.
LEMMA OfferedKeeps ==
    ASSUME UdpOfferAssumption, OfferInv, NEW t \in Transfer, Offered(t), UNCHANGED route, ~undefined
    PROVE  OfferInv'
  <1> USE DEF serverVars, senderVars, historyVars
  <1>1. PICK a \in Transfer :
        /\ <<"OFFER", t, a>> \in mail
        /\ mail' = mail \ {<<"OFFER", t, a>>}
        /\ ritem' = [ritem EXCEPT ![t] = "QuePend"]
        /\ addr' = [addr EXCEPT ![t] = a]
        /\ rthread' = [rthread EXCEPT ![t] = "waiting"]
        /\ UNCHANGED <<alive, serverVars, air, senderVars, gate, rsends, undefined, historyVars>>
    BY DEF Offered
  <1>2. /\ mail \subseteq Mail
        /\ ritem \in [Transfer -> {"none", "QuePend", "QueReady"}]
        /\ addr \in [Transfer -> Transfer \cup {NoAddr}]
        /\ rthread \in [Transfer -> {"none", "waiting", "connecting", "connected"}]
        /\ a # NoAddr
    BY DEF OfferInv, TypeOK, UdpOfferAssumption
  <1>3. /\ ritem' \in [Transfer -> {"none", "QuePend", "QueReady"}]
        /\ addr' \in [Transfer -> Transfer \cup {NoAddr}]
        /\ rthread' \in [Transfer -> {"none", "waiting", "connecting", "connected"}]
        /\ \A u \in Transfer \ {t} : ritem'[u] = ritem[u] /\ addr'[u] = addr[u] /\ rthread'[u] = rthread[u]
        /\ ritem'[t] = "QuePend" /\ addr'[t] = a /\ rthread'[t] = "waiting"
    BY <1>1, <1>2
  <1>4. /\ \A u \in Transfer : <<"REQTRANS", u>> \in mail' <=> <<"REQTRANS", u>> \in mail
        /\ \A u \in Transfer : <<"UREADYTRANS", u>> \in mail' <=> <<"UREADYTRANS", u>> \in mail
        /\ \A u, b \in Transfer : <<"OFFER", u, b>> \in mail' <=> <<"OFFER", u, b>> \in mail /\ (u # t \/ b # a)
    BY <1>1, MailFacts
  <1>5. /\ ~Untold(t) /\ ~Fresh(t) /\ t \in offered /\ <<"REQTRANS", t>> \notin mail
        /\ ~Contains(ready, t) /\ addr[t] = NoAddr
        /\ \A b \in Transfer : <<"OFFER", t, b>> \in mail => b = a
        /\ rthread[t] = "none"
    BY <1>1 DEF OfferInv, Courses, CourseOf, Fresh, Untold
  <1>6. \A u \in Transfer : Cred(u)' = Cred(u)
    BY DEF Cred, Datum, SSock
  <1>7. TypeOK'
    BY <1>1, <1>3, <1>2 DEF OfferInv, TypeOK
  <1>8. ASSUME NEW u \in Transfer PROVE CourseOf(u)'
    <2>1. CourseOf(u)
      BY DEF OfferInv, Courses
    <2>2. u # t => (Untold(u)' <=> Untold(u))
      BY <1>3, <1>4 DEF Untold
    <2>3. u # t => (Fresh(u)' <=> Fresh(u))
      BY <1>1, <1>4, <1>6, <2>2 DEF Fresh
    <2>4. CASE u = t
      BY <1>1, <1>2, <1>3, <1>4, <1>5, <1>6, <2>1, <2>4 DEF CourseOf
    <2>5. CASE u # t
      BY <1>1, <1>3, <1>4, <1>6, <2>1, <2>2, <2>3, <2>5 DEF CourseOf
    <2> QED
      BY <2>4, <2>5
  <1>9. ASSUME NEW u \in Transfer, "duplicated" \notin trouble' PROVE OwnOf(u)'
    <2>1. OwnOf(u)
      BY <1>1, <1>9 DEF OfferInv, Courses
    <2> QED
      BY <1>1, <1>3, <1>4, <1>6, <2>1 DEF OwnOf
  <1>10. MeetingsStill
    BY <1>1, <1>3, <1>5 DEF MeetingsStill, Met
  <1>11. (Kept \/ Spoiled)'
    BY <1>1, <1>3 DEF OfferInv, Kept, Spoiled
  <1> QED
    BY <1>7, <1>8, <1>9, <1>10, <1>11, HandshakesStay DEF OfferInv, Courses

-----------------------------------------------------------------------------
(* The theorems                                                             *)

\* At the start no offer is under way.
LEMMA OfferStarts ==
    ASSUME UdpOfferAssumption, Init
    PROVE  OfferInv
  <1> USE DEF Init
  <1>1. 0 \in 0..MaxSends /\ IsInjective(ready) /\ \A t : ~Contains(ready, t)
    BY DEF UdpOfferAssumption, IsInjective, Contains
  <1>2. TypeOK
    <2>1. ready \in Seq(Transfer)
      OBVIOUS
    <2>2. /\ ssends \in [Transfer -> 0..MaxSends] /\ rsends \in [Transfer -> 0..MaxSends]
          /\ addr \in [Transfer -> Transfer \cup {NoAddr}] /\ peer \in [Transfer -> Transfer \cup {NoAddr}]
      BY <1>1
    <2>3. /\ sitem \in [Transfer -> {"none", "QueReady"}]
          /\ ritem \in [Transfer -> {"none", "QuePend", "QueReady"}]
          /\ gate \in [Transfer -> {"locked", "UDPSTART", "UDPSTOP"}]
          /\ sthread \in [Transfer -> {"none", "created", "accepting", "answering", "connected"}]
          /\ rthread \in [Transfer -> {"none", "waiting", "connecting", "connected"}]
      OBVIOUS
    <2> HIDE DEF Init
    <2>4. route \in Routes /\ alive \subseteq User /\ session \subseteq User
          /\ mail \subseteq Mail /\ air \subseteq Datagram /\ undefined \in BOOLEAN
          /\ trouble \subseteq Trouble /\ offered \subseteq Transfer /\ accepted \subseteq offered
          /\ misread \subseteq Socket
      BY DEF Init
    <2> QED
      BY <1>1, <2>1, <2>2, <2>3, <2>4 DEF TypeOK
  <1>3. Courses
    BY <1>1 DEF Courses, CourseOf, OwnOf, Fresh, Untold
  <1>4. Handshakes /\ Kept
    BY DEF Handshakes, Met, Kept
  <1> QED
    BY <1>2, <1>3, <1>4 DEF OfferInv

\* Every step keeps the invariant of the offers.
LEMMA OfferStep ==
    ASSUME UdpOfferAssumption, OfferInv, [Next]_vars
    PROVE  OfferInv'
  <1>1. ASSUME ServerStep, ~undefined, UNCHANGED route PROVE OfferInv'
    BY <1>1, RequestKeeps, CredentialKeeps, DisconnectKeeps DEF ServerStep
  <1>2. ASSUME Lose, ~undefined, UNCHANGED route PROVE OfferInv'
    BY <1>2, LoseKeeps
  <1>3. ASSUME NEW t \in Transfer, SenderStep(t), ~undefined, UNCHANGED route PROVE OfferInv'
    BY <1>3, UReadyKeeps, AnnounceKeeps, TakeCredKeeps, SendAcceptKeeps, TakeReplyKeeps, GiveUpAcceptKeeps
    DEF SenderStep
  <1>4. ASSUME NEW t \in Transfer, ReceiverStep(t), ~undefined, UNCHANGED route PROVE OfferInv'
    BY <1>4, OfferedKeeps, ThreadStartsKeeps, SendCredKeeps, TakeAcceptKeeps, GiveUpConnectKeeps
    DEF ReceiverStep
  <1>5. ASSUME NEW t \in Transfer, UserStep(t), ~undefined, UNCHANGED route PROVE OfferInv'
    BY <1>5, SendFileKeeps, AcceptItemKeeps, CancelSentKeeps, CancelReceivedKeeps DEF UserStep
  <1>6. ASSUME NEW u \in User, Die(u), ~undefined, UNCHANGED route PROVE OfferInv'
    BY <1>6, DieKeeps
  <1>7. ASSUME UNCHANGED vars PROVE OfferInv'
    <2> USE DEF vars, serverVars, senderVars, receiverVars, historyVars
    <2>1. TypeOK'
      BY <1>7 DEF OfferInv, TypeOK
    <2>2. OffersStill /\ MeetingsStill
      BY <1>7 DEF OffersStill, MeetingsStill, Met, Cred, Datum, SSock, OfferInv, Courses, CourseOf
    <2>3. (Kept \/ Spoiled)'
      BY <1>7 DEF OfferInv, Kept, Spoiled
    <2> QED
      BY <2>1, <2>2, <2>3, CoursesStay, HandshakesStay DEF OfferInv
  <1> QED
    BY <1>1, <1>2, <1>3, <1>4, <1>5, <1>6, <1>7 DEF Next, Defined

\* The invariant holds of every number of users and transfers, whoever offers
\* what to whom, and however often the handshake is repeated.
THEOREM OfferInvariant == Spec => []OfferInv
  <1>1. Init => OfferInv
    BY UdpOfferAssumption, OfferStarts
  <1>2. OfferInv /\ [Next]_vars => OfferInv'
    BY UdpOfferAssumption, OfferStep
  <1> QED
    BY <1>1, <1>2, PTL DEF Spec

\* An offer is in one place at a time, so its receiver is told of it once, with
\* its sender's own address unless a datagram was doubled; who connects connects
\* to the other end of his own file, and a sender is ahead of its receiver only
\* if it misread an answer.
THEOREM OffersConnectRight == Spec => []ConnectedRight
  <1>1. OfferInv => ConnectedRight
    BY DEF OfferInv, ConnectedRight, Courses, CourseOf, OwnOf, Untold, Handshakes, Met
  <1> QED
    BY <1>1, OfferInvariant, PTL

\* An item is freed once and not under its thread, unless its user cut the
\* transfer or named a bad path.
THEOREM OffersFreedOnce == Spec => []FreedOnce
  <1>1. OfferInv => FreedOnce
    BY DEF OfferInv, FreedOnce, Kept, Spoiled
  <1> QED
    BY <1>1, OfferInvariant, PTL
=============================================================================
