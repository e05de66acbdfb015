------------------------------ MODULE UdpOffer ------------------------------
(***************************************************************************)
(* A file sent over UDP, from the offer to the connection: the ready queue *)
(* of msg/server.c, where offers wait for the credential datagram that     *)
(* tells the sender's address; the items and threads of the two clients    *)
(* (msg/client.c); and the handshake of usock_connect and usock_accept     *)
(* (msg/usock.c). What follows the handshake is module UStream.            *)
(*                                                                         *)
(* A transfer stands for its cred. Its sender listens at socket <<t, "s">>,*)
(* its receiver at <<t, "r">>; a datagram that has arrived but was not     *)
(* read yet is still in the air.                                           *)
(***************************************************************************)
EXTENDS Naturals, Sequences, SequencesExt, FiniteSets

CONSTANTS
    User,
    Transfer,
    Routes,     \* who may send which transfer to whom
    NoAddr,     \* the receiver was told no address yet
    MaxSends,   \* sendings of a handshake message before giving up (bound; the code has 4)
    MaxTrouble  \* kinds of trouble in one behaviour, each at most once (bound)

ASSUME UdpOfferAssumption ==
    /\ Routes \subseteq [Transfer -> {p \in User \X User : p[1] # p[2]}]
    /\ NoAddr \notin Transfer
    /\ MaxSends \in Nat \ {0}
    /\ MaxTrouble \in Nat

VARIABLES
    route,            \* sender and receiver of each transfer
    alive,            \* the users whose client runs
    session,          \* the users with fd >= 0 at the server
    ready,            \* uready_head, newest first
    mail,             \* commands on their way, over TCP
    air,              \* datagrams on their way
    sitem, ritem,     \* DataQueue.status at the sender and at the receiver
    gate,             \* queue->sockfd at the receiver once queue->lock is open
    addr,             \* the sender's address in the offer, as its transfer
    peer,             \* whose receiver the sender's socket is connected to
    sthread, rthread, \* udp_ready_handler and udp_recv_handler
    ssends, rsends,   \* handshake messages sent
    undefined,        \* an item was freed twice, or under its thread
    trouble,          \* history: what went wrong from outside
    offered,          \* history: the transfers their senders offered
    accepted,         \* history: the transfers their receivers accepted
    misread           \* history: the ends that took another datagram for an answer

serverVars == <<session, ready>>
senderVars == <<sitem, sthread, peer, ssends>>
receiverVars == <<ritem, gate, addr, rthread, rsends>>
historyVars == <<trouble, offered, accepted, misread>>
vars == <<route, alive, serverVars, mail, air, senderVars, receiverVars, undefined, historyVars>>

From(t) == route[t][1]
To(t) == route[t][2]
Server == <<"server">>
Socket == Transfer \X {"s", "r"}
Body == {"CRED", "ACCEPT", "REPLY", "PACK"}
Datagram == [from : Socket, to : Socket \cup {Server}, body : Body, n : 0..MaxSends]
Mail == ({"REQTRANS", "UREADYTRANS"} \X Transfer) \cup ({"OFFER"} \X Transfer \X Transfer)
Trouble == {"lost announcement", "lost cred", "lost answer", "duplicated", "cancelled",
            "cut", "bad path", "no socket", "died"}

TypeOK ==
    /\ route \in Routes
    /\ alive \subseteq User /\ session \subseteq User
    /\ ready \in Seq(Transfer) /\ IsInjective(ready)
    /\ mail \subseteq Mail
    /\ air \subseteq Datagram
    /\ sitem \in [Transfer -> {"none", "QueReady"}]
    /\ ritem \in [Transfer -> {"none", "QuePend", "QueReady"}]
    /\ gate \in [Transfer -> {"locked", "UDPSTART", "UDPSTOP"}]
    /\ addr \in [Transfer -> Transfer \cup {NoAddr}] /\ peer \in [Transfer -> Transfer \cup {NoAddr}]
    /\ sthread \in [Transfer -> {"none", "created", "accepting", "answering", "connected"}]
    /\ rthread \in [Transfer -> {"none", "waiting", "connecting", "connected"}]
    /\ ssends \in [Transfer -> 0..MaxSends] /\ rsends \in [Transfer -> 0..MaxSends]
    /\ undefined \in BOOLEAN
    /\ trouble \subseteq Trouble
    /\ offered \subseteq Transfer /\ accepted \subseteq offered
    /\ misread \subseteq Socket

Init ==
    /\ route \in Routes
    /\ alive = User /\ session = User
    /\ ready = <<>> /\ mail = {} /\ air = {}
    /\ sitem = [t \in Transfer |-> "none"] /\ ritem = [t \in Transfer |-> "none"]
    /\ gate = [t \in Transfer |-> "locked"] /\ addr = [t \in Transfer |-> NoAddr]
    /\ peer = [t \in Transfer |-> NoAddr]
    /\ sthread = [t \in Transfer |-> "none"] /\ rthread = [t \in Transfer |-> "none"]
    /\ ssends = [t \in Transfer |-> 0] /\ rsends = [t \in Transfer |-> 0]
    /\ undefined = FALSE
    /\ trouble = {} /\ offered = {} /\ accepted = {} /\ misread = {}

Happens(kind) ==
    /\ kind \notin trouble
    /\ Cardinality(trouble) < MaxTrouble
    /\ trouble' = trouble \cup {kind}

SSock(t) == <<t, "s">>
RSock(t) == <<t, "r">>
Datum(from, to, body, n) == [from |-> from, to |-> to, body |-> body, n |-> n]
Send(from, to, body, n) == air' = air \cup {Datum(from, to, body, n)}

-----------------------------------------------------------------------------
(* The server                                                               *)

\* server_request_transfer, for a file over UDP: the offer waits in the ready
\* queue and the sender is asked to announce himself. No Wait is added.
Request(t) ==
    /\ <<"REQTRANS", t>> \in mail
    /\ \/ /\ To(t) \in session
          /\ ready' = <<t>> \o ready
          /\ mail' = (mail \ {<<"REQTRANS", t>>}) \cup {<<"UREADYTRANS", t>>}
       \/ /\ To(t) \notin session
          /\ mail' = mail \ {<<"REQTRANS", t>>}
          /\ UNCHANGED ready
    /\ UNCHANGED <<alive, session, air, senderVars, receiverVars, undefined, historyVars>>

\* find_uready_queue returns the oldest entry when none has the cred.
Ready(t) == IF Contains(ready, t) THEN t ELSE Last(ready)

\* udp_transfer_handler: a credential that came from the sender of t. The offer
\* found goes to its receiver, with the address the datagram came from.
Credential(t) ==
    LET m == Datum(SSock(t), Server, "CRED", 0) IN
    /\ m \in air
    /\ \/ air' = air \ {m} /\ UNCHANGED trouble
       \/ Happens("duplicated") /\ UNCHANGED air
    /\ \/ /\ ready = <<>>
          /\ UNCHANGED <<ready, mail>>
       \/ /\ ready # <<>>
          /\ ready' = RemoveFirst(ready, Ready(t))
          /\ mail' = IF To(Ready(t)) \in session
                     THEN mail \cup {<<"OFFER", Ready(t), t>>} ELSE mail
    /\ UNCHANGED <<alive, session, senderVars, receiverVars, undefined, offered, accepted,
                   misread>>

\* The select loop finds the connection of a dead client closed.
Disconnect(u) ==
    /\ u \in session \ alive
    /\ session' = session \ {u}
    /\ UNCHANGED <<alive, ready, mail, air, senderVars, receiverVars, undefined, historyVars>>

-----------------------------------------------------------------------------
(* The sender                                                               *)

SendFile(t) ==
    /\ From(t) \in alive
    /\ t \notin offered
    /\ offered' = offered \cup {t}
    /\ sitem' = [sitem EXCEPT ![t] = "QueReady"]
    /\ mail' = mail \cup {<<"REQTRANS", t>>}
    /\ UNCHANGED <<alive, serverVars, air, sthread, peer, ssends, receiverVars, undefined, trouble,
                   accepted, misread>>

AnyItem(t) == TRUE                                                 \* mutant
ReadyItem(t) == sitem[t] = "QueReady"

\* sm_uready_transfer
UReady(t) ==
    /\ <<"UREADYTRANS", t>> \in mail /\ From(t) \in alive
    /\ mail' = mail \ {<<"UREADYTRANS", t>>}
    /\ sthread' = IF ReadyItem(t) THEN [sthread EXCEPT ![t] = "created"] ELSE sthread
    /\ UNCHANGED <<alive, serverVars, air, sitem, peer, ssends, receiverVars, undefined, historyVars>>

\* udp_ready_handler announces the sender, once; without a socket it frees the
\* item and nobody is told.
Announce(t) ==
    /\ sthread[t] = "created" /\ From(t) \in alive
    /\ \/ /\ sthread' = [sthread EXCEPT ![t] = "accepting"]
          /\ Send(SSock(t), Server, "CRED", 0)
          /\ UNCHANGED <<sitem, trouble>>
       \/ /\ Happens("no socket")
          /\ sthread' = [sthread EXCEPT ![t] = "none"]
          /\ sitem' = [sitem EXCEPT ![t] = "none"]
          /\ UNCHANGED air
    /\ undefined' = (undefined \/ sitem[t] = "none")
    /\ UNCHANGED <<alive, serverVars, mail, peer, ssends, receiverVars, offered, accepted, misread>>

\* cancel_transfer_data of an item that is ready: the server, which has no wait
\* for it, passes nothing on, and the item is freed, under its thread if it has
\* one by now.
CancelSent(t) ==
    /\ From(t) \in alive /\ sitem[t] = "QueReady"
    /\ Happens(IF sthread[t] = "none" THEN "cancelled" ELSE "cut")
    /\ sitem' = [sitem EXCEPT ![t] = "none"]
    /\ undefined' = (undefined \/ sthread[t] # "none")
    /\ UNCHANGED <<alive, serverVars, mail, air, sthread, peer, ssends, receiverVars, offered, accepted,
                   misread>>

-----------------------------------------------------------------------------
(* The receiver                                                             *)

\* sm_request_transfer: the thread of the item waits for queue->lock.
Offered(t) ==
    \E a \in Transfer :
        /\ <<"OFFER", t, a>> \in mail /\ To(t) \in alive
        /\ mail' = mail \ {<<"OFFER", t, a>>}
        /\ ritem' = [ritem EXCEPT ![t] = "QuePend"]
        /\ addr' = [addr EXCEPT ![t] = a]
        /\ rthread' = [rthread EXCEPT ![t] = "waiting"]
        /\ UNCHANGED <<alive, serverVars, air, senderVars, gate, rsends, undefined, historyVars>>

\* accept_transfer_data; when the path cannot be examined the item is freed
\* while its thread waits on the lock in it.
AcceptItem(t) ==
    /\ To(t) \in alive /\ ritem[t] = "QuePend"
    /\ \/ /\ ritem' = [ritem EXCEPT ![t] = "QueReady"]
          /\ gate' = [gate EXCEPT ![t] = "UDPSTART"]
          /\ accepted' = accepted \cup {t}
          /\ UNCHANGED <<undefined, trouble>>
       \/ /\ Happens("bad path")
          /\ ritem' = [ritem EXCEPT ![t] = "none"]
          /\ undefined' = TRUE
          /\ UNCHANGED <<gate, accepted>>
    /\ UNCHANGED <<alive, serverVars, mail, air, senderVars, addr, rthread, rsends, offered, misread>>

\* cancel_transfer_data: a pending item is stopped and freed, one that is ready
\* is freed under its thread.
CancelReceived(t) ==
    /\ To(t) \in alive /\ ritem[t] # "none"
    /\ Happens("cut")
    /\ ritem' = [ritem EXCEPT ![t] = "none"]
    /\ \/ /\ ritem[t] = "QuePend"
          /\ gate' = [gate EXCEPT ![t] = "UDPSTOP"]
          /\ UNCHANGED undefined
       \/ /\ ritem[t] = "QueReady"
          /\ undefined' = TRUE
          /\ UNCHANGED gate
    /\ UNCHANGED <<alive, serverVars, mail, air, senderVars, addr, rthread, rsends, offered,
                   accepted, misread>>

\* udp_recv_handler gets the lock. A stopped item it frees as well; without a
\* socket it frees the item.
ThreadStarts(t) ==
    /\ rthread[t] = "waiting" /\ gate[t] # "locked" /\ To(t) \in alive
    /\ \/ /\ gate[t] = "UDPSTOP"
          /\ rthread' = [rthread EXCEPT ![t] = "none"]
          /\ ritem' = [ritem EXCEPT ![t] = "none"]
          /\ UNCHANGED trouble
       \/ /\ gate[t] = "UDPSTART"
          /\ rthread' = [rthread EXCEPT ![t] = "connecting"]
          /\ UNCHANGED <<ritem, trouble>>
       \/ /\ gate[t] = "UDPSTART"
          /\ Happens("no socket")
          /\ rthread' = [rthread EXCEPT ![t] = "none"]
          /\ ritem' = [ritem EXCEPT ![t] = "none"]
    /\ undefined' = (undefined \/ ritem[t] = "none")
    /\ UNCHANGED <<alive, serverVars, mail, air, senderVars, gate, addr, rsends, offered, accepted,
                   misread>>

-----------------------------------------------------------------------------
(* The handshake                                                            *)

\* usock_close(NULL), which both threads call when the handshake failed.
ClosesNull(u) == alive' = alive \ {u}

OnlyOnce(n) == n = 0                                               \* mutant
\* timeout < 32
SendsLeft(n) == n < MaxSends

\* send_connect_msg: the cred, again after a timeout that may come early.
SendCred(t) ==
    /\ rthread[t] = "connecting" /\ To(t) \in alive
    /\ SendsLeft(rsends[t])
    /\ rsends' = [rsends EXCEPT ![t] = @ + 1]
    /\ Send(RSock(t), SSock(addr[t]), "CRED", rsends[t])
    /\ UNCHANGED <<alive, serverVars, mail, senderVars, ritem, gate, addr, rthread, undefined,
                   historyVars>>

AnyCred(t, m) == TRUE                                              \* mutant
OwnCred(t, m) == m.from = RSock(t)

\* usock_accept reads until its own cred comes, and connects the socket to
\* where it came from.
TakeCred(t) ==
    /\ sthread[t] = "accepting" /\ From(t) \in alive
    /\ \E m \in air :
        /\ m.to = SSock(t)
        /\ air' = air \ {m}
        /\ \/ /\ OwnCred(t, m)
              /\ sthread' = [sthread EXCEPT ![t] = "answering"]
              /\ peer' = [peer EXCEPT ![t] = m.from[1]]
           \/ ~OwnCred(t, m) /\ UNCHANGED <<sthread, peer>>
    /\ UNCHANGED <<alive, serverVars, mail, sitem, ssends, receiverVars, undefined, historyVars>>

\* send_accept_msg
SendAccept(t) ==
    /\ sthread[t] = "answering" /\ From(t) \in alive
    /\ SendsLeft(ssends[t])
    /\ ssends' = [ssends EXCEPT ![t] = @ + 1]
    /\ Send(SSock(t), RSock(peer[t]), "ACCEPT", ssends[t])
    /\ UNCHANGED <<alive, serverVars, mail, sitem, sthread, peer, receiverVars, undefined, historyVars>>

\* usock_connect takes whatever comes from the address it was told for the
\* answer, and fails when it is none.
TakeAccept(t) ==
    /\ rthread[t] = "connecting" /\ To(t) \in alive
    /\ \E m \in air :
        /\ m.to = RSock(t) /\ m.from = SSock(addr[t])
        /\ \/ /\ m.body = "ACCEPT"
              /\ rthread' = [rthread EXCEPT ![t] = "connected"]
              /\ air' = (air \ {m}) \cup {Datum(RSock(t), m.from, "REPLY", 0)}
              /\ UNCHANGED <<alive, misread>>
           \/ /\ m.body # "ACCEPT"
              /\ ClosesNull(To(t))
              /\ air' = air \ {m}
              /\ misread' = misread \cup {RSock(t)}
              /\ UNCHANGED rthread
    /\ UNCHANGED <<serverVars, mail, senderVars, ritem, gate, addr, rsends, undefined, trouble,
                   offered, accepted>>

\* usock_accept is content with any four bytes of the peer. Then the sender
\* begins to write.
TakeReply(t) ==
    /\ sthread[t] = "answering" /\ ssends[t] > 0 /\ From(t) \in alive
    /\ \E m \in air :
        /\ m.to = SSock(t) /\ m.from = RSock(peer[t])
        /\ air' = (air \ {m}) \cup {Datum(SSock(t), m.from, "PACK", 0)}
        /\ misread' = IF m.body = "REPLY" THEN misread ELSE misread \cup {SSock(t)}
    /\ sthread' = [sthread EXCEPT ![t] = "connected"]
    /\ UNCHANGED <<alive, serverVars, mail, sitem, peer, ssends, receiverVars, undefined, trouble,
                   offered, accepted>>

\* After half a minute nothing is left in the air between the two, and neither
\* would send again.
Between(r, s) == {m \in air : {m.from, m.to} = {SSock(s), RSock(r)}}
Silent(r, s) ==
    /\ Between(r, s) = {}
    /\ rthread[r] = "connecting" /\ To(r) \in alive => ~SendsLeft(rsends[r])
    /\ peer[s] = r /\ sthread[s] = "answering" /\ From(s) \in alive => ~SendsLeft(ssends[s])

GiveUpConnect(t) ==
    /\ rthread[t] = "connecting" /\ To(t) \in alive
    /\ Silent(t, addr[t])
    /\ ClosesNull(To(t))
    /\ UNCHANGED <<serverVars, mail, air, senderVars, receiverVars, undefined, historyVars>>

\* usock_accept reads a reply nobody wrote: it may look like UMSG_REPLY_ACCEPT.
GiveUpAccept(t) ==
    /\ sthread[t] = "answering" /\ From(t) \in alive
    /\ Silent(peer[t], t)
    /\ \/ /\ sthread' = [sthread EXCEPT ![t] = "connected"]
          /\ misread' = misread \cup {SSock(t)}
          /\ UNCHANGED alive
       \/ /\ ClosesNull(From(t))
          /\ UNCHANGED <<sthread, misread>>
    /\ UNCHANGED <<serverVars, mail, air, sitem, peer, ssends, receiverVars, undefined, trouble, offered,
                   accepted>>

-----------------------------------------------------------------------------
(* The world                                                                *)

Kind(m) ==
    IF m.to = Server THEN "lost announcement"
    ELSE IF m.body = "CRED" THEN "lost cred" ELSE "lost answer"

Lose ==
    \E m \in air :
        /\ m.body # "PACK"
        /\ Happens(Kind(m))
        /\ air' = air \ {m}
        /\ UNCHANGED <<alive, serverVars, mail, senderVars, receiverVars, undefined, offered,
                       accepted, misread>>

Die(u) ==
    /\ u \in alive
    /\ Happens("died")
    /\ alive' = alive \ {u}
    /\ UNCHANGED <<serverVars, mail, air, senderVars, receiverVars, undefined, offered, accepted,
                   misread>>

ServerStep == (\E t \in Transfer : Request(t) \/ Credential(t)) \/ (\E u \in User : Disconnect(u))
SenderStep(t) == UReady(t) \/ Announce(t) \/ TakeCred(t) \/ SendAccept(t) \/ TakeReply(t) \/ GiveUpAccept(t)
ReceiverStep(t) == Offered(t) \/ ThreadStarts(t) \/ SendCred(t) \/ TakeAccept(t) \/ GiveUpConnect(t)
UserStep(t) == SendFile(t) \/ AcceptItem(t) \/ CancelSent(t) \/ CancelReceived(t)

\* After undefined behaviour nothing is said of the clients.
Defined(A) == ~undefined /\ A /\ UNCHANGED route

Next ==
    \/ Defined(ServerStep) \/ Defined(Lose)
    \/ \E t \in Transfer : Defined(SenderStep(t)) \/ Defined(ReceiverStep(t)) \/ Defined(UserStep(t))
    \/ \E u \in User : Defined(Die(u))

\* The server, the threads and the network go on; users and the world need do
\* nothing.
Fairness ==
    /\ WF_vars(Defined(ServerStep))
    /\ \A t \in Transfer :
        /\ WF_vars(Defined(SenderStep(t)))
        /\ WF_vars(Defined(ReceiverStep(t)))

Spec == Init /\ [][Next]_vars /\ Fairness

-----------------------------------------------------------------------------
(* Properties                                                               *)

\* An offer waits in the ready queue from the answer to REQTRANS until its
\* credential came, so a receiver is told of it once and, unless a credential
\* was duplicated, with its sender's own address: the entry that
\* find_uready_queue returns for a cred it does not know is never used. Even a
\* receiver that was told another sender's address connects only to a sender of
\* its own file, and a sender believes that it is connected while the receiver
\* is not only if it took something else for the reply.
ConnectedRight ==
    /\ TypeOK
    /\ \A t \in Transfer :
        /\ Contains(ready, t) => addr[t] = NoAddr /\ ritem[t] = "none"
        /\ "duplicated" \notin trouble => addr[t] \in {NoAddr, t}
        /\ rthread[t] = "connected" => addr[t] = t /\ sthread[t] \in {"answering", "connected"}
        /\ sthread[t] = "connected" /\ SSock(t) \notin misread => rthread[t] = "connected"

\* An item is freed once, and not under its thread, unless its own user cancels
\* while it has a thread, which a pending one always has, or names a path that
\* cannot be examined. A cancelled offer that nobody took up yet is forgotten in
\* peace.
FreedOnce == undefined => trouble \cap {"cut", "bad path"} # {}

\* A client dies of a failed handshake only if the network, the other end or an
\* early repetition spoiled it; a lost cred alone never does, since the
\* receiver repeats it.
Harmless == {"lost cred"}
OfferConnects ==
    \A t \in Transfer :
        t \in accepted ~> \/ sthread[t] = "connected" /\ rthread[t] = "connected"
                          \/ misread # {} \/ trouble \ Harmless # {}
=============================================================================
