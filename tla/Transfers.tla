----------------------------- MODULE Transfers -----------------------------
(***************************************************************************)
(* How a file transfer is agreed on: the wait lists and the transfer       *)
(* commands of msg/server.c, and the data queues of the two clients        *)
(* (msg/client.c), joined by one ordered channel per direction of a        *)
(* session. The relay that follows is module Rendezvous; here a handler is *)
(* only listed, struck and gone.                                           *)
(***************************************************************************)
EXTENDS Naturals, Sequences, SequencesExt, FiniteSets

CONSTANTS
    User,
    Transfer,    \* each has a cred of its own
    Routes,      \* who sends which transfer to whom, friends of each other
    FriendWait,  \* a wait of type WaitTypeFriend
    Idle,        \* no wait list is being cleared
    Asking,      \* the users that send friend requests (bound)
    Careless,    \* users type accept for items that are not pending
    PoolCanFail, \* alloc_thread may refuse
    MaxDeaths    \* how often clients may die (bound)

ASSUME TransfersAssumption ==
    /\ Routes \subseteq [Transfer -> {p \in User \X User : p[1] # p[2]}]
    /\ FriendWait \notin Transfer
    /\ Idle \notin User \X (Nat \ {0})
    /\ Asking \subseteq User
    /\ {Careless, PoolCanFail} \subseteq BOOLEAN

VARIABLES
    route,      \* sender and receiver of each transfer
    session,    \* "on"; "dying": its client is gone, unnoticed; "off"
    up, down,   \* what is on its way to and from the server
    wait_h,     \* the wait list of a user, head first
    trans,      \* trans_head: the handlers, head first
    struck,     \* the handlers with fd = -1
    sweep,      \* clear_data_wait: <<user, position of its walk>>, or Idle
    item,       \* DataQueue.status at a client, "none" when it has no such queue
    thread,     \* tcp_transfer_handler of an item: "none", "created", "started", "running"
    undefined,  \* a client used an item it freed, or a descriptor nobody set
    deaths, offered, accepted, begun, withdrawn, lost    \* histories

clientVars == <<item, thread, undefined>>
historyVars == <<deaths, offered, accepted, begun, withdrawn, lost>>
serverVars == <<wait_h, trans, struck, sweep>>
vars == <<route, session, up, down, serverVars, clientVars, historyVars>>

Cmd == {"REQTRANS", "ACCEPTTRANS", "STARTTRANS", "REFUSETRANS", "CANCELTRANS"}
Entry == Transfer \cup {FriendWait}
From == [t \in Transfer |-> route[t][1]]
To == [t \in Transfer |-> route[t][2]]
Peer(u, t) == IF u = From[t] THEN To[t] ELSE From[t]
Ends(t) == {From[t], To[t]}

TypeOK ==
    /\ route \in Routes
    /\ session \in [User -> {"on", "dying", "off"}]
    /\ {up, down} \subseteq [User -> Seq(Cmd \X Transfer)]
    /\ wait_h \in [User -> Seq(Entry)]
    /\ \A u \in User : IsInjective(wait_h[u])
    /\ trans \in Seq(Transfer) /\ IsInjective(trans)
    /\ struck \subseteq Transfer
    /\ sweep \in (User \X (Nat \ {0})) \cup {Idle}
    /\ item \in [User -> [Transfer -> {"none", "QuePend", "QueReady", "QueStart"}]]
    /\ thread \in [User -> [Transfer -> {"none", "created", "started", "running"}]]
    /\ undefined \in BOOLEAN
    /\ deaths \in Nat
    /\ {offered, accepted, begun} \subseteq SUBSET Transfer
    /\ withdrawn \subseteq User \X Transfer
    /\ lost \in BOOLEAN

Init ==
    /\ route \in Routes
    /\ session = [u \in User |-> "on"]
    /\ up = [u \in User |-> <<>>]
    /\ down = [u \in User |-> <<>>]
    /\ wait_h = [u \in User |-> <<>>]
    /\ trans = <<>>
    /\ struck = {}
    /\ sweep = Idle
    /\ item = [u \in User |-> [t \in Transfer |-> "none"]]
    /\ thread = [u \in User |-> [t \in Transfer |-> "none"]]
    /\ undefined = FALSE
    /\ deaths = 0
    /\ offered = {} /\ accepted = {} /\ begun = {} /\ withdrawn = {}
    /\ lost = FALSE

-----------------------------------------------------------------------------
(* Clients                                                                  *)

Tell(u, cmd, t) == up' = [up EXCEPT ![u] = Append(@, <<cmd, t>>)]

\* send_file: the item is ready before anyone answered.
SendFile(t) ==
    LET u == From[t] IN
    /\ session[u] = "on"
    /\ t \notin offered
    /\ offered' = offered \cup {t}
    /\ item' = [item EXCEPT ![u][t] = "QueReady"]
    /\ Tell(u, "REQTRANS", t)
    /\ UNCHANGED <<session, down, serverVars, thread, undefined, deaths, accepted,
                   begun, withdrawn, lost>>

\* accept_transfer_data warns of an item that is not pending, and goes on.
AcceptItem(u, t) ==
    /\ item[u][t] # "none"
    /\ item[u][t] = "QuePend" \/ (Careless /\ thread[u][t] = "none" /\ t \notin accepted)
    /\ item' = [item EXCEPT ![u][t] = "QueReady"]
    /\ Tell(u, "ACCEPTTRANS", t)
    /\ accepted' = IF u = To[t] THEN accepted \cup {t} ELSE accepted
    /\ UNCHANGED <<session, down, serverVars, thread, undefined, deaths, offered,
                   begun, withdrawn, lost>>

CancelSwapped(u, t) ==                                             \* mutant
    /\ item[u][t] # "none"
    /\ Tell(u, IF item[u][t] = "QuePend" THEN "ACCEPTTRANS" ELSE "CANCELTRANS", t)
    /\ <<u, t>> \notin withdrawn
    /\ withdrawn' = withdrawn \cup {<<u, t>>}
    /\ item' = [item EXCEPT ![u][t] = "none"]
    /\ UNCHANGED <<session, down, serverVars, thread, undefined, deaths, offered, accepted, begun, lost>>

\* cancel_transfer_data: a pending item is refused, another one cancelled. It
\* is freed, under the thread of a ready one if it has one by now; the thread
\* of a started one frees it when it finds its socket closed. Each end
\* withdraws a transfer once (bound).
CancelItem(u, t) ==
    /\ item[u][t] # "none"
    /\ Tell(u, IF item[u][t] = "QuePend" THEN "REFUSETRANS" ELSE "CANCELTRANS", t)
    /\ <<u, t>> \notin withdrawn
    /\ withdrawn' = withdrawn \cup {<<u, t>>}
    /\ \/ /\ item[u][t] # "QueStart"
          /\ item' = [item EXCEPT ![u][t] = "none"]
          /\ undefined' = (undefined \/ thread[u][t] # "none")
       \/ /\ item[u][t] = "QueStart"
          /\ undefined' = (undefined \/ thread[u][t] = "started")
          /\ UNCHANGED item
    /\ UNCHANGED <<session, down, serverVars, thread, deaths, offered, accepted, begun, lost>>

\* tcp_transfer_handler: the status, the connection with its cred, the end.
ThreadStep(u, t) ==
    /\ \/ /\ thread[u][t] = "created"
          /\ thread' = [thread EXCEPT ![u][t] = "started"]
          /\ item' = [item EXCEPT ![u][t] = "QueStart"]
       \/ /\ thread[u][t] = "started"
          /\ thread' = [thread EXCEPT ![u][t] = "running"]
          /\ UNCHANGED item
       \/ /\ thread[u][t] \in {"started", "running"}
          /\ thread' = [thread EXCEPT ![u][t] = "none"]
          /\ item' = [item EXCEPT ![u][t] = "none"]
    /\ UNCHANGED <<session, up, down, serverVars, undefined, historyVars>>

\* What a client does with the next command of the server.
Handled(u, cmd, t) ==
    \/ /\ cmd = "REQTRANS"
       /\ item' = [item EXCEPT ![u][t] = "QuePend"]
       /\ UNCHANGED <<thread, undefined>>
    \* sm_start_transfer assigns the status it means to compare.
    \/ /\ cmd = "STARTTRANS" /\ item[u][t] # "none"
       /\ item' = [item EXCEPT ![u][t] = "QueReady"]
       /\ thread' = [thread EXCEPT ![u][t] = "created"]
       /\ UNCHANGED undefined
    \/ /\ cmd \in {"REFUSETRANS", "CANCELTRANS"} /\ item[u][t] # "none"
       /\ item' = [item EXCEPT ![u][t] = "none"]
       /\ undefined' = (undefined \/ thread[u][t] # "none")
       /\ UNCHANGED thread
    \/ /\ cmd # "REQTRANS" /\ item[u][t] = "none"
       /\ UNCHANGED clientVars

Receive(u) ==
    /\ session[u] = "on"
    /\ down[u] # <<>>
    /\ Handled(u, Head(down[u])[1], Head(down[u])[2])
    /\ down' = [down EXCEPT ![u] = Tail(@)]
    /\ UNCHANGED <<session, up, serverVars, historyVars>>

\* The client process dies; what it sent is still on its way.
Die(u) ==
    /\ session[u] = "on"
    /\ deaths < MaxDeaths
    /\ deaths' = deaths + 1
    /\ session' = [session EXCEPT ![u] = "dying"]
    /\ down' = [down EXCEPT ![u] = <<>>]
    /\ item' = [item EXCEPT ![u] = [t \in Transfer |-> "none"]]
    /\ thread' = [thread EXCEPT ![u] = [t \in Transfer |-> "none"]]
    /\ lost' = TRUE
    /\ UNCHANGED <<up, serverVars, undefined, offered, accepted, begun, withdrawn>>

-----------------------------------------------------------------------------
(* The server: wait lists                                                   *)

Waits(u, t) == Contains(wait_h[u], t)

\* free_wait of both ends.
FreeBoth(w, t) == [x \in User |-> RemoveFirst(w[x], t)]

\* Messages T[x] are written to the session of x, in order; a session whose
\* client is gone swallows them.
Written(T) == down' = [x \in User |-> IF session[x] = "on" THEN down[x] \o T[x] ELSE down[x]]
ToPeer(u, cmd, t) == Written([x \in User |-> IF x = Peer(u, t) THEN <<<<cmd, t>>>> ELSE <<>>])

\* server_request_transfer for a TCP transfer.
Request(u, t) ==
    LET d == Peer(u, t) IN
    \/ /\ session[d] = "off"
       /\ lost' = TRUE
       /\ UNCHANGED <<wait_h, down>>
    \/ /\ session[d] # "off"
       /\ wait_h' = [wait_h EXCEPT ![d] = <<t>> \o @, ![u] = <<t>> \o @]
       /\ ToPeer(u, "REQTRANS", t)
       /\ UNCHANGED lost
    \* The write fails: a friend request is withdrawn, the data waits stay.
    \/ /\ session[d] = "dying"
       /\ wait_h' = [wait_h EXCEPT ![d] = <<t>> \o @, ![u] = <<t>> \o RemoveFirst(@, FriendWait)]
       /\ UNCHANGED <<down, lost>>

\* server_cancel_transfer: with the wait gone it looks for a handler, and
\* tr_find_thread comes back with the last one if there is none for t.
CancelWaiting(u, t) ==
    /\ Waits(u, t)
    /\ ToPeer(u, "CANCELTRANS", t)
    /\ wait_h' = FreeBoth(wait_h, t)
    /\ UNCHANGED <<trans, struck>>

CancelStarted(u, t) ==
    /\ ~Waits(u, t)
    /\ struck' = struck \cup (IF Contains(trans, t) THEN {t}
                              ELSE IF trans # <<>> THEN {Last(trans)} ELSE {})
    /\ UNCHANGED <<wait_h, trans, down>>

\* start_transfer: a handler is listed and both ends are told, u first; if a
\* write fails the handler is struck.
Start(u, t) ==
    LET d == Peer(u, t) IN
    /\ trans' = <<t>> \o trans
    /\ begun' = begun \cup {t}
    /\ \/ /\ session[d] # "off"
          /\ Written([x \in User |-> IF x \in {u, d} THEN <<<<"STARTTRANS", t>>>> ELSE <<>>])
          /\ UNCHANGED struck
       \/ /\ session[d] # "on"
          /\ Written([x \in User |-> IF x = u THEN <<<<"STARTTRANS", t>>>> ELSE <<>>])
          /\ struck' = struck \cup {t}
       \/ /\ session[u] = "dying"
          /\ struck' = struck \cup {t}
          /\ UNCHANGED down

\* server_accept_transfer frees the waits whatever becomes of start_transfer.
FreedAfterAcceptNot(t) == wait_h                                   \* mutant
FreedAfterAccept(t) == FreeBoth(wait_h, t)
AcceptWaiting(u, t) ==
    /\ Waits(u, t)
    /\ wait_h' = FreedAfterAccept(t)
    /\ \/ Start(u, t) /\ UNCHANGED lost
       \/ PoolCanFail /\ lost' = TRUE /\ UNCHANGED <<trans, struck, begun, down>>

\* server_refuse_transfer frees the waits if it can tell the peer.
FreedAfterRefuseNot(t) == wait_h                                   \* mutant
FreedAfterRefuse(t) == FreeBoth(wait_h, t)
RefuseWaiting(u, t) ==
    /\ Waits(u, t)
    /\ session[Peer(u, t)] # "off"
    /\ ToPeer(u, "REFUSETRANS", t)
    /\ wait_h' = FreedAfterRefuse(t)

Command(u, cmd, t) ==
    \/ /\ cmd = "REQTRANS" /\ Request(u, t)
       /\ UNCHANGED <<trans, struck, begun>>
    \/ /\ cmd = "CANCELTRANS" /\ (CancelWaiting(u, t) \/ CancelStarted(u, t))
       /\ UNCHANGED <<begun, lost>>
    \/ cmd = "ACCEPTTRANS" /\ AcceptWaiting(u, t)
    \/ /\ cmd = "REFUSETRANS" /\ RefuseWaiting(u, t)
       /\ UNCHANGED <<trans, struck, begun, lost>>
    \/ /\ \/ cmd = "ACCEPTTRANS" /\ ~Waits(u, t)
          \/ cmd = "REFUSETRANS" /\ (~Waits(u, t) \/ session[Peer(u, t)] = "off")
       /\ UNCHANGED <<wait_h, trans, struck, begun, lost, down>>

Serve(u) ==
    /\ sweep = Idle
    /\ session[u] # "off"
    /\ up[u] # <<>>
    /\ Command(u, Head(up[u])[1], Head(up[u])[2])
    /\ up' = [up EXCEPT ![u] = Tail(@)]
    /\ UNCHANGED <<session, sweep, clientVars, deaths, offered, accepted, withdrawn>>

\* main: reading from u fails, its waits are to be cleared. Commands still on
\* their way are lost if the connection was reset.
Disconnect(u) ==
    /\ sweep = Idle
    /\ session[u] = "dying"
    /\ session' = [session EXCEPT ![u] = "off"]
    /\ up' = [up EXCEPT ![u] = <<>>]
    /\ sweep' = <<u, 1>>
    /\ UNCHANGED <<down, wait_h, trans, struck, clientVars, historyVars>>

SweptKeepingPeer(u, t) == [wait_h EXCEPT ![u] = RemoveFirst(@, t)] \* mutant
SweptPair(u, t) == FreeBoth(wait_h, t)

\* One turn of the loop of clear_data_wait: a data wait is cancelled and freed,
\* and the walk moves past the entry behind it; behind the last entry is the
\* list head, from where the walk begins anew. Nothing else is served meanwhile.
SweepWait(u, i) ==
    LET t == wait_h[u][i] IN
    /\ t # FriendWait
    /\ ToPeer(u, "CANCELTRANS", t)
    /\ wait_h' = SweptPair(u, t)
    /\ sweep' = <<u, IF i < Len(wait_h[u]) THEN i + 1 ELSE 1>>

Sweep ==
    /\ sweep # Idle
    /\ LET u == sweep[1]
           i == sweep[2] IN
       \/ /\ i > Len(wait_h[u])
          /\ sweep' = Idle
          /\ UNCHANGED <<wait_h, down>>
       \/ /\ i <= Len(wait_h[u])
          /\ wait_h[u][i] = FriendWait
          /\ sweep' = <<u, i + 1>>
          /\ UNCHANGED <<wait_h, down>>
       \/ /\ i <= Len(wait_h[u])
          /\ SweepWait(u, i)
    /\ UNCHANGED <<session, up, trans, struck, clientVars, historyVars>>

\* login_user, after a death that may not have been noticed: then the waits of
\* the old session stay.
Login(u) ==
    /\ sweep = Idle
    /\ session[u] # "on"
    /\ session' = [session EXCEPT ![u] = "on"]
    /\ up' = [up EXCEPT ![u] = <<>>]
    /\ UNCHANGED <<down, serverVars, clientVars, historyVars>>

\* update_wait of a friend request, and free_user_wait of its answer.
AskFriend(u) ==
    /\ sweep = Idle
    /\ u \in Asking
    /\ session[u] = "on"
    /\ ~Contains(wait_h[u], FriendWait)
    /\ wait_h' = [wait_h EXCEPT ![u] = <<FriendWait>> \o @]
    /\ UNCHANGED <<session, up, down, trans, struck, sweep, clientVars, historyVars>>

FriendAnswers(u) ==
    /\ sweep = Idle
    /\ Contains(wait_h[u], FriendWait)
    /\ wait_h' = [wait_h EXCEPT ![u] = RemoveFirst(@, FriendWait)]
    /\ UNCHANGED <<session, up, down, trans, struck, sweep, clientVars, historyVars>>

\* A handler ends, which module Rendezvous is about: it was struck, its ends
\* closed their connections, or it waited too long for one of them.
HandlerEnds(t) ==
    /\ Contains(trans, t)
    /\ trans' = RemoveFirst(trans, t)
    /\ UNCHANGED <<session, up, down, wait_h, struck, sweep, clientVars, historyVars>>

-----------------------------------------------------------------------------

ClientStep(u) ==
    \/ Receive(u)
    \/ \E t \in Transfer : AcceptItem(u, t) \/ CancelItem(u, t) \/ ThreadStep(u, t)

\* After undefined behaviour nothing is said of the clients.
Defined(A) == ~undefined /\ A /\ UNCHANGED route

Next ==
    \/ \E t \in Transfer : Defined(SendFile(t)) \/ Defined(HandlerEnds(t))
    \/ \E u \in User :
        \/ Defined(ClientStep(u)) \/ Defined(Die(u))
        \/ Defined(Serve(u)) \/ Defined(Disconnect(u)) \/ Defined(Login(u))
        \/ Defined(AskFriend(u)) \/ Defined(FriendAnswers(u))
    \/ Defined(Sweep)

Spec == Init /\ [][Next]_vars

-----------------------------------------------------------------------------
(* Properties                                                               *)

\* Both ends of a transfer wait for it, or neither: free_wait(wait->peer) never
\* meets a peer that is gone. And once it has begun nobody waits for it, so
\* another ACCEPTTRANS finds nothing and starts no second handler.
WaitsPaired ==
    /\ TypeOK
    /\ \A t \in Transfer :
        /\ Waits(From[t], t) <=> Waits(To[t], t)
        /\ t \in begun => ~Waits(From[t], t)

\* A transfer gets a handler only when its receiver accepted it.
BegunByConsent == begun \subseteq accepted

\* After STARTTRANS no REFUSETRANS or CANCELTRANS follows to the same end, so
\* the server never makes a client free an item its thread uses. Only a user
\* who cancels between STARTTRANS and the start of the thread does.
Moot(u, t) == thread[u][t] # "none" \/ <<"STARTTRANS", t>> \in ToSet(down[u])
NeverStoppedFromAfar ==
    \A u \in User, t \in Transfer : Moot(u, t) =>
        ToSet(down[u]) \cap {<<"REFUSETRANS", t>>, <<"CANCELTRANS", t>>} = {}

\* When nothing is on its way, nobody died and the pool never failed, the two
\* clients and the server agree on which transfers are still open; and a
\* transfer that somebody withdrew has ended at the other end, too, or its
\* thread there is about to find its connection closed.
Quiet == \A u \in User : up[u] = <<>> /\ down[u] = <<>>
EndsAgree ==
    Quiet /\ ~lost /\ ~undefined => \A t \in Transfer :
        /\ Waits(From[t], t) <=> item[To[t]][t] = "QuePend"
        /\ item[To[t]][t] = "QuePend" => item[From[t]][t] = "QueReady"
        /\ (\E u \in Ends(t) : <<u, t>> \in withdrawn) =>
              \A u \in Ends(t) : item[u][t] = "none" \/ thread[u][t] # "none"
=============================================================================
