-------------------------- MODULE TransfersProofs --------------------------
(***************************************************************************)
(* The agreement on a transfer, for any users, transfers, routes and       *)
(* deaths: its two ends wait together, it begins at most once and with the *)
(* receiver's consent, once it has begun nobody is told to stop it, and    *)
(* when all is heard the clients and the server agree on it.               *)
(***************************************************************************)
EXTENDS Transfers, ListFacts, TLAPS

Sent(u, cmd, t) == Contains(up[u], <<cmd, t>>)
Told(u, cmd, t) == Contains(down[u], <<cmd, t>>)
Waited(t) == Waits(From[t], t)

\* A transfer is requested, waited for and begun in this order, each once.
Requested(t) == Sent(From[t], "REQTRANS", t)
CourseOf(t) ==
    /\ \A u \in User : Waits(u, t) => u \in Ends(t)
    /\ Waits(To[t], t) <=> Waited(t)
    /\ \A u \in User : Sent(u, "REQTRANS", t) => u = From[t]
    /\ Once(up[From[t]], <<"REQTRANS", t>>)
    /\ Requested(t) => ~Waited(t) /\ t \notin begun
    /\ Waited(t) => t \notin begun
    /\ Requested(t) \/ Waited(t) \/ t \in begun => t \in offered
    /\ Contains(trans, t) => t \in begun

\* Who is told that a transfer starts or ends, and when.
Over(t) == t \in offered /\ t \notin begun /\ ~Requested(t) /\ ~Waited(t)
ToldOf(t) ==
    \A u \in User :
        /\ Told(u, "CANCELTRANS", t) \/ Told(u, "REFUSETRANS", t) => Over(t)
        /\ Told(u, "STARTTRANS", t) \/ thread[u][t] # "none" => t \in begun

TransferInv == TypeOK /\ \A t \in Transfer : CourseOf(t) /\ ToldOf(t)

\* Only receivers accept, unless a user accepts what is not pending.
ConsentOf(t) ==
    \A u \in User :
        /\ Told(u, "REQTRANS", t) \/ item[u][t] = "QuePend" => u = To[t]
        /\ Sent(u, "ACCEPTTRANS", t) => u = To[t] /\ t \in accepted
    
ConsentInv == TransferInv /\ BegunByConsent /\ \A t \in Transfer : ConsentOf(t)

-----------------------------------------------------------------------------
(* What a step does to the channels and the wait lists                      *)

Message == Cmd \X Transfer

\* A route leads from one user to another.
LEMMA RouteFacts ==
    ASSUME route \in Routes, NEW t \in Transfer
    PROVE  From[t] \in User /\ To[t] \in User /\ From[t] # To[t]
  BY TransfersAssumption DEF From, To

\* While the routes stay, so do the ends of every transfer.
LEMMA RoutesStay ==
    ASSUME UNCHANGED route
    PROVE  From' = From /\ To' = To
  BY DEF From, To

\* The other end of a transfer.
LEMMA PeerFacts ==
    ASSUME TypeOK, NEW u \in User, NEW t \in Transfer
    PROVE  Peer(u, t) \in User /\ Peer(u, t) # u
  BY RouteFacts DEF Peer, TypeOK

\* ToPeer tells one user one thing, if it reaches it.
LEMMA ToPeerFacts ==
    ASSUME TypeOK, NEW u \in User, NEW cmd \in Cmd, NEW t \in Transfer, ToPeer(u, cmd, t)
    PROVE  /\ down' \in [User -> Seq(Message)]
           /\ \A x \in User : \A y : Contains(down'[x], y) =>
                 Contains(down[x], y) \/ (x = Peer(u, t) /\ y = <<cmd, t>>)
  <1>1. down \in [User -> Seq(Message)] /\ <<cmd, t>> \in Message
    BY DEF TypeOK, Message
  <1> DEFINE T == [x \in User |-> IF x = Peer(u, t) THEN <<<<cmd, t>>>> ELSE <<>>]
  <1>2. down' = [x \in User |-> IF session[x] = "on" THEN down[x] \o T[x] ELSE down[x]]
    BY DEF ToPeer, Written
  <1>3. ASSUME NEW x \in User
        PROVE  /\ down'[x] \in Seq(Message)
               /\ \A y : Contains(down'[x], y) =>
                     Contains(down[x], y) \/ (x = Peer(u, t) /\ y = <<cmd, t>>)
    <2>1. down[x] \in Seq(Message)
      BY <1>1
    <2>2. CASE session[x] = "on" /\ x = Peer(u, t)
      <3>1. down'[x] = down[x] \o <<<<cmd, t>>>>
        BY <1>2, <2>2
      <3> HIDE DEF T
      <3>2. /\ down[x] \o <<<<cmd, t>>>> \in Seq(Message)
            /\ \A y : Contains(down[x] \o <<<<cmd, t>>>>, y) <=> Contains(down[x], y) \/ y = <<cmd, t>>
        <4>1. \A c \in Message : /\ down[x] \o <<c>> \in Seq(Message)
                                 /\ \A y : Contains(down[x] \o <<c>>, y) <=> Contains(down[x], y) \/ y = c
          BY <2>1, WriteFacts
        <4> QED
          BY ONLY <1>1, <4>1
      <3> QED
        BY ONLY <2>2, <3>1, <3>2
    <2>3. CASE ~(session[x] = "on" /\ x = Peer(u, t))
      <3>1. down'[x] = down[x] \/ down'[x] = down[x] \o <<>>
        BY <1>2, <2>3
      <3>2. down'[x] = down[x]
        BY <1>1, <2>1, <3>1, WriteFacts
      <3> QED
        BY <2>1, <3>2
    <2> QED
      BY <2>2, <2>3
  <1> QED
    BY <1>2, <1>3

\* start_transfer tells nobody anything but that the transfer starts.
LEMMA StartFacts ==
    ASSUME TypeOK, NEW u \in User, NEW t \in Transfer, Start(u, t)
    PROVE  /\ down' \in [User -> Seq(Message)]
           /\ \A x \in User : \A y : Contains(down'[x], y) =>
                 Contains(down[x], y) \/ y = <<"STARTTRANS", t>>
           /\ struck' \in SUBSET Transfer
  <1>1. down \in [User -> Seq(Message)] /\ <<"STARTTRANS", t>> \in Message
    BY DEF TypeOK, Message, Cmd
  <1>2. struck' \in SUBSET Transfer
    BY DEF Start, TypeOK
  <1>3. \/ down' = down
        \/ \E H : down' = [x \in User |-> IF session[x] = "on"
                              THEN down[x] \o [z \in User |-> IF z \in H THEN <<<<"STARTTRANS", t>>>> ELSE <<>>][x]
                              ELSE down[x]]
    <2>1. CASE Written([x \in User |-> IF x \in {u, Peer(u, t)} THEN <<<<"STARTTRANS", t>>>> ELSE <<>>])
      BY <2>1 DEF Written
    <2>2. CASE Written([x \in User |-> IF x = u THEN <<<<"STARTTRANS", t>>>> ELSE <<>>])
      <3>1. \A x : x = u <=> x \in {u}
        OBVIOUS
      <3> QED
        BY <2>2, <3>1 DEF Written
    <2>3. CASE UNCHANGED down
      BY <2>3
    <2> QED
      BY <2>1, <2>2, <2>3 DEF Start
  <1>4. CASE down' = down
    BY <1>1, <1>2, <1>4
  <1>5. CASE down' # down
    <2>1. PICK H : down' = [x \in User |-> IF session[x] = "on"
                              THEN down[x] \o [z \in User |-> IF z \in H THEN <<<<"STARTTRANS", t>>>> ELSE <<>>][x]
                              ELSE down[x]]
      BY <1>3, <1>5
    <2>2. ASSUME NEW x \in User
          PROVE  /\ down'[x] \in Seq(Message)
                 /\ \A y : Contains(down'[x], y) => Contains(down[x], y) \/ y = <<"STARTTRANS", t>>
      <3>1. down[x] \in Seq(Message)
        BY <1>1
      <3>2. CASE session[x] = "on" /\ x \in H
        <4>1. down'[x] = down[x] \o <<<<"STARTTRANS", t>>>>
          BY <2>1, <3>2
        <4>2. /\ down[x] \o <<<<"STARTTRANS", t>>>> \in Seq(Message)
              /\ \A y : Contains(down[x] \o <<<<"STARTTRANS", t>>>>, y) <=>
                    Contains(down[x], y) \/ y = <<"STARTTRANS", t>>
          <5>1. \A c \in Message : /\ down[x] \o <<c>> \in Seq(Message)
                                   /\ \A y : Contains(down[x] \o <<c>>, y) <=> Contains(down[x], y) \/ y = c
            BY <3>1, WriteFacts
          <5> QED
            BY ONLY <1>1, <5>1
        <4> QED
          BY ONLY <4>1, <4>2
      <3>3. CASE ~(session[x] = "on" /\ x \in H)
        <4>1. down'[x] = down[x] \/ down'[x] = down[x] \o <<>>
          BY <2>1, <3>3
        <4>2. down'[x] = down[x]
          BY <1>1, <3>1, <4>1, WriteFacts
        <4> QED
          BY <3>1, <4>2
      <3> QED
        BY <3>2, <3>3
    <2> QED
      BY <1>2, <2>1, <2>2
  <1> QED
    BY <1>4, <1>5

\* free_wait of both ends takes out that transfer and nothing else.
LEMMA FreedFacts ==
    ASSUME TypeOK, NEW t \in Transfer
    PROVE  /\ FreeBoth(wait_h, t) \in [User -> Seq(Entry)]
           /\ \A x \in User : IsInjective(FreeBoth(wait_h, t)[x])
           /\ \A x \in User : \A e : Contains(FreeBoth(wait_h, t)[x], e) <=> Contains(wait_h[x], e) /\ e # t
  <1>1. ASSUME NEW x \in User
        PROVE  /\ RemoveFirst(wait_h[x], t) \in Seq(Entry)
               /\ IsInjective(RemoveFirst(wait_h[x], t))
               /\ \A e : Contains(RemoveFirst(wait_h[x], t), e) <=> Contains(wait_h[x], e) /\ e # t
    <2>1. wait_h[x] \in Seq(Entry) /\ IsInjective(wait_h[x])
      BY DEF TypeOK
    <2> QED
      BY <2>1, RemoveFacts
  <1> QED
    BY <1>1 DEF FreeBoth

\* Tell adds one command behind those of its user.
LEMMA TellFacts ==
    ASSUME TypeOK, NEW u \in User, NEW cmd \in Cmd, NEW t \in Transfer, Tell(u, cmd, t)
    PROVE  /\ up' \in [User -> Seq(Message)]
           /\ \A x \in User : \A y : Contains(up'[x], y) <=> Contains(up[x], y) \/ (x = u /\ y = <<cmd, t>>)
           /\ \A x \in User : \A y : Once(up[x], y) /\ (y = <<cmd, t>> => ~Contains(up[x], y)) => Once(up'[x], y)
  <1>1. up \in [User -> Seq(Message)] /\ <<cmd, t>> \in Message
    BY DEF TypeOK, Message
  <1>2. \A c \in Message :
           /\ Append(up[u], c) \in Seq(Message)
           /\ \A y : Contains(Append(up[u], c), y) <=> Contains(up[u], y) \/ y = c
           /\ \A y : Once(up[u], y) /\ (y = c => ~Contains(up[u], y)) => Once(Append(up[u], c), y)
    BY <1>1, AppendFacts
  <1>3. up' = [up EXCEPT ![u] = Append(up[u], <<cmd, t>>)]
    BY DEF Tell
  <1> QED
    BY ONLY <1>1, <1>2, <1>3, u \in User

\* What a client has read is gone from its channel.
LEMMA DownTaken ==
    ASSUME TypeOK, NEW u \in User, down[u] # <<>>, down' = [down EXCEPT ![u] = Tail(@)]
    PROVE  /\ Head(down[u]) \in Message
           /\ down' \in [User -> Seq(Message)]
           /\ Contains(down[u], Head(down[u]))
           /\ \A x \in User : \A y : Contains(down'[x], y) => Contains(down[x], y)
           /\ \A x \in User : \A y : Once(down[x], y) => Once(down'[x], y)
           /\ Once(down[u], Head(down[u])) => ~Contains(down'[u], Head(down[u]))
  <1>1. down \in [User -> Seq(Message)] /\ down[u] \in Seq(Message)
    BY DEF TypeOK, Message
  <1>2. /\ Head(down[u]) \in Message /\ Tail(down[u]) \in Seq(Message)
        /\ \A y : Contains(down[u], y) <=> Contains(Tail(down[u]), y) \/ y = Head(down[u])
        /\ \A y : Once(down[u], y) => Once(Tail(down[u]), y)
        /\ \A y : Once(down[u], y) /\ y = Head(down[u]) => ~Contains(Tail(down[u]), y)
    BY <1>1, HeadFacts
  <1>3. \A x \in User : down'[x] = IF x = u THEN Tail(down[u]) ELSE down[x]
    BY <1>1
  <1>4. down' \in [User -> Seq(Message)]
    BY <1>1, <1>2
  <1> QED
    BY <1>2, <1>3, <1>4

\* What the server has read is gone from the channel of its user.
LEMMA UpTaken ==
    ASSUME TypeOK, NEW u \in User, up[u] # <<>>, up' = [up EXCEPT ![u] = Tail(@)]
    PROVE  /\ Head(up[u]) \in Message
           /\ up' \in [User -> Seq(Message)]
           /\ Contains(up[u], Head(up[u]))
           /\ \A x \in User : \A y : Contains(up'[x], y) => Contains(up[x], y)
           /\ \A x \in User : \A y : Once(up[x], y) => Once(up'[x], y)
           /\ Once(up[u], Head(up[u])) => ~Contains(up'[u], Head(up[u]))
  <1>1. up \in [User -> Seq(Message)] /\ up[u] \in Seq(Message)
    BY DEF TypeOK, Message
  <1>2. /\ Head(up[u]) \in Message /\ Tail(up[u]) \in Seq(Message)
        /\ \A y : Contains(up[u], y) <=> Contains(Tail(up[u]), y) \/ y = Head(up[u])
        /\ \A y : Once(up[u], y) => Once(Tail(up[u]), y)
        /\ \A y : Once(up[u], y) /\ y = Head(up[u]) => ~Contains(Tail(up[u]), y)
    BY <1>1, HeadFacts
  <1>3. \A x \in User : up'[x] = IF x = u THEN Tail(up[u]) ELSE up[x]
    BY <1>1
  <1>4. up' \in [User -> Seq(Message)]
    BY <1>1, <1>2
  <1> QED
    BY <1>2, <1>3, <1>4

\* A channel that is cut holds nothing any more, the others what they held.
LEMMA CutFacts ==
    ASSUME NEW f, NEW u \in User, NEW g,
           \A x \in User : g[x] = IF x = u THEN <<>> ELSE f[x]
    PROVE  /\ \A x \in User : \A y : Contains(g[x], y) => Contains(f[x], y)
           /\ \A x \in User : \A y : Once(f[x], y) => Once(g[x], y)
  <1>1. \A y : ~Contains(<<>>, y) /\ Once(<<>>, y)
    BY DEF Contains, Once
  <1>2. \A x \in User : g[x] = <<>> \/ g[x] = f[x]
    OBVIOUS
  <1> QED
    BY <1>1, <1>2

\* A step that sends no request, tells nobody that a transfer starts or ends,
\* keeps the data waits and begins nothing keeps the invariant.
Calm ==
    /\ UNCHANGED <<route, begun, offered>>
    /\ \A x \in User, s \in Transfer :
        /\ Waits(x, s)' <=> Waits(x, s)
        /\ Sent(x, "REQTRANS", s)' => Sent(x, "REQTRANS", s)
        /\ Once(up[x], <<"REQTRANS", s>>) => Once(up'[x], <<"REQTRANS", s>>)
        /\ \A c \in {"CANCELTRANS", "REFUSETRANS", "STARTTRANS"} : Told(x, c, s)' => Told(x, c, s)
        /\ thread'[x][s] # "none" => thread[x][s] # "none" \/ Told(x, "STARTTRANS", s)
    /\ \A s \in Transfer : Contains(trans', s) => Contains(trans, s)

\* Such a step, once its types are known.
LEMMA CalmKeeps ==
    ASSUME TransferInv, TypeOK', Calm
    PROVE  TransferInv'
  <1>1. From' = From /\ To' = To
    BY RoutesStay DEF Calm
  <1>2. \A s \in Transfer : From[s] \in User /\ To[s] \in User
    BY RouteFacts DEF TransferInv, TypeOK
  <1>3. ASSUME NEW s \in Transfer PROVE CourseOf(s)' /\ ToldOf(s)'
    <2>1. CourseOf(s) /\ ToldOf(s)
      BY DEF TransferInv
    <2>2. Once(up[From[s]], <<"REQTRANS", s>>)'
      BY <1>1, <1>2, <2>1 DEF CourseOf, Calm
    <2>3. CourseOf(s)'
      BY <1>1, <1>2, <2>1, <2>2 DEF CourseOf, Requested, Waited, Ends, Calm
    <2>4. ToldOf(s)'
      BY <1>1, <1>2, <2>1 DEF ToldOf, Over, Requested, Waited, Calm
    <2> QED
      BY <2>3, <2>4
  <1> QED
    BY <1>3 DEF TransferInv

-----------------------------------------------------------------------------
(* Steps of the clients                                                     *)

\* One item or thread of one client is set.
LEMMA CellFacts ==
    ASSUME NEW S, NEW f \in [User -> [Transfer -> S]], NEW u \in User, NEW t \in Transfer, NEW v \in S,
           NEW g, g = [f EXCEPT ![u][t] = v]
    PROVE  /\ g \in [User -> [Transfer -> S]]
           /\ \A x \in User, s \in Transfer : g[x][s] = IF x = u /\ s = t THEN v ELSE f[x][s]
  OBVIOUS

ItemState == {"none", "QuePend", "QueReady", "QueStart"}
ThreadState == {"none", "created", "started", "running"}

\* The items and the threads of the clients have their types.
LEMMA ClientTypes ==
    ASSUME TypeOK
    PROVE  item \in [User -> [Transfer -> ItemState]] /\ thread \in [User -> [Transfer -> ThreadState]]
  BY DEF TypeOK, ItemState, ThreadState

\* A file is offered once, and nothing was heard of it before.
LEMMA SendFileKeeps ==
    ASSUME TransferInv, UNCHANGED route, NEW t \in Transfer, SendFile(t)
    PROVE  TransferInv'
  <1> DEFINE u == From[t]
  <1>1. TypeOK /\ route \in Routes
    BY DEF TransferInv, TypeOK
  <1>2. /\ u \in User
        /\ \A s \in Transfer : From[s] \in User
        /\ "REQTRANS" \in Cmd /\ Tell(u, "REQTRANS", t)
    BY <1>1, RouteFacts DEF SendFile, Cmd
  <1>3. /\ up' \in [User -> Seq(Message)]
        /\ \A x \in User : \A y : Contains(up'[x], y) <=> Contains(up[x], y) \/ (x = u /\ y = <<"REQTRANS", t>>)
        /\ \A x \in User : \A y : Once(up[x], y) /\ (y = <<"REQTRANS", t>> => ~Contains(up[x], y)) => Once(up'[x], y)
    BY <1>1, <1>2, TellFacts
  <1>4. TypeOK'
    BY <1>1, <1>2, <1>3 DEF TypeOK, Message, SendFile, serverVars
  <1>5. \A x \in User, s \in Transfer :
           Sent(x, "REQTRANS", s)' <=> Sent(x, "REQTRANS", s) \/ (x = u /\ s = t)
    BY <1>3 DEF Sent
  <1>6. \A x, s, c : Waits(x, s)' = Waits(x, s) /\ Told(x, c, s)' = Told(x, c, s)
    BY DEF Waits, Told, SendFile, serverVars
  <1>7. From' = From /\ To' = To
    BY RoutesStay
  <1>8. ASSUME NEW s \in Transfer PROVE CourseOf(s)' /\ ToldOf(s)'
    <2>1. CourseOf(s) /\ ToldOf(s) /\ CourseOf(t) /\ t \notin offered /\ offered' = offered \cup {t}
      BY DEF TransferInv, SendFile
    <2>2. ~Sent(u, "REQTRANS", t) /\ ~Contains(up[u], <<"REQTRANS", t>>)
      BY <2>1 DEF CourseOf, Requested, Sent
    <2>3. Once(up[From[s]], <<"REQTRANS", s>>)'
      BY <1>2, <1>3, <1>7, <2>1, <2>2 DEF CourseOf
    <2>4. begun' = begun /\ trans' = trans /\ thread' = thread
      BY DEF SendFile, serverVars
    <2>5. CourseOf(s)'
      BY <1>2, <1>5, <1>6, <1>7, <2>1, <2>3, <2>4 DEF CourseOf, Requested, Waited, Ends
    <2>6. ToldOf(s)'
      BY <1>2, <1>5, <1>6, <1>7, <2>1, <2>4 DEF ToldOf, Over, Requested, Waited
    <2> QED
      BY <2>5, <2>6
  <1> QED
    BY <1>4, <1>8 DEF TransferInv

\* What the two commands of an item have in common: one command is sent.
LEMMA TellCalm ==
    ASSUME TypeOK, NEW u \in User, NEW cmd \in Cmd, NEW t \in Transfer, Tell(u, cmd, t), cmd # "REQTRANS",
           UNCHANGED <<route, begun, offered, wait_h, trans, down, thread>>
    PROVE  up' \in [User -> Seq(Message)] /\ Calm
  <1>1. /\ up' \in [User -> Seq(Message)]
        /\ \A x \in User : \A y : Contains(up'[x], y) <=> Contains(up[x], y) \/ (x = u /\ y = <<cmd, t>>)
        /\ \A x \in User : \A y : Once(up[x], y) /\ (y = <<cmd, t>> => ~Contains(up[x], y)) => Once(up'[x], y)
    BY TellFacts
  <1>2. \A s : <<"REQTRANS", s>> # <<cmd, t>>
    OBVIOUS
  <1>3. \A x, s, c : Waits(x, s)' = Waits(x, s) /\ Told(x, c, s)' = Told(x, c, s)
    BY DEF Waits, Told
  <1>4. \A x \in User, s \in Transfer : Sent(x, "REQTRANS", s)' => Sent(x, "REQTRANS", s)
    BY <1>1, <1>2 DEF Sent
  <1> QED
    BY <1>1, <1>2, <1>3, <1>4 DEF Calm

\* Accepting an item sends ACCEPTTRANS.
LEMMA AcceptItemKeeps ==
    ASSUME TransferInv, UNCHANGED route, NEW u \in User, NEW t \in Transfer, AcceptItem(u, t)
    PROVE  TransferInv'
  <1>1. TypeOK
    BY DEF TransferInv
  <1>2. up' \in [User -> Seq(Message)] /\ Calm
    BY <1>1, TellCalm DEF AcceptItem, Cmd, serverVars
  <1>3. TypeOK'
    BY <1>1, <1>2 DEF TypeOK, Message, AcceptItem, serverVars
  <1> QED
    BY <1>2, <1>3, CalmKeeps

\* Withdrawing an item sends REFUSETRANS or CANCELTRANS.
LEMMA CancelItemKeeps ==
    ASSUME TransferInv, UNCHANGED route, NEW u \in User, NEW t \in Transfer, CancelItem(u, t)
    PROVE  TransferInv'
  <1>1. TypeOK
    BY DEF TransferInv
  <1>2. PICK cmd \in {"REFUSETRANS", "CANCELTRANS"} : Tell(u, cmd, t)
    BY DEF CancelItem
  <1>3. up' \in [User -> Seq(Message)] /\ Calm
    BY <1>1, <1>2, TellCalm DEF CancelItem, Cmd, serverVars
  <1>4. undefined' \in BOOLEAN
    BY <1>1 DEF TypeOK, CancelItem
  <1>5. item' \in [User -> [Transfer -> ItemState]]
    <2>1. CASE item' = [item EXCEPT ![u][t] = "none"]
      BY <1>1, <2>1, ClientTypes, CellFacts DEF ItemState
    <2>2. CASE item' = item
      BY <1>1, <2>2, ClientTypes
    <2> QED
      BY <2>1, <2>2 DEF CancelItem
  <1>6. UNCHANGED <<session, down, wait_h, trans, struck, sweep, thread, deaths, offered, accepted, begun, lost>>
        /\ withdrawn' = withdrawn \cup {<<u, t>>}
    BY DEF CancelItem, serverVars
  <1>7. TypeOK'
    BY <1>1, <1>3, <1>4, <1>5, <1>6 DEF TypeOK, Message, ItemState
  <1> QED
    BY <1>3, <1>7, CalmKeeps

\* A transfer thread only runs once it was created.
LEMMA ThreadStepKeeps ==
    ASSUME TransferInv, UNCHANGED route, NEW u \in User, NEW t \in Transfer, ThreadStep(u, t)
    PROVE  TransferInv'
  <1>1. TypeOK
    BY DEF TransferInv
  <1>2. PICK i \in ItemState, h \in ThreadState :
           /\ item' = [item EXCEPT ![u][t] = i] \/ item' = item
           /\ thread' = [thread EXCEPT ![u][t] = h]
           /\ thread[u][t] # "none"
    BY DEF ThreadStep, ItemState, ThreadState
  <1>3. item' \in [User -> [Transfer -> ItemState]]
    <2>1. CASE item' = [item EXCEPT ![u][t] = i]
      BY <1>1, <2>1, ClientTypes, CellFacts
    <2>2. CASE item' = item
      BY <1>1, <2>2, ClientTypes
    <2> QED
      BY <1>2, <2>1, <2>2
  <1>4. /\ thread' \in [User -> [Transfer -> ThreadState]]
        /\ \A x \in User, s \in Transfer : thread'[x][s] = IF x = u /\ s = t THEN h ELSE thread[x][s]
    BY <1>1, <1>2, ClientTypes, CellFacts
  <1>5. UNCHANGED <<session, up, down, wait_h, trans, struck, sweep, undefined, deaths, offered, accepted,
                    begun, withdrawn, lost>>
    BY DEF ThreadStep, serverVars, historyVars
  <1>6. TypeOK'
    BY <1>1, <1>3, <1>4, <1>5 DEF TypeOK, ItemState, ThreadState
  <1>7. Calm
    BY <1>2, <1>4, <1>5 DEF Calm, Waits, Sent, Told
  <1> QED
    BY <1>6, <1>7, CalmKeeps

\* A client that handles a command starts a thread only after STARTTRANS.
LEMMA ReceiveKeeps ==
    ASSUME TransferInv, UNCHANGED route, NEW u \in User, Receive(u)
    PROVE  TransferInv'
  <1> DEFINE cmd == Head(down[u])[1]
             t == Head(down[u])[2]
  <1>1. TypeOK
    BY DEF TransferInv
  <1>2. down \in [User -> Seq(Message)] /\ down[u] # <<>> /\ down' = [down EXCEPT ![u] = Tail(@)]
    BY <1>1 DEF TypeOK, Message, Receive
  <1>3. /\ Head(down[u]) \in Message
        /\ down' \in [User -> Seq(Message)]
        /\ Contains(down[u], Head(down[u]))
        /\ \A x \in User : \A y : Contains(down'[x], y) => Contains(down[x], y)
    BY <1>1, <1>2, DownTaken
  <1>4. cmd \in Cmd /\ t \in Transfer /\ Head(down[u]) = <<cmd, t>>
    BY <1>3 DEF Message
  <1>5. Handled(u, cmd, t)
    BY DEF Receive
  <1> HIDE DEF cmd, t
  <1>6. undefined' \in BOOLEAN
    BY <1>1, <1>5 DEF TypeOK, Handled, clientVars
  <1>7. /\ item' \in [User -> [Transfer -> ItemState]]
        /\ thread' \in [User -> [Transfer -> ThreadState]]
        /\ \A x \in User, s \in Transfer : thread'[x][s] # "none" =>
              thread[x][s] # "none" \/ (x = u /\ s = t /\ cmd = "STARTTRANS")
    <2>1. item' = item \/ \E i \in ItemState : item' = [item EXCEPT ![u][t] = i]
      BY <1>5 DEF Handled, clientVars, ItemState
    <2>2. item' \in [User -> [Transfer -> ItemState]]
      <3>1. CASE item' = item
        BY <1>1, <3>1, ClientTypes
      <3>2. ASSUME NEW i \in ItemState, item' = [item EXCEPT ![u][t] = i]
            PROVE  item' \in [User -> [Transfer -> ItemState]]
        BY <1>1, <1>4, <3>2, ClientTypes, CellFacts
      <3> QED
        BY <2>1, <3>1, <3>2
    <2>3. CASE thread' = thread
      BY <1>1, <2>2, <2>3, ClientTypes
    <2>4. CASE cmd = "STARTTRANS" /\ thread' = [thread EXCEPT ![u][t] = "created"]
      <3>1. /\ thread' \in [User -> [Transfer -> ThreadState]]
            /\ \A x \in User, s \in Transfer : thread'[x][s] = IF x = u /\ s = t THEN "created" ELSE thread[x][s]
        BY <1>1, <1>4, <2>4, ClientTypes, CellFacts DEF ThreadState
      <3> QED
        BY <2>2, <2>4, <3>1
    <2> QED
      BY <1>5, <2>3, <2>4 DEF Handled, clientVars
  <1>8. UNCHANGED <<session, up, wait_h, trans, struck, sweep, deaths, offered, accepted, begun, withdrawn, lost>>
    BY DEF Receive, serverVars, historyVars
  <1>9. TypeOK'
    BY <1>1, <1>3, <1>6, <1>7, <1>8 DEF TypeOK, Message, ItemState, ThreadState
  <1>10. Calm
    <2>1. \A x \in User, s \in Transfer : thread'[x][s] # "none" =>
             thread[x][s] # "none" \/ Told(x, "STARTTRANS", s)
      BY <1>3, <1>4, <1>7 DEF Told
    <2> QED
      BY <2>1, <1>3, <1>8 DEF Calm, Waits, Sent, Told
  <1> QED
    BY <1>9, <1>10, CalmKeeps

\* A client that dies leaves its commands on their way.
LEMMA DieKeeps ==
    ASSUME TransferInv, UNCHANGED route, NEW u \in User, Die(u)
    PROVE  TransferInv'
  <1>1. TypeOK
    BY DEF TransferInv
  <1>2. TypeOK'
    BY <1>1 DEF TypeOK, Message, Die, serverVars
  <1>3. /\ UNCHANGED <<begun, offered, wait_h, up, trans>>
        /\ \A x \in User, s \in Transfer : thread'[x][s] # "none" => thread[x][s] # "none"
        /\ \A x \in User : \A y : Contains(down'[x], y) => Contains(down[x], y)
    BY <1>1 DEF Die, serverVars, TypeOK, Contains
  <1>4. Calm
    BY <1>3 DEF Calm, Waits, Sent, Told
  <1> QED
    BY <1>2, <1>4, CalmKeeps

-----------------------------------------------------------------------------
(* Steps of the server                                                      *)

\* A new session, or one that ends, takes the commands on their way with it.
LEMMA ClearedKeeps ==
    ASSUME TransferInv, UNCHANGED route, NEW u \in User, Disconnect(u) \/ Login(u)
    PROVE  TransferInv'
  <1>1. TypeOK
    BY DEF TransferInv
  <1>2. /\ UNCHANGED <<down, wait_h, trans, struck, item, thread, undefined, deaths, offered, accepted,
                       begun, withdrawn, lost>>
        /\ up' = [up EXCEPT ![u] = <<>>]
        /\ \E v \in {"on", "off"} : session' = [session EXCEPT ![u] = v]
        /\ sweep' = sweep \/ sweep' = <<u, 1>>
    BY DEF Disconnect, Login, serverVars, clientVars, historyVars
  <1>3. /\ up' \in [User -> Seq(Message)]
        /\ session' \in [User -> {"on", "dying", "off"}]
        /\ sweep' \in (User \X (Nat \ {0})) \cup {Idle}
    BY <1>1, <1>2 DEF TypeOK, Message
  <1>4. TypeOK'
    BY <1>1, <1>2, <1>3 DEF TypeOK, Message
  <1>5. \A x \in User : \A y : /\ Contains(up'[x], y) => Contains(up[x], y)
                               /\ Once(up[x], y) => Once(up'[x], y)
    <2>1. \A x \in User : up'[x] = IF x = u THEN <<>> ELSE up[x]
      BY <1>1, <1>2 DEF TypeOK
    <2> QED
      BY ONLY <2>1, u \in User, CutFacts
  <1>6. Calm
    BY <1>2, <1>5 DEF Calm, Waits, Sent, Told
  <1> QED
    BY <1>4, <1>6, CalmKeeps

\* A friend request in a wait list is none of the transfers' business.
LEMMA FriendWaitKeeps ==
    ASSUME TransferInv, UNCHANGED route, NEW u \in User, AskFriend(u) \/ FriendAnswers(u)
    PROVE  TransferInv'
  <1>1. TypeOK /\ wait_h[u] \in Seq(Entry) /\ IsInjective(wait_h[u]) /\ FriendWait \in Entry
    BY DEF TransferInv, TypeOK, Entry
  <1>2. UNCHANGED <<session, up, down, trans, struck, sweep, item, thread, undefined, deaths, offered, accepted,
                    begun, withdrawn, lost>>
    BY DEF AskFriend, FriendAnswers, clientVars, historyVars
  <1>3. PICK w \in Seq(Entry) : /\ wait_h' = [wait_h EXCEPT ![u] = w]
                                /\ IsInjective(w)
                                /\ \A s \in Transfer : Contains(w, s) <=> Contains(wait_h[u], s)
    <2>1. CASE AskFriend(u)
      <3>1. /\ <<FriendWait>> \o wait_h[u] \in Seq(Entry)
            /\ \A y : Contains(<<FriendWait>> \o wait_h[u], y) <=> Contains(wait_h[u], y) \/ y = FriendWait
            /\ IsInjective(<<FriendWait>> \o wait_h[u])
        BY <1>1, <2>1, ConsFacts DEF AskFriend
      <3> QED
        BY <2>1, <3>1, TransfersAssumption DEF AskFriend
    <2>2. CASE FriendAnswers(u)
      <3>1. /\ RemoveFirst(wait_h[u], FriendWait) \in Seq(Entry)
            /\ IsInjective(RemoveFirst(wait_h[u], FriendWait))
            /\ \A y : Contains(RemoveFirst(wait_h[u], FriendWait), y) <=> Contains(wait_h[u], y) /\ y # FriendWait
        BY <1>1, RemoveFacts
      <3> QED
        BY <2>2, <3>1, TransfersAssumption DEF FriendAnswers
    <2> QED
      BY <2>1, <2>2
  <1>4. /\ wait_h' \in [User -> Seq(Entry)]
        /\ \A x \in User : IsInjective(wait_h'[x])
        /\ \A x \in User, s \in Transfer : Waits(x, s)' <=> Waits(x, s)
    BY <1>1, <1>3 DEF TypeOK, Waits
  <1>5. TypeOK'
    BY <1>1, <1>2, <1>4 DEF TypeOK
  <1>6. Calm
    BY <1>2, <1>4 DEF Calm, Sent, Told
  <1> QED
    BY <1>5, <1>6, CalmKeeps

\* A handler that ends leaves the list of handlers.
LEMMA HandlerEndsKeeps ==
    ASSUME TransferInv, UNCHANGED route, NEW t \in Transfer, HandlerEnds(t)
    PROVE  TransferInv'
  <1>1. TypeOK /\ trans \in Seq(Transfer) /\ IsInjective(trans)
    BY DEF TransferInv, TypeOK
  <1>2. /\ trans' \in Seq(Transfer)
        /\ IsInjective(trans')
        /\ \A s : Contains(trans', s) => Contains(trans, s)
    <2>1. trans' = RemoveFirst(trans, t)
      BY DEF HandlerEnds
    <2>2. /\ RemoveFirst(trans, t) \in Seq(Transfer)
          /\ IsInjective(RemoveFirst(trans, t))
          /\ \A y : Contains(RemoveFirst(trans, t), y) <=> Contains(trans, y) /\ y # t
      BY <1>1, RemoveFacts
    <2> QED
      BY <2>1, <2>2
  <1>3. UNCHANGED <<session, up, down, wait_h, struck, sweep, item, thread, undefined, deaths, offered, accepted,
                    begun, withdrawn, lost>>
    BY DEF HandlerEnds, clientVars, historyVars
  <1>4. TypeOK'
    BY <1>1, <1>2, <1>3 DEF TypeOK
  <1>5. Calm
    BY <1>2, <1>3 DEF Calm, Waits, Sent, Told
  <1> QED
    BY <1>4, <1>5, CalmKeeps

\* Once its waits are freed at both ends a transfer may be called off, be it
\* by a command or by the sweep of a session that ended.
LEMMA CalledOffKeeps ==
    ASSUME TransferInv, TypeOK', UNCHANGED <<route, begun, offered, trans, thread>>,
           NEW u \in User, NEW t \in Transfer, Waits(u, t),
           wait_h' = FreeBoth(wait_h, t),
           NEW cmd \in {"CANCELTRANS", "REFUSETRANS"}, ToPeer(u, cmd, t),
           \A x \in User : \A y : Contains(up'[x], y) => Contains(up[x], y),
           \A x \in User : \A y : Once(up[x], y) => Once(up'[x], y)
    PROVE  TransferInv'
  <1>1. TypeOK /\ cmd \in Cmd
    BY DEF TransferInv, Cmd
  <1>2. \A x \in User, s \in Transfer, c \in Cmd : Told(x, c, s)' => Told(x, c, s) \/ (c = cmd /\ s = t)
    BY <1>1, ToPeerFacts DEF Told
  <1>3. \A x \in User, s \in Transfer : Waits(x, s)' <=> Waits(x, s) /\ s # t
    BY <1>1, FreedFacts DEF Waits
  <1>4. \A x \in User, s \in Transfer : Sent(x, "REQTRANS", s)' => Sent(x, "REQTRANS", s)
    BY DEF Sent
  <1>5. From' = From /\ To' = To
    BY RoutesStay
  <1>6. \A s \in Transfer : From[s] \in User /\ To[s] \in User
    BY <1>1, RouteFacts DEF TypeOK
  <1>7. CourseOf(t) /\ t \in offered /\ t \notin begun /\ ~Requested(t)
    <2>1. CourseOf(t)
      BY DEF TransferInv
    <2>2. Waited(t)
      BY <2>1 DEF CourseOf, Ends, Waited
    <2> QED
      BY <2>1, <2>2 DEF CourseOf
  <1>8. ASSUME NEW s \in Transfer PROVE CourseOf(s)' /\ ToldOf(s)'
    <2>1. CourseOf(s) /\ ToldOf(s)
      BY DEF TransferInv
    <2>2. Once(up[From[s]], <<"REQTRANS", s>>)'
      BY <1>5, <1>6, <2>1 DEF CourseOf
    <2>3. CourseOf(s)'
      BY <1>3, <1>4, <1>5, <1>6, <2>1, <2>2 DEF CourseOf, Requested, Waited, Ends
    <2>4. Over(s) \/ s = t => Over(s)'
      BY <1>3, <1>4, <1>5, <1>6, <1>7 DEF Over, Requested, Waited
    <2>5. ToldOf(s)'
      BY <1>2, <2>1, <2>4 DEF ToldOf, Cmd
    <2> QED
      BY <2>3, <2>5
  <1> QED
    BY <1>8 DEF TransferInv

\* One turn of the loop that clears the waits of a session that ended.
LEMMA SweepKeeps ==
    ASSUME TransferInv, UNCHANGED route, Sweep
    PROVE  TransferInv'
  <1>1. TypeOK
    BY DEF TransferInv
  <1> DEFINE u == sweep[1]
             i == sweep[2]
  <1>2. sweep = <<u, i>> /\ u \in User /\ i \in Nat \ {0}
    BY <1>1 DEF TypeOK, Sweep
  <1> HIDE DEF u, i
  <1>3. /\ UNCHANGED <<session, up, trans, struck, item, thread, undefined, deaths, offered, accepted,
                       begun, withdrawn, lost>>
        /\ \/ sweep' \in {Idle, <<u, i + 1>>} /\ UNCHANGED <<wait_h, down>>
           \/ i <= Len(wait_h[u]) /\ SweepWait(u, i)
    BY <1>2 DEF Sweep, clientVars, historyVars, u, i
  <1>4. CASE sweep' \in {Idle, <<u, i + 1>>} /\ UNCHANGED <<wait_h, down>>
    <2>1. sweep' \in (User \X (Nat \ {0})) \cup {Idle}
      BY <1>2, <1>4
    <2>2. TypeOK'
      BY <1>1, <1>3, <1>4, <2>1 DEF TypeOK
    <2>3. Calm
      BY <1>3, <1>4 DEF Calm, Waits, Sent, Told
    <2> QED
      BY <2>2, <2>3, CalmKeeps
  <1>5. CASE i <= Len(wait_h[u]) /\ SweepWait(u, i)
    <2> DEFINE t == wait_h[u][i]
    <2>1. t \in Transfer /\ Waits(u, t)
      <3>1. wait_h[u] \in Seq(Entry)
        BY <1>1, <1>2 DEF TypeOK
      <3>2. i \in 1..Len(wait_h[u])
        BY <1>2, <1>5, <3>1
      <3>3. t \in Entry
        BY <3>1, <3>2
      <3> QED
        BY <1>5, <3>2, <3>3 DEF Waits, Contains, Entry, SweepWait
    <2>2. /\ ToPeer(u, "CANCELTRANS", t)
          /\ wait_h' = FreeBoth(wait_h, t)
          /\ sweep' = <<u, IF i < Len(wait_h[u]) THEN i + 1 ELSE 1>>
      BY <1>5 DEF SweepWait, SweptPair
    <2> HIDE DEF t
    <2>3. /\ down' \in [User -> Seq(Message)]
          /\ wait_h' \in [User -> Seq(Entry)]
          /\ \A x \in User : IsInjective(wait_h'[x])
      BY <1>1, <1>2, <2>1, <2>2, ToPeerFacts, FreedFacts DEF Cmd
    <2>4. sweep' \in (User \X (Nat \ {0})) \cup {Idle}
      BY <1>2, <2>2
    <2>5. TypeOK'
      BY <1>1, <1>3, <2>3, <2>4 DEF TypeOK, Message
    <2> QED
      BY <1>2, <1>3, <2>1, <2>2, <2>5, CalledOffKeeps
  <1> QED
    BY <1>3, <1>4, <1>5

\* What Serve takes from a user and does not change.
Taken(u, cmd, t) ==
    /\ up[u] # <<>> /\ Head(up[u]) = <<cmd, t>>
    /\ up' = [up EXCEPT ![u] = Tail(@)]
    /\ UNCHANGED <<route, session, sweep, item, thread, undefined, deaths, offered, accepted, withdrawn>>

\* The commands that remain were there before, and the one taken was sent.
LEMMA TakenFacts ==
    ASSUME TransferInv, NEW u \in User, NEW cmd, NEW t, Taken(u, cmd, t)
    PROVE  /\ cmd \in Cmd /\ t \in Transfer
           /\ up' \in [User -> Seq(Message)]
           /\ Sent(u, cmd, t)
           /\ \A x \in User : \A y : Contains(up'[x], y) => Contains(up[x], y)
           /\ \A x \in User : \A y : Once(up[x], y) => Once(up'[x], y)
           /\ Once(up[u], <<cmd, t>>) => ~Sent(u, cmd, t)'
  <1>1. TypeOK /\ up[u] # <<>> /\ Head(up[u]) = <<cmd, t>> /\ up' = [up EXCEPT ![u] = Tail(@)]
    BY DEF TransferInv, Taken
  <1>2. /\ Head(up[u]) \in Message
        /\ up' \in [User -> Seq(Message)]
        /\ Contains(up[u], Head(up[u]))
        /\ \A x \in User : \A y : Contains(up'[x], y) => Contains(up[x], y)
        /\ \A x \in User : \A y : Once(up[x], y) => Once(up'[x], y)
        /\ Once(up[u], Head(up[u])) => ~Contains(up'[u], Head(up[u]))
    BY <1>1, UpTaken
  <1>3. cmd \in Cmd /\ t \in Transfer
    BY <1>1, <1>2 DEF Message
  <1> QED
    BY <1>1, <1>2, <1>3 DEF Sent

\* A request is heard once: then both ends wait, or its peer is off line.
LEMMA RequestKeeps ==
    ASSUME TransferInv, NEW u \in User, NEW t, Taken(u, "REQTRANS", t), Request(u, t),
           UNCHANGED <<trans, struck, begun>>
    PROVE  TransferInv'
  <1> DEFINE d == Peer(u, t)
  <1>1. TypeOK /\ t \in Transfer /\ "REQTRANS" \in Cmd
    BY TakenFacts DEF TransferInv, Cmd
  <1>2. /\ up' \in [User -> Seq(Message)]
        /\ Sent(u, "REQTRANS", t)
        /\ \A x \in User : \A y : Contains(up'[x], y) => Contains(up[x], y)
        /\ \A x \in User : \A y : Once(up[x], y) => Once(up'[x], y)
        /\ Once(up[u], <<"REQTRANS", t>>) => ~Sent(u, "REQTRANS", t)'
    BY TakenFacts
  <1>3. From' = From /\ To' = To
    BY RoutesStay DEF Taken
  <1>4. \A s \in Transfer : From[s] \in User /\ To[s] \in User /\ From[s] # To[s]
    BY <1>1, RouteFacts DEF TypeOK
  <1>5. CourseOf(t)
    BY <1>1 DEF TransferInv
  <1>6. u = From[t] /\ d = To[t] /\ Requested(t) /\ ~Requested(t)' /\ ~Waited(t) /\ t \notin begun /\ t \in offered
    BY <1>2, <1>3, <1>5 DEF CourseOf, Requested, Peer
  <1>7. \A x \in User : ~Waits(x, t)
    BY <1>4, <1>5, <1>6 DEF CourseOf, Waited, Ends
  <1>8. down' \in [User -> Seq(Message)] /\ \A x \in User : \A s, c : Told(x, c, s)' => Told(x, c, s) \/ c = "REQTRANS"
    <2>1. CASE ToPeer(u, "REQTRANS", t)
      BY <1>1, <2>1, ToPeerFacts DEF Told
    <2>2. CASE UNCHANGED down
      BY <1>1, <2>2 DEF TypeOK, Told, Message
    <2> QED
      BY <2>1, <2>2 DEF Request
  <1>9. /\ wait_h' \in [User -> Seq(Entry)]
        /\ \A x \in User : IsInjective(wait_h'[x])
        /\ \A x \in User, s \in Transfer : s # t => (Waits(x, s)' <=> Waits(x, s))
        /\ \/ \A x \in User : ~Waits(x, t)'
           \/ \A x \in User : Waits(x, t)' <=> x \in Ends(t)
    <2>1. CASE UNCHANGED wait_h
      BY <1>1, <1>7, <2>1 DEF TypeOK, Waits
    <2>2. CASE wait_h' # wait_h
      <3>1. PICK l \in {wait_h[u], RemoveFirst(wait_h[u], FriendWait)} :
               wait_h' = [wait_h EXCEPT ![d] = <<t>> \o @, ![u] = <<t>> \o l]
        BY <1>4, <1>6, <2>2 DEF Request
      <3>2. t \in Entry /\ d \in User /\ d # u /\ FriendWait # t
        BY <1>1, <1>4, <1>6, TransfersAssumption DEF Entry
      <3>3. /\ wait_h[u] \in Seq(Entry) /\ IsInjective(wait_h[u]) /\ ~Contains(wait_h[u], t)
            /\ wait_h[d] \in Seq(Entry) /\ IsInjective(wait_h[d]) /\ ~Contains(wait_h[d], t)
        BY <1>1, <1>7, <3>2 DEF TypeOK, Waits
      <3>4. /\ RemoveFirst(wait_h[u], FriendWait) \in Seq(Entry)
            /\ IsInjective(RemoveFirst(wait_h[u], FriendWait))
            /\ \A y : Contains(RemoveFirst(wait_h[u], FriendWait), y) <=> Contains(wait_h[u], y) /\ y # FriendWait
        BY <3>3, RemoveFacts
      <3>5. /\ l \in Seq(Entry) /\ IsInjective(l) /\ ~Contains(l, t)
            /\ \A s \in Transfer : Contains(l, s) <=> Contains(wait_h[u], s)
        BY <3>1, <3>3, <3>4, TransfersAssumption
      <3>6. /\ <<t>> \o l \in Seq(Entry) /\ IsInjective(<<t>> \o l)
            /\ \A y : Contains(<<t>> \o l, y) <=> Contains(l, y) \/ y = t
        BY <3>2, <3>5, ConsFacts
      <3>7. /\ <<t>> \o wait_h[d] \in Seq(Entry) /\ IsInjective(<<t>> \o wait_h[d])
            /\ \A y : Contains(<<t>> \o wait_h[d], y) <=> Contains(wait_h[d], y) \/ y = t
        BY <3>2, <3>3, ConsFacts
      <3>8. wait_h \in [User -> Seq(Entry)] /\ \A x \in User : IsInjective(wait_h[x])
        BY <1>1 DEF TypeOK
      <3>9. \A x \in User : wait_h'[x] = IF x = u THEN <<t>> \o l ELSE IF x = d THEN <<t>> \o wait_h[d] ELSE wait_h[x]
        BY <3>1, <3>2, <3>8
      <3>10. wait_h' \in [User -> Seq(Entry)]
        BY <3>1, <3>2, <3>6, <3>7, <3>8
      <3>11. \A x \in User : IsInjective(wait_h'[x])
        BY <3>6, <3>7, <3>8, <3>9
      <3>12. \A x \in User, s \in Transfer : s # t => (Waits(x, s)' <=> Waits(x, s))
        BY <3>5, <3>6, <3>7, <3>9 DEF Waits
      <3>13. \A x \in User : Waits(x, t)' <=> x \in Ends(t)
        BY <1>6, <1>7, <3>6, <3>7, <3>9 DEF Waits, Ends
      <3> QED
        BY <3>10, <3>11, <3>12, <3>13
    <2> QED
      BY <2>1, <2>2
  <1>10. lost' \in BOOLEAN
    BY <1>1 DEF TypeOK, Request
  <1>11. TypeOK'
    BY <1>1, <1>2, <1>8, <1>9, <1>10 DEF TypeOK, Message, Taken
  <1>12. ASSUME NEW s \in Transfer PROVE CourseOf(s)' /\ ToldOf(s)'
    <2>1. CourseOf(s) /\ ToldOf(s)
      BY DEF TransferInv
    <2>2. Once(up[From[s]], <<"REQTRANS", s>>)'
      BY <1>2, <1>3, <1>4, <2>1 DEF CourseOf
    <2>3. \A x \in User : Sent(x, "REQTRANS", s)' => Sent(x, "REQTRANS", s)
      BY <1>2 DEF Sent
    <2>4. UNCHANGED <<begun, offered, trans, thread>>
      BY DEF Taken
    <2>5. CASE s = t
      <3>1. CourseOf(s)'
        BY <1>3, <1>4, <1>6, <1>9, <2>1, <2>2, <2>3, <2>4, <2>5 DEF CourseOf, Requested, Waited, Ends
      <3>2. \A x \in User : ~Told(x, "CANCELTRANS", t) /\ ~Told(x, "REFUSETRANS", t)
        BY <1>6, <2>1, <2>5 DEF ToldOf, Over
      <3>3. ToldOf(s)'
        BY <1>8, <2>1, <2>4, <2>5, <3>2 DEF ToldOf
      <3> QED
        BY <3>1, <3>3
    <2>6. CASE s # t
      <3>1. CourseOf(s)'
        BY <1>3, <1>4, <1>9, <2>1, <2>2, <2>3, <2>4, <2>6 DEF CourseOf, Requested, Waited, Ends
      <3>2. Over(s) => Over(s)'
        BY <1>3, <1>4, <1>9, <2>3, <2>4, <2>6 DEF Over, Requested, Waited
      <3>3. ToldOf(s)'
        BY <1>8, <2>1, <2>4, <2>6, <3>2 DEF ToldOf
      <3> QED
        BY <3>1, <3>3
    <2> QED
      BY <2>5, <2>6
  <1> QED
    BY <1>11, <1>12 DEF TransferInv

\* A cancelled transfer that still waits is called off.
LEMMA CancelWaitingKeeps ==
    ASSUME TransferInv, NEW u \in User, NEW t, Taken(u, "CANCELTRANS", t), CancelWaiting(u, t),
           UNCHANGED <<begun, lost>>
    PROVE  TransferInv'
  <1>1. TypeOK /\ t \in Transfer /\ up' \in [User -> Seq(Message)]
        /\ (\A x \in User : \A y : Contains(up'[x], y) => Contains(up[x], y))
        /\ (\A x \in User : \A y : Once(up[x], y) => Once(up'[x], y))
    BY TakenFacts DEF TransferInv
  <1>2. /\ Waits(u, t) /\ ToPeer(u, "CANCELTRANS", t) /\ wait_h' = FreeBoth(wait_h, t)
        /\ UNCHANGED <<trans, struck, route, session, sweep, item, thread, undefined, deaths, offered, accepted,
                       withdrawn, begun, lost>>
    BY DEF CancelWaiting, Taken
  <1>3. /\ down' \in [User -> Seq(Message)]
        /\ wait_h' \in [User -> Seq(Entry)]
        /\ \A x \in User : IsInjective(wait_h'[x])
    BY <1>1, <1>2, ToPeerFacts, FreedFacts DEF Cmd
  <1>4. TypeOK'
    BY <1>1, <1>2, <1>3 DEF TypeOK, Message
  <1> QED
    BY <1>1, <1>2, <1>4, CalledOffKeeps

\* And so is a refused one.
LEMMA RefuseWaitingKeeps ==
    ASSUME TransferInv, NEW u \in User, NEW t, Taken(u, "REFUSETRANS", t), RefuseWaiting(u, t),
           UNCHANGED <<trans, struck, begun, lost>>
    PROVE  TransferInv'
  <1>1. TypeOK /\ t \in Transfer /\ up' \in [User -> Seq(Message)]
        /\ (\A x \in User : \A y : Contains(up'[x], y) => Contains(up[x], y))
        /\ (\A x \in User : \A y : Once(up[x], y) => Once(up'[x], y))
    BY TakenFacts DEF TransferInv
  <1>2. /\ Waits(u, t) /\ ToPeer(u, "REFUSETRANS", t) /\ wait_h' = FreeBoth(wait_h, t)
        /\ UNCHANGED <<trans, struck, route, session, sweep, item, thread, undefined, deaths, offered, accepted,
                       withdrawn, begun, lost>>
    BY DEF RefuseWaiting, FreedAfterRefuse, Taken
  <1>3. /\ down' \in [User -> Seq(Message)]
        /\ wait_h' \in [User -> Seq(Entry)]
        /\ \A x \in User : IsInjective(wait_h'[x])
    BY <1>1, <1>2, ToPeerFacts, FreedFacts DEF Cmd
  <1>4. TypeOK'
    BY <1>1, <1>2, <1>3 DEF TypeOK, Message
  <1> QED
    BY <1>1, <1>2, <1>4, CalledOffKeeps

\* A command that finds no wait, and one that strikes a handler, tell nobody
\* anything.
LEMMA UnheardKeeps ==
    ASSUME TransferInv, NEW u \in User, NEW cmd, NEW t, Taken(u, cmd, t),
           UNCHANGED <<wait_h, trans, begun, lost, down>>,
           UNCHANGED struck \/ CancelStarted(u, t)
    PROVE  TransferInv'
  <1>1. TypeOK /\ t \in Transfer /\ up' \in [User -> Seq(Message)]
        /\ (\A x \in User : \A y : Contains(up'[x], y) => Contains(up[x], y))
        /\ (\A x \in User : \A y : Once(up[x], y) => Once(up'[x], y))
    BY TakenFacts DEF TransferInv
  <1>2. struck' \in SUBSET Transfer
    <2>1. trans # <<>> => Last(trans) \in Transfer
      BY <1>1 DEF TypeOK, Last
    <2> QED
      BY <1>1, <2>1 DEF TypeOK, CancelStarted
  <1>3. TypeOK'
    BY <1>1, <1>2 DEF TypeOK, Message, Taken
  <1>4. Calm
    BY <1>1 DEF Calm, Waits, Told, Sent, Taken
  <1> QED
    BY <1>3, <1>4, CalmKeeps

\* An accepted transfer begins, or the pool has no thread for it; either way
\* nobody waits for it any more.
LEMMA AcceptWaitingKeeps ==
    ASSUME TransferInv, NEW u \in User, NEW t, Taken(u, "ACCEPTTRANS", t), AcceptWaiting(u, t)
    PROVE  TransferInv'
  <1>1. TypeOK /\ t \in Transfer /\ up' \in [User -> Seq(Message)]
        /\ (\A x \in User : \A y : Contains(up'[x], y) => Contains(up[x], y))
        /\ (\A x \in User : \A y : Once(up[x], y) => Once(up'[x], y))
    BY TakenFacts DEF TransferInv
  <1>2. Waits(u, t) /\ wait_h' = FreeBoth(wait_h, t)
    BY DEF AcceptWaiting, FreedAfterAccept
  <1>3. From' = From /\ To' = To
    BY RoutesStay DEF Taken
  <1>4. \A s \in Transfer : From[s] \in User /\ To[s] \in User
    BY <1>1, RouteFacts DEF TypeOK
  <1>5. CourseOf(t) /\ ToldOf(t)
    BY <1>1 DEF TransferInv
  <1>6. Waited(t) /\ t \notin begun /\ t \in offered /\ ~Requested(t)
    BY <1>2, <1>5 DEF CourseOf, Ends, Waited
  <1>7. /\ wait_h' \in [User -> Seq(Entry)]
        /\ \A x \in User : IsInjective(wait_h'[x])
        /\ \A x \in User, s \in Transfer : Waits(x, s)' <=> Waits(x, s) /\ s # t
    BY <1>1, <1>2, FreedFacts DEF Waits
  <1>8. \A x \in User, s \in Transfer : Sent(x, "REQTRANS", s)' => Sent(x, "REQTRANS", s)
    BY <1>1 DEF Sent
  <1>9. /\ down' \in [User -> Seq(Message)]
        /\ struck' \in SUBSET Transfer
        /\ trans' \in Seq(Transfer) /\ IsInjective(trans')
        /\ begun' \in {begun, begun \cup {t}}
        /\ \A s \in Transfer : Contains(trans', s) => Contains(trans, s) \/ (s = t /\ t \in begun')
        /\ \A x \in User, s \in Transfer, c \in Cmd : Told(x, c, s)' =>
              Told(x, c, s) \/ (c = "STARTTRANS" /\ s = t /\ t \in begun')
    <2>1. CASE Start(u, t)
      <3>1. ~Contains(trans, t)
        BY <1>5, <1>6 DEF CourseOf
      <3>2. trans \in Seq(Transfer) /\ IsInjective(trans)
        BY <1>1 DEF TypeOK
      <3>3. /\ <<t>> \o trans \in Seq(Transfer)
            /\ \A y : Contains(<<t>> \o trans, y) <=> Contains(trans, y) \/ y = t
            /\ IsInjective(<<t>> \o trans)
        BY <1>1, <3>1, <3>2, ConsFacts
      <3>4. trans' = <<t>> \o trans /\ begun' = begun \cup {t}
        BY <2>1 DEF Start
      <3>5. /\ down' \in [User -> Seq(Message)]
            /\ \A x \in User : \A y : Contains(down'[x], y) => Contains(down[x], y) \/ y = <<"STARTTRANS", t>>
            /\ struck' \in SUBSET Transfer
        BY <1>1, <2>1, StartFacts
      <3>6. \A x \in User, s \in Transfer, c \in Cmd : Told(x, c, s)' =>
               Told(x, c, s) \/ (c = "STARTTRANS" /\ s = t /\ t \in begun')
        BY <3>4, <3>5 DEF Told
      <3> QED
        BY <3>3, <3>4, <3>5, <3>6
    <2>2. CASE UNCHANGED <<trans, struck, begun, down>>
      BY <1>1, <2>2 DEF TypeOK, Message, Told
    <2> QED
      BY <2>1, <2>2 DEF AcceptWaiting
  <1>10. lost' \in BOOLEAN
    BY <1>1 DEF TypeOK, AcceptWaiting
  <1>11. TypeOK'
    BY <1>1, <1>7, <1>9, <1>10 DEF TypeOK, Message, Taken
  <1>12. ASSUME NEW s \in Transfer PROVE CourseOf(s)' /\ ToldOf(s)'
    <2>1. CourseOf(s) /\ ToldOf(s)
      BY DEF TransferInv
    <2>2. Once(up[From[s]], <<"REQTRANS", s>>)'
      BY <1>1, <1>3, <1>4, <2>1 DEF CourseOf
    <2>3. UNCHANGED <<offered, thread>>
      BY DEF Taken
    <2>4. CourseOf(s)'
      BY <1>3, <1>4, <1>6, <1>7, <1>8, <1>9, <2>1, <2>2, <2>3 DEF CourseOf, Requested, Waited, Ends
    <2>5. Over(s) => Over(s)'
      BY <1>3, <1>4, <1>6, <1>7, <1>8, <1>9, <2>3 DEF Over, Requested, Waited
    <2>6. ToldOf(s)'
      BY <1>9, <2>1, <2>3, <2>5 DEF ToldOf, Cmd
    <2> QED
      BY <2>4, <2>6
  <1> QED
    BY <1>11, <1>12 DEF TransferInv

\* One command of one user.
LEMMA ServeKeeps ==
    ASSUME TransferInv, UNCHANGED route, NEW u \in User, Serve(u)
    PROVE  TransferInv'
  <1> DEFINE cmd == Head(up[u])[1]
             t == Head(up[u])[2]
  <1>1. Head(up[u]) \in Message
    <2>1. TypeOK /\ up[u] # <<>> /\ up' = [up EXCEPT ![u] = Tail(@)]
      BY DEF TransferInv, Serve
    <2> QED
      BY <2>1, UpTaken
  <1>2. Head(up[u]) = <<cmd, t>>
    BY <1>1 DEF Message
  <1>3. Command(u, cmd, t)
    BY DEF Serve
  <1> HIDE DEF cmd, t
  <1>4. Taken(u, cmd, t)
    BY <1>2 DEF Taken, Serve, clientVars
  <1>5. CASE cmd = "REQTRANS" /\ Request(u, t) /\ UNCHANGED <<trans, struck, begun>>
    BY <1>4, <1>5, RequestKeeps
  <1>6. CASE cmd = "CANCELTRANS" /\ CancelWaiting(u, t) /\ UNCHANGED <<begun, lost>>
    BY <1>4, <1>6, CancelWaitingKeeps
  <1>7. CASE cmd = "CANCELTRANS" /\ CancelStarted(u, t) /\ UNCHANGED <<begun, lost>>
    BY <1>4, <1>7, UnheardKeeps DEF CancelStarted
  <1>8. CASE cmd = "ACCEPTTRANS" /\ AcceptWaiting(u, t)
    BY <1>4, <1>8, AcceptWaitingKeeps
  <1>9. CASE cmd = "REFUSETRANS" /\ RefuseWaiting(u, t) /\ UNCHANGED <<trans, struck, begun, lost>>
    BY <1>4, <1>9, RefuseWaitingKeeps
  <1>10. CASE UNCHANGED <<wait_h, trans, struck, begun, lost, down>>
    BY <1>4, <1>10, UnheardKeeps
  <1> QED
    BY <1>3, <1>5, <1>6, <1>7, <1>8, <1>9, <1>10 DEF Command

-----------------------------------------------------------------------------
(* The invariant, and what it says of both ends                             *)

\* Nothing is sent, told or waited for in the beginning.
LEMMA InitTransfers == Init => TransferInv
  <1> SUFFICES ASSUME Init PROVE TransferInv
    OBVIOUS
  <1>1. \A x : ~Contains(<<>>, x) /\ Once(<<>>, x)
    BY DEF Contains, Once
  <1>2. <<>> \in Seq(Message) /\ <<>> \in Seq(Entry) /\ <<>> \in Seq(Transfer) /\ IsInjective(<<>>)
    BY DEF IsInjective
  <1>3. TypeOK
    BY <1>2 DEF Init, TypeOK, Message
  <1>4. \A t \in Transfer : From[t] \in User /\ To[t] \in User
    BY <1>3, RouteFacts DEF TypeOK
  <1>5. ASSUME NEW t \in Transfer PROVE CourseOf(t) /\ ToldOf(t)
    BY <1>1, <1>4 DEF Init, CourseOf, ToldOf, Requested, Waited, Waits, Sent, Told
  <1> QED
    BY <1>3, <1>5 DEF TransferInv

\* Every step keeps the invariant.
LEMMA NextKeeps == TransferInv /\ [Next]_vars => TransferInv'
  <1> SUFFICES ASSUME TransferInv, [Next]_vars PROVE TransferInv'
    OBVIOUS
  <1>1. ASSUME NEW t \in Transfer, Defined(SendFile(t)) PROVE TransferInv'
    BY <1>1, SendFileKeeps DEF Defined
  <1>2. ASSUME NEW t \in Transfer, Defined(HandlerEnds(t)) PROVE TransferInv'
    BY <1>2, HandlerEndsKeeps DEF Defined
  <1>3. ASSUME NEW u \in User, Defined(ClientStep(u)) PROVE TransferInv'
    BY <1>3, ReceiveKeeps, AcceptItemKeeps, CancelItemKeeps, ThreadStepKeeps DEF Defined, ClientStep
  <1>4. ASSUME NEW u \in User, Defined(Die(u)) PROVE TransferInv'
    BY <1>4, DieKeeps DEF Defined
  <1>5. ASSUME NEW u \in User, Defined(Serve(u)) PROVE TransferInv'
    BY <1>5, ServeKeeps DEF Defined
  <1>6. ASSUME NEW u \in User, Defined(Disconnect(u)) \/ Defined(Login(u)) PROVE TransferInv'
    BY <1>6, ClearedKeeps DEF Defined
  <1>7. ASSUME NEW u \in User, Defined(AskFriend(u)) \/ Defined(FriendAnswers(u)) PROVE TransferInv'
    BY <1>7, FriendWaitKeeps DEF Defined
  <1>8. CASE Defined(Sweep)
    BY <1>8, SweepKeeps DEF Defined
  <1>9. CASE UNCHANGED vars
    BY <1>9 DEF vars, serverVars, clientVars, historyVars, TransferInv, TypeOK, CourseOf, ToldOf, Over,
                Requested, Waited, Waits, Sent, Told, Ends, From, To
  <1> QED
    BY <1>1, <1>2, <1>3, <1>4, <1>5, <1>6, <1>7, <1>8, <1>9 DEF Next

\* The invariant holds in every state of the agreement.
THEOREM TransferInvariant == Spec => []TransferInv
  BY InitTransfers, NextKeeps, PTL DEF Spec

\* Both ends of a transfer wait for it, or neither does, so free_wait never
\* meets a peer that is gone; and nobody waits for a transfer that has begun,
\* so that no second ACCEPTTRANS starts another handler for it.
THEOREM TransfersPaired == Spec => []WaitsPaired
  <1>1. TransferInv => WaitsPaired
    BY DEF TransferInv, CourseOf, WaitsPaired, Waited
  <1> QED
    BY <1>1, TransferInvariant, PTL

\* No REFUSETRANS or CANCELTRANS follows STARTTRANS to the same end, so the
\* server never makes a client free an item that a thread uses.
THEOREM TransfersNotStopped == Spec => []NeverStoppedFromAfar
  <1>1. ASSUME TransferInv PROVE NeverStoppedFromAfar
    <2>1. \A u \in User : \A c, t : <<c, t>> \in ToSet(down[u]) <=> Told(u, c, t)
      <3>1. ASSUME NEW h \in Seq(Message), NEW y PROVE y \in ToSet(h) <=> Contains(h, y)
        BY DEF ToSet, Contains
      <3>2. \A u \in User : down[u] \in Seq(Message)
        BY <1>1 DEF TransferInv, TypeOK, Message
      <3> QED
        BY <3>1, <3>2 DEF Told
    <2> SUFFICES ASSUME NEW u \in User, NEW t \in Transfer, Moot(u, t)
                 PROVE  ToSet(down[u]) \cap {<<"REFUSETRANS", t>>, <<"CANCELTRANS", t>>} = {}
      BY DEF NeverStoppedFromAfar
    <2>2. t \in begun
      BY <1>1, <2>1 DEF Moot, TransferInv, ToldOf
    <2>3. ~Told(u, "CANCELTRANS", t) /\ ~Told(u, "REFUSETRANS", t)
      BY <1>1, <2>2 DEF TransferInv, ToldOf, Over
    <2> QED
      BY <2>1, <2>3
  <1> QED
    BY <1>1, TransferInvariant, PTL

-----------------------------------------------------------------------------
(* Consent, while users accept only what is pending                         *)

\* A step that tells nobody of a new request, makes no item pending, sends no
\* ACCEPTTRANS and begins nothing keeps the consent.
Reserved ==
    /\ UNCHANGED <<route, begun>>
    /\ accepted \subseteq accepted'
    /\ \A x \in User, s \in Transfer :
        /\ Told(x, "REQTRANS", s)' => Told(x, "REQTRANS", s)
        /\ item'[x][s] = "QuePend" => item[x][s] = "QuePend"
        /\ Sent(x, "ACCEPTTRANS", s)' => Sent(x, "ACCEPTTRANS", s)

\* Such a step.
LEMMA ReservedKeeps ==
    ASSUME ConsentInv, TransferInv', Reserved
    PROVE  ConsentInv'
  <1>1. To' = To
    BY RoutesStay DEF Reserved
  <1> QED
    BY <1>1 DEF ConsentInv, ConsentOf, BegunByConsent, Reserved

\* What a user sends when it accepts, cancels or offers.
LEMMA TellConsent ==
    ASSUME ~Careless, ConsentInv, TransferInv', UNCHANGED route, NEW u \in User, NEW t \in Transfer,
           SendFile(t) \/ AcceptItem(u, t) \/ CancelItem(u, t)
    PROVE  ConsentInv'
  <1>1. TypeOK /\ From[t] \in User
    <2>1. TypeOK
      BY DEF ConsentInv, TransferInv
    <2> QED
      BY <2>1, RouteFacts DEF TypeOK
  <1>2. To' = To
    BY RoutesStay
  <1>3. /\ UNCHANGED <<down, begun>>
        /\ \A x \in User, s \in Transfer : item'[x][s] = "QuePend" => item[x][s] = "QuePend"
    <2>1. PICK x \in User, i \in {"none", "QueReady"} : item' = [item EXCEPT ![x][t] = i] \/ item' = item
      BY <1>1 DEF SendFile, AcceptItem, CancelItem
    <2>2. item \in [User -> [Transfer -> ItemState]] /\ i \in ItemState
      BY <1>1, ClientTypes DEF ItemState
    <2>3. \A y \in User, s \in Transfer : item'[y][s] = item[y][s] \/ item'[y][s] = i
      <3>1. CASE item' = item
        BY <3>1
      <3>2. CASE item' = [item EXCEPT ![x][t] = i]
        BY <2>2, <3>2, CellFacts
      <3> QED
        BY <2>1, <3>1, <3>2
    <2> QED
      BY <2>3 DEF SendFile, AcceptItem, CancelItem
  <1>4. CASE AcceptItem(u, t)
    <2>1. u = To[t] /\ accepted' = accepted \cup {t} /\ Tell(u, "ACCEPTTRANS", t)
      BY <1>4 DEF AcceptItem, ConsentInv, ConsentOf
    <2>2. \A x \in User, s \in Transfer : Sent(x, "ACCEPTTRANS", s)' => Sent(x, "ACCEPTTRANS", s) \/ (x = u /\ s = t)
      BY <1>1, <2>1, TellFacts DEF Sent, Cmd
    <2> QED
      BY <1>2, <1>3, <2>1, <2>2 DEF ConsentInv, ConsentOf, BegunByConsent, Told
  <1>5. CASE ~AcceptItem(u, t)
    <2>1. PICK x \in User, c \in Cmd : c # "ACCEPTTRANS" /\ Tell(x, c, t)
      <3>1. CASE SendFile(t)
        BY <1>1, <3>1 DEF SendFile, Cmd
      <3>2. CASE CancelItem(u, t)
        BY <3>2 DEF CancelItem, Cmd
      <3> QED
        BY <1>5, <3>1, <3>2
    <2>2. \A y \in User, s \in Transfer : Sent(y, "ACCEPTTRANS", s)' => Sent(y, "ACCEPTTRANS", s)
      BY <1>1, <2>1, TellFacts DEF Sent
    <2>3. UNCHANGED accepted
      BY <1>5 DEF SendFile, CancelItem
    <2>4. Reserved
      BY <1>3, <2>2, <2>3 DEF Reserved, Told
    <2> QED
      BY <2>4, ReservedKeeps
  <1> QED
    BY <1>4, <1>5

\* Only a request heard makes an item pending.
LEMMA ReceiveConsent ==
    ASSUME ConsentInv, TransferInv', UNCHANGED route, NEW u \in User, Receive(u)
    PROVE  ConsentInv'
  <1> DEFINE cmd == Head(down[u])[1]
             t == Head(down[u])[2]
  <1>1. TypeOK /\ down[u] # <<>> /\ down' = [down EXCEPT ![u] = Tail(@)]
    BY DEF ConsentInv, TransferInv, Receive
  <1>2. /\ Head(down[u]) \in Message
        /\ Contains(down[u], Head(down[u]))
        /\ \A x \in User : \A y : Contains(down'[x], y) => Contains(down[x], y)
    BY <1>1, DownTaken
  <1>3. cmd \in Cmd /\ t \in Transfer /\ Head(down[u]) = <<cmd, t>>
    BY <1>2 DEF Message
  <1>4. Handled(u, cmd, t)
    BY DEF Receive
  <1> HIDE DEF cmd, t
  <1>5. \A x \in User, s \in Transfer : item'[x][s] = "QuePend" =>
           item[x][s] = "QuePend" \/ (x = u /\ s = t /\ cmd = "REQTRANS")
    <2>1. item \in [User -> [Transfer -> ItemState]]
      BY <1>1, ClientTypes
    <2>2. CASE cmd = "REQTRANS"
      <3>1. item' = [item EXCEPT ![u][t] = "QuePend"]
        BY <1>4, <2>2 DEF Handled
      <3>2. \A x \in User, s \in Transfer : item'[x][s] = IF x = u /\ s = t THEN "QuePend" ELSE item[x][s]
        BY <1>3, <2>1, <3>1, CellFacts DEF ItemState
      <3> QED
        BY <2>2, <3>2
    <2>3. CASE cmd # "REQTRANS"
      <3>1. item' = item \/ \E i \in {"none", "QueReady"} : item' = [item EXCEPT ![u][t] = i]
        BY <1>4, <2>3 DEF Handled, clientVars
      <3>2. ASSUME NEW i \in {"none", "QueReady"}, item' = [item EXCEPT ![u][t] = i],
                   NEW x \in User, NEW s \in Transfer, item'[x][s] = "QuePend"
            PROVE  item[x][s] = "QuePend"
        <4>1. i \in ItemState
          BY DEF ItemState
        <4>2. item'[x][s] = IF x = u /\ s = t THEN i ELSE item[x][s]
          BY <1>3, <2>1, <3>2, <4>1, CellFacts
        <4> QED
          BY <3>2, <4>2
      <3> QED
        BY <3>1, <3>2
    <2> QED
      BY <2>2, <2>3
  <1>6. cmd = "REQTRANS" => Told(u, "REQTRANS", t)
    BY <1>2, <1>3 DEF Told
  <1>7. To' = To
    BY RoutesStay
  <1>8. \A x \in User, s \in Transfer : Told(x, "REQTRANS", s)' => Told(x, "REQTRANS", s)
    BY <1>2 DEF Told
  <1>9. UNCHANGED <<up, begun, accepted>>
    BY DEF Receive, historyVars
  <1> QED
    BY <1>3, <1>5, <1>6, <1>7, <1>8, <1>9 DEF ConsentInv, ConsentOf, BegunByConsent, Sent

\* The server tells of a request only its receiver, and begins a transfer only
\* on the ACCEPTTRANS of one.
LEMMA ServeConsent ==
    ASSUME ConsentInv, TransferInv', UNCHANGED route, NEW u \in User, Serve(u)
    PROVE  ConsentInv'
  <1> DEFINE cmd == Head(up[u])[1]
             t == Head(up[u])[2]
  <1>1. TypeOK /\ TransferInv
    BY DEF ConsentInv, TransferInv
  <1>2. Head(up[u]) \in Message
    <2>1. up[u] # <<>> /\ up' = [up EXCEPT ![u] = Tail(@)]
      BY DEF Serve
    <2> QED
      BY <1>1, <2>1, UpTaken
  <1>3. Head(up[u]) = <<cmd, t>> /\ cmd \in Cmd /\ t \in Transfer
    BY <1>2 DEF Message
  <1>4. Command(u, cmd, t)
    BY DEF Serve
  <1> HIDE DEF cmd, t
  <1>5. Taken(u, cmd, t)
    BY <1>3 DEF Taken, Serve, clientVars
  <1>6. /\ Sent(u, cmd, t)
        /\ \A x \in User, s \in Transfer : Sent(x, "ACCEPTTRANS", s)' => Sent(x, "ACCEPTTRANS", s)
    BY <1>1, <1>5, TakenFacts DEF Sent
  <1>7. UNCHANGED <<item, accepted>> /\ To' = To
    BY RoutesStay DEF Serve, clientVars
  <1>8. CASE cmd = "REQTRANS"
    <2>1. u = From[t]
      BY <1>1, <1>3, <1>6, <1>8 DEF TransferInv, CourseOf
    <2>2. Request(u, t) /\ UNCHANGED begun
      BY <1>4, <1>8 DEF Command
    <2>3. \A x \in User, s \in Transfer : Told(x, "REQTRANS", s)' => Told(x, "REQTRANS", s) \/ (x = To[t] /\ s = t)
      <3>1. CASE ToPeer(u, "REQTRANS", t)
        <4>1. \A x \in User : \A y : Contains(down'[x], y) => Contains(down[x], y) \/ (x = Peer(u, t) /\ y = <<"REQTRANS", t>>)
          BY <1>1, <1>3, <3>1, ToPeerFacts DEF Cmd
        <4>2. Peer(u, t) = To[t]
          BY <2>1 DEF Peer
        <4> QED
          BY <4>1, <4>2 DEF Told
      <3>2. CASE UNCHANGED down
        BY <3>2 DEF Told
      <3> QED
        BY <2>2, <3>1, <3>2 DEF Request
    <2> QED
      BY <1>6, <1>7, <2>2, <2>3 DEF ConsentInv, ConsentOf, BegunByConsent
  <1>9. CASE cmd # "REQTRANS"
    <2>1. \A x \in User, s \in Transfer : Told(x, "REQTRANS", s)' => Told(x, "REQTRANS", s)
      <3>1. CASE UNCHANGED down
        BY <3>1 DEF Told
      <3>2. ASSUME NEW c \in {"CANCELTRANS", "REFUSETRANS"}, ToPeer(u, c, t)
            PROVE  \A x \in User, s \in Transfer : Told(x, "REQTRANS", s)' => Told(x, "REQTRANS", s)
        BY <1>1, <1>3, <3>2, ToPeerFacts DEF Cmd, Told
      <3>3. CASE Start(u, t)
        BY <1>1, <1>3, <3>3, StartFacts DEF Told
      <3> QED
        BY <1>4, <1>9, <3>1, <3>2, <3>3 DEF Command, CancelWaiting, CancelStarted, AcceptWaiting, RefuseWaiting
    <2>2. begun' = begun \/ (cmd = "ACCEPTTRANS" /\ begun' = begun \cup {t})
      BY <1>4, <1>9 DEF Command, AcceptWaiting, Start
    <2>3. cmd = "ACCEPTTRANS" => t \in accepted
      BY <1>3, <1>6 DEF ConsentInv, ConsentOf
    <2> QED
      BY <1>6, <1>7, <2>1, <2>2, <2>3 DEF ConsentInv, ConsentOf, BegunByConsent
  <1> QED
    BY <1>8, <1>9

\* No other step sends, tells or begins anything that needs consent.
LEMMA OtherConsent ==
    ASSUME ConsentInv, TransferInv', UNCHANGED route,
           \/ Sweep
           \/ \E t \in Transfer : HandlerEnds(t)
           \/ \E u \in User : \/ Die(u) \/ Disconnect(u) \/ Login(u) \/ AskFriend(u) \/ FriendAnswers(u)
                              \/ \E t \in Transfer : ThreadStep(u, t)
    PROVE  ConsentInv'
  <1>1. TypeOK
    BY DEF ConsentInv, TransferInv
  <1>2. UNCHANGED <<begun, accepted>>
    BY DEF Sweep, HandlerEnds, Die, Disconnect, Login, AskFriend, FriendAnswers, ThreadStep, historyVars
  <1>3. \A x \in User : \A y : Contains(up'[x], y) => Contains(up[x], y)
    <2>1. up' = up \/ \E u \in User : up' = [up EXCEPT ![u] = <<>>]
      BY DEF Sweep, HandlerEnds, Die, Disconnect, Login, AskFriend, FriendAnswers, ThreadStep
    <2>2. CASE up' = up
      BY <2>2
    <2>3. ASSUME NEW u \in User, up' = [up EXCEPT ![u] = <<>>]
          PROVE  \A x \in User : \A y : Contains(up'[x], y) => Contains(up[x], y)
      <3>1. \A x \in User : up'[x] = IF x = u THEN <<>> ELSE up[x]
        BY <1>1, <2>3 DEF TypeOK
      <3> QED
        BY ONLY <3>1, u \in User, CutFacts
    <2> QED
      BY <2>1, <2>2, <2>3
  <1>4. \A x \in User, s \in Transfer : item'[x][s] = "QuePend" => item[x][s] = "QuePend"
    <2>1. item \in [User -> [Transfer -> ItemState]]
      BY <1>1, ClientTypes
    <2>2. CASE item' = item
      BY <2>2
    <2>3. ASSUME NEW u \in User, item' = [item EXCEPT ![u] = [t \in Transfer |-> "none"]],
                 NEW x \in User, NEW s \in Transfer, item'[x][s] = "QuePend"
          PROVE  item[x][s] = "QuePend"
      BY <2>1, <2>3
    <2>4. ASSUME NEW u \in User, NEW t \in Transfer, NEW i \in {"none", "QueStart"}, item' = [item EXCEPT ![u][t] = i],
                 NEW x \in User, NEW s \in Transfer, item'[x][s] = "QuePend"
          PROVE  item[x][s] = "QuePend"
      <3>1. item'[x][s] = IF x = u /\ s = t THEN i ELSE item[x][s]
        <4>1. i \in ItemState
          BY DEF ItemState
        <4> QED
          BY <2>1, <2>4, <4>1, CellFacts
      <3> QED
        BY <2>4, <3>1
    <2>5. \/ item' = item
          \/ \E u \in User : item' = [item EXCEPT ![u] = [t \in Transfer |-> "none"]]
          \/ \E u \in User, t \in Transfer, i \in {"none", "QueStart"} : item' = [item EXCEPT ![u][t] = i]
      BY DEF Sweep, HandlerEnds, Die, Disconnect, Login, AskFriend, FriendAnswers, ThreadStep, clientVars
    <2> QED
      BY <2>2, <2>3, <2>4, <2>5
  <1>5. \A x \in User, s \in Transfer : Told(x, "REQTRANS", s)' => Told(x, "REQTRANS", s)
    <2>1. CASE down' = down
      BY <2>1 DEF Told
    <2>2. ASSUME NEW u \in User, down' = [down EXCEPT ![u] = <<>>]
          PROVE  \A x \in User, s \in Transfer : Told(x, "REQTRANS", s)' => Told(x, "REQTRANS", s)
      <3>1. \A x \in User : \A y : Contains(down'[x], y) => Contains(down[x], y)
        BY <1>1, <2>2 DEF TypeOK, Contains
      <3> QED
        BY <3>1 DEF Told
    <2>3. ASSUME NEW u \in User, NEW t \in Transfer, ToPeer(u, "CANCELTRANS", t)
          PROVE  \A x \in User, s \in Transfer : Told(x, "REQTRANS", s)' => Told(x, "REQTRANS", s)
      BY <1>1, <2>3, ToPeerFacts DEF Cmd, Told
    <2>4. Sweep => down' = down \/ \E u \in User, t \in Transfer : ToPeer(u, "CANCELTRANS", t)
      <3> SUFFICES ASSUME Sweep, down' # down PROVE \E u \in User, t \in Transfer : ToPeer(u, "CANCELTRANS", t)
        OBVIOUS
      <3>1. PICK u \in User, i \in Nat \ {0} : sweep = <<u, i>>
        BY <1>1 DEF TypeOK, Sweep
      <3>2. i <= Len(wait_h[u]) /\ SweepWait(u, i)
        BY <3>1 DEF Sweep
      <3>3. wait_h[u] \in Seq(Entry)
        BY <1>1 DEF TypeOK
      <3>4. wait_h[u][i] \in Entry
        BY <3>1, <3>2, <3>3
      <3>5. wait_h[u][i] \in Transfer /\ ToPeer(u, "CANCELTRANS", wait_h[u][i])
        BY <3>2, <3>4 DEF Entry, SweepWait
      <3> QED
        BY <3>5
    <2>5. \/ Sweep
          \/ down' = down
          \/ \E u \in User : down' = [down EXCEPT ![u] = <<>>]
      BY DEF HandlerEnds, Die, Disconnect, Login, AskFriend, FriendAnswers, ThreadStep
    <2> QED
      BY <2>1, <2>2, <2>3, <2>4, <2>5
  <1>6. Reserved
    BY <1>2, <1>3, <1>4, <1>5 DEF Reserved, Sent
  <1> QED
    BY <1>6, ReservedKeeps

\* Every step keeps the consent.
LEMMA NextConsent ==
    ASSUME ~Careless, ConsentInv, [Next]_vars
    PROVE  ConsentInv'
  <1>1. TransferInv'
    BY NextKeeps DEF ConsentInv
  <1>2. CASE UNCHANGED vars
    <2>1. Reserved
      BY <1>2 DEF vars, serverVars, clientVars, historyVars, Reserved, Told, Sent
    <2> QED
      BY <1>1, <2>1, ReservedKeeps
  <1>3. CASE Next
    <2>1. UNCHANGED route
      BY <1>3 DEF Next, Defined
    <2>2. ASSUME NEW t \in Transfer, SendFile(t) PROVE ConsentInv'
      <3>1. From[t] \in User
        BY RouteFacts DEF ConsentInv, TransferInv, TypeOK
      <3> QED
        BY <1>1, <2>1, <2>2, <3>1, TellConsent
    <2>3. ASSUME NEW u \in User, ClientStep(u) PROVE ConsentInv'
      <3>1. CASE Receive(u)
        BY <1>1, <2>1, <3>1, ReceiveConsent
      <3>2. ASSUME NEW t \in Transfer, AcceptItem(u, t) \/ CancelItem(u, t) PROVE ConsentInv'
        BY <1>1, <2>1, <3>2, TellConsent
      <3>3. ASSUME NEW t \in Transfer, ThreadStep(u, t) PROVE ConsentInv'
        BY <1>1, <2>1, <3>3, OtherConsent
      <3> QED
        BY <2>3, <3>1, <3>2, <3>3 DEF ClientStep
    <2>4. ASSUME NEW u \in User, Serve(u) PROVE ConsentInv'
      BY <1>1, <2>1, <2>4, ServeConsent
    <2>5. CASE \/ Sweep
               \/ \E t \in Transfer : HandlerEnds(t)
               \/ \E u \in User : Die(u) \/ Disconnect(u) \/ Login(u) \/ AskFriend(u) \/ FriendAnswers(u)
      BY <1>1, <2>1, <2>5, OtherConsent
    <2> QED
      BY <1>3, <2>2, <2>3, <2>4, <2>5 DEF Next, Defined
  <1> QED
    BY <1>2, <1>3

\* At first nobody has asked, accepted or begun anything.
LEMMA InitConsent ==
    ASSUME Init
    PROVE  ConsentInv
  <1>1. TransferInv
    BY InitTransfers
  <1>2. \A x : ~Contains(<<>>, x)
    BY DEF Contains
  <1>3. BegunByConsent /\ \A t \in Transfer : ConsentOf(t)
    BY <1>2 DEF Init, BegunByConsent, ConsentOf, Told, Sent
  <1> QED
    BY <1>1, <1>3 DEF ConsentInv

\* While users accept only what is pending with them, a transfer gets a handler
\* only when its receiver accepted it.
THEOREM TransfersConsent == ASSUME ~Careless PROVE Spec => []BegunByConsent
  <1>1. Init => ConsentInv
    BY InitConsent
  <1>2. ConsentInv /\ [Next]_vars => ConsentInv'
    BY NextConsent
  <1>3. ConsentInv => BegunByConsent
    BY DEF ConsentInv
  <1> QED
    BY <1>1, <1>2, <1>3, PTL DEF Spec

-----------------------------------------------------------------------------
(* What both clients and the server hold of a transfer                     *)

\* What an end has sent or is told about the end of a transfer.
Withdrew(u, t) == Sent(u, "CANCELTRANS", t) \/ Sent(u, "REFUSETRANS", t)
CalledOff(u, t) == Told(u, "CANCELTRANS", t) \/ Told(u, "REFUSETRANS", t)
Answered(t) == Sent(To[t], "ACCEPTTRANS", t) \/ Withdrew(To[t], t)
Asked(t) == Told(To[t], "REQTRANS", t)
Open(t) == Requested(t) \/ Waited(t)

\* What an end has heard and said of a transfer, and in which order.
HeardOf(t) ==
    /\ Before(up[From[t]], <<"REQTRANS", t>>, <<"CANCELTRANS", t>>)
    /\ Before(down[To[t]], <<"REQTRANS", t>>, <<"CANCELTRANS", t>>)
    /\ Once(down[To[t]], <<"REQTRANS", t>>)
    /\ t \notin offered => /\ item[From[t]][t] = "none" /\ ~Withdrew(From[t], t)
                           /\ \A u \in Ends(t) : <<u, t>> \notin withdrawn
    /\ t \notin offered \/ Requested(t) => ~Asked(t) /\ item[To[t]][t] = "none"
    /\ t \notin offered \/ Requested(t) \/ Asked(t) =>
          item[To[t]][t] = "none" /\ ~Withdrew(To[t], t) /\ t \notin accepted
    /\ t \in accepted => item[To[t]][t] # "QuePend"
    /\ ~Told(To[t], "REFUSETRANS", t) /\ ~Sent(From[t], "REFUSETRANS", t)

\* Where the items of its ends are while a transfer is open, called off, begun.
StandingOf(t) ==
    /\ Open(t) => item[From[t]][t] = "QueReady" \/ Sent(From[t], "CANCELTRANS", t)
    /\ Waited(t) => Asked(t) \/ item[To[t]][t] = "QuePend" \/ Answered(t)
    /\ Open(t) /\ (\E u \in Ends(t) : <<u, t>> \in withdrawn) =>
          Sent(From[t], "CANCELTRANS", t) \/ Answered(t)
    /\ Over(t) /\ Asked(t) => CalledOff(To[t], t)
    /\ \A u \in Ends(t) :
        /\ item[u][t] = "QueStart" => thread[u][t] # "none"
        /\ Withdrew(u, t) /\ t \notin begun => item[u][t] = "none"
        /\ Over(t) => item[u][t] = "none" \/ CalledOff(u, t)
        /\ t \in begun => item[u][t] = "none" \/ thread[u][t] # "none" \/ Told(u, "STARTTRANS", t)

\* While nothing was lost every session is up and no list is being cleared.
Undisturbed == sweep = Idle /\ \A u \in User : session[u] = "on"
Agreement == \A t \in Transfer : HeardOf(t) /\ StandingOf(t)
AgreedInv == ConsentInv /\ (~lost => Undisturbed /\ Agreement)

\* In a channel a request is in front of its withdrawal.
InOrder(channel, t) == Before(channel, <<"REQTRANS", t>>, <<"CANCELTRANS", t>>)

\* What one command that is sent adds.
LEMMA TellEffect ==
    ASSUME TypeOK, NEW u \in User, NEW cmd \in Cmd, NEW t \in Transfer, Tell(u, cmd, t),
           cmd = "REQTRANS" => ~Sent(u, "CANCELTRANS", t)
    PROVE  /\ \A x \in User, c \in Cmd, s \in Transfer :
                 Sent(x, c, s)' <=> Sent(x, c, s) \/ (x = u /\ c = cmd /\ s = t)
           /\ \A x \in User, s \in Transfer : InOrder(up[x], s) => InOrder(up'[x], s)
  <1>1. /\ up \in [User -> Seq(Message)] /\ <<cmd, t>> \in Message
        /\ up' = [up EXCEPT ![u] = Append(up[u], <<cmd, t>>)]
    BY DEF TypeOK, Message, Tell
  <1>2. \A x \in User : \A y : Contains(up'[x], y) <=> Contains(up[x], y) \/ (x = u /\ y = <<cmd, t>>)
    BY TellFacts
  <1>3. ASSUME NEW s \in Transfer, InOrder(up[u], s) PROVE InOrder(Append(up[u], <<cmd, t>>), s)
    <2>1. up[u] \in Seq(Message)
      BY <1>1
    <2>2. <<"REQTRANS", s>> # <<"CANCELTRANS", s>>
      OBVIOUS
    <2>3. <<cmd, t>> = <<"REQTRANS", s>> => ~Contains(up[u], <<"CANCELTRANS", s>>)
      BY DEF Sent
    <2> QED
      BY <1>1, <1>3, <2>1, <2>2, <2>3, BeforeAppend DEF InOrder
  <1> QED
    BY <1>1, <1>2, <1>3 DEF Sent

\* What the server adds to the channels of some users, all of them there.
LEMMA WrittenEffect ==
    ASSUME TypeOK, NEW H, NEW cmd \in Cmd, NEW t \in Transfer,
           \A x \in User : down'[x] = IF x \in H THEN down[x] \o <<<<cmd, t>>>> ELSE down[x],
           \A x \in H : cmd = "REQTRANS" => ~Told(x, "CANCELTRANS", t) /\ ~Told(x, "REQTRANS", t)
    PROVE  /\ \A x \in User, c \in Cmd, s \in Transfer :
                 Told(x, c, s)' <=> Told(x, c, s) \/ (x \in H /\ c = cmd /\ s = t)
           /\ \A x \in User, s \in Transfer : InOrder(down[x], s) => InOrder(down'[x], s)
           /\ \A x \in User, s \in Transfer :
                 Once(down[x], <<"REQTRANS", s>>) => Once(down'[x], <<"REQTRANS", s>>)
  <1>1. down \in [User -> Seq(Message)] /\ <<cmd, t>> \in Message
    BY DEF TypeOK, Message
  <1>2. ASSUME NEW x \in User, x \in H
        PROVE  /\ \A y : Contains(down'[x], y) <=> Contains(down[x], y) \/ y = <<cmd, t>>
               /\ \A s \in Transfer : InOrder(down[x], s) => InOrder(down'[x], s)
               /\ \A s \in Transfer : Once(down[x], <<"REQTRANS", s>>) => Once(down'[x], <<"REQTRANS", s>>)
    <2>1. down[x] \in Seq(Message)
      BY <1>1
    <2>2. down'[x] = Append(down[x], <<cmd, t>>)
      <3>1. \A m \in Message : down[x] \o <<m>> = Append(down[x], m)
        BY <2>1, WriteFacts
      <3>2. down'[x] = down[x] \o <<<<cmd, t>>>>
        BY <1>2
      <3> QED
        BY ONLY <1>1, <3>1, <3>2
    <2>3. /\ \A y : Contains(down'[x], y) <=> Contains(down[x], y) \/ y = <<cmd, t>>
          /\ \A y : Once(down[x], y) /\ (y = <<cmd, t>> => ~Contains(down[x], y)) => Once(down'[x], y)
      <3>1. \A m \in Message :
               /\ \A y : Contains(Append(down[x], m), y) <=> Contains(down[x], y) \/ y = m
               /\ \A y : Once(down[x], y) /\ (y = m => ~Contains(down[x], y)) => Once(Append(down[x], m), y)
        BY <2>1, AppendFacts
      <3> QED
        BY ONLY <1>1, <2>2, <3>1
    <2>4. ASSUME NEW s \in Transfer
          PROVE  /\ InOrder(down[x], s) => InOrder(down'[x], s)
                 /\ Once(down[x], <<"REQTRANS", s>>) => Once(down'[x], <<"REQTRANS", s>>)
      <3>1. <<"REQTRANS", s>> # <<"CANCELTRANS", s>>
        OBVIOUS
      <3>2. <<cmd, t>> = <<"REQTRANS", s>> => ~Contains(down[x], <<"CANCELTRANS", s>>)
                                              /\ ~Contains(down[x], <<"REQTRANS", s>>)
        <4>1. <<cmd, t>> = <<"REQTRANS", s>> => cmd = "REQTRANS" /\ t = s
          OBVIOUS
        <4>2. cmd = "REQTRANS" => ~Contains(down[x], <<"CANCELTRANS", t>>) /\ ~Contains(down[x], <<"REQTRANS", t>>)
          BY <1>2 DEF Told
        <4> QED
          BY ONLY <4>1, <4>2
      <3>3. ASSUME InOrder(down[x], s) PROVE InOrder(down'[x], s)
        <4>1. InOrder(Append(down[x], <<cmd, t>>), s)
          BY ONLY <1>1, <2>1, <3>1, <3>2, <3>3, BeforeAppend DEF InOrder
        <4> QED
          BY ONLY <2>2, <4>1
      <3> QED
        BY <2>3, <3>2, <3>3
    <2> QED
      BY <2>3, <2>4
  <1>3. \A x \in User : x \notin H => down'[x] = down[x]
    OBVIOUS
  <1>4. ASSUME NEW x \in User, NEW c \in Cmd, NEW s \in Transfer
        PROVE  Told(x, c, s)' <=> Told(x, c, s) \/ (x \in H /\ c = cmd /\ s = t)
    BY <1>2, <1>3 DEF Told
  <1> QED
    BY <1>2, <1>3, <1>4

\* What a command leaves behind when it is taken from its channel.
LEMMA ReadFacts ==
    ASSUME NEW q \in Seq(Message), q # <<>>, NEW cmd \in Cmd, NEW t \in Transfer, Head(q) = <<cmd, t>>
    PROVE  /\ \A c \in Cmd, s \in Transfer :
                 Contains(q, <<c, s>>) <=> Contains(Tail(q), <<c, s>>) \/ (c = cmd /\ s = t)
           /\ Once(q, <<cmd, t>>) => ~Contains(Tail(q), <<cmd, t>>)
           /\ \A s \in Transfer : InOrder(q, s) => InOrder(Tail(q), s)
           /\ \A s \in Transfer : Once(q, <<"REQTRANS", s>>) => Once(Tail(q), <<"REQTRANS", s>>)
           /\ InOrder(q, t) /\ cmd = "CANCELTRANS" => ~Contains(q, <<"REQTRANS", t>>)
  <1>1. /\ \A y : Contains(q, y) <=> Contains(Tail(q), y) \/ y = Head(q)
        /\ \A y : Once(q, y) => Once(Tail(q), y)
        /\ \A y : Once(q, y) /\ y = Head(q) => ~Contains(Tail(q), y)
    BY HeadFacts
  <1>2. ASSUME NEW s \in Transfer, InOrder(q, s)
        PROVE  /\ InOrder(Tail(q), s)
               /\ <<cmd, t>> = <<"CANCELTRANS", s>> => ~Contains(q, <<"REQTRANS", s>>)
    BY <1>2, BeforeHead DEF InOrder
  <1>3. ASSUME NEW c \in Cmd, NEW s \in Transfer
        PROVE  Contains(q, <<c, s>>) <=> Contains(Tail(q), <<c, s>>) \/ (c = cmd /\ s = t)
    <2>1. <<c, s>> = <<cmd, t>> <=> c = cmd /\ s = t
      OBVIOUS
    <2> QED
      BY <1>1, <2>1
  <1> QED
    BY <1>1, <1>2, <1>3

\* A step that leaves a transfer alone.
Apart(s) ==
    /\ UNCHANGED route
    /\ s \in offered' <=> s \in offered
    /\ s \in accepted' <=> s \in accepted
    /\ s \in begun' <=> s \in begun
    /\ \A x \in Ends(s) :
        /\ item'[x][s] = item[x][s] /\ thread'[x][s] = thread[x][s]
        /\ Waits(x, s)' <=> Waits(x, s)
        /\ <<x, s>> \in withdrawn' <=> <<x, s>> \in withdrawn
        /\ \A c \in Cmd : Sent(x, c, s)' <=> Sent(x, c, s)
        /\ \A c \in Cmd \ {"ACCEPTTRANS"} : Told(x, c, s)' <=> Told(x, c, s)
        /\ InOrder(up[x], s) => InOrder(up'[x], s)
        /\ InOrder(down[x], s) => InOrder(down'[x], s)
        /\ Once(down[x], <<"REQTRANS", s>>) => Once(down'[x], <<"REQTRANS", s>>)

\* Such a step changes nothing of what is known of it.
LEMMA ApartKeeps ==
    ASSUME NEW s \in Transfer, Apart(s), HeardOf(s), StandingOf(s)
    PROVE  HeardOf(s)' /\ StandingOf(s)'
  <1>1. From' = From /\ To' = To /\ Ends(s)' = Ends(s)
    BY RoutesStay DEF Apart, Ends
  <1> DEFINE f == From[s]
             r == To[s]
  <1>2. Ends(s) = {f, r}
    BY DEF Ends
  <1>3. \A c \in Cmd : (Sent(f, c, s)' <=> Sent(f, c, s)) /\ (Sent(r, c, s)' <=> Sent(r, c, s))
    BY <1>1, <1>2 DEF Apart
  <1>4. /\ Open(s)' <=> Open(s)
        /\ Waited(s)' <=> Waited(s)
        /\ Requested(s)' <=> Requested(s)
        /\ Over(s)' <=> Over(s)
        /\ Asked(s)' <=> Asked(s)
        /\ Answered(s)' <=> Answered(s)
    BY <1>1, <1>2, <1>3 DEF Apart, Open, Waited, Requested, Over, Asked, Answered, Withdrew, Cmd
  <1>5. \A x \in Ends(s) : (Withdrew(x, s)' <=> Withdrew(x, s)) /\ (CalledOff(x, s)' <=> CalledOff(x, s))
                           /\ (Told(x, "STARTTRANS", s)' <=> Told(x, "STARTTRANS", s))
                           /\ (Sent(x, "CANCELTRANS", s)' <=> Sent(x, "CANCELTRANS", s))
                           /\ (Told(x, "REFUSETRANS", s)' <=> Told(x, "REFUSETRANS", s))
                           /\ (Sent(x, "REFUSETRANS", s)' <=> Sent(x, "REFUSETRANS", s))
    BY DEF Apart, Withdrew, CalledOff, Cmd
  <1>6. HeardOf(s)'
    BY <1>1, <1>2, <1>4, <1>5 DEF Apart, HeardOf, InOrder
  <1>7. StandingOf(s)'
    BY <1>1, <1>2, <1>4, <1>5 DEF Apart, StandingOf
  <1> QED
    BY <1>6, <1>7

-----------------------------------------------------------------------------
(* The clients keep it                                                      *)

\* What is known of a transfer before and after a step.
LEMMA KnownOf ==
    ASSUME ConsentInv, ConsentInv', UNCHANGED route, NEW t \in Transfer
    PROVE  /\ From[t] \in User /\ To[t] \in User /\ From[t] # To[t] /\ Ends(t) = {From[t], To[t]}
           /\ From' = From /\ To' = To /\ Ends(t)' = {From[t], To[t]}
           /\ CourseOf(t) /\ ToldOf(t) /\ ConsentOf(t) /\ CourseOf(t)' /\ ToldOf(t)' /\ ConsentOf(t)'
           /\ (t \in begun => t \in accepted) /\ (t \in begun' => t \in accepted')
  <1>1. route \in Routes
    BY DEF ConsentInv, TransferInv, TypeOK
  <1>2. From[t] \in User /\ To[t] \in User /\ From[t] # To[t]
    BY <1>1, RouteFacts
  <1>3. From' = From /\ To' = To
    BY RoutesStay
  <1>4. Ends(t) = {From[t], To[t]} /\ Ends(t)' = {From[t], To[t]}
    BY <1>3 DEF Ends
  <1>5. CourseOf(t) /\ ToldOf(t) /\ ConsentOf(t) /\ CourseOf(t)' /\ ToldOf(t)' /\ ConsentOf(t)'
    BY DEF ConsentInv, TransferInv
  <1>6. (t \in begun => t \in accepted) /\ (t \in begun' => t \in accepted')
    BY DEF ConsentInv, BegunByConsent
  <1> QED
    BY <1>2, <1>3, <1>4, <1>5, <1>6

\* A command of a client is about one transfer, and about one of its ends.
LEMMA TellApart ==
    ASSUME ConsentInv, UNCHANGED <<route, down, wait_h, begun, thread>>,
           NEW u \in User, NEW cmd \in Cmd, NEW t \in Transfer, Tell(u, cmd, t),
           cmd = "REQTRANS" => ~Sent(u, "CANCELTRANS", t),
           \A x \in User, s \in Transfer : (x = u /\ s = t) \/ item'[x][s] = item[x][s],
           withdrawn' \in {withdrawn, withdrawn \cup {<<u, t>>}},
           NEW s \in Transfer, s # t \/ u \notin Ends(s),
           s \in offered' <=> s \in offered, s \in accepted' <=> s \in accepted
    PROVE  Apart(s)
  <1>1. TypeOK
    BY DEF ConsentInv, TransferInv
  <1>2. /\ \A x \in User, c \in Cmd, z \in Transfer : Sent(x, c, z)' <=> Sent(x, c, z) \/ (x = u /\ c = cmd /\ z = t)
        /\ \A x \in User, z \in Transfer : InOrder(up[x], z) => InOrder(up'[x], z)
    BY <1>1, TellEffect
  <1>3. \A x \in Ends(s) : x \in User /\ ~(x = u /\ s = t)
    BY <1>1, RouteFacts DEF TypeOK, Ends
  <1>4. \A x \in User, c \in Cmd, z \in Transfer : (Told(x, c, z)' <=> Told(x, c, z)) /\ (Waits(x, z)' <=> Waits(x, z))
    BY DEF Told, Waits
  <1>5. \A x \in Ends(s) : <<x, s>> \in withdrawn' <=> <<x, s>> \in withdrawn
    BY <1>3
  <1> QED
    BY <1>2, <1>3, <1>4, <1>5 DEF Apart

\* One item of one client is set.
LEMMA ItemSet ==
    ASSUME TypeOK, NEW u \in User, NEW t \in Transfer, NEW v \in ItemState, item' = [item EXCEPT ![u][t] = v]
    PROVE  \A x \in User, s \in Transfer : item'[x][s] = IF x = u /\ s = t THEN v ELSE item[x][s]
  BY ClientTypes, CellFacts

\* A file that is offered is ready at its sender, and nobody else knows of it.
LEMMA SendFileAgrees ==
    ASSUME ConsentInv, ConsentInv', UNCHANGED route, Agreement, NEW t \in Transfer, SendFile(t)
    PROVE  Agreement'
  <1> DEFINE f == From[t]
             r == To[t]
  <1>1. TypeOK
    BY DEF ConsentInv, TransferInv
  <1>2. HeardOf(t) /\ StandingOf(t)
    BY DEF Agreement
  <1>3. /\ Tell(f, "REQTRANS", t) /\ t \notin offered /\ offered' = offered \cup {t}
        /\ item' = [item EXCEPT ![f][t] = "QueReady"]
        /\ UNCHANGED <<down, wait_h, thread, accepted, begun, withdrawn>>
    BY DEF SendFile, serverVars
  <1>4. f \in User /\ r \in User /\ f # r
    BY KnownOf
  <1>5. ~Sent(f, "CANCELTRANS", t)
    BY <1>2, <1>3 DEF HeardOf, Withdrew
  <1>6. \A x \in User, s \in Transfer : item'[x][s] = IF x = f /\ s = t THEN "QueReady" ELSE item[x][s]
    BY <1>1, <1>3, <1>4, ItemSet DEF ItemState
  <1>7. /\ \A x \in User, c \in Cmd, s \in Transfer :
              Sent(x, c, s)' <=> Sent(x, c, s) \/ (x = f /\ c = "REQTRANS" /\ s = t)
        /\ \A x \in User, s \in Transfer : InOrder(up[x], s) => InOrder(up'[x], s)
    BY <1>1, <1>3, <1>4, <1>5, TellEffect DEF Cmd
  <1>8. \A s \in Transfer : s # t => Apart(s)
    <2> SUFFICES ASSUME NEW s \in Transfer, s # t PROVE Apart(s)
      OBVIOUS
    <2> QED
      BY <1>3, <1>4, <1>5, <1>6, TellApart DEF Cmd
  <1>9. \A x, c, s : (Told(x, c, s)' <=> Told(x, c, s)) /\ (Waits(x, s)' <=> Waits(x, s))
    BY <1>3 DEF Told, Waits
  <1>10. HeardOf(t)'
    BY <1>2, <1>3, <1>4, <1>6, <1>7, <1>9, KnownOf DEF HeardOf, Asked, Requested, Withdrew, InOrder, Cmd
  <1>11. StandingOf(t)'
    <2>1. Requested(t)' /\ ~Waited(t) /\ ~Waited(t)' /\ ~Over(t)' /\ t \notin begun'
      BY <1>3, <1>4, <1>7, <1>9, KnownOf DEF Over, Requested, Waited, CourseOf, Cmd
    <2>2. \A x \in {f, r} : x \in User /\ (Withdrew(x, t)' => Withdrew(x, t)) /\ thread'[x][t] = thread[x][t]
      BY <1>3, <1>4, <1>7 DEF Withdrew, Cmd
    <2>3. \A x \in {f, r} : Withdrew(x, t)' => item'[x][t] = "none"
      BY <1>2, <1>3, <1>4, <1>6, <2>2, KnownOf DEF HeardOf
    <2>4. \A x \in {f, r} : item'[x][t] = "QueStart" => thread'[x][t] # "none"
      BY <1>2, <1>6, <2>2, KnownOf DEF StandingOf
    <2>5. \A x \in {f, r} : <<x, t>> \notin withdrawn'
      BY <1>2, <1>3, KnownOf DEF HeardOf
    <2>6. item'[f][t] = "QueReady"
      BY <1>4, <1>6
    <2> QED
      BY <2>1, <2>3, <2>4, <2>5, <2>6, KnownOf DEF StandingOf
  <1> QED
    BY <1>8, <1>10, <1>11, ApartKeeps DEF Agreement

\* A receiver that accepts has answered.
LEMMA AcceptItemAgrees ==
    ASSUME ~Careless, ConsentInv, ConsentInv', UNCHANGED route, Agreement,
           NEW u \in User, NEW t \in Transfer, AcceptItem(u, t)
    PROVE  Agreement'
  <1> DEFINE f == From[t]
             r == To[t]
  <1>1. TypeOK
    BY DEF ConsentInv, TransferInv
  <1>2. HeardOf(t) /\ StandingOf(t)
    BY DEF Agreement
  <1>3. f \in User /\ r \in User /\ f # r
    BY KnownOf
  <1>4. /\ Tell(u, "ACCEPTTRANS", t) /\ item[u][t] = "QuePend"
        /\ item' = [item EXCEPT ![u][t] = "QueReady"]
        /\ UNCHANGED <<down, wait_h, thread, begun, offered, withdrawn>>
    BY DEF AcceptItem, serverVars
  <1>5. u = r
    BY <1>4, KnownOf DEF ConsentOf
  <1>6. accepted' = accepted \cup {t}
    BY <1>5 DEF AcceptItem
  <1>7. \A x \in User, s \in Transfer : item'[x][s] = IF x = r /\ s = t THEN "QueReady" ELSE item[x][s]
    <2>1. \A x \in User, s \in Transfer : item'[x][s] = IF x = u /\ s = t THEN "QueReady" ELSE item[x][s]
      BY <1>1, <1>4, ItemSet DEF ItemState
    <2> QED
      BY <1>5, <2>1
  <1>8. /\ \A x \in User, c \in Cmd, s \in Transfer :
              Sent(x, c, s)' <=> Sent(x, c, s) \/ (x = r /\ c = "ACCEPTTRANS" /\ s = t)
        /\ \A x \in User, s \in Transfer : InOrder(up[x], s) => InOrder(up'[x], s)
    BY <1>1, <1>4, <1>5, TellEffect DEF Cmd
  <1>9. \A s \in Transfer : s # t => Apart(s)
    <2> SUFFICES ASSUME NEW s \in Transfer, s # t PROVE Apart(s)
      OBVIOUS
    <2> QED
      BY <1>3, <1>4, <1>5, <1>6, <1>7, TellApart DEF Cmd
  <1>10. /\ t \in offered /\ ~Requested(t) /\ ~Asked(t) /\ ~Told(r, "REFUSETRANS", t)
         /\ t \notin begun /\ ~Withdrew(r, t)
    BY <1>2, <1>3, <1>4, <1>5, KnownOf DEF HeardOf, StandingOf
  <1>11. /\ \A x, c, s : (Told(x, c, s)' <=> Told(x, c, s)) /\ (Waits(x, s)' <=> Waits(x, s))
         /\ \A x \in {f, r} : (Withdrew(x, t)' <=> Withdrew(x, t)) /\ (CalledOff(x, t)' <=> CalledOff(x, t))
         /\ Requested(t)' <=> Requested(t)
         /\ Asked(t)' <=> Asked(t)
         /\ Sent(f, "REFUSETRANS", t)' <=> Sent(f, "REFUSETRANS", t)
    BY <1>3, <1>4, <1>8, KnownOf DEF Told, Waits, Withdrew, CalledOff, Requested, Asked, Cmd
  <1>12. Answered(t)' /\ (Waited(t)' <=> Waited(t)) /\ (Over(t)' <=> Over(t)) /\ (Open(t)' <=> Open(t))
    BY <1>3, <1>4, <1>8, <1>11, KnownOf DEF Answered, Waited, Over, Open, Cmd
  <1>13. HeardOf(t)'
    BY <1>2, <1>3, <1>4, <1>7, <1>8, <1>10, <1>11, KnownOf DEF HeardOf, InOrder
  <1>14. StandingOf(t)'
    <2>1. item'[f][t] = item[f][t] /\ item'[r][t] = "QueReady" /\ UNCHANGED <<thread, begun>>
      BY <1>3, <1>4, <1>7
    <2>2. Open(t)' => item'[f][t] = "QueReady" \/ Sent(f, "CANCELTRANS", t)'
      <3>1. Sent(f, "CANCELTRANS", t)' <=> Sent(f, "CANCELTRANS", t)
        BY <1>3, <1>8, KnownOf DEF Cmd
      <3> QED
        BY <1>2, <1>12, <2>1, <3>1 DEF StandingOf
    <2>3. \A x \in {f, r} :
             /\ item'[x][t] = "QueStart" => thread'[x][t] # "none"
             /\ Withdrew(x, t)' /\ t \notin begun' => item'[x][t] = "none"
             /\ Over(t)' => item'[x][t] = "none" \/ CalledOff(x, t)'
      BY <1>2, <1>3, <1>4, <1>5, <1>10, <1>11, <1>12, <2>1, KnownOf DEF StandingOf
    <2> QED
      BY <1>10, <1>11, <1>12, <2>1, <2>2, <2>3, KnownOf DEF StandingOf
  <1> QED
    BY <1>9, <1>13, <1>14, ApartKeeps DEF Agreement

\* An end that withdraws has no item any more, unless its thread is at work.
LEMMA CancelItemAgrees ==
    ASSUME ConsentInv, ConsentInv', UNCHANGED route, Agreement,
           NEW u \in User, NEW t \in Transfer, CancelItem(u, t)
    PROVE  Agreement'
  <1> DEFINE f == From[t]
             r == To[t]
  <1>1. TypeOK
    BY DEF ConsentInv, TransferInv
  <1>2. HeardOf(t) /\ StandingOf(t)
    BY DEF Agreement
  <1>3. f \in User /\ r \in User /\ f # r
    BY KnownOf
  <1>4. PICK cmd \in {"REFUSETRANS", "CANCELTRANS"} :
           Tell(u, cmd, t) /\ (cmd = "REFUSETRANS" <=> item[u][t] = "QuePend")
    BY DEF CancelItem
  <1>5. /\ item[u][t] # "none" /\ withdrawn' = withdrawn \cup {<<u, t>>}
        /\ UNCHANGED <<down, wait_h, thread, begun, offered, accepted>>
    BY DEF CancelItem, serverVars
  <1>6. /\ \A x \in User, s \in Transfer : (x = u /\ s = t) \/ item'[x][s] = item[x][s]
        /\ item'[u][t] = "none" \/ (item[u][t] = "QueStart" /\ item'[u][t] = item[u][t])
    <2>1. CASE item' = [item EXCEPT ![u][t] = "none"]
      <3>1. \A x \in User, s \in Transfer : item'[x][s] = IF x = u /\ s = t THEN "none" ELSE item[x][s]
        BY <1>1, <2>1, ItemSet DEF ItemState
      <3> QED
        BY <3>1
    <2>2. CASE item[u][t] = "QueStart" /\ item' = item
      BY <2>2
    <2> QED
      BY <2>1, <2>2 DEF CancelItem
  <1>7. /\ \A x \in User, c \in Cmd, s \in Transfer :
              Sent(x, c, s)' <=> Sent(x, c, s) \/ (x = u /\ c = cmd /\ s = t)
        /\ \A x \in User, s \in Transfer : InOrder(up[x], s) => InOrder(up'[x], s)
    BY <1>1, <1>4, TellEffect DEF Cmd
  <1>8. \A s \in Transfer : s # t \/ u \notin Ends(s) => Apart(s)
    <2> SUFFICES ASSUME NEW s \in Transfer, s # t \/ u \notin Ends(s) PROVE Apart(s)
      OBVIOUS
    <2> QED
      BY <1>4, <1>5, <1>6, TellApart DEF Cmd
  <1>9. CASE u \in {f, r}
    <2>1. /\ t \in offered
          /\ u = f => cmd = "CANCELTRANS"
          /\ u = r => ~Requested(t) /\ ~Asked(t)
      BY <1>2, <1>3, <1>4, <1>5, <1>9, KnownOf DEF HeardOf, ConsentOf
    <2>2. /\ \A x, c, s : (Told(x, c, s)' <=> Told(x, c, s)) /\ (Waits(x, s)' <=> Waits(x, s))
          /\ \A x \in {f, r} : (Withdrew(x, t)' <=> Withdrew(x, t) \/ x = u) /\ (CalledOff(x, t)' <=> CalledOff(x, t))
          /\ Requested(t)' <=> Requested(t)
          /\ Asked(t)' <=> Asked(t)
      BY <1>3, <1>4, <1>5, <1>7, KnownOf DEF Told, Waits, Withdrew, CalledOff, Requested, Asked, Cmd
    <2>3. /\ (Waited(t)' <=> Waited(t)) /\ (Over(t)' <=> Over(t)) /\ (Open(t)' <=> Open(t))
          /\ Answered(t)' <=> Answered(t) \/ u = r
          /\ Sent(f, "CANCELTRANS", t)' <=> Sent(f, "CANCELTRANS", t) \/ u = f
          /\ Sent(f, "REFUSETRANS", t)' <=> Sent(f, "REFUSETRANS", t)
      BY <1>3, <1>4, <1>5, <1>7, <2>1, <2>2, KnownOf DEF Answered, Waited, Over, Open, Cmd
    <2>4. HeardOf(t)'
      <3>1. r = u \/ item'[r][t] = item[r][t]
        BY <1>3, <1>6
      <3> QED
        BY <1>2, <1>3, <1>5, <1>6, <1>7, <2>1, <2>2, <2>3, <3>1, KnownOf DEF HeardOf, InOrder
    <2>5. StandingOf(t)'
      <3>1. \A x \in {f, r} : item'[x][t] \in {"none", item[x][t]} /\ (x # u => item'[x][t] = item[x][t])
        BY <1>3, <1>6
      <3>2. Open(t)' => item'[f][t] = "QueReady" \/ Sent(f, "CANCELTRANS", t)'
        BY <1>2, <1>3, <2>3, <3>1 DEF StandingOf
      <3>3. Waited(t)' => Asked(t)' \/ item'[r][t] = "QuePend" \/ Answered(t)'
        BY <1>2, <1>3, <2>2, <2>3, <3>1 DEF StandingOf
      <3>4. \A x \in {f, r} : Withdrew(x, t)' /\ t \notin begun' => item'[x][t] = "none"
        <4>1. CASE t \in begun
          BY <1>5, <4>1
        <4>2. CASE t \notin begun
          <5>1. item[u][t] # "QueStart"
            BY <1>2, <1>9, <4>2, KnownOf DEF StandingOf, ToldOf
          <5> QED
            BY <1>2, <1>6, <2>2, <3>1, <4>2, <5>1, KnownOf DEF StandingOf
        <4> QED
          BY <4>1, <4>2
      <3>5. \A x \in {f, r} : /\ item'[x][t] = "QueStart" => thread'[x][t] # "none"
                              /\ Over(t)' => item'[x][t] = "none" \/ CalledOff(x, t)'
        BY <1>2, <1>5, <2>2, <2>3, <3>1, KnownOf DEF StandingOf
      <3>6. \A x \in {f, r} : t \in begun' => item'[x][t] = "none" \/ thread'[x][t] # "none" \/ Told(x, "STARTTRANS", t)'
        BY <1>2, <1>5, <2>2, <3>1, KnownOf DEF StandingOf
      <3>7. Over(t)' /\ Asked(t)' => CalledOff(r, t)'
        BY <1>2, <2>2, <2>3, KnownOf DEF StandingOf
      <3>8. Sent(f, "CANCELTRANS", t)' \/ Answered(t)'
        BY <1>9, <2>3
      <3> QED
        BY <3>2, <3>3, <3>4, <3>5, <3>6, <3>7, <3>8, KnownOf DEF StandingOf
    <2> QED
      BY <1>8, <2>4, <2>5, ApartKeeps DEF Agreement
  <1>10. CASE u \notin {f, r}
    BY <1>8, <1>10, KnownOf, ApartKeeps DEF Agreement
  <1> QED
    BY <1>9, <1>10

\* A transfer's thread at work is past what this is about: the transfer has begun.
LEMMA BegunAgrees ==
    ASSUME ConsentInv, ConsentInv', UNCHANGED route, NEW t \in Transfer, HeardOf(t),
           t \in begun, UNCHANGED <<up, wait_h, begun, offered, accepted, withdrawn>>,
           \A x \in User : InOrder(down[x], t) => InOrder(down'[x], t),
           \A x \in User : Once(down[x], <<"REQTRANS", t>>) => Once(down'[x], <<"REQTRANS", t>>),
           \A x \in User, c \in Cmd : Told(x, c, t)' => Told(x, c, t),
           \A x \in Ends(t) : item'[x][t] = "QuePend" => item[x][t] = "QuePend",
           \A x \in Ends(t) : item'[x][t] = "QueStart" => thread'[x][t] # "none",
           \A x \in Ends(t) : item'[x][t] = "none" \/ thread'[x][t] # "none" \/ Told(x, "STARTTRANS", t)'
    PROVE  HeardOf(t)' /\ StandingOf(t)'
  <1> DEFINE f == From[t]
             r == To[t]
  <1>1. f \in User /\ r \in User /\ f # r /\ Ends(t) = {f, r}
    BY KnownOf
  <1>2. /\ t \in offered /\ ~Requested(t) /\ ~Waited(t) /\ t \in accepted
        /\ ~Asked(t) /\ item[r][t] # "QuePend" /\ ~Told(r, "REFUSETRANS", t)
        /\ ~Sent(f, "REFUSETRANS", t)
    BY KnownOf DEF HeardOf, CourseOf
  <1>3. /\ t \in offered' /\ t \in accepted' /\ t \in begun' /\ ~Requested(t)' /\ ~Waited(t)' /\ ~Asked(t)'
        /\ item'[r][t] # "QuePend" /\ ~Told(r, "REFUSETRANS", t)' /\ ~Sent(f, "REFUSETRANS", t)'
    BY <1>1, <1>2, KnownOf DEF Requested, Waited, Waits, Sent, Asked, Cmd
  <1>4. ~Over(t)' /\ ~Open(t)'
    BY <1>3 DEF Over, Open
  <1>5. HeardOf(t)'
    BY <1>1, <1>3, KnownOf DEF HeardOf, InOrder
  <1>6. StandingOf(t)'
    BY <1>1, <1>3, <1>4, KnownOf DEF StandingOf
  <1> QED
    BY <1>5, <1>6

\* A step of a thread.
LEMMA ThreadStepAgrees ==
    ASSUME ConsentInv, ConsentInv', UNCHANGED route, Agreement,
           NEW u \in User, NEW t \in Transfer, ThreadStep(u, t)
    PROVE  Agreement'
  <1>1. TypeOK /\ HeardOf(t) /\ StandingOf(t)
    BY DEF ConsentInv, TransferInv, Agreement
  <1>2. UNCHANGED <<up, down, wait_h, begun, offered, accepted, withdrawn>> /\ thread[u][t] # "none"
    BY DEF ThreadStep, serverVars, historyVars
  <1>3. t \in begun
    BY <1>2, KnownOf DEF ToldOf
  <1>4. PICK h \in {"started", "running", "none"}, i \in ItemState :
           /\ thread' = [thread EXCEPT ![u][t] = h]
           /\ item' = [item EXCEPT ![u][t] = i]
           /\ h = "none" => i = "none"
           /\ i \in {item[u][t], "QueStart", "none"}
    <2>1. item \in [User -> [Transfer -> ItemState]]
      BY <1>1, ClientTypes
    <2>2. item = [item EXCEPT ![u][t] = item[u][t]] /\ item[u][t] \in ItemState
      BY <2>1
    <2>3. {"started", "running", "none"} \subseteq ThreadState /\ {"QueStart", "none"} \subseteq ItemState
      BY DEF ThreadState, ItemState
    <2> QED
      BY <2>2, <2>3 DEF ThreadStep
  <1>5. \A x \in User, s \in Transfer : item'[x][s] = IF x = u /\ s = t THEN i ELSE item[x][s]
    BY <1>1, <1>4, ItemSet
  <1>6. \A x \in User, s \in Transfer : thread'[x][s] = IF x = u /\ s = t THEN h ELSE thread[x][s]
    BY <1>1, <1>4, ClientTypes, CellFacts DEF ThreadState
  <1>7. \A x, c, s : (Told(x, c, s)' <=> Told(x, c, s)) /\ (Waits(x, s)' <=> Waits(x, s)) /\ (Sent(x, c, s)' <=> Sent(x, c, s))
    BY <1>2 DEF Told, Waits, Sent
  <1>8. \A s \in Transfer : \A x \in Ends(s) : x \in User
    BY <1>1, RouteFacts DEF TypeOK, Ends
  <1>9. \A s \in Transfer : s # t => Apart(s)
    BY <1>2, <1>5, <1>6, <1>7, <1>8 DEF Apart
  <1>10. \A x \in Ends(t) :
            /\ item'[x][t] = "QuePend" => item[x][t] = "QuePend"
            /\ item'[x][t] = "QueStart" => thread'[x][t] # "none"
            /\ item'[x][t] = "none" \/ thread'[x][t] # "none" \/ Told(x, "STARTTRANS", t)'
    <2> SUFFICES ASSUME NEW x \in Ends(t)
                 PROVE  /\ item'[x][t] = "QuePend" => item[x][t] = "QuePend"
                        /\ item'[x][t] = "QueStart" => thread'[x][t] # "none"
                        /\ item'[x][t] = "none" \/ thread'[x][t] # "none" \/ Told(x, "STARTTRANS", t)'
      OBVIOUS
    <2>1. x \in User
      BY <1>8
    <2>2. CASE x = u
      BY <1>4, <1>5, <1>6, <2>1, <2>2
    <2>3. CASE x # u
      BY <1>1, <1>3, <1>5, <1>6, <1>7, <2>1, <2>3 DEF StandingOf
    <2> QED
      BY <2>2, <2>3
  <1>11. HeardOf(t)' /\ StandingOf(t)'
    BY <1>1, <1>2, <1>3, <1>7, <1>10, BegunAgrees
  <1> QED
    BY <1>9, <1>11, ApartKeeps DEF Agreement

\* A client handles a command.
LEMMA ReceiveAgrees ==
    ASSUME ConsentInv, ConsentInv', UNCHANGED route, Agreement, NEW u \in User, Receive(u)
    PROVE  Agreement'
  <1>1. TypeOK /\ down \in [User -> Seq(Message)] /\ down[u] # <<>>
    BY DEF ConsentInv, TransferInv, TypeOK, Message, Receive
  <1>2. down' = [down EXCEPT ![u] = Tail(@)] /\ \A x \in User : down'[x] = IF x = u THEN Tail(down[u]) ELSE down[x]
    BY <1>1 DEF Receive
  <1>3. Head(down[u]) \in Message
    BY <1>1, <1>2, DownTaken
  <1>4. PICK cmd \in Cmd, t \in Transfer : Head(down[u]) = <<cmd, t>>
    BY <1>3 DEF Message
  <1>5. /\ Handled(u, cmd, t)
        /\ UNCHANGED <<up, wait_h, begun, offered, accepted, withdrawn>>
    BY <1>4 DEF Receive, serverVars, historyVars
  <1>6. /\ \A x \in User, c \in Cmd, s \in Transfer :
              Contains(down[x], <<c, s>>) <=> Contains(down'[x], <<c, s>>) \/ (x = u /\ c = cmd /\ s = t)
        /\ Once(down[u], <<cmd, t>>) => ~Contains(down'[u], <<cmd, t>>)
        /\ \A x \in User, s \in Transfer : InOrder(down[x], s) => InOrder(down'[x], s)
        /\ \A x \in User, s \in Transfer :
              Once(down[x], <<"REQTRANS", s>>) => Once(down'[x], <<"REQTRANS", s>>)
        /\ InOrder(down[u], t) /\ cmd = "CANCELTRANS" => ~Contains(down[u], <<"REQTRANS", t>>)
    <2>1. down[u] \in Seq(Message)
      BY <1>1
    <2>2. /\ \A c \in Cmd, s \in Transfer :
                Contains(down[u], <<c, s>>) <=> Contains(Tail(down[u]), <<c, s>>) \/ (c = cmd /\ s = t)
          /\ Once(down[u], <<cmd, t>>) => ~Contains(Tail(down[u]), <<cmd, t>>)
          /\ \A s \in Transfer : InOrder(down[u], s) => InOrder(Tail(down[u]), s)
          /\ \A s \in Transfer : Once(down[u], <<"REQTRANS", s>>) => Once(Tail(down[u]), <<"REQTRANS", s>>)
          /\ InOrder(down[u], t) /\ cmd = "CANCELTRANS" => ~Contains(down[u], <<"REQTRANS", t>>)
      BY <1>1, <1>4, <2>1, ReadFacts
    <2>3. down'[u] = Tail(down[u]) /\ \A x \in User : x # u => down'[x] = down[x]
      BY <1>2
    <2> QED
      BY ONLY <2>2, <2>3
  <1>7. \A x \in User, c \in Cmd, s \in Transfer : Told(x, c, s) <=> Told(x, c, s)' \/ (x = u /\ c = cmd /\ s = t)
    BY <1>6 DEF Told
  <1>8. \A x, c, s : (Sent(x, c, s)' <=> Sent(x, c, s)) /\ (Waits(x, s)' <=> Waits(x, s))
    BY <1>5 DEF Sent, Waits
  <1>9. PICK i \in ItemState, h \in ThreadState :
           /\ \A x \in User, s \in Transfer : item'[x][s] = IF x = u /\ s = t THEN i ELSE item[x][s]
           /\ \A x \in User, s \in Transfer : thread'[x][s] = IF x = u /\ s = t THEN h ELSE thread[x][s]
           /\ \/ cmd = "REQTRANS" /\ i = "QuePend" /\ h = thread[u][t]
              \/ cmd = "STARTTRANS" /\ i = "QueReady" /\ h = "created"
              \/ cmd \in {"REFUSETRANS", "CANCELTRANS"} /\ i = "none" /\ h = thread[u][t]
              \/ cmd # "REQTRANS" /\ i = "none" /\ item[u][t] = "none" /\ h = thread[u][t]
    <2>1. item[u][t] \in ItemState /\ thread[u][t] \in ThreadState
      BY <1>1, <1>4, ClientTypes
    <2>2. {"QuePend", "QueReady", "none"} \subseteq ItemState /\ "created" \in ThreadState
      BY DEF ItemState, ThreadState
    <2>3. CASE cmd = "REQTRANS" /\ item' = [item EXCEPT ![u][t] = "QuePend"] /\ thread' = thread
      <3>1. \A x \in User, s \in Transfer : item'[x][s] = IF x = u /\ s = t THEN "QuePend" ELSE item[x][s]
        BY <1>1, <1>4, <2>2, <2>3, ItemSet
      <3>2. \A x \in User, s \in Transfer : thread'[x][s] = IF x = u /\ s = t THEN thread[u][t] ELSE thread[x][s]
        BY <2>3
      <3> QED
        BY <2>1, <2>2, <2>3, <3>1, <3>2
    <2>4. CASE /\ cmd = "STARTTRANS" /\ item' = [item EXCEPT ![u][t] = "QueReady"]
               /\ thread' = [thread EXCEPT ![u][t] = "created"]
      <3>1. \A x \in User, s \in Transfer : item'[x][s] = IF x = u /\ s = t THEN "QueReady" ELSE item[x][s]
        BY <1>1, <1>4, <2>2, <2>4, ItemSet
      <3>2. \A x \in User, s \in Transfer : thread'[x][s] = IF x = u /\ s = t THEN "created" ELSE thread[x][s]
        BY <1>1, <1>4, <2>2, <2>4, ClientTypes, CellFacts
      <3> QED
        BY <2>1, <2>2, <2>4, <3>1, <3>2
    <2>5. CASE /\ cmd \in {"REFUSETRANS", "CANCELTRANS"} /\ item' = [item EXCEPT ![u][t] = "none"]
               /\ thread' = thread
      <3>1. \A x \in User, s \in Transfer : item'[x][s] = IF x = u /\ s = t THEN "none" ELSE item[x][s]
        BY <1>1, <1>4, <2>2, <2>5, ItemSet
      <3>2. \A x \in User, s \in Transfer : thread'[x][s] = IF x = u /\ s = t THEN thread[u][t] ELSE thread[x][s]
        BY <2>5
      <3> QED
        BY <2>1, <2>2, <2>5, <3>1, <3>2
    <2>6. CASE cmd # "REQTRANS" /\ item[u][t] = "none" /\ item' = item /\ thread' = thread
      <3>1. /\ \A x \in User, s \in Transfer : item'[x][s] = IF x = u /\ s = t THEN "none" ELSE item[x][s]
            /\ \A x \in User, s \in Transfer : thread'[x][s] = IF x = u /\ s = t THEN thread[u][t] ELSE thread[x][s]
        BY <2>6
      <3> QED
        BY <2>1, <2>2, <2>6, <3>1
    <2> QED
      BY <1>5, <2>3, <2>4, <2>5, <2>6 DEF Handled, clientVars
  <1>10. \A s \in Transfer : \A x \in Ends(s) : x \in User
    BY <1>1, RouteFacts DEF TypeOK, Ends
  <1>11. \A s \in Transfer : s # t \/ u \notin Ends(s) => Apart(s)
    <2> SUFFICES ASSUME NEW s \in Transfer, s # t \/ u \notin Ends(s) PROVE Apart(s)
      OBVIOUS
    <2>1. \A x \in Ends(s) : x \in User /\ ~(x = u /\ s = t)
      BY <1>10
    <2>2. \A x \in Ends(s) : item'[x][s] = item[x][s] /\ thread'[x][s] = thread[x][s]
      BY <1>9, <2>1
    <2>3. \A x \in Ends(s), c \in Cmd : Told(x, c, s)' <=> Told(x, c, s)
      BY <1>7, <2>1
    <2> QED
      BY <1>5, <1>6, <1>8, <2>1, <2>2, <2>3 DEF Apart
  <1>12. HeardOf(t) /\ StandingOf(t) /\ Told(u, cmd, t)
    BY <1>4, <1>6 DEF Agreement, Told
  <1>13. CASE u \in Ends(t) /\ t \in begun
    <2>1. cmd # "REQTRANS"
      BY <1>4, <1>12, <1>13, KnownOf DEF HeardOf, ConsentOf, Asked
    <2>2. \A x \in Ends(t) :
             /\ item'[x][t] = "QuePend" => item[x][t] = "QuePend"
             /\ item'[x][t] = "QueStart" => thread'[x][t] # "none"
             /\ item'[x][t] = "none" \/ thread'[x][t] # "none" \/ Told(x, "STARTTRANS", t)'
      <3> SUFFICES ASSUME NEW x \in Ends(t)
                   PROVE  /\ item'[x][t] = "QuePend" => item[x][t] = "QuePend"
                          /\ item'[x][t] = "QueStart" => thread'[x][t] # "none"
                          /\ item'[x][t] = "none" \/ thread'[x][t] # "none" \/ Told(x, "STARTTRANS", t)'
        OBVIOUS
      <3>1. x \in User
        BY <1>4, <1>10
      <3>2. CASE x = u
        BY <1>4, <1>9, <2>1, <3>1, <3>2
      <3>3. CASE x # u
        <4>1. item'[x][t] = item[x][t] /\ thread'[x][t] = thread[x][t]
          BY <1>4, <1>9, <3>1, <3>3
        <4>2. Told(x, "STARTTRANS", t)' <=> Told(x, "STARTTRANS", t)
          BY <1>4, <1>7, <3>1, <3>3 DEF Cmd
        <4> QED
          BY <1>12, <1>13, <4>1, <4>2 DEF StandingOf
      <3> QED
        BY <3>2, <3>3
    <2>3. \A x \in User, c \in Cmd : Told(x, c, t)' => Told(x, c, t)
      BY <1>4, <1>7
    <2>4. HeardOf(t)' /\ StandingOf(t)'
      BY <1>4, <1>5, <1>6, <1>12, <1>13, <2>2, <2>3, BegunAgrees
    <2> QED
      BY <1>11, <2>4, ApartKeeps DEF Agreement
  <1>14. CASE u \in Ends(t) /\ t \notin begun
    <2> DEFINE f == From[t]
               r == To[t]
    <2> SUFFICES HeardOf(t)' /\ StandingOf(t)'
      BY <1>11, ApartKeeps DEF Agreement
    <2>1. f \in User /\ r \in User /\ f # r /\ u \in {f, r}
      BY <1>4, <1>14, KnownOf
    <2>2. cmd # "STARTTRANS" /\ thread'[f][t] = thread[f][t] /\ thread'[r][t] = thread[r][t]
      <3>1. cmd # "STARTTRANS"
        BY <1>4, <1>12, <1>14, KnownOf DEF ToldOf
      <3> QED
        BY <1>4, <1>9, <2>1, <3>1
    <2>3. /\ Requested(t)' <=> Requested(t)
          /\ Waited(t)' <=> Waited(t)
          /\ Answered(t)' <=> Answered(t)
          /\ Sent(f, "CANCELTRANS", t)' <=> Sent(f, "CANCELTRANS", t)
          /\ Sent(f, "REFUSETRANS", t)' <=> Sent(f, "REFUSETRANS", t)
          /\ \A x \in {f, r} : Withdrew(x, t)' <=> Withdrew(x, t)
      BY <1>4, <1>8, KnownOf DEF Requested, Waited, Answered, Withdrew
    <2>4. (Over(t)' <=> Over(t)) /\ (Open(t)' <=> Open(t))
      BY <1>5, <2>3 DEF Over, Open
    <2>5. \A x \in {f, r}, c \in Cmd : ~(x = u /\ c = cmd) => (Told(x, c, t)' <=> Told(x, c, t))
      BY <1>4, <1>7, <2>1
    <2>6. \A x \in {f, r} : x # u => item'[x][t] = item[x][t]
      BY <1>4, <1>9, <2>1
    <2>7. CASE cmd = "REQTRANS"
      <3>1. u = r /\ item'[r][t] = "QuePend"
        BY <1>4, <1>9, <1>12, <2>1, <2>7, KnownOf DEF ConsentOf
      <3>2. t \in offered /\ ~Requested(t) /\ ~Withdrew(r, t) /\ t \notin accepted /\ item[r][t] = "none"
        BY <1>4, <1>12, <2>7, <3>1, KnownOf DEF HeardOf, Asked
      <3>3. Asked(t) /\ ~Asked(t)'
        <4>1. Once(down[r], <<"REQTRANS", t>>)
          BY <1>12 DEF HeardOf
        <4> QED
          BY <1>4, <1>6, <1>12, <2>7, <3>1, <4>1, KnownOf DEF Asked, Told
      <3>4. \A x \in {f, r} : CalledOff(x, t)' <=> CalledOff(x, t)
        BY <2>5, <2>7 DEF CalledOff, Cmd
      <3>5. ~Told(r, "REFUSETRANS", t)'
        BY <1>4, <1>12, <2>1, <2>5, <2>7, KnownOf DEF HeardOf, Cmd
      <3>6. HeardOf(t)'
        BY <1>5, <1>6, <1>12, <2>1, <2>3, <3>2, <3>3, <3>5, KnownOf, <1>4 DEF HeardOf, InOrder
      <3>7. StandingOf(t)'
        <4>1. \A x \in {f, r} : /\ item'[x][t] = "QueStart" => thread'[x][t] # "none"
                                /\ Withdrew(x, t)' /\ t \notin begun' => item'[x][t] = "none"
                                /\ Over(t)' => item'[x][t] = "none" \/ CalledOff(x, t)'
          BY <1>4, <1>5, <1>12, <2>1, <2>2, <2>3, <2>4, <2>6, <3>1, <3>2, <3>3, <3>4, KnownOf DEF StandingOf
        <4>2. Open(t)' => item'[f][t] = "QueReady" \/ Sent(f, "CANCELTRANS", t)'
          BY <1>12, <2>1, <2>3, <2>4, <2>6, <3>1 DEF StandingOf
        <4>3. Open(t)' /\ (\E x \in {f, r} : <<x, t>> \in withdrawn') => Sent(f, "CANCELTRANS", t)' \/ Answered(t)'
          BY <1>4, <1>5, <1>12, <2>3, <2>4, KnownOf DEF StandingOf
        <4> QED
          BY <1>4, <1>5, <1>14, <3>1, <3>3, <4>1, <4>2, <4>3, KnownOf DEF StandingOf
      <3> QED
        BY <3>6, <3>7
    <2>8. CASE cmd \in {"CANCELTRANS", "REFUSETRANS"}
      <3>1. item'[u][t] = "none"
        BY <1>4, <1>9, <2>8
      <3>2. Over(t)
        BY <1>4, <1>12, <2>8, KnownOf DEF ToldOf
      <3>3. t \in offered /\ ~Requested(t) /\ ~Waited(t) /\ ~Open(t)
        BY <3>2 DEF Over, Open
      <3>4. (Asked(t)' <=> Asked(t)) /\ (Told(r, "REFUSETRANS", t)' => Told(r, "REFUSETRANS", t))
        BY <1>4, <1>7, <2>1, <2>5, <2>8, KnownOf DEF Asked, Cmd
      <3>5. \A x \in {f, r} : item'[x][t] \in {"none", item[x][t]}
        BY <2>6, <3>1
      <3>6. HeardOf(t)'
        BY <1>4, <1>5, <1>6, <1>12, <2>1, <2>3, <3>3, <3>4, <3>5, KnownOf DEF HeardOf, InOrder
      <3>7. Asked(t)' => CalledOff(r, t)'
        <4>1. CASE u = r
          <5>1. cmd = "CANCELTRANS"
            BY <1>12, <2>8, <4>1 DEF HeardOf
          <5>2. ~Asked(t)
            BY <1>6, <1>12, <4>1, <5>1 DEF HeardOf, InOrder, Asked, Told
          <5> QED
            BY <3>4, <5>2
        <4>2. CASE u # r
          <5>1. CalledOff(r, t)' <=> CalledOff(r, t)
            BY <1>4, <2>5, <4>2, KnownOf DEF CalledOff, Cmd
          <5> QED
            BY <1>12, <3>2, <3>4, <5>1 DEF StandingOf
        <4> QED
          BY <4>1, <4>2
      <3>8. \A x \in {f, r} : item'[x][t] = "none" \/ CalledOff(x, t)'
        <4> SUFFICES ASSUME NEW x \in {f, r}, x # u PROVE item'[x][t] = "none" \/ CalledOff(x, t)'
          BY <3>1
        <4>1. CalledOff(x, t)' <=> CalledOff(x, t)
          BY <2>5 DEF CalledOff, Cmd
        <4> QED
          BY <1>4, <1>12, <2>6, <3>2, <4>1, KnownOf DEF StandingOf
      <3>9. \A x \in {f, r} : /\ item'[x][t] = "QueStart" => thread'[x][t] # "none"
                              /\ Withdrew(x, t)' => item'[x][t] = "none"
        BY <1>4, <1>12, <1>14, <2>2, <2>3, <3>5, KnownOf DEF StandingOf
      <3>10. StandingOf(t)'
        BY <1>4, <1>5, <1>14, <2>3, <2>4, <3>3, <3>7, <3>8, <3>9, KnownOf DEF StandingOf
      <3> QED
        BY <3>6, <3>10
    <2>9. CASE cmd = "ACCEPTTRANS"
      <3>1. \A x \in Ends(t) : x \in User /\ item'[x][t] = item[x][t] /\ thread'[x][t] = thread[x][t]
        BY <1>9, <1>10, <2>9
      <3>2. \A x \in Ends(t), c \in Cmd \ {"ACCEPTTRANS"} : Told(x, c, t)' <=> Told(x, c, t)
        BY <1>7, <2>9, <3>1
      <3>3. Apart(t)
        BY <1>5, <1>6, <1>8, <3>1, <3>2 DEF Apart
      <3> QED
        BY <1>12, <3>3, ApartKeeps
    <2> QED
      BY <2>2, <2>7, <2>8, <2>9 DEF Cmd
  <1>15. CASE u \notin Ends(t)
    BY <1>11, <1>15, ApartKeeps DEF Agreement
  <1> QED
    BY <1>13, <1>14, <1>15

-----------------------------------------------------------------------------
(* The server keeps it                                                      *)

\* What the server has read, command by command.
LEMMA TakenEffect ==
    ASSUME TransferInv, NEW u \in User, NEW cmd \in Cmd, NEW t \in Transfer, Taken(u, cmd, t)
    PROVE  /\ \A x \in User, c \in Cmd, s \in Transfer : Sent(x, c, s) <=> Sent(x, c, s)' \/ (x = u /\ c = cmd /\ s = t)
           /\ Once(up[u], <<cmd, t>>) => ~Sent(u, cmd, t)'
           /\ \A x \in User, s \in Transfer : InOrder(up[x], s) => InOrder(up'[x], s)
           /\ InOrder(up[u], t) /\ cmd = "CANCELTRANS" => ~Sent(u, "REQTRANS", t)
  <1>1. up \in [User -> Seq(Message)] /\ up[u] # <<>> /\ Head(up[u]) = <<cmd, t>>
    BY DEF TransferInv, TypeOK, Message, Taken
  <1>2. up'[u] = Tail(up[u]) /\ \A x \in User : x # u => up'[x] = up[x]
    BY <1>1 DEF Taken
  <1>3. /\ \A x \in User, c \in Cmd, s \in Transfer :
              Contains(up[x], <<c, s>>) <=> Contains(up'[x], <<c, s>>) \/ (x = u /\ c = cmd /\ s = t)
        /\ Once(up[u], <<cmd, t>>) => ~Contains(up'[u], <<cmd, t>>)
        /\ \A x \in User, s \in Transfer : InOrder(up[x], s) => InOrder(up'[x], s)
        /\ InOrder(up[u], t) /\ cmd = "CANCELTRANS" => ~Contains(up[u], <<"REQTRANS", t>>)
    <2>1. up[u] \in Seq(Message)
      BY <1>1
    <2>2. /\ \A c \in Cmd, s \in Transfer :
                Contains(up[u], <<c, s>>) <=> Contains(Tail(up[u]), <<c, s>>) \/ (c = cmd /\ s = t)
          /\ Once(up[u], <<cmd, t>>) => ~Contains(Tail(up[u]), <<cmd, t>>)
          /\ \A s \in Transfer : InOrder(up[u], s) => InOrder(Tail(up[u]), s)
          /\ InOrder(up[u], t) /\ cmd = "CANCELTRANS" => ~Contains(up[u], <<"REQTRANS", t>>)
      BY <1>1, <2>1, ReadFacts
    <2> QED
      BY ONLY <1>2, <2>2
  <1> QED
    BY <1>3 DEF Sent

\* Serving a command leaves the other transfers alone.
LEMMA TakenApart ==
    ASSUME TransferInv, NEW u \in User, NEW cmd \in Cmd, NEW t \in Transfer, Taken(u, cmd, t),
           NEW s \in Transfer, s # t \/ u \notin Ends(s), s \in begun' <=> s \in begun,
           \A x \in User : /\ Waits(x, s)' <=> Waits(x, s)
                           /\ \A c \in Cmd : Told(x, c, s)' <=> Told(x, c, s)
                           /\ InOrder(down[x], s) => InOrder(down'[x], s)
                           /\ Once(down[x], <<"REQTRANS", s>>) => Once(down'[x], <<"REQTRANS", s>>)
    PROVE  Apart(s)
  <1>1. \A x \in Ends(s) : x \in User /\ ~(x = u /\ s = t)
    BY RouteFacts DEF TransferInv, TypeOK, Ends
  <1>2. \A x \in Ends(s), c \in Cmd : Sent(x, c, s)' <=> Sent(x, c, s)
    BY <1>1, TakenEffect
  <1>3. \A x \in Ends(s) : InOrder(up[x], s) => InOrder(up'[x], s)
    BY <1>1, TakenEffect
  <1> QED
    BY <1>1, <1>2, <1>3 DEF Apart, Taken

\* A command that nobody waits for changes nothing that was known.
LEMMA UnheardAgrees ==
    ASSUME ConsentInv, ConsentInv', Agreement,
           NEW u \in User, NEW cmd \in {"ACCEPTTRANS", "REFUSETRANS", "CANCELTRANS"}, NEW t \in Transfer, Taken(u, cmd, t),
           UNCHANGED <<wait_h, down, begun>>, ~Waits(u, t)
    PROVE  Agreement'
  <1> DEFINE f == From[t]
             r == To[t]
  <1>1. TransferInv /\ UNCHANGED route /\ HeardOf(t) /\ StandingOf(t)
    BY DEF ConsentInv, Agreement, Taken
  <1>2. UNCHANGED <<item, thread, offered, accepted, withdrawn>> /\ cmd \in Cmd
    BY DEF Taken, Cmd
  <1>3. \A x, c, s : (Told(x, c, s)' <=> Told(x, c, s)) /\ (Waits(x, s)' <=> Waits(x, s))
    BY DEF Told, Waits
  <1>4. \A s \in Transfer : s # t \/ u \notin Ends(s) => Apart(s)
    BY <1>1, <1>2, <1>3, TakenApart
  <1>5. CASE u \in {f, r}
    <2>1. f \in User /\ r \in User /\ f # r
      BY <1>1, KnownOf
    <2>2. \A x \in User, c \in Cmd : Sent(x, c, t)' => Sent(x, c, t)
      BY <1>1, <1>2, TakenEffect
    <2>3. Sent(u, cmd, t)
      BY <1>1, TakenFacts
    <2>4. ~Waited(t)
      BY <1>1, <1>5, KnownOf DEF CourseOf, Waited
    <2>5. ~Requested(t) /\ t \in offered
      <3>1. CASE u = f /\ cmd = "CANCELTRANS"
        <4>1. InOrder(up[u], t)
          BY <1>1, <3>1 DEF HeardOf, InOrder
        <4>2. ~Requested(t)
          BY <1>1, <3>1, <4>1, <1>2, TakenEffect DEF Requested
        <4>3. t \in offered
          BY <1>1, <2>3, <3>1 DEF HeardOf, Withdrew
        <4> QED
          BY <4>2, <4>3
      <3>2. CASE u = r
        <4>1. t \in accepted \/ Withdrew(r, t)
          BY <1>1, <2>3, <3>2, KnownOf DEF ConsentOf, Withdrew, Cmd
        <4> QED
          BY <1>1, <4>1 DEF HeardOf
      <3>3. CASE u = f /\ cmd # "CANCELTRANS"
        BY <1>1, <2>1, <2>3, <3>3, KnownOf DEF HeardOf, ConsentOf, Cmd
      <3> QED
        BY <1>5, <3>1, <3>2, <3>3
    <2>6. ~Requested(t)' /\ ~Waited(t)' /\ (Over(t)' <=> Over(t)) /\ ~Open(t)'
      BY <1>1, <1>2, <1>3, <2>1, <2>2, <2>4, <2>5, KnownOf DEF Requested, Waited, Over, Open, Cmd
    <2>7. \A x \in {f, r} : (Withdrew(x, t)' => Withdrew(x, t)) /\ (CalledOff(x, t)' <=> CalledOff(x, t))
      BY <1>3, <2>1, <2>2 DEF Withdrew, CalledOff, Cmd
    <2>8. (Asked(t)' <=> Asked(t)) /\ ~Told(r, "REFUSETRANS", t)' /\ ~Sent(f, "REFUSETRANS", t)'
      BY <1>1, <1>3, <2>1, <2>2, KnownOf DEF Asked, HeardOf, Cmd
    <2>9. InOrder(up[f], t)'
      BY <1>1, <1>2, <2>1, KnownOf, TakenEffect DEF HeardOf, InOrder
    <2>10. HeardOf(t)'
      BY <1>1, <1>2, <2>1, <2>5, <2>6, <2>7, <2>8, <2>9, KnownOf DEF HeardOf, InOrder
    <2>11. StandingOf(t)'
      BY <1>1, <1>2, <1>3, <2>1, <2>6, <2>7, <2>8, KnownOf DEF StandingOf
    <2> QED
      BY <1>1, <1>4, <2>10, <2>11, ApartKeeps DEF Agreement
  <1>6. CASE u \notin {f, r}
    BY <1>1, <1>4, <1>6, KnownOf, ApartKeeps DEF Agreement
  <1> QED
    BY <1>5, <1>6

\* While every session is up, what is written to the peer arrives.
LEMMA PeerTold ==
    ASSUME TypeOK, \A x \in User : session[x] = "on",
           NEW u \in User, NEW cmd \in Cmd, NEW t \in Transfer, ToPeer(u, cmd, t),
           cmd = "REQTRANS" => ~Told(Peer(u, t), "CANCELTRANS", t) /\ ~Told(Peer(u, t), "REQTRANS", t)
    PROVE  /\ \A x \in User, c \in Cmd, s \in Transfer :
                 Told(x, c, s)' <=> Told(x, c, s) \/ (x = Peer(u, t) /\ c = cmd /\ s = t)
           /\ \A x \in User, s \in Transfer : InOrder(down[x], s) => InOrder(down'[x], s)
           /\ \A x \in User, s \in Transfer :
                 Once(down[x], <<"REQTRANS", s>>) => Once(down'[x], <<"REQTRANS", s>>)
  <1> DEFINE H == {Peer(u, t)}
  <1>1. ASSUME NEW x \in User
        PROVE  down'[x] = IF x \in H THEN down[x] \o <<<<cmd, t>>>> ELSE down[x]
    <2>1. down'[x] = down[x] \o (IF x = Peer(u, t) THEN <<<<cmd, t>>>> ELSE <<>>)
      BY DEF ToPeer, Written
    <2>2. down[x] \in Seq(Message) /\ <<cmd, t>> \in Message
      BY DEF TypeOK, Message
    <2>3. down[x] \o <<>> = down[x]
      BY <2>2, WriteFacts
    <2> QED
      BY <2>1, <2>3
  <1>2. \A x \in H : cmd = "REQTRANS" => ~Told(x, "CANCELTRANS", t) /\ ~Told(x, "REQTRANS", t)
    OBVIOUS
  <1>3. \A x : x \in H <=> x = Peer(u, t)
    OBVIOUS
  <1> HIDE DEF H
  <1>4. /\ \A x \in User, c \in Cmd, s \in Transfer :
              Told(x, c, s)' <=> Told(x, c, s) \/ (x \in H /\ c = cmd /\ s = t)
        /\ \A x \in User, s \in Transfer : InOrder(down[x], s) => InOrder(down'[x], s)
        /\ \A x \in User, s \in Transfer :
              Once(down[x], <<"REQTRANS", s>>) => Once(down'[x], <<"REQTRANS", s>>)
    BY <1>1, <1>2, WrittenEffect
  <1> QED
    BY <1>3, <1>4

\* A request that reaches its peer makes both ends wait.
LEMMA RequestWaits ==
    ASSUME TypeOK, NEW u \in User, NEW d \in User, u # d, NEW t \in Transfer,
           wait_h' = [wait_h EXCEPT ![d] = <<t>> \o @, ![u] = <<t>> \o @]
    PROVE  \A x \in User, s \in Transfer : Waits(x, s)' <=> Waits(x, s) \/ (s = t /\ x \in {u, d})
  <1> SUFFICES ASSUME NEW x \in User, NEW s \in Transfer
               PROVE  Contains(wait_h'[x], s) <=> Contains(wait_h[x], s) \/ (s = t /\ x \in {u, d})
    BY DEF Waits
  <1>1. wait_h \in [User -> Seq(Entry)] /\ t \in Entry
    BY DEF TypeOK, Entry
  <1>2. wait_h'[x] = IF x \in {u, d} THEN <<t>> \o wait_h[x] ELSE wait_h[x]
    BY <1>1
  <1>3. Contains(<<t>> \o wait_h[x], s) <=> Contains(wait_h[x], s) \/ s = t
    BY <1>1, ConsFacts
  <1> QED
    BY <1>2, <1>3

\* A request that is heard makes both ends wait, and asks the receiver.
LEMMA RequestAgrees ==
    ASSUME ConsentInv, ConsentInv', Agreement, \A x \in User : session[x] = "on",
           NEW u \in User, NEW t \in Transfer, Taken(u, "REQTRANS", t), Request(u, t), UNCHANGED begun
    PROVE  Agreement'
  <1> DEFINE f == From[t]
             r == To[t]
  <1>1. TransferInv /\ TypeOK /\ UNCHANGED route /\ HeardOf(t) /\ StandingOf(t)
    BY DEF ConsentInv, TransferInv, Agreement, Taken
  <1>2. UNCHANGED <<item, thread, offered, accepted, withdrawn, begun>> /\ "REQTRANS" \in Cmd
    BY DEF Taken, Cmd
  <1>3. Sent(u, "REQTRANS", t)
    BY <1>1, <1>2, TakenFacts
  <1>4. u = f /\ Requested(t) /\ Peer(u, t) = r /\ f \in User /\ r \in User /\ f # r
    BY <1>1, <1>3, KnownOf DEF CourseOf, Requested, Peer
  <1>5. ~Waited(t) /\ t \notin begun /\ t \in offered
    BY <1>1, <1>4, KnownOf DEF CourseOf
  <1>6. /\ ToPeer(u, "REQTRANS", t)
        /\ wait_h' = [wait_h EXCEPT ![r] = <<t>> \o @, ![u] = <<t>> \o @]
    BY <1>4 DEF Request
  <1>7. \A x \in User, s \in Transfer : Waits(x, s)' <=> Waits(x, s) \/ (s = t /\ x \in {f, r})
    BY <1>1, <1>4, <1>6, RequestWaits
  <1>8. ~Told(r, "CANCELTRANS", t) /\ ~Told(r, "REQTRANS", t)
    BY <1>1, <1>4, KnownOf DEF ToldOf, Over, HeardOf, Asked
  <1>9. /\ \A x \in User, c \in Cmd, s \in Transfer :
               Told(x, c, s)' <=> Told(x, c, s) \/ (x = r /\ c = "REQTRANS" /\ s = t)
        /\ \A x \in User, s \in Transfer : InOrder(down[x], s) => InOrder(down'[x], s)
        /\ \A x \in User, s \in Transfer :
              Once(down[x], <<"REQTRANS", s>>) => Once(down'[x], <<"REQTRANS", s>>)
    BY <1>1, <1>2, <1>4, <1>6, <1>8, PeerTold
  <1>10. /\ \A x \in User, c \in Cmd, s \in Transfer :
               Sent(x, c, s) <=> Sent(x, c, s)' \/ (x = u /\ c = "REQTRANS" /\ s = t)
         /\ Once(up[u], <<"REQTRANS", t>>) => ~Sent(u, "REQTRANS", t)'
         /\ \A x \in User, s \in Transfer : InOrder(up[x], s) => InOrder(up'[x], s)
    BY <1>1, <1>2, TakenEffect
  <1>11. ASSUME NEW s \in Transfer, s # t PROVE Apart(s)
    <2>1. \A x \in User : /\ Waits(x, s)' <=> Waits(x, s)
                          /\ \A c \in Cmd : Told(x, c, s)' <=> Told(x, c, s)
      BY <1>7, <1>9, <1>11
    <2> QED
      BY <1>1, <1>2, <1>9, <1>11, <2>1, TakenApart
  <1>12. Waited(t)' /\ ~Requested(t)' /\ Asked(t)' /\ Open(t) /\ ~Over(t)'
    <2>1. Once(up[u], <<"REQTRANS", t>>)
      BY <1>1, <1>4, KnownOf DEF CourseOf
    <2>2. ~Sent(u, "REQTRANS", t)'
      BY <1>10, <2>1
    <2> QED
      BY <1>1, <1>2, <1>4, <1>7, <1>9, <2>2, KnownOf DEF Waited, Requested, Asked, Open, Over
  <1>13. \A x \in {f, r}, c \in Cmd \ {"REQTRANS"} :
            (Sent(x, c, t)' <=> Sent(x, c, t)) /\ (Told(x, c, t)' <=> Told(x, c, t))
    BY <1>4, <1>9, <1>10
  <1>14. /\ \A x \in {f, r} : Withdrew(x, t)' <=> Withdrew(x, t)
         /\ Answered(t)' <=> Answered(t)
         /\ Sent(f, "CANCELTRANS", t)' <=> Sent(f, "CANCELTRANS", t)
         /\ Sent(f, "REFUSETRANS", t)' <=> Sent(f, "REFUSETRANS", t)
         /\ Told(r, "REFUSETRANS", t)' <=> Told(r, "REFUSETRANS", t)
    BY <1>1, <1>13, KnownOf DEF Withdrew, Answered, Cmd
  <1>15. HeardOf(t)'
    BY <1>1, <1>2, <1>4, <1>5, <1>9, <1>10, <1>12, <1>14, KnownOf DEF HeardOf, InOrder
  <1>16. StandingOf(t)'
    BY <1>1, <1>2, <1>4, <1>5, <1>12, <1>14, KnownOf DEF StandingOf
  <1> QED
    BY <1>1, <1>11, <1>15, <1>16, ApartKeeps DEF Agreement

\* A wait that is freed is gone at both ends, and no other is.
LEMMA FreedWaits ==
    ASSUME TypeOK, NEW t \in Transfer, wait_h' = FreeBoth(wait_h, t)
    PROVE  \A x \in User, s \in Transfer : Waits(x, s)' <=> Waits(x, s) /\ s # t
  BY FreedFacts DEF Waits

\* A transfer that is called off while both ends wait for it is over.
LEMMA CalledOffAgrees ==
    ASSUME ConsentInv, ConsentInv', Agreement, \A x \in User : session[x] = "on",
           NEW u \in User, NEW cmd \in {"CANCELTRANS", "REFUSETRANS"}, NEW t \in Transfer, Taken(u, cmd, t),
           Waits(u, t), ToPeer(u, cmd, t), wait_h' = FreeBoth(wait_h, t), UNCHANGED begun
    PROVE  Agreement'
  <1> DEFINE f == From[t]
             r == To[t]
  <1>1. TransferInv /\ TypeOK /\ UNCHANGED route /\ HeardOf(t) /\ StandingOf(t)
    BY DEF ConsentInv, TransferInv, Agreement, Taken
  <1>2. UNCHANGED <<item, thread, offered, accepted, withdrawn, begun>> /\ cmd \in Cmd /\ cmd # "REQTRANS"
    BY DEF Taken, Cmd
  <1>3. f \in User /\ r \in User /\ f # r /\ u \in {f, r}
    BY <1>1, KnownOf DEF CourseOf
  <1>4. Waited(t) /\ ~Requested(t) /\ t \notin begun /\ t \in offered
    BY <1>1, <1>3, KnownOf DEF CourseOf, Waited
  <1>5. Withdrew(u, t) /\ item[u][t] = "none"
    <2>1. Sent(u, cmd, t)
      BY <1>1, TakenFacts
    <2>2. Withdrew(u, t)
      BY <2>1 DEF Withdrew
    <2> QED
      BY <1>1, <1>3, <1>4, <2>2, KnownOf DEF StandingOf
  <1>6. (cmd = "REFUSETRANS" => u = r) /\ (Asked(t) => u = f)
    <2>1. Sent(u, cmd, t)
      BY <1>1, TakenFacts
    <2> QED
      BY <1>1, <1>3, <1>5, <2>1 DEF HeardOf
  <1>7. Peer(u, t) = (IF u = f THEN r ELSE f)
    BY DEF Peer
  <1>8. /\ \A x \in User, c \in Cmd, s \in Transfer :
              Told(x, c, s)' <=> Told(x, c, s) \/ (x = Peer(u, t) /\ c = cmd /\ s = t)
        /\ \A x \in User, s \in Transfer : InOrder(down[x], s) => InOrder(down'[x], s)
        /\ \A x \in User, s \in Transfer :
              Once(down[x], <<"REQTRANS", s>>) => Once(down'[x], <<"REQTRANS", s>>)
    BY <1>1, <1>2, PeerTold
  <1>9. \A x \in User, s \in Transfer : Waits(x, s)' <=> Waits(x, s) /\ s # t
    BY <1>1, FreedWaits
  <1>10. ASSUME NEW s \in Transfer, s # t PROVE Apart(s)
    <2>1. \A x \in User : /\ Waits(x, s)' <=> Waits(x, s)
                          /\ \A c \in Cmd : Told(x, c, s)' <=> Told(x, c, s)
      BY <1>8, <1>9, <1>10
    <2> QED
      BY <1>1, <1>2, <1>8, <1>10, <2>1, TakenApart
  <1>11. /\ \A x \in User, c \in Cmd : Sent(x, c, t)' => Sent(x, c, t)
         /\ InOrder(up[f], t) => InOrder(up'[f], t)
    BY <1>1, <1>2, <1>3, TakenEffect
  <1>12. /\ ~Requested(t)' /\ ~Waited(t)' /\ ~Open(t)' /\ Over(t)'
         /\ Asked(t)' <=> Asked(t)
    BY <1>1, <1>2, <1>3, <1>4, <1>8, <1>9, <1>11, KnownOf DEF Requested, Waited, Open, Over, Asked, Cmd
  <1>13. /\ \A x \in {f, r} : Withdrew(x, t)' => Withdrew(x, t)
         /\ ~Sent(f, "REFUSETRANS", t)'
    BY <1>1, <1>3, <1>11, KnownOf DEF Withdrew, Cmd, HeardOf
  <1>14. ~Told(r, "REFUSETRANS", t)'
    <2>1. ~(r = Peer(u, t) /\ "REFUSETRANS" = cmd)
      BY <1>3, <1>6, <1>7
    <2>2. ~Told(r, "REFUSETRANS", t) /\ "REFUSETRANS" \in Cmd
      BY <1>1 DEF HeardOf, Cmd
    <2> QED
      BY <1>1, <1>3, <1>8, <2>1, <2>2, KnownOf
  <1>15. CalledOff(Peer(u, t), t)' /\ Peer(u, t) \in {f, r} /\ Peer(u, t) # u
    <2>1. Peer(u, t) \in {f, r} /\ Peer(u, t) # u
      BY <1>3, <1>7
    <2>2. Told(Peer(u, t), cmd, t)'
      <3>1. Contains(down'[Peer(u, t)], <<cmd, t>>)
        BY <1>2, <1>3, <1>8, <2>1 DEF Told
      <3>2. Peer(u, t)' = Peer(u, t)
        BY <1>1, RoutesStay DEF Peer
      <3> QED
        BY <3>1, <3>2 DEF Told
    <2> QED
      BY <2>1, <2>2 DEF CalledOff
  <1>16. HeardOf(t)'
    BY <1>1, <1>2, <1>3, <1>4, <1>8, <1>11, <1>12, <1>13, <1>14, KnownOf DEF HeardOf, InOrder
  <1>17. StandingOf(t)'
    <2>1. \A x \in {f, r} : item'[x][t] = "none" \/ CalledOff(x, t)'
      <3>1. \A x \in {f, r} : x = u \/ x = Peer(u, t)
        BY <1>3, <1>15
      <3>2. Peer(u, t)' = Peer(u, t)
        BY <1>1, RoutesStay DEF Peer
      <3> QED
        BY <1>2, <1>5, <1>15, <3>1, <3>2
    <2>2. Asked(t)' => CalledOff(r, t)'
      <3>1. Asked(t)' => Peer(u, t) = r
        BY <1>6, <1>7, <1>12
      <3>2. Peer(u, t)' = Peer(u, t)
        BY <1>1, RoutesStay DEF Peer
      <3> QED
        BY <1>1, <1>15, <3>1, <3>2, KnownOf
    <2> QED
      BY <1>1, <1>2, <1>3, <1>4, <1>12, <1>13, <2>1, <2>2, KnownOf DEF StandingOf
  <1> QED
    BY <1>1, <1>10, <1>16, <1>17, ApartKeeps DEF Agreement

\* An accepted transfer begins: both its ends are told.
LEMMA AcceptWaitingAgrees ==
    ASSUME ConsentInv, ConsentInv', Agreement, \A x \in User : session[x] = "on",
           NEW u \in User, NEW t \in Transfer, Taken(u, "ACCEPTTRANS", t), AcceptWaiting(u, t), ~lost'
    PROVE  Agreement'
  <1> DEFINE f == From[t]
             r == To[t]
             H == {f, r}
  <1>1. TransferInv /\ TypeOK /\ UNCHANGED route /\ HeardOf(t) /\ StandingOf(t)
    BY DEF ConsentInv, TransferInv, Agreement, Taken
  <1>2. /\ UNCHANGED <<item, thread, offered, accepted, withdrawn>> /\ "ACCEPTTRANS" \in Cmd
        /\ Waits(u, t) /\ wait_h' = FreeBoth(wait_h, t) /\ Start(u, t)
    BY DEF Taken, Cmd, AcceptWaiting, FreedAfterAccept
  <1>3. Sent(u, "ACCEPTTRANS", t)
    BY <1>1, <1>2, TakenFacts
  <1>4. u = r /\ t \in accepted /\ f \in User /\ r \in User /\ f # r
    BY <1>1, <1>3, KnownOf DEF ConsentOf
  <1>5. /\ Waited(t) /\ ~Requested(t) /\ t \notin begun /\ t \in offered /\ ~Asked(t)
        /\ begun' = begun \cup {t} /\ item[r][t] # "QuePend"
    BY <1>1, <1>2, <1>4, KnownOf DEF CourseOf, Waited, HeardOf, Start
  <1>6. ASSUME NEW x \in User
        PROVE  down'[x] = IF x \in H THEN down[x] \o <<<<"STARTTRANS", t>>>> ELSE down[x]
    <2>1. Written([z \in User |-> IF z \in {u, Peer(u, t)} THEN <<<<"STARTTRANS", t>>>> ELSE <<>>])
      <3>1. session[u] = "on" /\ session[Peer(u, t)] = "on"
        BY <1>1, PeerFacts
      <3> QED
        BY <1>2, <3>1 DEF Start
    <2>2. {u, Peer(u, t)} = H
      BY <1>4 DEF Peer
    <2>3. down'[x] = down[x] \o (IF x \in H THEN <<<<"STARTTRANS", t>>>> ELSE <<>>)
      BY <2>1, <2>2 DEF Written
    <2>4. down[x] \o <<>> = down[x]
      <3>1. down[x] \in Seq(Message) /\ <<"ACCEPTTRANS", t>> \in Message
        BY <1>1, <1>2 DEF TypeOK, Message
      <3> QED
        BY <3>1, WriteFacts
    <2> QED
      BY <2>3, <2>4
  <1>7. "STARTTRANS" \in Cmd /\ "STARTTRANS" # "REQTRANS"
    BY DEF Cmd
  <1>8. \A x : x \in H <=> x = f \/ x = r
    OBVIOUS
  <1> HIDE DEF H
  <1>9. /\ \A x \in User, c \in Cmd, s \in Transfer :
              Told(x, c, s)' <=> Told(x, c, s) \/ (x \in H /\ c = "STARTTRANS" /\ s = t)
        /\ \A x \in User, s \in Transfer : InOrder(down[x], s) => InOrder(down'[x], s)
        /\ \A x \in User, s \in Transfer :
              Once(down[x], <<"REQTRANS", s>>) => Once(down'[x], <<"REQTRANS", s>>)
    BY <1>1, <1>6, <1>7, WrittenEffect
  <1>10. \A x \in User, s \in Transfer : Waits(x, s)' <=> Waits(x, s) /\ s # t
    BY <1>1, <1>2, FreedWaits
  <1>11. ASSUME NEW s \in Transfer, s # t PROVE Apart(s)
    <2>1. \A x \in User : /\ Waits(x, s)' <=> Waits(x, s)
                          /\ \A c \in Cmd : Told(x, c, s)' <=> Told(x, c, s)
      BY <1>9, <1>10, <1>11
    <2>2. s \in begun' <=> s \in begun
      BY <1>5, <1>11
    <2> QED
      BY <1>1, <1>2, <1>9, <1>11, <2>1, <2>2, TakenApart
  <1>12. /\ \A x \in User, c \in Cmd : Sent(x, c, t)' => Sent(x, c, t)
         /\ InOrder(up[f], t) => InOrder(up'[f], t)
    BY <1>1, <1>2, <1>4, TakenEffect
  <1>13. /\ ~Requested(t)' /\ ~Waited(t)' /\ ~Open(t)' /\ ~Over(t)' /\ ~Asked(t)'
         /\ ~Sent(f, "REFUSETRANS", t)' /\ ~Told(r, "REFUSETRANS", t)'
    BY <1>1, <1>2, <1>4, <1>5, <1>9, <1>10, <1>12, KnownOf
       DEF Requested, Waited, Open, Over, Asked, Cmd, HeardOf
  <1>14. HeardOf(t)'
    BY <1>1, <1>2, <1>4, <1>5, <1>9, <1>12, <1>13, KnownOf DEF HeardOf, InOrder
  <1>15. StandingOf(t)'
    <2>1. \A x \in {f, r} : Told(x, "STARTTRANS", t)'
      BY <1>4, <1>7, <1>8, <1>9
    <2>2. t \in begun'
      BY <1>5
    <2> QED
      BY <1>1, <1>2, <1>13, <2>1, <2>2, KnownOf DEF StandingOf
  <1> QED
    BY <1>1, <1>11, <1>14, <1>15, ApartKeeps DEF Agreement

\* The server serves a command.
LEMMA ServeAgrees ==
    ASSUME ConsentInv, ConsentInv', UNCHANGED route, Agreement, \A x \in User : session[x] = "on",
           NEW u \in User, Serve(u), ~lost'
    PROVE  Agreement'
  <1>1. TransferInv /\ TypeOK
    BY DEF ConsentInv, TransferInv
  <1>2. Head(up[u]) \in Message
    BY <1>1, UpTaken DEF Serve
  <1>3. PICK cmd \in Cmd, t \in Transfer : Head(up[u]) = <<cmd, t>>
    BY <1>2 DEF Message
  <1>4. Taken(u, cmd, t) /\ Command(u, cmd, t)
    BY <1>3 DEF Serve, Taken, clientVars
  <1>5. session[Peer(u, t)] = "on"
    BY <1>1, PeerFacts
  <1>6. CASE cmd = "REQTRANS"
    <2>1. Request(u, t) /\ UNCHANGED begun
      BY <1>4, <1>6 DEF Command
    <2> QED
      BY <1>4, <1>6, <2>1, RequestAgrees
  <1>7. CASE cmd = "CANCELTRANS"
    <2>1. UNCHANGED begun /\ (CancelWaiting(u, t) \/ CancelStarted(u, t))
      BY <1>4, <1>7 DEF Command
    <2>2. CASE CancelWaiting(u, t)
      BY <1>4, <1>7, <2>1, <2>2, CalledOffAgrees DEF CancelWaiting
    <2>3. CASE CancelStarted(u, t)
      BY <1>4, <1>7, <2>1, <2>3, UnheardAgrees DEF CancelStarted
    <2> QED
      BY <2>1, <2>2, <2>3
  <1>8. CASE cmd = "ACCEPTTRANS"
    <2>1. CASE AcceptWaiting(u, t)
      BY <1>4, <1>8, <2>1, AcceptWaitingAgrees
    <2>2. CASE ~AcceptWaiting(u, t)
      <3>1. ~Waits(u, t) /\ UNCHANGED <<wait_h, down, begun>>
        BY <1>4, <1>8, <2>2 DEF Command
      <3> QED
        BY <1>4, <1>8, <3>1, UnheardAgrees
    <2> QED
      BY <2>1, <2>2
  <1>9. CASE cmd = "REFUSETRANS"
    <2>1. UNCHANGED begun /\ (RefuseWaiting(u, t) \/ (~Waits(u, t) /\ UNCHANGED <<wait_h, down>>))
      BY <1>4, <1>5, <1>9 DEF Command
    <2>2. CASE RefuseWaiting(u, t)
      BY <1>4, <1>9, <2>1, <2>2, CalledOffAgrees DEF RefuseWaiting, FreedAfterRefuse
    <2>3. CASE ~Waits(u, t) /\ UNCHANGED <<wait_h, down>>
      BY <1>4, <1>9, <2>1, <2>3, UnheardAgrees
    <2> QED
      BY <2>1, <2>2, <2>3
  <1>10. cmd # "STARTTRANS"
    BY <1>4 DEF Command
  <1> QED
    BY <1>6, <1>7, <1>8, <1>9, <1>10 DEF Cmd

-----------------------------------------------------------------------------
(* Every step keeps it, and at rest the ends agree                          *)

\* A friend request is no transfer: asking and answering leave those alone.
LEMMA FriendWaits ==
    ASSUME TypeOK, NEW u \in User,
           \/ wait_h' = [wait_h EXCEPT ![u] = <<FriendWait>> \o @]
           \/ wait_h' = [wait_h EXCEPT ![u] = RemoveFirst(@, FriendWait)]
    PROVE  \A x \in User, s \in Transfer : Waits(x, s)' <=> Waits(x, s)
  <1> SUFFICES ASSUME NEW x \in User, NEW s \in Transfer
               PROVE  Contains(wait_h'[x], s) <=> Contains(wait_h[x], s)
    BY DEF Waits
  <1>1. /\ wait_h \in [User -> Seq(Entry)] /\ IsInjective(wait_h[u])
        /\ FriendWait \in Entry /\ s # FriendWait
    BY TransfersAssumption DEF TypeOK, Entry
  <1>2. /\ Contains(<<FriendWait>> \o wait_h[u], s) <=> Contains(wait_h[u], s)
        /\ Contains(RemoveFirst(wait_h[u], FriendWait), s) <=> Contains(wait_h[u], s)
    BY <1>1, ConsFacts, RemoveFacts
  <1>3. wait_h'[x] \in {wait_h[x], IF x = u THEN <<FriendWait>> \o wait_h[u] ELSE wait_h[x],
                        IF x = u THEN RemoveFirst(wait_h[u], FriendWait) ELSE wait_h[x]}
    BY <1>1
  <1> QED
    BY <1>2, <1>3

\* A step that only moves handlers or friend requests changes nothing.
LEMMA StillAgrees ==
    ASSUME Agreement, UNCHANGED <<route, up, down, item, thread, offered, accepted, begun, withdrawn>>,
           TypeOK, \A x \in User, s \in Transfer : Waits(x, s)' <=> Waits(x, s)
    PROVE  Agreement'
  <1> SUFFICES ASSUME NEW s \in Transfer PROVE HeardOf(s)' /\ StandingOf(s)'
    BY DEF Agreement
  <1>1. \A x \in Ends(s) : x \in User
    BY RouteFacts DEF TypeOK, Ends
  <1>2. Apart(s)
    BY <1>1 DEF Apart, Sent, Told
  <1> QED
    BY <1>2, ApartKeeps DEF Agreement

\* What is lost stays lost, and a death is a loss.
LEMMA LostStays ==
    ASSUME Next, ~lost'
    PROVE  ~lost /\ \A u \in User : ~Die(u)
  <1>1. \A u \in User : \A cmd, t : Command(u, cmd, t) => ~lost
    BY DEF Command, Request, CancelWaiting, CancelStarted, AcceptWaiting, RefuseWaiting
  <1>2. \A u \in User : Serve(u) => ~lost
    BY <1>1 DEF Serve
  <1>3. \A u \in User : ~Die(u)
    BY DEF Die
  <1>4. \A u \in User : Disconnect(u) \/ Login(u) \/ AskFriend(u) \/ FriendAnswers(u) => ~lost
    BY DEF Disconnect, Login, AskFriend, FriendAnswers, historyVars
  <1>5. \A u \in User, t \in Transfer : AcceptItem(u, t) \/ CancelItem(u, t) \/ ThreadStep(u, t) => ~lost
    BY DEF AcceptItem, CancelItem, ThreadStep, historyVars
  <1>6. \A u \in User : ClientStep(u) => ~lost
    BY <1>5 DEF ClientStep, Receive, historyVars
  <1>7. \A t \in Transfer : SendFile(t) \/ HandlerEnds(t) => ~lost
    BY DEF SendFile, HandlerEnds, historyVars
  <1>8. Sweep => ~lost
    BY DEF Sweep, historyVars
  <1> QED
    BY <1>2, <1>3, <1>4, <1>6, <1>7, <1>8 DEF Next, Defined

\* Every step keeps the agreement.
LEMMA NextAgrees ==
    ASSUME ~Careless, AgreedInv, [Next]_vars
    PROVE  AgreedInv'
  <1>1. ConsentInv /\ ConsentInv'
    BY NextConsent DEF AgreedInv
  <1> SUFFICES ASSUME ~lost' PROVE Undisturbed' /\ Agreement'
    BY <1>1 DEF AgreedInv
  <1>2. TypeOK /\ ~Careless
    BY <1>1 DEF ConsentInv, TransferInv
  <1>3. CASE UNCHANGED vars
    <2>1. ~lost /\ Undisturbed /\ Agreement
      BY <1>3 DEF vars, historyVars, AgreedInv
    <2>2. UNCHANGED <<session, sweep, wait_h>>
      BY <1>3 DEF vars, serverVars
    <2>3. Agreement'
      BY <1>2, <1>3, <2>1, <2>2, StillAgrees DEF vars, clientVars, historyVars, Waits
    <2> QED
      BY <2>1, <2>2, <2>3 DEF Undisturbed
  <1>4. CASE Next
    <2>1. ~lost /\ Undisturbed /\ Agreement /\ \A u \in User : ~Die(u)
      BY <1>4, LostStays DEF AgreedInv
    <2>2. sweep = Idle /\ \A u \in User : session[u] = "on"
      BY <2>1 DEF Undisturbed
    <2>3. UNCHANGED route
      BY <1>4 DEF Next, Defined
    <2>4. ASSUME NEW t \in Transfer, SendFile(t) PROVE Undisturbed' /\ Agreement'
      <3>1. Agreement'
        BY <1>1, <2>1, <2>3, <2>4, SendFileAgrees
      <3> QED
        BY <2>1, <2>4, <3>1 DEF SendFile, serverVars, Undisturbed
    <2>5. ASSUME NEW t \in Transfer, HandlerEnds(t) PROVE Undisturbed' /\ Agreement'
      <3>1. UNCHANGED <<session, sweep, wait_h, up, down, item, thread, offered, accepted, begun, withdrawn>>
        BY <2>5 DEF HandlerEnds, clientVars, historyVars
      <3>2. Agreement'
        BY <1>2, <2>1, <2>3, <3>1, StillAgrees DEF Waits
      <3> QED
        BY <2>1, <3>1, <3>2 DEF Undisturbed
    <2>6. ASSUME NEW u \in User, ClientStep(u) PROVE Undisturbed' /\ Agreement'
      <3>1. CASE Receive(u)
        <4>1. Agreement'
          BY <1>1, <2>1, <2>3, <3>1, ReceiveAgrees
        <4> QED
          BY <2>1, <3>1, <4>1 DEF Receive, serverVars, Undisturbed
      <3>2. ASSUME NEW t \in Transfer, AcceptItem(u, t) PROVE Undisturbed' /\ Agreement'
        <4>1. Agreement'
          BY <1>1, <1>2, <2>1, <2>3, <3>2, AcceptItemAgrees
        <4> QED
          BY <2>1, <3>2, <4>1 DEF AcceptItem, serverVars, Undisturbed
      <3>3. ASSUME NEW t \in Transfer, CancelItem(u, t) PROVE Undisturbed' /\ Agreement'
        <4>1. Agreement'
          BY <1>1, <2>1, <2>3, <3>3, CancelItemAgrees
        <4> QED
          BY <2>1, <3>3, <4>1 DEF CancelItem, serverVars, Undisturbed
      <3>4. ASSUME NEW t \in Transfer, ThreadStep(u, t) PROVE Undisturbed' /\ Agreement'
        <4>1. Agreement'
          BY <1>1, <2>1, <2>3, <3>4, ThreadStepAgrees
        <4> QED
          BY <2>1, <3>4, <4>1 DEF ThreadStep, serverVars, Undisturbed
      <3> QED
        BY <2>6, <3>1, <3>2, <3>3, <3>4 DEF ClientStep
    <2>7. ASSUME NEW u \in User, Serve(u) PROVE Undisturbed' /\ Agreement'
      <3>1. Agreement'
        BY <1>1, <2>1, <2>2, <2>3, <2>7, ServeAgrees
      <3> QED
        BY <2>1, <2>7, <3>1 DEF Serve, Undisturbed
    <2>8. ASSUME NEW u \in User, AskFriend(u) \/ FriendAnswers(u) PROVE Undisturbed' /\ Agreement'
      <3>1. UNCHANGED <<session, sweep, up, down, item, thread, offered, accepted, begun, withdrawn>>
        BY <2>8 DEF AskFriend, FriendAnswers, clientVars, historyVars
      <3>2. \A x \in User, s \in Transfer : Waits(x, s)' <=> Waits(x, s)
        BY <1>2, <2>8, FriendWaits DEF AskFriend, FriendAnswers
      <3>3. Agreement'
        BY <1>2, <2>1, <2>3, <3>1, <3>2, StillAgrees
      <3> QED
        BY <2>1, <3>1, <3>3 DEF Undisturbed
    <2>9. ~Sweep /\ \A u \in User : ~Disconnect(u) /\ ~Login(u)
      BY <2>2 DEF Sweep, Disconnect, Login
    <2> QED
      BY <1>4, <2>1, <2>4, <2>5, <2>6, <2>7, <2>8, <2>9 DEF Next, Defined
  <1> QED
    BY <1>3, <1>4

\* When nothing is on its way, the agreement is that of the ends.
LEMMA QuietAgrees ==
    ASSUME AgreedInv
    PROVE  EndsAgree
  <1> SUFFICES ASSUME Quiet, ~lost, NEW t \in Transfer
               PROVE  /\ Waits(From[t], t) <=> item[To[t]][t] = "QuePend"
                      /\ item[To[t]][t] = "QuePend" => item[From[t]][t] = "QueReady"
                      /\ (\E u \in Ends(t) : <<u, t>> \in withdrawn) =>
                            \A u \in Ends(t) : item[u][t] = "none" \/ thread[u][t] # "none"
    BY DEF EndsAgree
  <1> DEFINE f == From[t]
             r == To[t]
  <1>1. HeardOf(t) /\ StandingOf(t) /\ CourseOf(t) /\ (t \in begun => t \in accepted) /\ route \in Routes
    BY DEF AgreedInv, Agreement, ConsentInv, TransferInv, BegunByConsent, TypeOK
  <1>2. f \in User /\ r \in User /\ Ends(t) = {f, r}
    BY <1>1, RouteFacts DEF Ends
  <1>3. \A x \in {f, r} : \A c : ~Sent(x, c, t) /\ ~Told(x, c, t)
    <2>1. \A y : ~Contains(<<>>, y)
      BY DEF Contains
    <2> QED
      BY <1>2, <2>1 DEF Quiet, Sent, Told
  <1>4. ~Requested(t) /\ ~Asked(t) /\ ~Answered(t) /\ \A x \in {f, r} : ~CalledOff(x, t) /\ ~Withdrew(x, t)
    BY <1>2, <1>3 DEF Requested, Asked, Answered, CalledOff, Withdrew
  <1>5. Waited(t) => item[r][t] = "QuePend" /\ item[f][t] = "QueReady" /\ \A x \in Ends(t) : <<x, t>> \notin withdrawn
    BY <1>1, <1>2, <1>3, <1>4 DEF StandingOf, Open
  <1>6. CASE t \notin offered
    BY <1>1, <1>2, <1>6 DEF HeardOf, CourseOf, Waited
  <1>7. CASE Waited(t)
    BY <1>1, <1>2, <1>5, <1>7 DEF Waited
  <1>8. CASE Over(t)
    BY <1>1, <1>2, <1>4, <1>8 DEF StandingOf, Over, Waited
  <1>9. CASE t \in begun
    <2>1. ~Waited(t) /\ item[r][t] # "QuePend"
      BY <1>1, <1>9 DEF CourseOf, HeardOf
    <2>2. \A x \in Ends(t) : item[x][t] = "none" \/ thread[x][t] # "none"
      BY <1>1, <1>2, <1>3, <1>9 DEF StandingOf
    <2> QED
      BY <2>1, <2>2 DEF Waited
  <1> QED
    BY <1>4, <1>6, <1>7, <1>8, <1>9 DEF Over

\* While users accept only what is pending with them, nobody died and the pool
\* had room, both clients and the server agree on a transfer once all that was
\* said of it is heard, and one that an end withdrew is over at both.
THEOREM TransfersAgree == ASSUME ~Careless PROVE Spec => []EndsAgree
  <1>1. Init => AgreedInv
    <2> SUFFICES ASSUME Init PROVE AgreedInv
      OBVIOUS
    <2>1. ConsentInv
      BY InitConsent
    <2>2. \A x, y : ~Contains(<<>>, x) /\ Before(<<>>, x, y) /\ Once(<<>>, x)
      BY DEF Contains, Before, Once
    <2>3. route \in Routes
      BY DEF Init
    <2>4. ASSUME NEW t \in Transfer PROVE HeardOf(t) /\ StandingOf(t)
      <3>1. From[t] \in User /\ To[t] \in User /\ Ends(t) = {From[t], To[t]}
        BY <2>3, RouteFacts DEF Ends
      <3>2. \A x \in User : up[x] = <<>> /\ down[x] = <<>> /\ item[x][t] = "none" /\ ~Waits(x, t)
        BY <2>2 DEF Init, Waits
      <3>3. t \notin offered /\ t \notin begun /\ t \notin accepted /\ \A x : <<x, t>> \notin withdrawn
        BY DEF Init
      <3>4. \A x \in User : \A c : ~Sent(x, c, t) /\ ~Told(x, c, t)
        BY <2>2, <3>2 DEF Sent, Told
      <3>5. ~Open(t) /\ ~Waited(t) /\ ~Over(t) /\ ~Asked(t) /\ \A x \in User : ~Withdrew(x, t)
        BY <3>1, <3>2, <3>3, <3>4 DEF Open, Waited, Over, Asked, Requested, Withdrew
      <3>6. HeardOf(t)
        BY <2>2, <3>1, <3>2, <3>3, <3>4, <3>5 DEF HeardOf
      <3>7. StandingOf(t)
        BY <3>1, <3>2, <3>3, <3>5 DEF StandingOf
      <3> QED
        BY <3>6, <3>7
    <2>5. Undisturbed
      BY DEF Undisturbed, Init
    <2> QED
      BY <2>1, <2>4, <2>5 DEF AgreedInv, Agreement
  <1>2. AgreedInv /\ [Next]_vars => AgreedInv'
    BY NextAgrees
  <1>3. AgreedInv => EndsAgree
    BY QuietAgrees
  <1> QED
    BY <1>1, <1>2, <1>3, PTL DEF Spec
=============================================================================
