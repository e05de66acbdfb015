-------------------------- MODULE RendezvousProofs --------------------------
(***************************************************************************)
(* For any number of transfers and any faults: a handler at work relays    *)
(* between two connections, its own unless some handler was given up, and  *)
(* every connection is accounted for.                                      *)
(***************************************************************************)
EXTENDS Rendezvous, ListFacts

\* A handler is published once list_add has linked it.
Published(c) == pc[c] # "none" /\ ~(main.at \in {"add", "publish"} /\ main.tr = c)

\* Who holds which handler: what is listed, being listed or told of exists, and what is
\* being removed waits for it.
Known ==
    /\ \A c \in Cred : Contains(trans, c) => Published(c)
    /\ main.at # "idle" => main.tr \in Cred /\ pc[main.tr] # "none"
    /\ \A k \in told : Published(k[1])
    /\ unlinking.tr # None => pc[unlinking.tr] = "unlink"
    /\ unlinking.first => Contains(trans, unlinking.tr)

\* A connection is in one place: in the backlog, with the listener, or wired once.
Placed ==
    /\ \A k \in Conn : conn[k] # "none" => k \in told
    /\ listener.k # None => conn[listener.k] = "reading"
    /\ listener.tr # None => listener.k # None
    /\ \A c \in Cred : \A s \in {0, 1} :
        sockfd[c][s] # None => conn[sockfd[c][s]] \in {"held", "closed"}

\* How many posts the pool thread of a handler has taken.
Taken(c) ==
    IF pc[c] \in {"none", "wait1"} THEN 0 ELSE IF pc[c] = "wait2" THEN 1 ELSE 2

\* As long as nobody struck a handler, each post is one connection wired to it; and one
\* that is at work has two, whatever happens to it then.
Counted(c) ==
    /\ c \in struck => fd[c] = -1 \/ undefined
    /\ c \notin struck => fd[c] \in 0..2 /\ sem[c] + Taken(c) = fd[c]
    /\ fd[c] = 0 => sockfd[c][0] = None
    /\ fd[c] \in 0..1 => sockfd[c][1] = None
    /\ fd[c] \in 1..2 => sockfd[c][0] # None
    /\ fd[c] = 2 \/ pc[c] = "work" => sockfd[c][0] # None /\ sockfd[c][1] # None
    /\ sockfd[c][0] = sockfd[c][1] => sockfd[c][0] = None

\* Without a fault every handler is listed until its work is done, and is found by its
\* own ends.
Faultless ==
    /\ ~undefined
    /\ \A c \in Cred : Published(c) /\ pc[c] # "freed" => Contains(trans, c)
    /\ \A c \in Cred : \A s \in {0, 1} : sockfd[c][s] # None => sockfd[c][s][1] = c
    /\ listener.tr # None => listener.tr = listener.k[1]
    /\ \A k \in Conn : conn[k] = "held" =>
        k \in Closed(k[1]) /\ pc[k[1]] \in {"wait1", "wait2", "work", "close"}

RendezvousInv ==
    /\ TypeOK
    /\ Known
    /\ Placed
    /\ \A c \in Cred : Counted(c)
    /\ FaultFree => Faultless

-----------------------------------------------------------------------------
(* Facts about the operators                                                *)

\* A connection is an end of its transfer.
LEMMA ConnFacts ==
    /\ None \notin Conn /\ None \notin Cred
    /\ \A k \in Conn : k[1] \in Cred /\ k[2] \in {1, 2} /\ k = <<k[1], k[2]>>
    /\ \A c \in Cred : <<c, 1>> \in Conn /\ <<c, 2>> \in Conn
BY RendezvousAssumption DEF Conn

\* Two connections of one transfer are both its ends.
LEMMA BothEnds ==
    ASSUME NEW c \in Cred, NEW k \in Conn, NEW l \in Conn, NEW m \in Conn,
           k[1] = c, l[1] = c, m[1] = c, l # m
    PROVE  k = l \/ k = m
<1>1. k[2] \in {1, 2} /\ l[2] \in {1, 2} /\ m[2] \in {1, 2}
    BY ConnFacts
<1>2. k = <<c, k[2]>> /\ l = <<c, l[2]>> /\ m = <<c, m[2]>>
    BY ConnFacts
<1>3. l[2] # m[2]
    BY <1>2
<1>4. k[2] = l[2] \/ k[2] = m[2]
    BY <1>1, <1>3
<1>5. QED
    BY <1>2, <1>4

\* What tr_find_thread returns is listed, and is what was looked for if that is.
LEMMA FoundFacts ==
    ASSUME TypeOK, NEW c \in Cred, Found(c) # None
    PROVE  /\ Found(c) \in Cred /\ Contains(trans, Found(c))
           /\ Contains(trans, c) => Found(c) = c
<1>1. trans \in Seq(Cred) /\ trans # <<>>
    BY DEF TypeOK, Found
<1>2. Len(trans) \in 1..Len(trans) /\ Last(trans) = trans[Len(trans)]
    BY <1>1 DEF Last
<1>3. Contains(trans, Last(trans)) /\ Last(trans) \in Cred
    BY <1>1, <1>2 DEF Contains
<1>4. Found(c) = IF Contains(trans, c) THEN c ELSE Last(trans)
    BY <1>1 DEF Found
<1>5. QED
    BY <1>3, <1>4

\* A handler that was not struck and still waits has not got both its connections; one
\* whose end is on its way, without a fault, waits.
LEMMA Unwired ==
    ASSUME RendezvousInv, FaultFree, NEW k \in Conn, conn[k] \in {"backlog", "reading"}
    PROVE  /\ fd[k[1]] \in {0, 1}
           /\ pc[k[1]] \in {"wait1", "wait2"}
           /\ Contains(trans, k[1])
<1> DEFINE c == k[1]
<1>1. c \in Cred /\ Faultless /\ Counted(c) /\ c \notin struck
    BY ConnFacts DEF RendezvousInv, FaultFree
<1>2. fd[c] \in 0..2 /\ sem[c] \in Nat /\ sem[c] + Taken(c) = fd[c]
      /\ pc[c] \in {"none", "wait1", "wait2", "work", "close", "unlink", "freed"}
      /\ sockfd[c][0] \in Conn \cup {None} /\ sockfd[c][1] \in Conn \cup {None}
    BY <1>1 DEF RendezvousInv, TypeOK, Counted
<1>3. fd[c] # 2
  <2> SUFFICES ASSUME fd[c] = 2 PROVE FALSE
      OBVIOUS
  <2>1. /\ sockfd[c][0] # None /\ sockfd[c][1] # None /\ sockfd[c][0] # sockfd[c][1]
        /\ sockfd[c][0][1] = c /\ sockfd[c][1][1] = c
      BY <1>1 DEF Counted, Faultless
  <2>2. k = sockfd[c][0] \/ k = sockfd[c][1]
      BY <1>1, <1>2, <2>1, BothEnds
  <2>3. conn[sockfd[c][0]] \in {"held", "closed"} /\ conn[sockfd[c][1]] \in {"held", "closed"}
      BY <1>1, <2>1 DEF RendezvousInv, Placed
  <2>4. QED
      BY <2>2, <2>3
<1>4. Taken(c) # 2
    BY <1>2, <1>3 DEF Taken
<1>5. Published(c)
    BY DEF RendezvousInv, Placed, Known
<1>6. pc[c] \in {"wait1", "wait2"}
    BY <1>2, <1>4, <1>5 DEF Taken, Published
<1>7. Contains(trans, c)
    BY <1>1, <1>5, <1>6 DEF Faultless
<1>8. QED
    BY <1>2, <1>3, <1>6, <1>7

\* Parts of the types, by name.
LEMMA RendezvousTypes ==
    ASSUME TypeOK
    PROVE  /\ trans \in Seq(Cred) /\ IsInjective(trans)
           /\ pc \in [Cred -> {"none", "wait1", "wait2", "work", "close", "unlink", "freed"}]
           /\ fd \in [Cred -> -1..2] /\ sem \in [Cred -> Nat]
           /\ sockfd \in [Cred -> [{0, 1} -> Conn \cup {None}]]
           /\ conn \in [Conn -> {"none", "backlog", "reading", "held", "closed"}]
           /\ told \subseteq Conn /\ struck \subseteq Cred /\ cancelled \subseteq Cred
           /\ raced \in BOOLEAN /\ undefined \in BOOLEAN
           /\ clear \in Cred \cup {None}
           /\ listener.k \in Conn \cup {None} /\ listener.tr \in Cred \cup {None}
           /\ unlinking.tr \in Cred \cup {None}
           /\ main.tr \in Cred \cup {None}
BY DEF TypeOK


-----------------------------------------------------------------------------
(* Each action preserves the invariant                                      *)

\* The count of a handler is kept by what leaves its fields alone.
LEMMA CountedSame ==
    ASSUME UNCHANGED <<pc, fd, sem, sockfd, struck>>, undefined => undefined',
           \A c \in Cred : Counted(c)
    PROVE  \A c \in Cred : Counted(c)'
BY DEF Counted, Taken

\* Nothing is listed, wired or told of at the start.
LEMMA RendezvousInit == Init => RendezvousInv
<1> SUFFICES ASSUME Init PROVE RendezvousInv
    OBVIOUS
<1>1. TypeOK
  <2>1. trans \in Seq(Cred) /\ IsInjective(trans)
      BY DEF Init, IsInjective
  <2>2. main \in [at : {"idle", "add", "publish", "announce", "strike"},
                  tr : Cred \cup {None}, next : Cred \cup {None}]
      BY DEF Init, Idle
  <2>3. listener \in [k : Conn \cup {None}, tr : Cred \cup {None}]
        /\ unlinking \in [tr : Cred \cup {None}, first : BOOLEAN]
      BY DEF Init, NoConn, Nobody
  <2>4. /\ pc \in [Cred -> {"none", "wait1", "wait2", "work", "close", "unlink", "freed"}]
        /\ fd \in [Cred -> -1..2] /\ sem \in [Cred -> Nat]
        /\ sockfd \in [Cred -> [{0, 1} -> Conn \cup {None}]]
        /\ conn \in [Conn -> {"none", "backlog", "reading", "held", "closed"}]
      BY DEF Init
  <2>5. /\ clear \in Cred \cup {None} /\ told \subseteq Conn /\ cancelled \subseteq Cred
        /\ struck \subseteq Cred /\ raced \in BOOLEAN /\ undefined \in BOOLEAN
      BY DEF Init
  <2>6. QED
      BY <2>1, <2>2, <2>3, <2>4, <2>5 DEF TypeOK
<1>2. Known
  <2>1. trans = <<>> /\ main.at = "idle" /\ told = {} /\ unlinking.tr = None /\ unlinking.first = FALSE
      BY DEF Init, Idle, Nobody
  <2>2. \A c : ~Contains(<<>>, c)
      BY DEF Contains
  <2>3. QED
      BY <2>1, <2>2 DEF Known
<1>3. Placed
    BY DEF Init, Placed, NoConn
<1>4. \A c \in Cred : Counted(c)
    BY DEF Init, Counted, Taken
<1>5. Faultless
    BY DEF Init, Faultless, Published, NoConn
<1>6. QED
    BY <1>1, <1>2, <1>3, <1>4, <1>5 DEF RendezvousInv

\* A new handler waits, and is not yet published.
LEMMA AllocInv ==
    ASSUME RendezvousInv, ~undefined, NEW c \in Cred, Alloc(c)
    PROVE  RendezvousInv'
<1>0. TypeOK /\ Known /\ Placed /\ (\A x \in Cred : Counted(x)) /\ (FaultFree => Faultless)
    BY DEF RendezvousInv
<1>t. pc \in [Cred -> {"none", "wait1", "wait2", "work", "close", "unlink", "freed"}]
    BY <1>0, RendezvousTypes
<1>1. /\ pc' = [pc EXCEPT ![c] = "wait1"] /\ pc[c] = "none" /\ main.at = "idle"
      /\ main' = [at |-> "add", tr |-> c, next |-> None]
      /\ UNCHANGED <<trans, fd, sem, sockfd, listener, clear, unlinking, conn, told,
                     cancelled, struck, raced, undefined>>
    BY DEF Alloc, Idle
<1>2. TypeOK'
    BY <1>0, <1>1 DEF TypeOK
<1>3. \A x \in Cred : Published(x)' <=> Published(x)
    BY <1>1, <1>t DEF Published
<1>4. Known'
    BY <1>0, <1>1, <1>3, <1>t, ConnFacts, RendezvousTypes DEF Known
<1>5. Placed'
    BY <1>0, <1>1 DEF Placed
<1>6. \A x \in Cred : Counted(x)'
    BY <1>0, <1>1, <1>t DEF Counted, Taken
<1>7. FaultFree' => Faultless'
  <2> SUFFICES ASSUME FaultFree' PROVE Faultless'
      OBVIOUS
  <2>1. Faultless
      BY <1>0, <1>1 DEF FaultFree
  <2>2. \A x \in Cred : Published(x)' => pc'[x] = pc[x]
      BY <1>1, <1>3, <1>t DEF Published
  <2>3. \A x \in Cred : Published(x)' /\ pc'[x] # "freed" => Contains(trans', x)
      BY <2>1, <2>2, <1>1, <1>3 DEF Faultless
  <2>4. \A k \in Conn : conn[k] = "held" =>
            k \in Closed(k[1])' /\ pc'[k[1]] \in {"wait1", "wait2", "work", "close"}
      BY <2>1, <1>1, <1>t, ConnFacts DEF Faultless, Closed
  <2>5. QED
      BY <2>1, <2>3, <2>4, <1>1 DEF Faultless
<1>8. QED
    BY <1>2, <1>4, <1>5, <1>6, <1>7 DEF RendezvousInv


\* The head read is not yet linked to.
LEMMA ReadNextInv ==
    ASSUME RendezvousInv, ~undefined, ReadNext
    PROVE  RendezvousInv'
<1>0. TypeOK /\ Known /\ Placed /\ (\A x \in Cred : Counted(x)) /\ (FaultFree => Faultless)
    BY DEF RendezvousInv
<1>1. /\ main.at = "add" /\ main'.at = "publish" /\ main'.tr = main.tr
      /\ UNCHANGED <<handlers, listener, clear, unlinking, conn, told, cancelled, struck,
                     raced, undefined>>
    BY <1>0 DEF ReadNext, TypeOK
<1>2. TypeOK'
  <2>1. trans # <<>> => Head(trans) \in Cred
      BY <1>0 DEF TypeOK
  <2>2. main' \in [at : {"idle", "add", "publish", "announce", "strike"},
                   tr : Cred \cup {None}, next : Cred \cup {None}]
      BY <1>0, <2>1 DEF ReadNext, TypeOK
  <2>3. QED
      BY <1>0, <1>1, <2>2 DEF TypeOK, handlers
<1>3. \A x \in Cred : Published(x)' <=> Published(x)
    BY <1>1 DEF Published, handlers
<1>4. Known'
    BY <1>0, <1>1, <1>3, ConnFacts, RendezvousTypes DEF Known, handlers
<1>5. Placed'
    BY <1>0, <1>1 DEF Placed, handlers
<1>6. \A x \in Cred : Counted(x)'
    BY <1>0, <1>1, CountedSame DEF handlers
<1>7. FaultFree' => Faultless'
    BY <1>0, <1>1, <1>3 DEF FaultFree, Faultless, Closed, handlers
<1>8. QED
    BY <1>2, <1>4, <1>5, <1>6, <1>7 DEF RendezvousInv

\* The handler is listed, and was not before.
LEMMA PublishInv ==
    ASSUME RendezvousInv, ~undefined, Publish
    PROVE  RendezvousInv'
<1>0. TypeOK /\ Known /\ Placed /\ (\A x \in Cred : Counted(x)) /\ (FaultFree => Faultless)
    BY DEF RendezvousInv
<1>c. PICK c : c = main.tr
    OBVIOUS
<1>1. /\ main.at = "publish" /\ main'.at = "announce" /\ main'.tr = c
      /\ trans' = <<c>> \o trans
      /\ UNCHANGED <<pc, fd, sem, sockfd, listener, clear, unlinking, conn, told,
                     cancelled, struck>>
    BY <1>0, <1>c DEF Publish, TypeOK
<1>b. raced' \in BOOLEAN /\ undefined' \in BOOLEAN /\ (~raced' => ~raced /\ ~undefined')
  <2>1. raced \in BOOLEAN /\ undefined \in BOOLEAN
      BY <1>0, RendezvousTypes
  <2>2. (raced' = raced /\ undefined' = undefined) \/ (raced' = TRUE /\ undefined' \in BOOLEAN)
      BY DEF Publish
  <2>3. CASE raced' = raced /\ undefined' = undefined
      BY <2>1, <2>3
  <2>4. CASE raced' = TRUE /\ undefined' \in BOOLEAN
      BY <2>4
  <2>5. QED
      BY <2>2, <2>3, <2>4
<1>2. c \in Cred /\ pc[c] # "none"
    BY <1>0, <1>1, <1>c DEF Known
<1>3. ~Contains(trans, c)
    BY <1>0, <1>1, <1>2, <1>c DEF Known, Published
<1>4. /\ trans' \in Seq(Cred) /\ IsInjective(trans')
      /\ \A y : Contains(trans', y) <=> Contains(trans, y) \/ y = c
  <2>1. trans \in Seq(Cred) /\ IsInjective(trans)
      BY <1>0, RendezvousTypes
  <2>2. QED
      BY <1>1, <1>2, <1>3, <2>1, ConsFacts
<1>5. main' \in [at : {"idle", "add", "publish", "announce", "strike"},
                 tr : Cred \cup {None}, next : Cred \cup {None}]
    BY <1>0 DEF Publish, TypeOK
<1>6. TypeOK'
    BY <1>0, <1>1, <1>b, <1>4, <1>5 DEF TypeOK
<1>7. /\ \A x \in Cred : Published(x) => Published(x)'
      /\ \A x \in Cred : Published(x)' => Published(x) \/ x = c
      /\ Published(c)'
    BY <1>1, <1>2, <1>c DEF Published
<1>8. Known'
  <2>1. \A x \in Cred : Contains(trans', x) => Published(x)'
      BY <1>0, <1>4, <1>7 DEF Known
  <2>2. \A k \in told : Published(k[1])'
      BY <1>0, <1>7, ConnFacts, RendezvousTypes DEF Known
  <2>3. QED
      BY <1>0, <1>1, <1>2, <1>4, <2>1, <2>2 DEF Known
<1>9. Placed'
    BY <1>0, <1>1 DEF Placed
<1>10. \A x \in Cred : Counted(x)'
    BY <1>0, <1>1, <1>b, CountedSame
<1>11. FaultFree' => Faultless'
  <2> SUFFICES ASSUME FaultFree' PROVE Faultless'
      OBVIOUS
  <2>1. Faultless /\ ~undefined'
      BY <1>0, <1>1, <1>b DEF FaultFree
  <2>2. \A x \in Cred : Published(x)' /\ pc'[x] # "freed" => Contains(trans', x)
      BY <2>1, <1>1, <1>4, <1>7 DEF Faultless
  <2>3. QED
      BY <2>1, <2>2, <1>1 DEF Faultless, Closed
<1>12. QED
    BY <1>6, <1>8, <1>9, <1>10, <1>11 DEF RendezvousInv

\* The ends told are those of the handler that was published.
LEMMA AnnounceInv ==
    ASSUME RendezvousInv, ~undefined, Announce
    PROVE  RendezvousInv'
<1>0. TypeOK /\ Known /\ Placed /\ (\A x \in Cred : Counted(x)) /\ (FaultFree => Faultless)
    BY DEF RendezvousInv
<1>c. PICK c : c = main.tr
    OBVIOUS
<1>1. /\ main.at = "announce"
      /\ UNCHANGED <<handlers, listener, clear, unlinking, conn, cancelled, struck, raced,
                     undefined>>
    BY <1>c DEF Announce
<1>2. told \subseteq told' /\ told' \subseteq told \cup {<<c, 1>>, <<c, 2>>}
    BY <1>c DEF Announce
<1>3. main'.at = "idle" \/ (main'.at = "strike" /\ main'.tr = c)
    BY <1>0, <1>c DEF Announce, Idle, TypeOK
<1>4. c \in Cred /\ pc[c] # "none"
    BY <1>0, <1>1, <1>c DEF Known
<1>5. TypeOK'
  <2>1. told' \subseteq Conn
      BY <1>2, <1>4, <1>0, ConnFacts, RendezvousTypes
  <2>2. main' \in [at : {"idle", "add", "publish", "announce", "strike"},
                   tr : Cred \cup {None}, next : Cred \cup {None}]
    <3>1. main' = Idle \/ main' = [main EXCEPT !.at = "strike"]
        BY DEF Announce
    <3>2. main \in [at : {"idle", "add", "publish", "announce", "strike"},
                    tr : Cred \cup {None}, next : Cred \cup {None}]
        BY <1>0 DEF TypeOK
    <3>3. QED
        BY <3>1, <3>2 DEF Idle
  <2>3. QED
      BY <1>0, <1>1, <2>1, <2>2 DEF TypeOK, handlers
<1>6. (\A x \in Cred : Published(x)' <=> Published(x)) /\ Published(c)'
    BY <1>1, <1>3, <1>4, <1>c DEF Published, handlers
<1>7. Known'
  <2>1. ASSUME NEW k \in told' PROVE Published(k[1])'
    <3>1. k \in told \/ k[1] = c
        BY <1>2
    <3>2. k \in told => k[1] \in Cred /\ Published(k[1])
        BY <1>0, ConnFacts, RendezvousTypes DEF Known
    <3>3. QED
        BY <3>1, <3>2, <1>6
  <2>2. QED
      BY <1>0, <1>1, <1>3, <1>4, <1>6, <2>1 DEF Known, handlers
<1>8. Placed'
    BY <1>0, <1>1, <1>2 DEF Placed, handlers
<1>9. \A x \in Cred : Counted(x)'
    BY <1>0, <1>1, CountedSame DEF handlers
<1>10. FaultFree' => Faultless'
    BY <1>0, <1>1, <1>6 DEF FaultFree, Faultless, Closed, handlers
<1>11. QED
    BY <1>5, <1>7, <1>8, <1>9, <1>10 DEF RendezvousInv

\* What a late CANCELTRANS finds is a handler of the list.
LEMMA ReleaseInv ==
    ASSUME RendezvousInv, ~undefined, NEW c \in Cred, Release(c)
    PROVE  RendezvousInv'
<1>0. TypeOK /\ Known /\ Placed /\ (\A x \in Cred : Counted(x)) /\ (FaultFree => Faultless)
    BY DEF RendezvousInv
<1>1. /\ main.at = "idle" /\ cancelled' = cancelled \cup {c}
      /\ UNCHANGED <<handlers, listener, clear, unlinking, conn, told, struck, raced,
                     undefined>>
    BY DEF Release, Idle
<1>2. \/ main' = Idle
      \/ Found(c) # None /\ main' = [at |-> "strike", tr |-> Found(c), next |-> None]
    BY DEF Release
<1>3. Found(c) # None => Found(c) \in Cred /\ pc[Found(c)] # "none"
    BY <1>0, FoundFacts DEF Known, Published
<1>4. main'.at = "idle" \/ (main'.at = "strike" /\ main'.tr \in Cred /\ pc[main'.tr] # "none")
    BY <1>2, <1>3 DEF Idle
<1>5. TypeOK'
  <2>1. main' \in [at : {"idle", "add", "publish", "announce", "strike"},
                   tr : Cred \cup {None}, next : Cred \cup {None}]
      BY <1>2, <1>3 DEF Idle
  <2>2. QED
      BY <1>0, <1>1, <2>1 DEF TypeOK, handlers
<1>6. \A x \in Cred : Published(x)' <=> Published(x)
    BY <1>1, <1>4 DEF Published, handlers
<1>7. Known'
    BY <1>0, <1>1, <1>4, <1>6, ConnFacts, RendezvousTypes DEF Known, handlers
<1>8. Placed'
    BY <1>0, <1>1 DEF Placed, handlers
<1>9. \A x \in Cred : Counted(x)'
    BY <1>0, <1>1, CountedSame DEF handlers
<1>10. FaultFree' => Faultless'
    BY <1>0, <1>1, <1>6 DEF FaultFree, Faultless, Closed, handlers
<1>11. QED
    BY <1>5, <1>7, <1>8, <1>9, <1>10 DEF RendezvousInv


\* A strike takes fd out of bounds for good, and ends what is promised without a fault.
LEMMA StrikeInv ==
    ASSUME RendezvousInv, ~undefined, NEW c \in Cred, Strike(c),
           main' \in [at : {"idle", "add", "publish", "announce", "strike"},
                      tr : Cred \cup {None}, next : Cred \cup {None}],
           clear' \in Cred \cup {None},
           main' = main \/ (main.at = "strike" /\ main'.at = "idle"),
           UNCHANGED <<trans, pc, sockfd, listener, unlinking, conn, told, cancelled, raced>>
    PROVE  RendezvousInv'
<1>0. TypeOK /\ Known /\ Placed /\ (\A x \in Cred : Counted(x))
    BY DEF RendezvousInv
<1>1. /\ struck' = struck \cup {c}
      /\ \/ fd' = [fd EXCEPT ![c] = -1] /\ sem' = [sem EXCEPT ![c] = @ + 1] /\ undefined' = undefined
         \/ undefined' = TRUE /\ fd' = fd /\ sem' = sem
    BY DEF Strike
<1>t. fd \in [Cred -> -1..2] /\ sem \in [Cred -> Nat] /\ struck \subseteq Cred
    BY <1>0, RendezvousTypes
<1>2. fd' \in [Cred -> -1..2] /\ sem' \in [Cred -> Nat] /\ struck' \subseteq Cred
    BY <1>1, <1>t
<1>3. undefined' \in BOOLEAN
    BY <1>0, <1>1, RendezvousTypes
<1>4. TypeOK'
    BY <1>0, <1>1, <1>2, <1>3 DEF TypeOK
<1>5. \A x \in Cred : Published(x)' <=> Published(x)
    BY DEF Published
<1>6. Known'
    BY <1>0, <1>5, ConnFacts, RendezvousTypes DEF Known
<1>7. Placed'
    BY <1>0 DEF Placed
<1>8. ASSUME NEW x \in Cred PROVE Counted(x)'
  <2>1. Counted(x)
      BY <1>0
  <2>2. x # c => fd'[x] = fd[x] /\ sem'[x] = sem[x] /\ (x \in struck' <=> x \in struck)
      BY <1>1, <1>t
  <2>3. fd'[c] = -1 \/ undefined'
      BY <1>1, <1>t
  <2>4. fd'[x] = fd[x] \/ fd'[x] = -1
      BY <1>1, <1>t
  <2>5. Taken(x)' = Taken(x)
      BY DEF Taken
  <2>6. x \in struck' => fd'[x] = -1 \/ undefined'
      BY <2>1, <2>2, <2>3 DEF Counted
  <2>7. x \notin struck' => fd'[x] \in 0..2 /\ sem'[x] + Taken(x)' = fd'[x]
      BY <2>1, <2>2, <2>5, <1>1 DEF Counted
  <2>8. QED
      BY <2>1, <2>4, <2>6, <2>7 DEF Counted
<1>9. ~FaultFree'
    BY <1>1 DEF FaultFree
<1>10. QED
    BY <1>4, <1>6, <1>7, <1>8, <1>9 DEF RendezvousInv

\* The main thread strikes what it looked up or could not announce.
LEMMA MainStrikeInv ==
    ASSUME RendezvousInv, ~undefined, MainStrike
    PROVE  RendezvousInv'
<1>1. main.tr \in Cred /\ clear \in Cred \cup {None}
    BY DEF RendezvousInv, Known, MainStrike, TypeOK
<1>2. Idle \in [at : {"idle", "add", "publish", "announce", "strike"},
                tr : Cred \cup {None}, next : Cred \cup {None}]
    BY DEF Idle
<1>3. Idle.at = "idle"
    BY DEF Idle
<1>4. QED
    BY <1>1, <1>2, <1>3, StrikeInv DEF MainStrike

\* The clear thread strikes what it found listed.
LEMMA ClearStrikeInv ==
    ASSUME RendezvousInv, ~undefined, ClearStrike
    PROVE  RendezvousInv'
<1>1. clear \in Cred /\ main \in [at : {"idle", "add", "publish", "announce", "strike"},
                                  tr : Cred \cup {None}, next : Cred \cup {None}]
    BY DEF RendezvousInv, ClearStrike, TypeOK
<1>2. QED
    BY <1>1, StrikeInv DEF ClearStrike

\* Looking at a handler changes nothing of it.
LEMMA ClearCheckInv ==
    ASSUME RendezvousInv, ~undefined, NEW c \in Cred, ClearCheck(c)
    PROVE  RendezvousInv'
<1>0. TypeOK /\ Known /\ Placed /\ (\A x \in Cred : Counted(x)) /\ (FaultFree => Faultless)
    BY DEF RendezvousInv
<1>1. /\ clear' = c
      /\ UNCHANGED <<handlers, main, listener, unlinking, conn, told, cancelled, struck,
                     raced, undefined>>
    BY DEF ClearCheck
<1>2. TypeOK'
    BY <1>0, <1>1 DEF TypeOK, handlers
<1>3. Known' /\ Placed'
    BY <1>0, <1>1 DEF Known, Placed, Published, handlers
<1>4. \A x \in Cred : Counted(x)'
    BY <1>0, <1>1, CountedSame DEF handlers
<1>5. FaultFree' => Faultless'
    BY <1>0, <1>1 DEF FaultFree, Faultless, Published, Closed, handlers
<1>6. QED
    BY <1>2, <1>3, <1>4, <1>5 DEF RendezvousInv

\* A step of a pool thread that only moves it on, from a handler it has not given up.
LEMMA MovesOn ==
    ASSUME RendezvousInv, NEW c \in Cred, NEW at,
           pc[c] \in {"wait1", "wait2", "work"}, at \in {"wait2", "work", "close"},
           pc' \in [Cred -> {"none", "wait1", "wait2", "work", "close", "unlink", "freed"}],
           pc'[c] = at, \A x \in Cred : x # c => pc'[x] = pc[x], sem' \in [Cred -> Nat],
           UNCHANGED <<trans, fd, sockfd, main, listener, clear, unlinking, conn, told,
                       cancelled, struck, raced, undefined>>
    PROVE  TypeOK' /\ Known' /\ Placed' /\ (FaultFree' => Faultless')
<1>0. TypeOK /\ Known /\ Placed /\ (FaultFree => Faultless)
    BY DEF RendezvousInv
<1>t. pc \in [Cred -> {"none", "wait1", "wait2", "work", "close", "unlink", "freed"}]
    BY <1>0, RendezvousTypes
<1>1. TypeOK'
    BY <1>0 DEF TypeOK
<1>2. \A x \in Cred : Published(x)' <=> Published(x)
    BY <1>t DEF Published
<1>3. \A x \in Cred : (pc'[x] = "unlink" <=> pc[x] = "unlink") /\ (pc'[x] = "none" <=> pc[x] = "none")
                      /\ (pc'[x] = "freed" <=> pc[x] = "freed")
    BY <1>t
<1>4. Known'
    BY <1>0, <1>2, <1>3, ConnFacts, RendezvousTypes DEF Known
<1>5. Placed'
    BY <1>0 DEF Placed
<1>6. FaultFree' => Faultless'
  <2> SUFFICES ASSUME FaultFree' PROVE Faultless'
      OBVIOUS
  <2>1. Faultless
      BY <1>0 DEF FaultFree
  <2>2. \A x \in Cred : pc[x] \in {"wait1", "wait2", "work", "close"} =>
            pc'[x] \in {"wait1", "wait2", "work", "close"}
      BY <1>t
  <2>3. \A k \in Conn : conn[k] = "held" =>
            k \in Closed(k[1])' /\ pc'[k[1]] \in {"wait1", "wait2", "work", "close"}
      BY <2>1, <2>2, ConnFacts DEF Faultless, Closed
  <2>4. \A x \in Cred : Published(x)' /\ pc'[x] # "freed" => Contains(trans', x)
      BY <2>1, <1>2, <1>3 DEF Faultless
  <2>5. QED
      BY <2>1, <2>3, <2>4 DEF Faultless
<1>7. QED
    BY <1>1, <1>4, <1>5, <1>6

\* Who goes to work took two posts of a handler nobody struck: two connections.
LEMMA WakeInv ==
    ASSUME RendezvousInv, ~undefined, NEW c \in Cred, Wake(c)
    PROVE  RendezvousInv'
<1>0. TypeOK /\ (\A x \in Cred : Counted(x))
    BY DEF RendezvousInv
<1>t. /\ pc \in [Cred -> {"none", "wait1", "wait2", "work", "close", "unlink", "freed"}]
      /\ sem \in [Cred -> Nat] /\ fd \in [Cred -> -1..2]
    BY <1>0, RendezvousTypes
<1>1. /\ pc[c] \in {"wait1", "wait2"} /\ sem[c] > 0
      /\ sem' = [sem EXCEPT ![c] = @ - 1]
      /\ UNCHANGED <<trans, fd, sockfd, main, listener, clear, unlinking, conn, told,
                     cancelled, struck, raced, undefined>>
    BY DEF Wake
<1>2. PICK at \in {"wait2", "work", "close"} :
        /\ pc' = [pc EXCEPT ![c] = at]
        /\ at = IF fd[c] = -1 THEN "close" ELSE IF pc[c] = "wait1" THEN "wait2" ELSE "work"
    BY DEF Wake
<1>3. sem' \in [Cred -> Nat] /\ sem'[c] = sem[c] - 1 /\ pc'[c] = at
    BY <1>1, <1>2, <1>t
<1>4. ASSUME NEW x \in Cred, x # c PROVE Counted(x)'
  <2>1. sem'[x] = sem[x] /\ pc'[x] = pc[x] /\ Counted(x)
      BY <1>0, <1>1, <1>2, <1>4, <1>t
  <2>2. QED
      BY <2>1, <1>1 DEF Counted, Taken
<1>5. Counted(c)'
  <2>1. Counted(c)
      BY <1>0
  <2>2. CASE c \in struck
    <3>1. fd[c] = -1 /\ at = "close"
        BY <2>1, <2>2, <1>2 DEF Counted
    <3>2. QED
        BY <2>1, <2>2, <3>1, <1>1, <1>3 DEF Counted
  <2>3. CASE c \notin struck
    <3>1. fd[c] \in 0..2 /\ sem[c] + Taken(c) = fd[c] /\ fd[c] # -1
        BY <2>1, <2>3 DEF Counted
    <3>2. \/ pc[c] = "wait1" /\ at = "wait2" /\ Taken(c) = 0 /\ Taken(c)' = 1
          \/ pc[c] = "wait2" /\ at = "work" /\ Taken(c) = 1 /\ Taken(c)' = 2
        BY <3>1, <1>1, <1>2, <1>3 DEF Taken
    <3>3. sem'[c] + Taken(c)' = fd[c]
        BY <3>1, <3>2, <1>1, <1>3, <1>t
    <3>4. at = "work" => fd[c] = 2
        BY <3>1, <3>2, <1>1, <1>t
    <3>5. QED
        BY <2>1, <2>3, <3>1, <3>3, <3>4, <1>1, <1>3 DEF Counted
  <2>4. QED
      BY <2>2, <2>3
<1>6. \A x \in Cred : Counted(x)'
    BY <1>4, <1>5
<1>7. /\ pc[c] \in {"wait1", "wait2", "work"}
      /\ pc' \in [Cred -> {"none", "wait1", "wait2", "work", "close", "unlink", "freed"}]
      /\ \A x \in Cred : x # c => pc'[x] = pc[x]
    BY <1>1, <1>2, <1>t
<1>8. TypeOK' /\ Known' /\ Placed' /\ (FaultFree' => Faultless')
    BY <1>1, <1>2, <1>3, <1>7, MovesOn
<1>9. QED
    BY <1>6, <1>8 DEF RendezvousInv

\* Work ends with both connections still held.
LEMMA EndWorkInv ==
    ASSUME RendezvousInv, ~undefined, NEW c \in Cred, EndWork(c)
    PROVE  RendezvousInv'
<1>0. TypeOK /\ (\A x \in Cred : Counted(x))
    BY DEF RendezvousInv
<1>t. /\ pc \in [Cred -> {"none", "wait1", "wait2", "work", "close", "unlink", "freed"}]
      /\ sem \in [Cred -> Nat]
    BY <1>0, RendezvousTypes
<1>1. /\ pc[c] = "work" /\ pc' = [pc EXCEPT ![c] = "close"]
      /\ UNCHANGED <<trans, fd, sem, sockfd, main, listener, clear, unlinking, conn, told,
                     cancelled, struck, raced, undefined>>
    BY DEF EndWork
<1>2. \A x \in Cred : Taken(x)' = Taken(x) /\ (pc'[x] = "work" => pc[x] = "work")
    BY <1>1, <1>t DEF Taken
<1>3. \A x \in Cred : Counted(x)'
    BY <1>0, <1>1, <1>2 DEF Counted
<1>4. pc[c] \in {"wait1", "wait2", "work"} /\ "close" \in {"wait2", "work", "close"}
      /\ pc' \in [Cred -> {"none", "wait1", "wait2", "work", "close", "unlink", "freed"}]
      /\ pc'[c] = "close" /\ (\A x \in Cred : x # c => pc'[x] = pc[x])
      /\ sem' \in [Cred -> Nat]
    BY <1>1, <1>t
<1>5. TypeOK' /\ Known' /\ Placed' /\ (FaultFree' => Faultless')
    BY <1>1, <1>4, MovesOn
<1>6. QED
    BY <1>3, <1>5 DEF RendezvousInv


\* What a handler closes is closed, and nobody else has it.
LEMMA CloseBothInv ==
    ASSUME RendezvousInv, ~undefined, NEW c \in Cred, CloseBoth(c)
    PROVE  RendezvousInv'
<1>0. TypeOK /\ Known /\ Placed /\ (\A x \in Cred : Counted(x)) /\ (FaultFree => Faultless)
    BY DEF RendezvousInv
<1>t. /\ pc \in [Cred -> {"none", "wait1", "wait2", "work", "close", "unlink", "freed"}]
      /\ conn \in [Conn -> {"none", "backlog", "reading", "held", "closed"}]
      /\ sockfd \in [Cred -> [{0, 1} -> Conn \cup {None}]]
      /\ listener.k \in Conn \cup {None} /\ unlinking.tr \in Cred \cup {None}
    BY <1>0, RendezvousTypes
<1>1. /\ pc[c] = "close" /\ pc' = [pc EXCEPT ![c] = "unlink"]
      /\ UNCHANGED <<trans, fd, sem, sockfd, main, listener, clear, unlinking, told,
                     cancelled, struck, raced, undefined>>
    BY DEF CloseBoth
<1>2. conn' \in [Conn -> {"none", "backlog", "reading", "held", "closed"}]
      /\ \A k \in Conn : conn'[k] = IF k \in Closed(c) THEN "closed" ELSE conn[k]
    BY <1>t DEF CloseBoth
<1>3. \A k \in Closed(c) : k \in Conn /\ conn[k] \in {"held", "closed"}
    BY <1>0, ConnFacts DEF Closed, Placed
<1>4. TypeOK'
    BY <1>0, <1>1, <1>2, <1>t DEF TypeOK
<1>5. /\ \A x \in Cred : Published(x)' <=> Published(x)
      /\ \A x \in Cred : Taken(x)' = Taken(x) /\ (pc'[x] = "work" => pc[x] = "work")
      /\ \A x \in Cred : x # c => pc'[x] = pc[x]
      /\ \A x \in Cred : pc'[x] = "freed" => pc[x] = "freed"
      /\ \A x \in Cred : pc'[x] = "none" => pc[x] = "none"
      /\ \A x \in Cred : pc[x] = "unlink" => pc'[x] = "unlink"
    BY <1>1, <1>t DEF Published, Taken
<1>6. Known'
    BY <1>0, <1>1, <1>5, <1>t, ConnFacts, RendezvousTypes DEF Known
<1>7. Placed'
  <2>1. \A k \in Conn : conn'[k] # "none" => k \in told'
      BY <1>0, <1>1, <1>2, <1>3 DEF Placed
  <2>2. listener.k # None => conn'[listener.k] = "reading"
      BY <1>0, <1>2, <1>3, <1>t DEF Placed
  <2>3. ASSUME NEW x \in Cred, NEW s \in {0, 1}, sockfd[x][s] # None
        PROVE  conn'[sockfd[x][s]] \in {"held", "closed"}
    <3>1. sockfd[x][s] \in Conn /\ conn[sockfd[x][s]] \in {"held", "closed"}
        BY <1>0, <1>t, <2>3 DEF Placed
    <3>2. QED
        BY <3>1, <1>2
  <2>4. QED
      BY <1>0, <1>1, <2>1, <2>2, <2>3 DEF Placed
<1>8. \A x \in Cred : Counted(x)'
    BY <1>0, <1>1, <1>5 DEF Counted
<1>9. FaultFree' => Faultless'
  <2> SUFFICES ASSUME FaultFree' PROVE Faultless'
      OBVIOUS
  <2>1. Faultless
      BY <1>0, <1>1 DEF FaultFree
  <2>2. ASSUME NEW k \in Conn, conn'[k] = "held"
        PROVE  k \in Closed(k[1])' /\ pc'[k[1]] \in {"wait1", "wait2", "work", "close"}
    <3>1. k \notin Closed(c) /\ conn[k] = "held"
        BY <1>2, <2>2
    <3>2. k \in Closed(k[1]) /\ pc[k[1]] \in {"wait1", "wait2", "work", "close"} /\ k[1] # c
        BY <2>1, <3>1 DEF Faultless
    <3>3. QED
        BY <3>2, <1>1, <1>5, ConnFacts DEF Closed
  <2>3. \A x \in Cred : Published(x)' /\ pc'[x] # "freed" => Contains(trans', x)
      BY <2>1, <1>1, <1>5, <1>t DEF Faultless
  <2>4. QED
      BY <2>1, <2>2, <2>3, <1>1 DEF Faultless
<1>10. QED
    BY <1>4, <1>6, <1>7, <1>8, <1>9 DEF RendezvousInv

\* The neighbours are read under tr_lock.
LEMMA BeginUnlinkInv ==
    ASSUME RendezvousInv, ~undefined, NEW c \in Cred, BeginUnlink(c)
    PROVE  RendezvousInv'
<1>0. TypeOK /\ Known /\ Placed /\ (\A x \in Cred : Counted(x)) /\ (FaultFree => Faultless)
    BY DEF RendezvousInv
<1>1. /\ pc[c] = "unlink"
      /\ unlinking' = [tr |-> c, first |-> trans # <<>> /\ Head(trans) = c]
      /\ UNCHANGED <<handlers, main, listener, clear, conn, told, cancelled, struck,
                     raced, undefined>>
    BY DEF BeginUnlink
<1>2. unlinking' \in [tr : Cred \cup {None}, first : BOOLEAN]
    BY <1>1
<1>3. TypeOK'
    BY <1>0, <1>1, <1>2 DEF TypeOK, handlers
<1>4. unlinking'.tr = c /\ (unlinking'.first => trans # <<>> /\ Head(trans) = c)
    BY <1>1
<1>5. trans # <<>> /\ Head(trans) = c => Contains(trans, c)
    BY <1>0, RendezvousTypes, HeadFacts
<1>6. Known'
    BY <1>0, <1>1, <1>4, <1>5 DEF Known, Published, handlers
<1>7. Placed'
    BY <1>0, <1>1 DEF Placed, handlers
<1>8. \A x \in Cred : Counted(x)'
    BY <1>0, <1>1, CountedSame DEF handlers
<1>9. FaultFree' => Faultless'
    BY <1>0, <1>1 DEF FaultFree, Faultless, Published, Closed, handlers
<1>10. QED
    BY <1>3, <1>6, <1>7, <1>8, <1>9 DEF RendezvousInv

\* What is left of the list after its first i handlers.
LEMMA RestOfList ==
    ASSUME NEW s \in Seq(Cred), IsInjective(s), NEW i \in 1..Len(s)
    PROVE  /\ SubSeq(s, i + 1, Len(s)) \in Seq(Cred)
           /\ IsInjective(SubSeq(s, i + 1, Len(s)))
           /\ \A x : Contains(SubSeq(s, i + 1, Len(s)), x) => Contains(s, x)
           /\ i = 1 => \A x : Contains(s, x) /\ x # s[1] => Contains(SubSeq(s, i + 1, Len(s)), x)
<1> DEFINE r == SubSeq(s, i + 1, Len(s))
<1>1. /\ r \in Seq(Cred) /\ Len(r) = Len(s) - i /\ DOMAIN r = 1..Len(r)
      /\ Len(s) \in Nat /\ Len(r) \in Nat
      /\ \A j \in 1..Len(r) : r[j] = s[j + i] /\ j + i \in 1..Len(s)
    OBVIOUS
<1> HIDE DEF r
<1>2. \A j, k \in 1..Len(s) : s[j] = s[k] => j = k
    BY DEF IsInjective
<1>3. IsInjective(r)
  <2> SUFFICES ASSUME NEW j \in 1..Len(r), NEW k \in 1..Len(r), r[j] = r[k] PROVE j = k
      BY <1>1 DEF IsInjective
  <2>1. j + i = k + i
      BY <1>1, <1>2
  <2>2. QED
      BY <2>1, <1>1
<1>4. \A x : Contains(r, x) => Contains(s, x)
    BY <1>1 DEF Contains
<1>5. ASSUME i = 1, NEW x, Contains(s, x), x # s[1] PROVE Contains(r, x)
  <2>1. PICK j \in 1..Len(s) : s[j] = x
      BY <1>5 DEF Contains
  <2>2. j - 1 \in 1..Len(r) /\ (j - 1) + i = j
      BY <2>1, <1>1, <1>5
  <2>3. QED
      BY <2>1, <2>2, <1>1 DEF Contains
<1>6. QED
    BY <1>1, <1>3, <1>4, <1>5 DEF r

\* Without a fault only what is unlinked leaves the list, and it is found there.
LEMMA EndUnlinkInv ==
    ASSUME RendezvousInv, ~undefined, NEW c \in Cred, EndUnlink(c)
    PROVE  RendezvousInv'
<1>0. TypeOK /\ Known /\ Placed /\ (\A x \in Cred : Counted(x)) /\ (FaultFree => Faultless)
    BY DEF RendezvousInv
<1>t. /\ pc \in [Cred -> {"none", "wait1", "wait2", "work", "close", "unlink", "freed"}]
      /\ trans \in Seq(Cred) /\ IsInjective(trans)
      /\ sockfd \in [Cred -> [{0, 1} -> Conn \cup {None}]]
      /\ raced \in BOOLEAN
    BY <1>0, RendezvousTypes
<1>1. /\ unlinking.tr = c /\ unlinking' = Nobody /\ pc' = [pc EXCEPT ![c] = "freed"]
      /\ UNCHANGED <<fd, sem, sockfd, main, listener, clear, conn, told, cancelled, struck>>
    BY DEF EndUnlink
<1>2. pc[c] = "unlink"
    BY <1>0, <1>1, ConnFacts DEF Known
<1>3. /\ trans' \in Seq(Cred) /\ IsInjective(trans')
      /\ \A x \in Cred : Contains(trans', x) => Contains(trans, x)
      /\ raced' = raced \/ raced' = TRUE
      /\ ~raced' => \A x \in Cred : Contains(trans, x) /\ x # c => Contains(trans', x)
      /\ undefined' = undefined \/ undefined' = ~Contains(trans, c)
  <2>1. CASE unlinking.first
    <3>1. PICK i \in DOMAIN trans :
            trans[i] = c /\ trans' = SubSeq(trans, i + 1, Len(trans)) /\ raced' = (raced \/ i > 1)
        BY <2>1, Zenon DEF EndUnlink
    <3>2. i \in 1..Len(trans) /\ (~raced' => i = 1)
      <4>1. i \in 1..Len(trans)
          BY <1>t
      <4>2. ~raced' => ~(i > 1)
          BY <3>1, Zenon
      <4>3. QED
          BY <4>1, <4>2
    <3>3. undefined' = undefined /\ (raced' = raced \/ raced' = TRUE)
        BY <2>1, <3>1, <1>t DEF EndUnlink
    <3>4. /\ trans' \in Seq(Cred) /\ IsInjective(trans')
          /\ \A x \in Cred : Contains(trans', x) => Contains(trans, x)
          /\ i = 1 => \A x \in Cred : Contains(trans, x) /\ x # c => Contains(trans', x)
        BY <3>1, <3>2, <1>t, RestOfList
    <3>5. QED
        BY <3>2, <3>3, <3>4
  <2>2. CASE ~unlinking.first
    <3>1. trans' = RemoveFirst(trans, c) /\ undefined' = ~Contains(trans, c) /\ raced' = raced
        BY <2>2 DEF EndUnlink
    <3>2. /\ trans' \in Seq(Cred) /\ IsInjective(trans')
          /\ \A x : Contains(trans', x) <=> Contains(trans, x) /\ x # c
        BY <3>1, <1>t, RemoveFacts
    <3>3. QED
        BY <3>1, <3>2
  <2>3. QED
      BY <2>1, <2>2
<1>4. undefined' \in BOOLEAN /\ raced' \in BOOLEAN
    BY <1>0, <1>3, <1>t, RendezvousTypes
<1>5. TypeOK'
  <2>1. unlinking' \in [tr : Cred \cup {None}, first : BOOLEAN]
      BY <1>1 DEF Nobody
  <2>2. pc' \in [Cred -> {"none", "wait1", "wait2", "work", "close", "unlink", "freed"}]
      BY <1>1, <1>t
  <2>3. QED
      BY <1>0, <1>1, <1>3, <1>4, <2>1, <2>2 DEF TypeOK
<1>6. /\ \A x \in Cred : Published(x)' <=> Published(x)
      /\ \A x \in Cred : Taken(x)' = Taken(x) /\ (pc'[x] = "work" => pc[x] = "work")
      /\ \A x \in Cred : x # c => pc'[x] = pc[x]
      /\ \A x \in Cred : pc'[x] = "none" => pc[x] = "none"
      /\ pc'[c] = "freed"
    BY <1>1, <1>2, <1>t DEF Published, Taken
<1>7. unlinking'.tr = None /\ unlinking'.first = FALSE
    BY <1>1 DEF Nobody
<1>8. Known'
    BY <1>0, <1>1, <1>3, <1>6, <1>7, ConnFacts, RendezvousTypes DEF Known
<1>9. Placed'
    BY <1>0, <1>1 DEF Placed
<1>10. \A x \in Cred : Counted(x)'
    BY <1>0, <1>1, <1>6 DEF Counted
<1>11. FaultFree' => Faultless'
  <2> SUFFICES ASSUME FaultFree' PROVE Faultless'
      OBVIOUS
  <2>1. ~raced' /\ FaultFree
      BY <1>1, <1>3, <1>t DEF FaultFree
  <2>2. Faultless /\ c \notin struck
      BY <2>1, <1>0 DEF FaultFree
  <2>3. fd[c] = 2
    <3>1. fd[c] \in 0..2 /\ sem[c] + Taken(c) = fd[c] /\ sem[c] \in Nat
        BY <1>0, <2>2, RendezvousTypes DEF Counted
    <3>2. Taken(c) = 2
        BY <1>2 DEF Taken
    <3>3. QED
        BY <3>1, <3>2
  <2>4. Published(c)
    <3>1. sockfd[c][0] # None /\ sockfd[c][0] \in Conn /\ sockfd[c][0][1] = c
        BY <2>2, <2>3, <1>0, <1>t DEF Counted, Faultless
    <3>2. sockfd[c][0] \in told
        BY <3>1, <1>0 DEF Placed
    <3>3. QED
        BY <3>1, <3>2, <1>0 DEF Known
  <2>5. Contains(trans, c)
      BY <2>2, <2>4, <1>2 DEF Faultless
  <2>6. ~undefined'
      BY <2>5, <1>3
  <2>7. \A x \in Cred : Published(x)' /\ pc'[x] # "freed" => Contains(trans', x)
      BY <2>1, <2>2, <1>3, <1>6 DEF Faultless
  <2>8. ASSUME NEW k \in Conn, conn'[k] = "held"
        PROVE  k \in Closed(k[1])' /\ pc'[k[1]] \in {"wait1", "wait2", "work", "close"}
    <3>1. k \in Closed(k[1]) /\ pc[k[1]] \in {"wait1", "wait2", "work", "close"}
        BY <2>2, <2>8, <1>1 DEF Faultless
    <3>2. k[1] # c
        BY <3>1, <1>2
    <3>3. QED
        BY <3>1, <3>2, <1>1, <1>6, ConnFacts DEF Closed
  <2>9. QED
      BY <2>2, <2>6, <2>7, <2>8, <1>1 DEF Faultless
<1>12. QED
    BY <1>5, <1>8, <1>9, <1>10, <1>11 DEF RendezvousInv


\* A step that only moves a connection on its way to the listener, or gives it up there.
LEMMA OnItsWay ==
    ASSUME RendezvousInv,
           UNCHANGED <<trans, pc, fd, sem, sockfd, main, clear, unlinking, told, cancelled,
                       struck, raced, undefined>>,
           conn' \in [Conn -> {"none", "backlog", "reading", "held", "closed"}],
           listener' \in [k : Conn \cup {None}, tr : Cred \cup {None}],
           \A k \in Conn : conn'[k] # conn[k] =>
              conn[k] \in {"none", "backlog", "reading"} /\ conn'[k] # "held" /\ k \in told,
           listener'.k # None => conn'[listener'.k] = "reading",
           listener'.tr # None => listener'.k # None /\ (FaultFree => listener'.tr = listener'.k[1])
    PROVE  RendezvousInv'
<1>0. TypeOK /\ Known /\ Placed /\ (\A x \in Cred : Counted(x)) /\ (FaultFree => Faultless)
    BY DEF RendezvousInv
<1>t. sockfd \in [Cred -> [{0, 1} -> Conn \cup {None}]]
      /\ conn \in [Conn -> {"none", "backlog", "reading", "held", "closed"}]
    BY <1>0, RendezvousTypes
<1>1. TypeOK'
    BY <1>0 DEF TypeOK
<1>2. Known'
    BY <1>0 DEF Known, Published
<1>3. Placed'
  <2>1. \A k \in Conn : conn'[k] # "none" => k \in told'
      BY <1>0 DEF Placed
  <2>2. ASSUME NEW x \in Cred, NEW s \in {0, 1}, sockfd[x][s] # None
        PROVE  conn'[sockfd[x][s]] \in {"held", "closed"}
    <3>1. sockfd[x][s] \in Conn /\ conn[sockfd[x][s]] \in {"held", "closed"}
        BY <1>0, <1>t, <2>2 DEF Placed
    <3>2. conn'[sockfd[x][s]] = conn[sockfd[x][s]]
        BY <3>1
    <3>3. QED
        BY <3>1, <3>2
  <2>3. QED
      BY <2>1, <2>2 DEF Placed
<1>4. \A x \in Cred : Counted(x)'
    BY <1>0, CountedSame
<1>5. FaultFree' => Faultless'
  <2> SUFFICES ASSUME FaultFree' PROVE Faultless'
      OBVIOUS
  <2>1. Faultless /\ FaultFree
      BY <1>0 DEF FaultFree
  <2>2. \A k \in Conn : conn'[k] = "held" => conn[k] = "held"
      OBVIOUS
  <2>3. QED
      BY <2>1, <2>2 DEF Faultless, Published, Closed
<1>6. QED
    BY <1>1, <1>2, <1>3, <1>4, <1>5 DEF RendezvousInv

\* An end that was told connects.
LEMMA ConnectInv ==
    ASSUME RendezvousInv, ~undefined, NEW k \in Conn, Connect(k)
    PROVE  RendezvousInv'
<1>0. TypeOK /\ Placed
    BY DEF RendezvousInv
<1>t. conn \in [Conn -> {"none", "backlog", "reading", "held", "closed"}]
      /\ listener \in [k : Conn \cup {None}, tr : Cred \cup {None}]
    BY <1>0 DEF TypeOK
<1>1. /\ k \in told /\ conn[k] = "none" /\ conn' = [conn EXCEPT ![k] = "backlog"]
      /\ UNCHANGED <<trans, pc, fd, sem, sockfd, main, clear, unlinking, told, cancelled,
                     struck, raced, undefined>>
      /\ listener' = listener
    BY DEF Connect, handlers
<1>2. listener'.k # None => conn'[listener'.k] = "reading"
    BY <1>0, <1>1, <1>t DEF Placed
<1>3. listener'.tr # None => listener'.k # None /\ (FaultFree => listener'.tr = listener'.k[1])
    BY <1>0, <1>1 DEF Placed, RendezvousInv, Faultless
<1>4. /\ conn' \in [Conn -> {"none", "backlog", "reading", "held", "closed"}]
      /\ \A l \in Conn : conn'[l] # conn[l] =>
            conn[l] \in {"none", "backlog", "reading"} /\ conn'[l] # "held" /\ l \in told
    BY <1>1, <1>t
<1>5. listener' \in [k : Conn \cup {None}, tr : Cred \cup {None}]
    BY <1>1, <1>t
<1>6. QED
    BY ONLY RendezvousInv, <1>1, <1>2, <1>3, <1>4, <1>5, OnItsWay

\* The listener takes one connection at a time.
LEMMA AcceptInv ==
    ASSUME RendezvousInv, ~undefined, NEW k \in Conn, Accept(k)
    PROVE  RendezvousInv'
<1>0. TypeOK /\ Placed
    BY DEF RendezvousInv
<1>t. conn \in [Conn -> {"none", "backlog", "reading", "held", "closed"}]
    BY <1>0 DEF TypeOK
<1>1. /\ conn[k] = "backlog" /\ conn' = [conn EXCEPT ![k] = "reading"]
      /\ listener' = [k |-> k, tr |-> None]
      /\ UNCHANGED <<trans, pc, fd, sem, sockfd, main, clear, unlinking, told, cancelled,
                     struck, raced, undefined>>
    BY DEF Accept, handlers
<1>2. listener'.k = k /\ listener'.tr = None
      /\ listener' \in [k : Conn \cup {None}, tr : Cred \cup {None}]
    BY <1>1
<1>3. k \in told
    BY <1>0, <1>1 DEF Placed
<1>4. /\ conn' \in [Conn -> {"none", "backlog", "reading", "held", "closed"}]
      /\ \A l \in Conn : conn'[l] # conn[l] =>
            conn[l] \in {"none", "backlog", "reading"} /\ conn'[l] # "held" /\ l \in told
    BY <1>1, <1>3, <1>t
<1>5. listener'.k # None => conn'[listener'.k] = "reading"
    BY <1>1, <1>2, <1>t
<1>6. listener'.tr # None => listener'.k # None /\ (FaultFree => listener'.tr = listener'.k[1])
    BY <1>2
<1>7. QED
    BY ONLY RendezvousInv, <1>1, <1>2, <1>4, <1>5, <1>6, OnItsWay

\* An end that goes away is closed, and no handler has it.
LEMMA HangupInv ==
    ASSUME RendezvousInv, ~undefined, Hangup
    PROVE  RendezvousInv'
<1>0. TypeOK /\ Placed
    BY DEF RendezvousInv
<1>t. conn \in [Conn -> {"none", "backlog", "reading", "held", "closed"}]
      /\ listener.k \in Conn \cup {None}
    BY <1>0 DEF TypeOK
<1>1. /\ listener.k # None /\ conn' = [conn EXCEPT ![listener.k] = "closed"]
      /\ listener' = NoConn
      /\ UNCHANGED <<trans, pc, fd, sem, sockfd, main, clear, unlinking, told, cancelled,
                     struck, raced, undefined>>
    BY DEF Hangup, handlers
<1>2. listener'.k = None /\ listener'.tr = None
      /\ listener' \in [k : Conn \cup {None}, tr : Cred \cup {None}]
    BY <1>1 DEF NoConn
<1>3. listener.k \in Conn /\ conn[listener.k] = "reading" /\ listener.k \in told
    BY <1>0, <1>1, <1>t DEF Placed
<1>4. /\ conn' \in [Conn -> {"none", "backlog", "reading", "held", "closed"}]
      /\ \A l \in Conn : conn'[l] # conn[l] =>
            conn[l] \in {"none", "backlog", "reading"} /\ conn'[l] # "held" /\ l \in told
    BY <1>1, <1>3, <1>t
<1>5. /\ listener'.k # None => conn'[listener'.k] = "reading"
      /\ listener'.tr # None => listener'.k # None /\ (FaultFree => listener'.tr = listener'.k[1])
    BY <1>2
<1>6. QED
    BY ONLY RendezvousInv, <1>1, <1>2, <1>4, <1>5, OnItsWay

\* Without a fault the handler found for a connection is its own: it is still listed.
LEMMA FindInv ==
    ASSUME RendezvousInv, ~undefined, Find
    PROVE  RendezvousInv'
<1>0. TypeOK /\ Placed
    BY DEF RendezvousInv
<1>t. conn \in [Conn -> {"none", "backlog", "reading", "held", "closed"}]
      /\ listener \in [k : Conn \cup {None}, tr : Cred \cup {None}]
    BY <1>0 DEF TypeOK
<1>1. /\ listener.k # None
      /\ UNCHANGED <<trans, pc, fd, sem, sockfd, main, clear, unlinking, told, cancelled,
                     struck, raced, undefined>>
    BY DEF Find, handlers
<1>2. listener.k \in Conn /\ conn[listener.k] = "reading" /\ listener.k \in told
    BY <1>0, <1>1, <1>t DEF Placed
<1>3. CASE Found(listener.k[1]) = None
  <2>1. listener' = NoConn /\ conn' = [conn EXCEPT ![listener.k] = "closed"]
      BY <1>3 DEF Find
  <2>2. listener'.k = None /\ listener'.tr = None
        /\ listener' \in [k : Conn \cup {None}, tr : Cred \cup {None}]
      BY <2>1 DEF NoConn
  <2>3. /\ conn' \in [Conn -> {"none", "backlog", "reading", "held", "closed"}]
        /\ \A l \in Conn : conn'[l] # conn[l] =>
              conn[l] \in {"none", "backlog", "reading"} /\ conn'[l] # "held" /\ l \in told
      BY <2>1, <1>2, <1>t
  <2>4. /\ listener'.k # None => conn'[listener'.k] = "reading"
        /\ listener'.tr # None => listener'.k # None /\ (FaultFree => listener'.tr = listener'.k[1])
      BY <2>2
  <2>5. QED
      BY ONLY RendezvousInv, <1>1, <2>2, <2>3, <2>4, OnItsWay
<1>4. CASE Found(listener.k[1]) # None
  <2>1. listener' = [listener EXCEPT !.tr = Found(listener.k[1])] /\ conn' = conn
      BY <1>4 DEF Find
  <2>2. /\ Found(listener.k[1]) \in Cred
        /\ Contains(trans, listener.k[1]) => Found(listener.k[1]) = listener.k[1]
      BY <1>0, <1>2, <1>4, ConnFacts, FoundFacts
  <2>3. listener'.k = listener.k /\ listener'.tr = Found(listener.k[1])
        /\ listener' \in [k : Conn \cup {None}, tr : Cred \cup {None}]
      BY <2>1, <2>2, <1>t
  <2>4. FaultFree => listener'.tr = listener'.k[1]
      BY <2>2, <2>3, <1>2, Unwired
  <2>5. /\ conn' \in [Conn -> {"none", "backlog", "reading", "held", "closed"}]
        /\ \A l \in Conn : conn'[l] # conn[l] =>
              conn[l] \in {"none", "backlog", "reading"} /\ conn'[l] # "held" /\ l \in told
        /\ listener'.k # None => conn'[listener'.k] = "reading"
        /\ listener'.tr # None => listener'.k # None /\ (FaultFree => listener'.tr = listener'.k[1])
      BY <2>1, <2>3, <2>4, <1>1, <1>2, <1>t
  <2>6. QED
      BY ONLY RendezvousInv, <1>1, <2>3, <2>5, OnItsWay
<1>5. QED
    BY <1>3, <1>4


\* A connection wired to a handler in time takes its next place; one wired too late is only
\* possible after a fault.
LEMMA WireInv ==
    ASSUME RendezvousInv, ~undefined, Wire
    PROVE  RendezvousInv'
<1>0. TypeOK /\ Known /\ Placed /\ (\A x \in Cred : Counted(x)) /\ (FaultFree => Faultless)
    BY DEF RendezvousInv
<1>t. /\ conn \in [Conn -> {"none", "backlog", "reading", "held", "closed"}]
      /\ sockfd \in [Cred -> [{0, 1} -> Conn \cup {None}]]
      /\ fd \in [Cred -> -1..2] /\ sem \in [Cred -> Nat]
      /\ pc \in [Cred -> {"none", "wait1", "wait2", "work", "close", "unlink", "freed"}]
    BY <1>0, RendezvousTypes
<1>1. PICK c \in Cred, k \in Conn : c = listener.tr /\ k = listener.k
    BY <1>0, RendezvousTypes DEF Wire, Placed
<1>2. conn[k] = "reading" /\ k \in told /\ k # None
    BY <1>0, <1>1, ConnFacts DEF Placed
<1>3. /\ listener' = NoConn
      /\ UNCHANGED <<trans, pc, main, clear, unlinking, told, cancelled, struck, raced>>
    BY DEF Wire
<1>4. listener'.k = None /\ listener'.tr = None
      /\ listener' \in [k : Conn \cup {None}, tr : Cred \cup {None}]
    BY <1>3 DEF NoConn
<1>5. FaultFree => c = k[1] /\ pc[c] \in {"wait1", "wait2"} /\ fd[c] \in {0, 1}
  <2>1. FaultFree => c = k[1]
      BY <1>0, <1>1, ConnFacts DEF Faultless
  <2>2. FaultFree => pc[k[1]] \in {"wait1", "wait2"} /\ fd[k[1]] \in {0, 1}
      BY <1>2, Unwired
  <2>3. QED
      BY <2>1, <2>2
<1>6. CASE pc[c] # "freed" /\ fd[c] \in {0, 1}
  <2>1. PICK f \in {0, 1} : f = fd[c]
      BY <1>6
  <2>2. /\ sockfd' = [sockfd EXCEPT ![c][f] = k]
        /\ fd' = [fd EXCEPT ![c] = @ + 1] /\ sem' = [sem EXCEPT ![c] = @ + 1]
        /\ conn' = [conn EXCEPT ![k] = "held"] /\ undefined' = undefined
      BY <1>1, <1>6, <2>1 DEF Wire
  <2>3. /\ sockfd' \in [Cred -> [{0, 1} -> Conn \cup {None}]]
        /\ fd' \in [Cred -> -1..2] /\ sem' \in [Cred -> Nat]
        /\ conn' \in [Conn -> {"none", "backlog", "reading", "held", "closed"}]
      BY <2>1, <2>2, <1>t
  <2>4. /\ \A x \in Cred : x # c => sockfd'[x] = sockfd[x] /\ fd'[x] = fd[x] /\ sem'[x] = sem[x]
        /\ fd'[c] = f + 1 /\ sem'[c] = sem[c] + 1
        /\ \A s \in {0, 1} : sockfd'[c][s] = IF s = f THEN k ELSE sockfd[c][s]
        /\ conn'[k] = "held" /\ \A l \in Conn : l # k => conn'[l] = conn[l]
      BY <2>1, <2>2, <1>t
  <2>5. TypeOK'
      BY <1>0, <1>3, <1>4, <2>2, <2>3 DEF TypeOK
  <2>6. Known'
      BY <1>0, <1>3 DEF Known, Published
  <2>7. Placed'
    <3>1. \A l \in Conn : conn'[l] # "none" => l \in told'
        BY <1>0, <1>2, <1>3, <2>4 DEF Placed
    <3>2. ASSUME NEW x \in Cred, NEW s \in {0, 1}, sockfd'[x][s] # None
          PROVE  conn'[sockfd'[x][s]] \in {"held", "closed"}
      <4>1. sockfd'[x][s] = k \/ (sockfd'[x][s] = sockfd[x][s] /\ sockfd[x][s] \in Conn)
          BY <2>4, <1>t, <3>2
      <4>2. sockfd[x][s] # None => conn[sockfd[x][s]] \in {"held", "closed"}
          BY <1>0 DEF Placed
      <4>3. QED
          BY <4>1, <4>2, <2>4, <1>2, <3>2
    <3>3. QED
        BY <3>1, <3>2, <1>4 DEF Placed
  <2>8. ASSUME NEW x \in Cred PROVE Counted(x)'
    <3>1. Counted(x)
        BY <1>0
    <3>2. CASE x # c
        BY <3>1, <3>2, <2>4, <2>2, <1>3 DEF Counted, Taken
    <3>3. CASE x = c
      <4>1. c \notin struck /\ sem[c] + Taken(c) = f
          BY <3>1, <3>3, <2>1 DEF Counted
      <4>2. Taken(c) \in 0..2 /\ Taken(c)' = Taken(c) /\ sem[c] \in Nat
          BY <1>3, <1>t DEF Taken
      <4>3. sem'[c] + Taken(c)' = fd'[c] /\ fd'[c] \in 1..2
          BY <4>1, <4>2, <2>4
      <4>4. pc'[c] # "work"
        <5>1. Taken(c) # 2
            BY <4>1, <4>2
        <5>2. QED
            BY <5>1, <1>3 DEF Taken
      <4>5. \A s \in {0, 1} : sockfd[c][s] # k
          BY <1>0, <1>2 DEF Placed
      <4>6. CASE f = 0
        <5>1. sockfd'[c][0] = k /\ sockfd'[c][1] = None /\ fd'[c] = 1
            BY <4>6, <2>1, <2>4, <3>1, <3>3 DEF Counted
        <5>2. QED
            BY <5>1, <4>1, <4>3, <4>4, <1>2, <1>3, <3>3 DEF Counted
      <4>7. CASE f = 1
        <5>1. sockfd'[c][1] = k /\ sockfd'[c][0] = sockfd[c][0] /\ fd'[c] = 2
            BY <4>7, <2>4
        <5>2. sockfd[c][0] # None /\ sockfd[c][0] # k
            BY <4>5, <4>7, <2>1, <3>1, <3>3 DEF Counted
        <5>3. QED
            BY <5>1, <5>2, <4>1, <4>3, <4>4, <1>2, <1>3, <3>3 DEF Counted
      <4>8. QED
          BY <4>6, <4>7
    <3>4. QED
        BY <3>2, <3>3
  <2>9. FaultFree' => Faultless'
    <3> SUFFICES ASSUME FaultFree' PROVE Faultless'
        OBVIOUS
    <3>1. Faultless /\ FaultFree /\ c = k[1] /\ pc[c] \in {"wait1", "wait2"}
        BY <1>0, <1>3, <1>5 DEF FaultFree
    <3>2. \A x \in Cred : Published(x)' /\ pc'[x] # "freed" => Contains(trans', x)
        BY <3>1, <1>3 DEF Faultless, Published
    <3>3. \A x \in Cred : \A s \in {0, 1} : sockfd'[x][s] # None => sockfd'[x][s][1] = x
        BY <3>1, <2>4 DEF Faultless
    <3>4. sockfd[c][f] = None
        BY <1>0, <2>1 DEF Counted
    <3>5. ASSUME NEW l \in Conn, conn'[l] = "held"
          PROVE  l \in Closed(l[1])' /\ pc'[l[1]] \in {"wait1", "wait2", "work", "close"}
      <4>1. CASE l = k
        <5>1. l = sockfd'[c][f]
            BY <4>1, <2>4
        <5>2. l \in {sockfd'[c][0], sockfd'[c][1]}
            BY <5>1, <2>1
        <5>3. QED
            BY <5>2, <3>1, <4>1, <1>3 DEF Closed
      <4>2. CASE l # k
        <5>1. conn[l] = "held"
            BY <4>2, <3>5, <2>4
        <5>2. l \in {sockfd[l[1]][0], sockfd[l[1]][1]} /\ pc[l[1]] \in {"wait1", "wait2", "work", "close"}
            BY <5>1, <3>1 DEF Faultless, Closed
        <5>3. l \in {sockfd'[l[1]][0], sockfd'[l[1]][1]}
            BY <5>2, <3>4, <2>1, <2>4, ConnFacts
        <5>4. QED
            BY <5>2, <5>3, <1>3 DEF Closed
      <4>3. QED
          BY <4>1, <4>2
    <3>6. QED
        BY <3>1, <3>2, <3>3, <3>5, <1>4, <2>2 DEF Faultless
  <2>10. QED
      BY <2>5, <2>6, <2>7, <2>8, <2>9 DEF RendezvousInv
<1>7. CASE ~(pc[c] # "freed" /\ fd[c] \in {0, 1})
  <2>1. undefined' = TRUE /\ UNCHANGED <<sockfd, fd, sem, conn>>
      BY <1>1, <1>7 DEF Wire
  <2>2. TypeOK'
      BY <1>0, <1>3, <1>4, <2>1 DEF TypeOK
  <2>3. Known' /\ Placed'
      BY <1>0, <1>3, <1>4, <2>1 DEF Known, Published, Placed
  <2>4. \A x \in Cred : Counted(x)'
      BY <1>0, <1>3, <2>1, CountedSame
  <2>5. ~FaultFree'
      BY <1>3, <1>5, <1>7 DEF FaultFree
  <2>6. QED
      BY <2>2, <2>3, <2>4, <2>5 DEF RendezvousInv
<1>8. QED
    BY <1>6, <1>7

-----------------------------------------------------------------------------
(* The theorems                                                             *)

\* Every step of a thread or an end preserves the invariant.
LEMMA RendezvousNext == RendezvousInv /\ [Next]_vars => RendezvousInv'
<1> SUFFICES ASSUME RendezvousInv, [Next]_vars PROVE RendezvousInv'
    OBVIOUS
<1>1. CASE UNCHANGED vars
  <2>1. UNCHANGED <<trans, pc, fd, sem, sockfd, main, listener, clear, unlinking, conn,
                    told, cancelled, struck, raced, undefined>>
      BY <1>1 DEF vars, handlers
  <2>2. TypeOK' /\ Known' /\ Placed' /\ (FaultFree' => Faultless')
      BY <2>1 DEF RendezvousInv, TypeOK, Known, Published, Placed, FaultFree, Faultless, Closed
  <2>3. \A c \in Cred : Counted(c)'
      BY <2>1, CountedSame DEF RendezvousInv
  <2>4. QED
      BY <2>2, <2>3 DEF RendezvousInv
<1>2. CASE Next
  <2>0. ~undefined
      BY <1>2 DEF Next
  <2>1. ASSUME NEW c \in Cred, Alloc(c) PROVE RendezvousInv'
      BY <2>0, <2>1, AllocInv
  <2>2. ASSUME NEW c \in Cred, Release(c) PROVE RendezvousInv'
      BY <2>0, <2>2, ReleaseInv
  <2>3. CASE ReadNext
      BY <2>0, <2>3, ReadNextInv
  <2>4. CASE Publish
      BY <2>0, <2>4, PublishInv
  <2>5. CASE Announce
      BY <2>0, <2>5, AnnounceInv
  <2>6. CASE MainStrike
      BY <2>0, <2>6, MainStrikeInv
  <2>7. ASSUME NEW c \in Cred, ClearCheck(c) PROVE RendezvousInv'
      BY <2>0, <2>7, ClearCheckInv
  <2>8. CASE ClearStrike
      BY <2>0, <2>8, ClearStrikeInv
  <2>9. ASSUME NEW c \in Cred, PoolStep(c) PROVE RendezvousInv'
      BY <2>0, <2>9, WakeInv, EndWorkInv, CloseBothInv, BeginUnlinkInv, EndUnlinkInv DEF PoolStep
  <2>10. ASSUME NEW k \in Conn, Accept(k) PROVE RendezvousInv'
      BY <2>0, <2>10, AcceptInv
  <2>11. CASE Hangup
      BY <2>0, <2>11, HangupInv
  <2>12. CASE Find
      BY <2>0, <2>12, FindInv
  <2>13. CASE Wire
      BY <2>0, <2>13, WireInv
  <2>14. ASSUME NEW k \in Conn, Connect(k) PROVE RendezvousInv'
      BY <2>0, <2>14, ConnectInv
  <2>15. QED
      BY <1>2, <2>1, <2>2, <2>3, <2>4, <2>5, <2>6, <2>7, <2>8, <2>9, <2>10, <2>11, <2>12,
         <2>13, <2>14 DEF Next, MainStep, ClearStep, ListenStep
<1>3. QED
    BY <1>1, <1>2

\* The posts of a handler are its connections, its threads know only handlers that exist,
\* and without a fault every handler is found by its own ends until it is done.
THEOREM RendezvousInvariant == Spec => []RendezvousInv
BY RendezvousInit, RendezvousNext, PTL DEF Spec

\* A handler at work relays between two different connections (tr_handler, transmit_loop),
\* and between those of its own transfer unless some handler was given up.
THEOREM RendezvousRelays == Spec => []RelaysItsEnds
<1>1. RendezvousInv => RelaysItsEnds
  <2> SUFFICES ASSUME RendezvousInv, NEW c \in Cred, pc[c] = "work"
               PROVE  /\ sockfd[c][0] # None /\ sockfd[c][1] # None
                      /\ sockfd[c][0] # sockfd[c][1]
                      /\ FaultFree => \A s \in {0, 1} : sockfd[c][s][1] = c
      BY DEF RelaysItsEnds
  <2>1. Counted(c) /\ (FaultFree => Faultless)
      BY DEF RendezvousInv
  <2>2. sockfd[c][0] # None /\ sockfd[c][1] # None /\ sockfd[c][0] # sockfd[c][1]
      BY <2>1 DEF Counted
  <2>3. FaultFree => \A s \in {0, 1} : sockfd[c][s][1] = c
      BY <2>1, <2>2 DEF Faultless
  <2>4. QED
      BY <2>2, <2>3
<1>2. QED
    BY <1>1, RendezvousInvariant, PTL

\* Every connection the server keeps open is held by one handler that still closes it, and
\* no freed handler is used, unless some handler was given up (tr_free_thread, list_add).
THEOREM RendezvousSockets == Spec => []SocketsAccounted
<1>1. RendezvousInv => SocketsAccounted
  <2> SUFFICES ASSUME RendezvousInv PROVE SocketsAccounted
      OBVIOUS
  <2>1. TypeOK /\ (FaultFree => Faultless)
      BY DEF RendezvousInv
  <2>2. undefined => ~FaultFree
      BY <2>1 DEF Faultless
  <2>3. ASSUME FaultFree, NEW k \in Conn, conn[k] = "held"
        PROVE  \E c \in Cred : k \in Closed(c) /\ pc[c] \in {"wait1", "wait2", "work", "close"}
    <3>1. k[1] \in Cred
        BY ConnFacts
    <3>2. QED
        BY <2>1, <2>3, <3>1 DEF Faultless
  <2>4. QED
      BY <2>1, <2>2, <2>3 DEF SocketsAccounted
<1>2. QED
    BY <1>1, RendezvousInvariant, PTL
=============================================================================
