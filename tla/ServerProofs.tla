---------------------------- MODULE ServerProofs ----------------------------
(***************************************************************************)
(* The message server. Roster, for every set of accounts, descriptors and  *)
(* commands: types, the duality of friend and contact lists, consent, and  *)
(* the mailbox counter. The thread pool, for every number of threads and   *)
(* jobs: its free list is exact and it refuses a job only while every      *)
(* thread is busy.                                                         *)
(***************************************************************************)
EXTENDS Roster, ThreadPool, FiniteSetTheorems, TLAPS

\* offm_nr never disagrees with the mailbox it counts.
CountExact == \A u \in User : offm_nr[u] = Len(offmsg[u])

\* Asking is on record before a request waits or a profile names the friend.
Asked == \A u \in User : waits[u] \subseteq wanted[u]

\* A list is agreed by a record w of who asked whom and a of who accepted.
AgreedBy(lists, w, a) ==
    \A u \in User : \A n \in lists[u] : n \in w[u] /\ (u \in a[n] \/ u \in w[n])

\* The induction hypothesis: what a profile says was agreed as well, since a
\* restart makes it a friend list again.
RosterInv ==
    /\ TypeOK
    /\ CountExact
    /\ FriendContactDual
    /\ Asked
    /\ AgreedBy(friends, wanted, approved)
    /\ AgreedBy(saved, wanted, approved)

-----------------------------------------------------------------------------
(* Mailboxes                                                                *)

\* Draining a mailbox writes a sequence of the same messages.
LEMMA ReverseType ==
    ASSUME NEW s \in Seq(Nat) PROVE Reverse(s) \in Seq(Nat)
  BY DEF Reverse

\* Posting keeps the mailboxes well typed and their counters exact.
LEMMA PostKeepsMail ==
    ASSUME TypeOK, CountExact, NEW S, Post(S)
    PROVE  /\ offmsg' \in [User -> Seq(Nat)]
           /\ offm_nr' \in [User -> Nat]
           /\ handed' \in [User -> Seq(Nat)]
           /\ CountExact'
  <1> USE DEF TypeOK, CountExact, Post, Queued
  <1>1. offmsg' \in [User -> Seq(Nat)]
    OBVIOUS
  <1>2. offm_nr' \in [User -> Nat] /\ handed' \in [User -> Seq(Nat)]
    OBVIOUS
  <1>3. CountExact'
    <2> SUFFICES ASSUME NEW u \in User PROVE offm_nr'[u] = Len(offmsg'[u])
      OBVIOUS
    <2> QED
      OBVIOUS
  <1> QED
    BY <1>1, <1>2, <1>3

-----------------------------------------------------------------------------
(* Friend lists                                                             *)

\* The body of RosterInv that speaks of the lists only.
ListInv ==
    /\ friends \in [User -> SUBSET User]
    /\ contacts \in [User -> SUBSET User]
    /\ saved \in [User -> SUBSET User]
    /\ FriendContactDual

\* Adding pairs to both lists keeps them dual.
LEMMA AddPairsKeepsLists ==
    ASSUME TypeOK, FriendContactDual, NEW P \in SUBSET (User \X User), AddPairs(P)
    PROVE  ListInv'
  <1> USE DEF TypeOK, AddPairs, Extended
  <1>1. /\ friends' \in [User -> SUBSET User]
        /\ contacts' \in [User -> SUBSET User]
        /\ saved' \in [User -> SUBSET User]
    OBVIOUS
  <1>2. FriendContactDual'
    <2>1. \A n \in User : contacts[n] = {u \in User : n \in friends[u]}
      BY DEF FriendContactDual, Inverted
    <2>2. \A n, u \in User : <<n, u>> \in {q \in User \X User : <<q[2], q[1]>> \in P}
                             <=> <<u, n>> \in P
      OBVIOUS
    <2>3. \A n \in User : contacts'[n] = {u \in User : n \in friends'[u]}
      BY <2>1, <2>2
    <2> QED
      BY <1>1, <2>3 DEF FriendContactDual, Inverted
  <1> QED
    BY <1>1, <1>2 DEF ListInv

\* The memory of a dead process holds no lists, and every field has its type.
LEMMA MemoryLostType ==
    ASSUME RosterAssumption, MemoryLost
    PROVE  /\ server' = "down"
           /\ account' \in [User -> SUBSET Step]
           /\ waits' \in [User -> SUBSET User]
           /\ offmsg' \in [User -> Seq(Nat)]
           /\ offm_nr' \in [User -> Nat]
           /\ handed' \in [User -> Seq(Nat)]
           /\ fd' \in [User -> Fd \cup {NoFd}]
           /\ allset' \subseteq Fd /\ open' \subseteq Fd /\ dead' \subseteq Fd
           /\ told' \in [User -> [User -> {"unknown", "on", "off"}]]
           /\ friends' \in [User -> SUBSET User]
           /\ contacts' \in [User -> SUBSET User]
           /\ CountExact'
           /\ FriendContactDual'
           /\ Asked'
           /\ AgreedBy(friends', wanted', approved')
  <1> USE DEF MemoryLost, None, Unknown, Step, CountExact, Asked, AgreedBy
  <1>1. /\ account' \in [User -> SUBSET Step]
        /\ waits' = [u \in User |-> {}]
        /\ friends' = [u \in User |-> {}]
        /\ contacts' = [u \in User |-> {}]
    OBVIOUS
  <1>2. FriendContactDual'
    BY <1>1 DEF FriendContactDual, Inverted
  <1>3. /\ offmsg' \in [User -> Seq(Nat)]
        /\ offm_nr' \in [User -> Nat]
        /\ handed' \in [User -> Seq(Nat)]
        /\ CountExact'
    OBVIOUS
  <1>4. /\ fd' \in [User -> Fd \cup {NoFd}]
        /\ told' \in [User -> [User -> {"unknown", "on", "off"}]]
    OBVIOUS
  <1> QED
    BY <1>1, <1>2, <1>3, <1>4

\* Records only grow, so what was agreed stays agreed.
LEMMA HistoryGrows ==
    ASSUME NEW lists \in [User -> SUBSET User], NEW w, NEW a, NEW w1, NEW a1,
           AgreedBy(lists, w, a),
           \A u \in User : w[u] \subseteq w1[u] /\ a[u] \subseteq a1[u]
    PROVE  AgreedBy(lists, w1, a1)
  BY DEF AgreedBy

\* Dying in a save: what the disk keeps of an agreed list is agreed.
LEMMA DieSavingKeeps ==
    ASSUME RosterAssumption, RosterInv, NEW new, NEW done, NEW owner \in User,
           new \in [User -> SUBSET User],
           AgreedBy(new, wanted', approved'),
           AgreedBy(saved, wanted', approved'),
           early' \subseteq User,
           wanted' \in [User -> SUBSET User],
           approved' \in [User -> SUBSET User],
           DieSaving(new, done, owner)
    PROVE  RosterInv'
  <1>1. MemoryLost
    BY DEF DieSaving
  <1>2. /\ profile' \in [User -> {"none", "torn", "saved"}]
        /\ saved' \in [User -> SUBSET User]
    BY DEF RosterInv, TypeOK, DieSaving
  <1>3. AgreedBy(saved', wanted', approved')
    BY DEF RosterInv, DieSaving, AgreedBy
  <1>4. TypeOK'
    BY <1>1, <1>2, MemoryLostType DEF TypeOK
  <1> QED
    BY <1>1, <1>3, <1>4, MemoryLostType DEF RosterInv

\* Adding agreed pairs keeps the invariant, whatever happens to the requests.
LEMMA AddPairsKeeps ==
    ASSUME RosterInv, NEW P \in SUBSET (User \X User), AddPairs(P),
           early' \subseteq User,
           wanted' \in [User -> SUBSET User],
           approved' \in [User -> SUBSET User],
           waits' \in [User -> SUBSET User],
           \A u \in User : waits'[u] \subseteq wanted'[u],
           \A u \in User : wanted[u] \subseteq wanted'[u] /\ approved[u] \subseteq approved'[u],
           \A u, n \in User : <<u, n>> \in P =>
                n \in wanted'[u] /\ (u \in approved'[n] \/ u \in wanted'[n])
    PROVE  RosterInv'
  <1>1. TypeOK /\ CountExact /\ FriendContactDual
    BY DEF RosterInv
  <1>2. ListInv'
    BY <1>1, AddPairsKeepsLists
  <1>3. /\ offmsg' \in [User -> Seq(Nat)]
        /\ offm_nr' \in [User -> Nat]
        /\ handed' \in [User -> Seq(Nat)]
        /\ CountExact'
    BY <1>1, PostKeepsMail DEF AddPairs
  <1>4. TypeOK'
    BY <1>1, <1>2, <1>3 DEF TypeOK, ListInv, AddPairs, sessionVars
  <1>5. AgreedBy(Extended(friends, P), wanted', approved')
        /\ AgreedBy(Extended(saved, P), wanted', approved')
    BY <1>1 DEF RosterInv, AgreedBy, Extended, TypeOK
  <1>6. Asked'
    BY DEF Asked
  <1> QED
    BY <1>2, <1>3, <1>4, <1>5, <1>6 DEF RosterInv, ListInv, AddPairs

-----------------------------------------------------------------------------
(* Every step keeps the invariant                                           *)

LEMMA InitRoster == ASSUME RosterAssumption, Init PROVE RosterInv
  <1> USE DEF RosterAssumption, Init, NoSessions, Unknown, None, Step
  <1>1. TypeOK
    BY DEF TypeOK, Inverted
  <1>2. CountExact /\ Asked /\ FriendContactDual
    BY DEF CountExact, Asked, FriendContactDual
  <1>3. AgreedBy(friends, wanted, approved) /\ AgreedBy(saved, wanted, approved)
    BY DEF AgreedBy, Inverted
  <1> QED
    BY <1>1, <1>2, <1>3 DEF RosterInv

LEMMA CrashKeeps == ASSUME RosterAssumption, RosterInv, Crash PROVE RosterInv'
  <1>1. MemoryLost
    BY DEF Crash
  <1>2. TypeOK'
    BY <1>1, MemoryLostType DEF TypeOK, RosterInv, Crash, historyVars
  <1> QED
    BY <1>1, <1>2, MemoryLostType DEF RosterInv, Crash, historyVars

LEMMA RestartKeeps == ASSUME RosterInv, Restart PROVE RosterInv'
  <1> USE DEF RosterInv, Restart, historyVars, mailVars, sessionVars
  <1>1. friends' \in [User -> SUBSET User] /\ \A u \in User : friends'[u] \subseteq saved[u]
    BY DEF TypeOK, Loaded
  <1>2. TypeOK'
    BY <1>1 DEF TypeOK, Loaded, Inverted, Step
  <1>3. FriendContactDual'
    BY DEF FriendContactDual
  <1>4. AgreedBy(friends', wanted', approved')
    BY <1>1 DEF AgreedBy
  <1> QED
    BY <1>2, <1>3, <1>4 DEF CountExact, Asked, AgreedBy

\* A step of add_user adds one item to the record of the account.
LEMMA RegisterStepType ==
    ASSUME TypeOK, NEW u \in User, NEW done, NEW step \in Step, RegisterStep(u, done, step)
    PROVE  /\ account' \in [User -> SUBSET Step]
           /\ UNCHANGED <<server, early, friends, contacts, waits, historyVars, mailVars,
                          sessionVars, told>>
  BY DEF TypeOK, RegisterStep

LEMMA RegisterKeeps ==
    ASSUME RosterInv, NEW u \in User, Register(u) PROVE RosterInv'
  <1>1. /\ account' \in [User -> SUBSET Step]
        /\ UNCHANGED <<server, early, friends, contacts, waits, historyVars, mailVars,
                       sessionVars, told>>
    <2>1. {"linked", "heads", "dir", "xml", "announced"} \subseteq Step
      BY DEF Step
    <2> QED
      BY <2>1, RegisterStepType
         DEF RosterInv, Register, RegisterLink, RegisterHeads, RegisterDir, RegisterXml, RegisterReply
  <1>2. /\ profile' \in [User -> {"none", "torn", "saved"}]
        /\ saved' \in [User -> SUBSET User]
        /\ \A v \in User : saved'[v] \subseteq saved[v]
    <2>1. /\ profile \in [User -> {"none", "torn", "saved"}]
          /\ saved \in [User -> SUBSET User]
      BY DEF RosterInv, TypeOK
    <2>2. CASE RegisterLink(u) \/ RegisterHeads(u) \/ RegisterReply(u)
      BY <2>1, <2>2 DEF RegisterLink, RegisterHeads, RegisterReply
    <2>3. CASE RegisterDir(u)
      BY <2>1, <2>3 DEF RegisterDir
    <2>4. CASE RegisterXml(u)
      BY <2>1, <2>4 DEF RegisterXml
    <2> QED
      BY <2>2, <2>3, <2>4 DEF Register
  <1>3. TypeOK'
    BY <1>1, <1>2 DEF RosterInv, TypeOK, historyVars, mailVars, sessionVars
  <1>4. AgreedBy(saved', wanted', approved')
    BY <1>1, <1>2 DEF RosterInv, AgreedBy, historyVars
  <1> QED
    BY <1>1, <1>3, <1>4 DEF RosterInv, FriendContactDual, Inverted, CountExact, Asked, AgreedBy,
                            historyVars, mailVars

\* Whom a login or a logout notifies: the record of what was told keeps its type.
LEMMA NotifiedType ==
    ASSUME NEW t \in [User -> [User -> {"unknown", "on", "off"}]], NEW u \in User,
           NEW what \in {"on", "off"}
    PROVE  Notified([t EXCEPT ![u] = Unknown], u, what)
                \in [User -> [User -> {"unknown", "on", "off"}]]
  BY DEF Notified, Unknown

LEMMA LoginKeeps ==
    ASSUME RosterInv, NEW u \in User, NEW f \in Fd, Login(u, f) PROVE RosterInv'
  <1> USE DEF RosterInv, Login, Names, CountAfterDrain, Cleared, listVars, historyVars
  <1>1. handed' \in [User -> Seq(Nat)]
    BY ReverseType DEF TypeOK
  <1>2. told' \in [User -> [User -> {"unknown", "on", "off"}]]
    BY NotifiedType DEF TypeOK
  <1>3. /\ offmsg' \in [User -> Seq(Nat)]
        /\ offm_nr' \in [User -> Nat]
        /\ CountExact'
    BY DEF TypeOK, CountExact
  <1>4. fd' \in [User -> Fd \cup {NoFd}] /\ allset' \subseteq Fd /\ open' \subseteq Fd
    BY DEF TypeOK
  <1>5. TypeOK'
    BY <1>1, <1>2, <1>3, <1>4 DEF TypeOK
  <1> QED
    BY <1>3, <1>5 DEF FriendContactDual, Asked, AgreedBy

LEMMA DisconnectKeeps ==
    ASSUME RosterAssumption, RosterInv, NEW u \in User, Disconnect(u) PROVE RosterInv'
  <1> USE DEF RosterInv, Disconnect, Cleared, processVars, listVars, historyVars
  <1>1. told' \in [User -> [User -> {"unknown", "on", "off"}]]
    BY NotifiedType DEF TypeOK
  <1>2. handed' \in [User -> Seq(Nat)] /\ fd' \in [User -> Fd \cup {NoFd}]
    BY DEF TypeOK
  <1>3. TypeOK'
    BY <1>1, <1>2 DEF TypeOK
  <1> QED
    BY <1>3 DEF FriendContactDual, Asked, AgreedBy, CountExact

LEMMA ClientDiesKeeps ==
    ASSUME RosterAssumption, RosterInv, NEW u \in User, ClientDies(u) PROVE RosterInv'
  <1> USE DEF RosterInv, ClientDies, processVars, listVars, historyVars, mailVars
  <1>1. TypeOK'
    BY DEF TypeOK, Online
  <1> QED
    BY <1>1 DEF FriendContactDual, Asked, AgreedBy, CountExact

LEMMA ReplyKeeps ==
    ASSUME RosterInv, NEW u \in User, ReplyFriend(u) \/ ReplyWho(u) PROVE RosterInv'
  <1> USE DEF RosterInv, processVars, listVars, historyVars, mailVars, sessionVars
  <1>1. CASE ReplyFriend(u)
    <2>1. told' \in [User -> [User -> {"unknown", "on", "off"}]]
      BY <1>1 DEF ReplyFriend, TypeOK
    <2> QED
      BY <1>1, <2>1 DEF ReplyFriend, TypeOK, FriendContactDual, Asked, AgreedBy, CountExact
  <1>2. CASE ReplyWho(u)
    <2>1. told' \in [User -> [User -> {"unknown", "on", "off"}]]
      BY <1>2 DEF ReplyWho, TypeOK
    <2> QED
      BY <1>2, <2>1 DEF ReplyWho, TypeOK, FriendContactDual, Asked, AgreedBy, CountExact
  <1> QED
    BY <1>1, <1>2

\* Handlers that only write messages.
LEMMA MessageKeeps ==
    ASSUME RosterInv, NEW u \in User, NEW n \in User, RealMessage(u, n) \/ RefuseAdd(u, n)
    PROVE  RosterInv'
  <1> USE DEF RealMessage, RefuseAdd, Names, processVars, listVars, historyVars, sessionVars
  <1>1. TypeOK /\ CountExact /\ Post({n})
    BY DEF RosterInv
  <1>2. TypeOK' /\ CountExact'
    BY <1>1, PostKeepsMail DEF TypeOK
  <1> QED
    BY <1>2 DEF RosterInv, FriendContactDual, Asked, AgreedBy

LEMMA RequestAddKeeps ==
    ASSUME RosterInv, NEW u \in User, NEW n \in User, RequestAdd(u, n) PROVE RosterInv'
  <1> USE DEF RosterInv, RequestAdd, Names, listVars, sessionVars
  <1>1. TypeOK' /\ CountExact'
    BY PostKeepsMail DEF TypeOK
  <1>2. Asked'
    <2>1. /\ waits' = [waits EXCEPT ![u] = @ \cup {n}]
          /\ wanted' = [wanted EXCEPT ![u] = @ \cup {n}]
          /\ waits \in [User -> SUBSET User] /\ wanted \in [User -> SUBSET User]
          /\ \A v \in User : waits[v] \subseteq wanted[v]
      BY DEF Asked, TypeOK
    <2> QED
      BY ONLY <2>1 DEF Asked
  <1>3. \A v \in User : wanted[v] \subseteq wanted'[v]
    BY DEF TypeOK
  <1>4. AgreedBy(friends', wanted', approved') /\ AgreedBy(saved', wanted', approved')
    BY <1>3, HistoryGrows DEF TypeOK
  <1> QED
    BY <1>1, <1>2, <1>4 DEF FriendContactDual

\* u's request is not needed when n lists u already: n's record shows why.
LEMMA AddFriendNowKeeps ==
    ASSUME RosterAssumption, RosterInv, NEW u \in User, NEW n \in User, AddFriendNow(u, n)
    PROVE  RosterInv'
  <1>1. /\ wanted' = [wanted EXCEPT ![u] = @ \cup {n}]
        /\ approved' = approved
        /\ u \in friends[n]
    BY DEF AddFriendNow
  <1>2. /\ wanted' \in [User -> SUBSET User] /\ approved' \in [User -> SUBSET User]
        /\ \A v \in User : wanted[v] \subseteq wanted'[v] /\ approved[v] \subseteq approved'[v]
        /\ early' \subseteq User
    BY <1>1 DEF RosterInv, TypeOK, AddFriendNow, Names
  <1>3. n \in wanted'[u] /\ u \in wanted'[n]
    BY <1>1, <1>2 DEF RosterInv, TypeOK, AgreedBy
  <1>4. CASE AddPairs({<<u, n>>}) /\ UNCHANGED waits
    <2>1. waits' \in [User -> SUBSET User] /\ \A v \in User : waits'[v] \subseteq wanted'[v]
      BY <1>2, <1>4 DEF RosterInv, TypeOK, Asked
    <2>2. {<<u, n>>} \in SUBSET (User \X User)
          /\ \A x, y \in User : <<x, y>> \in {<<u, n>>} =>
               y \in wanted'[x] /\ (x \in approved'[y] \/ x \in wanted'[y])
      BY <1>3
    <2> QED
      BY <1>2, <1>4, <2>1, <2>2, AddPairsKeeps
  <1>5. CASE DieSaving(saved, {}, u)
    <2>1. AgreedBy(saved, wanted', approved') /\ saved \in [User -> SUBSET User]
      BY <1>2, HistoryGrows DEF RosterInv, TypeOK
    <2> QED
      BY <1>2, <1>5, <2>1, DieSavingKeeps
  <1> QED
    BY <1>4, <1>5 DEF AddFriendNow

LEMMA AcceptAddKeeps ==
    ASSUME RosterAssumption, RosterInv, NEW u \in User, NEW n \in User, AcceptAdd(u, n)
    PROVE  RosterInv'
  <1>1. /\ approved' = [approved EXCEPT ![u] = @ \cup {n}]
        /\ wanted' = wanted
        /\ u \in waits[n]
    BY DEF AcceptAdd, Pending
  <1>2. /\ wanted' \in [User -> SUBSET User] /\ approved' \in [User -> SUBSET User]
        /\ \A v \in User : wanted[v] \subseteq wanted'[v] /\ approved[v] \subseteq approved'[v]
        /\ early' \subseteq User
    BY <1>1 DEF RosterInv, TypeOK, AcceptAdd, Names
  <1>3. u \in wanted'[n] /\ n \in approved'[u]
    BY <1>1, <1>2 DEF RosterInv, TypeOK, Asked
  <1>4. CASE AddPairs({<<n, u>>}) /\ waits' = [waits EXCEPT ![n] = @ \ {u}]
    <2>1. waits' \in [User -> SUBSET User] /\ \A v \in User : waits'[v] \subseteq wanted'[v]
      BY <1>2, <1>4 DEF RosterInv, TypeOK, Asked
    <2> QED
      BY <1>2, <1>3, <1>4, <2>1, AddPairsKeeps
  <1>5. CASE DieSaving(saved, {}, n)
    <2>1. AgreedBy(saved, wanted', approved') /\ saved \in [User -> SUBSET User]
      BY <1>2, HistoryGrows DEF RosterInv, TypeOK
    <2> QED
      BY <1>2, <1>5, <2>1, DieSavingKeeps
  <1> QED
    BY <1>4, <1>5 DEF AcceptAdd

LEMMA AcceptAndAddKeeps ==
    ASSUME RosterAssumption, RosterInv, NEW u \in User, NEW n \in User, AcceptAndAdd(u, n)
    PROVE  RosterInv'
  <1> DEFINE P == {<<n, u>>} \cup (IF n \in friends[u] THEN {} ELSE {<<u, n>>})
  <1>1. /\ approved' = [approved EXCEPT ![u] = @ \cup {n}]
        /\ wanted' = [wanted EXCEPT ![u] = @ \cup {n}]
        /\ u \in waits[n]
    BY DEF AcceptAndAdd, Pending
  <1>2. /\ wanted' \in [User -> SUBSET User] /\ approved' \in [User -> SUBSET User]
        /\ \A v \in User : wanted[v] \subseteq wanted'[v] /\ approved[v] \subseteq approved'[v]
        /\ early' \subseteq User
    BY <1>1 DEF RosterInv, TypeOK, AcceptAndAdd, Names
  <1>3. u \in wanted'[n] /\ n \in approved'[u] /\ n \in wanted'[u]
    BY <1>1, <1>2 DEF RosterInv, TypeOK, Asked
  <1>4. P \in SUBSET (User \X User)
        /\ \A x, y \in User : <<x, y>> \in P =>
             y \in wanted'[x] /\ (x \in approved'[y] \/ x \in wanted'[y])
    BY <1>3
  <1>5. AgreedBy(saved, wanted', approved') /\ saved \in [User -> SUBSET User]
    BY <1>2, HistoryGrows DEF RosterInv, TypeOK
  <1>6. /\ Extended(saved, P) \in [User -> SUBSET User]
        /\ AgreedBy(Extended(saved, P), wanted', approved')
    BY <1>4, <1>5 DEF Extended, AgreedBy
  <1>7. CASE AddPairs(P) /\ waits' = [waits EXCEPT ![n] = @ \ {u}]
    <2>1. waits' \in [User -> SUBSET User] /\ \A v \in User : waits'[v] \subseteq wanted'[v]
      BY <1>2, <1>7 DEF RosterInv, TypeOK, Asked
    <2> QED
      BY <1>2, <1>4, <1>7, <2>1, AddPairsKeeps
  <1>8. CASE DieSaving(saved, {}, n)
    BY <1>2, <1>5, <1>8, DieSavingKeeps
  <1>9. CASE n \notin friends[u] /\ DieSaving(Extended(saved, P), {n}, u)
    BY <1>2, <1>5, <1>6, <1>9, DieSavingKeeps
  <1> QED
    BY <1>7, <1>8, <1>9 DEF AcceptAndAdd

LEMMA DelFriendKeeps ==
    ASSUME RosterAssumption, RosterInv, NEW u \in User, NEW n \in User, DelFriend(u, n)
    PROVE  RosterInv'
  <1>1. UNCHANGED <<early, wanted, approved>>
    BY DEF DelFriend, historyVars
  <1>2. CASE DieSaving(saved, {}, u)
    BY <1>1, <1>2, DieSavingKeeps DEF RosterInv, TypeOK
  <1>3. CASE ~DieSaving(saved, {}, u)
    <2>1. /\ friends' = [friends EXCEPT ![u] = @ \ {n}]
          /\ contacts' = [contacts EXCEPT ![n] = @ \ {u}]
          /\ saved' = [saved EXCEPT ![u] = @ \ {n}]
          /\ told' = [told EXCEPT ![u][n] = "unknown"]
          /\ server' = "undefined" \/ server' = server
          /\ UNCHANGED <<account, profile, waits, mailVars, sessionVars>>
      BY <1>3 DEF DelFriend, DropContact, SavedWithout
    <2>2. TypeOK'
      BY <1>1, <2>1 DEF RosterInv, TypeOK, mailVars, sessionVars
    <2>3. FriendContactDual'
      <3>1. \A v, w \in User : w \in contacts'[v] <=> v \in friends'[w]
        BY <2>1 DEF RosterInv, TypeOK, FriendContactDual, Inverted
      <3> QED
        BY <2>2, <3>1 DEF TypeOK, FriendContactDual, Inverted
    <2>4. AgreedBy(friends', wanted', approved') /\ AgreedBy(saved', wanted', approved')
      BY <1>1, <2>1 DEF RosterInv, TypeOK, AgreedBy
    <2> QED
      BY <1>1, <2>1, <2>2, <2>3, <2>4 DEF RosterInv, CountExact, Asked, mailVars
  <1> QED
    BY <1>2, <1>3

LEMMA NextKeeps ==
    ASSUME RosterAssumption, RosterInv, [Next]_vars PROVE RosterInv'
  <1>1. CASE Crash
    BY <1>1, CrashKeeps
  <1>2. CASE Restart
    BY <1>2, RestartKeeps
  <1>3. CASE NameUnready
    BY <1>3 DEF NameUnready, RosterInv, TypeOK, CountExact, FriendContactDual, Asked,
                AgreedBy, listVars, historyVars, mailVars, sessionVars
  <1>4. ASSUME NEW u \in User, Register(u) PROVE RosterInv'
    BY <1>4, RegisterKeeps
  <1>5. ASSUME NEW u \in User, NEW f \in Fd, Login(u, f) PROVE RosterInv'
    BY <1>5, LoginKeeps
  <1>6. ASSUME NEW u \in User, ClientDies(u) \/ Disconnect(u) PROVE RosterInv'
    BY <1>6, ClientDiesKeeps, DisconnectKeeps
  <1>7. ASSUME NEW u \in User, ReplyFriend(u) \/ ReplyWho(u) PROVE RosterInv'
    BY <1>7, ReplyKeeps
  <1>8. ASSUME NEW u \in User, NEW n \in User, Command(u, n) PROVE RosterInv'
    BY <1>8, MessageKeeps, RequestAddKeeps, AddFriendNowKeeps, AcceptAddKeeps,
       AcceptAndAddKeeps, DelFriendKeeps DEF Command
  <1>9. CASE UNCHANGED vars
    BY <1>9 DEF vars, processVars, listVars, historyVars, mailVars, sessionVars, RosterInv,
                TypeOK, CountExact, FriendContactDual, Asked, AgreedBy
  <1> QED
    BY <1>1, <1>2, <1>3, <1>4, <1>5, <1>6, <1>7, <1>8, <1>9 DEF Next

\* The induction hypothesis holds in every reachable state of the server.
THEOREM RosterInvariant == Spec => []RosterInv
  <1>1. Init => RosterInv
    BY InitRoster, RosterAssumption
  <1>2. RosterInv /\ [Next]_vars => RosterInv'
    BY NextKeeps, RosterAssumption
  <1> QED
    BY <1>1, <1>2, PTL DEF Spec

\* Every field of the server keeps its type.
THEOREM RosterTypeOK == Spec => []TypeOK
  <1>1. RosterInv => TypeOK
    BY DEF RosterInv
  <1> QED
    BY <1>1, RosterInvariant, PTL

\* The contact list of an account is exactly the accounts that list it.
THEOREM RosterDual == Spec => []FriendContactDual
  <1>1. RosterInv => FriendContactDual
    BY DEF RosterInv
  <1> QED
    BY <1>1, RosterInvariant, PTL

\* Nobody is listed without having been asked for, and without having accepted
\* or asked in turn: whatever is refused, deleted, lost in a crash or reloaded.
THEOREM RosterConsent == Spec => []Consent
  <1>1. RosterInv => Consent
    BY DEF RosterInv, Consent, AgreedBy
  <1> QED
    BY <1>1, RosterInvariant, PTL

-----------------------------------------------------------------------------
(* The second invariant: sessions, mail under way, and what is on disk       *)

Ready(u) == "announced" \in account[u]

\* Who is no friend was not told of; the memory of a dead process has no sessions.
SessionInv ==
    /\ FdSetExact
    /\ \A u \in User : Online(u) => offmsg[u] = <<>>
    /\ \A u, n \in User : Online(u) /\ n \notin friends[u] => told[u][n] = "unknown"
    /\ PresenceAgrees
    /\ server = "down" => \A u \in User : ~Online(u)

\* A mailbox holds its tickets from the last to the first.
Tickets ==
    \A u \in User : \A i \in 1..Len(offmsg[u]) : offmsg[u][i] = Len(offmsg[u]) + 1 - i

\* add_user takes its steps in order.
InOrder(done) ==
    \/ done = {}
    \/ done = {"linked"}
    \/ done = {"linked", "heads"}
    \/ done = {"linked", "heads", "dir"}
    \/ done = BeforeReply
    \/ done = Step

\* What the disk and the memory say of u, as long as nobody named an account early.
Orderly(u) ==
    /\ Online(u) => Ready(u)
    /\ profile[u] # "saved" => saved[u] = {}
    /\ \A n \in saved[u] : profile[n] # "none"
    /\ server = "up" =>
        /\ profile[u] = "saved" <=> "xml" \in account[u]
        /\ profile[u] = "saved" => friends[u] = saved[u]
        /\ ~Ready(u) => friends[u] = {} /\ waits[u] = {}
    /\ server = "down" => waits[u] = {}

AccountInv ==
    /\ \A u \in User : InOrder(account[u])
    /\ UndefinedHasCause
    /\ early = {} => \A u \in User : Orderly(u)

\* The memory of a dead process: no session, no mail.
LEMMA MemoryLostSessions ==
    ASSUME RosterAssumption, MemoryLost PROVE SessionInv' /\ Tickets'
  <1>1. \A u \in User : fd'[u] = NoFd /\ offmsg'[u] = <<>>
    BY DEF MemoryLost
  <1>2. allset' = {} /\ open' = {} /\ dead' = {}
    BY DEF MemoryLost
  <1>3. FdSetExact'
    BY <1>1, <1>2 DEF FdSetExact, Online
  <1>4. Tickets'
    BY <1>1 DEF Tickets
  <1>5. PresenceAgrees'
    BY <1>1 DEF PresenceAgrees, Online
  <1> QED
    BY <1>1, <1>3, <1>4, <1>5 DEF SessionInv, Online

\* A posted message gets the next ticket, and none is posted to a session's mailbox.
LEMMA PostKeepsTickets ==
    ASSUME TypeOK, Tickets, \A u \in User : Online(u) => offmsg[u] = <<>>,
           NEW S, Post(S), fd' = fd
    PROVE  Tickets' /\ \A u \in User : Online(u)' => offmsg'[u] = <<>>
  <1>1. offmsg \in [User -> Seq(Nat)]
    BY DEF TypeOK
  <1>2. \A u \in User : offmsg'[u] = IF u \in S /\ ~Online(u) THEN Queued(offmsg[u]) ELSE offmsg[u]
    BY DEF Post
  <1>3. Tickets'
    <2> SUFFICES ASSUME NEW u \in User, NEW i \in 1..Len(offmsg'[u])
                 PROVE  offmsg'[u][i] = Len(offmsg'[u]) + 1 - i
      BY DEF Tickets
    <2> DEFINE q == offmsg[u]
    <2>1. q \in Seq(Nat) /\ \A k \in 1..Len(q) : q[k] = Len(q) + 1 - k
      BY <1>1 DEF Tickets
    <2> HIDE DEF q
    <2>2. CASE offmsg'[u] = Queued(q)
      <3>1. <<Len(q) + 1>> \in Seq(Nat) /\ Len(<<Len(q) + 1>>) = 1
        BY <2>1
      <3>2. Len(Queued(q)) = Len(q) + 1 /\ Queued(q)[1] = Len(q) + 1
            /\ \A k \in 2..Len(q) + 1 : Queued(q)[k] = q[k - 1]
        BY <2>1, <3>1 DEF Queued
      <3> QED
        BY <2>1, <2>2, <3>2
    <2>3. CASE offmsg'[u] = q
      BY <2>1, <2>3
    <2> QED
      BY <1>2, <2>2, <2>3 DEF q
  <1> QED
    BY <1>2, <1>3 DEF Online

\* A step that leaves the sessions alone and adds no friend that a session was told of.
LEMMA SessionsCalm ==
    ASSUME SessionInv, UNCHANGED sessionVars, server # "down", server' # "down",
           friends' \in [User -> SUBSET User],
           \A u \in User : Online(u)' => offmsg'[u] = <<>>,
           \A u, n \in User : Online(u) =>
               /\ n \notin friends'[u] => told'[u][n] = "unknown"
               /\ n \in friends'[u] /\ told'[u][n] # "unknown" => (told'[u][n] = "on" <=> Online(n))
    PROVE  SessionInv'
  <1>1. \A u : Online(u)' <=> Online(u)
    BY DEF Online, sessionVars
  <1>2. FdSetExact'
    BY DEF SessionInv, FdSetExact, Online, sessionVars
  <1>3. PresenceAgrees'
    <2> SUFFICES ASSUME NEW u \in User, NEW n \in friends'[u], Online(u)', told'[u][n] # "unknown"
                 PROVE  told'[u][n] = "on" <=> Online(n)'
      BY DEF PresenceAgrees
    <2>1. n \in User /\ Online(u)
      BY <1>1
    <2>2. told'[u][n] = "on" <=> Online(n)
      BY <2>1
    <2> QED
      BY <1>1, <2>2
  <1> QED
    BY <1>1, <1>2, <1>3 DEF SessionInv

\* What a login or a logout of u leaves as told: the online friends' sides of u are
\* brought up to date, and what u was told is forgotten but for the presence of u.
LEMMA NotifiedFacts ==
    ASSUME TypeOK, FriendContactDual, NEW u \in User, NEW what \in {"on", "off"},
           told' = Notified([told EXCEPT ![u] = Unknown], u, what)
    PROVE  \A c, n \in User :
              told'[c][n] = IF n = u /\ u \in friends[c] /\ Online(c) THEN what
                            ELSE IF c = u THEN "unknown" ELSE told[c][n]
  <1>1. told \in [User -> [User -> {"unknown", "on", "off"}]] /\ friends \in [User -> SUBSET User]
    BY DEF TypeOK
  <1>2. \A c \in User : c \in Audience(u) <=> u \in friends[c] /\ Online(c)
    BY <1>1 DEF Audience, FriendContactDual, Inverted
  <1> DEFINE t == [told EXCEPT ![u] = Unknown]
  <1>3. t \in [User -> [User -> {"unknown", "on", "off"}]]
        /\ \A c, n \in User : t[c][n] = IF c = u THEN "unknown" ELSE told[c][n]
    BY <1>1 DEF Unknown
  <1>4. \A c \in User : told'[c] = IF c \in Audience(u) THEN [t[c] EXCEPT ![u] = what] ELSE t[c]
    BY DEF Notified
  <1> HIDE DEF t
  <1> SUFFICES ASSUME NEW c \in User, NEW n \in User
               PROVE  told'[c][n] = IF n = u /\ u \in friends[c] /\ Online(c) THEN what
                                    ELSE IF c = u THEN "unknown" ELSE told[c][n]
    OBVIOUS
  <1>5. t[c] \in [User -> {"unknown", "on", "off"}] /\ t[c][n] = IF c = u THEN "unknown" ELSE told[c][n]
    BY <1>3
  <1>6. CASE c \in Audience(u)
    <2>1. told'[c][n] = IF n = u THEN what ELSE t[c][n]
      BY <1>4, <1>5, <1>6
    <2> QED
      BY <1>2, <1>5, <1>6, <2>1
  <1>7. CASE c \notin Audience(u)
    <2>1. told'[c][n] = t[c][n]
      BY <1>4, <1>7
    <2> QED
      BY <1>2, <1>5, <1>7, <2>1
  <1> QED
    BY <1>6, <1>7

LEMMA LoginSessions ==
    ASSUME RosterAssumption, RosterInv, SessionInv, Tickets, NEW u \in User, NEW f \in Fd, Login(u, f)
    PROVE  SessionInv' /\ Tickets'
  <1>1. /\ TypeOK /\ FriendContactDual
        /\ fd \in [User -> Fd \cup {NoFd}] /\ offmsg \in [User -> Seq(Nat)]
        /\ friends \in [User -> SUBSET User]
        /\ NoFd \notin Fd /\ allset \subseteq Fd
    BY DEF RosterInv, TypeOK, RosterAssumption
  <1>2. /\ fd' = [fd EXCEPT ![u] = f] /\ f \notin open
        /\ allset' = (allset \ {fd[u]}) \cup {f}
        /\ open' = (open \ {fd[u]}) \cup {f}
        /\ dead' = dead \ {fd[u]}
        /\ told' = Notified([told EXCEPT ![u] = Unknown], u, "on")
        /\ offmsg' = [offmsg EXCEPT ![u] = <<>>]
        /\ server' = "up" /\ friends' = friends
    BY DEF Login, Cleared, listVars
  <1>3. \A v \in User : fd'[v] = (IF v = u THEN f ELSE fd[v])
    BY <1>1, <1>2
  <1>4. FdSetExact
    BY DEF SessionInv
  <1>5. \A v, w \in User : Online(v)' /\ fd'[v] = fd'[w] => v = w
    BY <1>1, <1>2, <1>3, <1>4 DEF FdSetExact, Online
  <1>6. allset' = {fd'[v] : v \in {w \in User : Online(w)'}}
    <2>1. \A x : x \in allset <=> \E v \in User : Online(v) /\ x = fd[v]
      BY <1>4 DEF FdSetExact
    <2>2. \A x : x \in allset' <=> \E v \in User : Online(v)' /\ x = fd'[v]
      <3>1. ASSUME NEW x \in allset' PROVE \E v \in User : Online(v)' /\ x = fd'[v]
        <4>1. CASE x = f
          BY <1>1, <1>3, <4>1 DEF Online
        <4>2. CASE x \in allset /\ x # fd[u]
          <5>1. PICK v \in User : Online(v) /\ x = fd[v]
            BY <2>1, <4>2
          <5> QED
            BY <1>3, <4>2, <5>1 DEF Online
        <4> QED
          BY <1>2, <3>1, <4>1, <4>2
      <3>2. ASSUME NEW v \in User, Online(v)' PROVE fd'[v] \in allset'
        <4>1. CASE v = u
          BY <1>2, <1>3, <4>1
        <4>2. CASE v # u
          BY <1>2, <1>3, <1>4, <2>1, <3>2, <4>2 DEF Online, FdSetExact
        <4> QED
          BY <4>1, <4>2
      <3> QED
        BY <3>1, <3>2
    <2> QED
      BY <2>2
  <1>7. FdSetExact'
    <2>1. open' = allset' /\ dead' \subseteq open'
      BY <1>2, <1>4 DEF FdSetExact
    <2> QED
      BY <1>5, <1>6, <2>1 DEF FdSetExact
  <1>8. \A c, n \in User :
            told'[c][n] = IF n = u /\ u \in friends[c] /\ Online(c) THEN "on"
                          ELSE IF c = u THEN "unknown" ELSE told[c][n]
    BY <1>1, <1>2, NotifiedFacts
  <1>9. \A v \in User : Online(v)' <=> v = u \/ Online(v)
    BY <1>1, <1>3 DEF Online
  <1>10. PresenceAgrees'
    <2> SUFFICES ASSUME NEW c \in User, NEW n \in friends'[c], Online(c)', told'[c][n] # "unknown"
                 PROVE  told'[c][n] = "on" <=> Online(n)'
      BY DEF PresenceAgrees
    <2>1. n \in User /\ n \in friends[c]
      BY <1>1, <1>2
    <2> QED
      BY <1>8, <1>9, <2>1 DEF SessionInv, PresenceAgrees
  <1>11. \A c, n \in User : Online(c)' /\ n \notin friends'[c] => told'[c][n] = "unknown"
    <2>1. \A c, n \in User : Online(c) /\ n \notin friends[c] => told[c][n] = "unknown"
      BY DEF SessionInv
    <2> QED
      BY <1>2, <1>8, <1>9, <2>1
  <1>12. \A v \in User : Online(v)' => offmsg'[v] = <<>>
    BY <1>1, <1>2, <1>9 DEF SessionInv
  <1>13. Tickets'
    BY <1>1, <1>2 DEF Tickets
  <1> QED
    BY <1>2, <1>7, <1>10, <1>11, <1>12, <1>13 DEF SessionInv

LEMMA DisconnectSessions ==
    ASSUME RosterAssumption, RosterInv, SessionInv, Tickets, NEW u \in User, Disconnect(u)
    PROVE  SessionInv' /\ Tickets'
  <1>1. /\ TypeOK /\ FriendContactDual
        /\ fd \in [User -> Fd \cup {NoFd}] /\ offmsg \in [User -> Seq(Nat)]
        /\ friends \in [User -> SUBSET User]
        /\ NoFd \notin Fd /\ allset \subseteq Fd
    BY DEF RosterInv, TypeOK, RosterAssumption
  <1>2. /\ fd' = [fd EXCEPT ![u] = NoFd] /\ Online(u)
        /\ allset' = allset \ {fd[u]}
        /\ open' = open \ {fd[u]}
        /\ dead' = dead \ {fd[u]}
        /\ told' = Notified([told EXCEPT ![u] = Unknown], u, "off")
        /\ offmsg' = offmsg
        /\ server' = "up" /\ friends' = friends
    BY DEF Disconnect, Cleared, listVars, processVars
  <1>3. \A v \in User : fd'[v] = (IF v = u THEN NoFd ELSE fd[v])
    BY <1>1, <1>2
  <1>4. FdSetExact
    BY DEF SessionInv
  <1>5. \A v \in User : Online(v)' <=> v # u /\ Online(v)
    BY <1>1, <1>3 DEF Online
  <1>6. allset' = {fd'[v] : v \in {w \in User : Online(w)'}}
    <2>1. \A x : x \in allset <=> \E v \in User : Online(v) /\ x = fd[v]
      BY <1>4 DEF FdSetExact
    <2>2. \A x : x \in allset' <=> \E v \in User : Online(v)' /\ x = fd'[v]
      <3>1. ASSUME NEW x \in allset' PROVE \E v \in User : Online(v)' /\ x = fd'[v]
        <4>1. PICK v \in User : Online(v) /\ x = fd[v]
          BY <1>2, <2>1, <3>1
        <4> QED
          BY <1>2, <1>3, <1>5, <4>1
      <3>2. ASSUME NEW v \in User, Online(v)' PROVE fd'[v] \in allset'
        BY <1>2, <1>3, <1>4, <1>5, <2>1, <3>2 DEF FdSetExact
      <3> QED
        BY <3>1, <3>2
    <2> QED
      BY <2>2
  <1>7. FdSetExact'
    <2>1. open' = allset' /\ dead' \subseteq open'
      BY <1>2, <1>4 DEF FdSetExact
    <2>2. \A v, w \in User : Online(v)' /\ fd'[v] = fd'[w] => v = w
      BY <1>1, <1>3, <1>4, <1>5 DEF FdSetExact, Online
    <2> QED
      BY <1>6, <2>1, <2>2 DEF FdSetExact
  <1>8. \A c, n \in User :
            told'[c][n] = IF n = u /\ u \in friends[c] /\ Online(c) THEN "off"
                          ELSE IF c = u THEN "unknown" ELSE told[c][n]
    BY <1>1, <1>2, NotifiedFacts
  <1>9. PresenceAgrees'
    <2> SUFFICES ASSUME NEW c \in User, NEW n \in friends'[c], Online(c)', told'[c][n] # "unknown"
                 PROVE  told'[c][n] = "on" <=> Online(n)'
      BY DEF PresenceAgrees
    <2>1. n \in User /\ n \in friends[c]
      BY <1>1, <1>2
    <2> QED
      BY <1>5, <1>8, <2>1 DEF SessionInv, PresenceAgrees
  <1>10. \A c, n \in User : Online(c)' /\ n \notin friends'[c] => told'[c][n] = "unknown"
    <2>1. \A c, n \in User : Online(c) /\ n \notin friends[c] => told[c][n] = "unknown"
      BY DEF SessionInv
    <2> QED
      BY <1>2, <1>5, <1>8, <2>1
  <1>11. (\A v \in User : Online(v)' => offmsg'[v] = <<>>) /\ Tickets'
    BY <1>2, <1>5 DEF SessionInv, Tickets
  <1> QED
    BY <1>2, <1>7, <1>9, <1>10, <1>11 DEF SessionInv

\* Handlers that post, and may add friends: a new friend is one nothing was told of.
LEMMA PostSessions ==
    ASSUME RosterInv, SessionInv, Tickets, NEW S, Post(S), UNCHANGED <<sessionVars, told>>,
           server # "down", server' # "down", friends' \in [User -> SUBSET User],
           \A u \in User : friends[u] \subseteq friends'[u]
    PROVE  SessionInv' /\ Tickets'
  <1>1. \A u \in User : Online(u) => offmsg[u] = <<>>
    BY DEF SessionInv
  <1>2. TypeOK
    BY DEF RosterInv
  <1>3. Tickets' /\ \A u \in User : Online(u)' => offmsg'[u] = <<>>
    BY <1>1, <1>2, PostKeepsTickets DEF sessionVars
  <1>4. \A u, n \in User : Online(u) =>
            /\ n \notin friends'[u] => told'[u][n] = "unknown"
            /\ n \in friends'[u] /\ told'[u][n] # "unknown" => (told'[u][n] = "on" <=> Online(n))
    <2> SUFFICES ASSUME NEW u \in User, NEW n \in User, Online(u)
                 PROVE  /\ n \notin friends'[u] => told[u][n] = "unknown"
                        /\ n \in friends'[u] /\ told[u][n] # "unknown" => (told[u][n] = "on" <=> Online(n))
      OBVIOUS
    <2>1. n \notin friends[u] => told[u][n] = "unknown"
      BY DEF SessionInv
    <2>2. n \in friends[u] /\ told[u][n] # "unknown" => (told[u][n] = "on" <=> Online(n))
      BY DEF SessionInv, PresenceAgrees
    <2> QED
      BY <2>1, <2>2
  <1> QED
    BY <1>3, <1>4, SessionsCalm

\* Steps that neither post nor touch a friend list or what was told.
LEMMA StillSessions ==
    ASSUME RosterInv, SessionInv, Tickets, UNCHANGED <<sessionVars, told, offmsg, friends>>,
           server # "down", server' # "down"
    PROVE  SessionInv' /\ Tickets'
  <1>1. \A v : Online(v)' <=> Online(v)
    BY DEF Online, sessionVars
  <1>2. FdSetExact' /\ PresenceAgrees' /\ Tickets'
    BY DEF SessionInv, FdSetExact, PresenceAgrees, Tickets, Online, sessionVars
  <1> QED
    BY <1>1, <1>2 DEF SessionInv

LEMMA ClientDiesSessions ==
    ASSUME RosterInv, SessionInv, Tickets, NEW u \in User, ClientDies(u)
    PROVE  SessionInv' /\ Tickets'
  <1>1. /\ Online(u) /\ dead' = dead \cup {fd[u]}
        /\ UNCHANGED <<server, fd, allset, open, told, offmsg, friends>> /\ server = "up"
    BY DEF ClientDies, processVars, listVars, mailVars
  <1>2. \A v : Online(v)' <=> Online(v)
    BY <1>1 DEF Online
  <1>3. fd[u] \in open
    BY <1>1 DEF SessionInv, FdSetExact
  <1>4. FdSetExact'
    BY <1>1, <1>3 DEF SessionInv, FdSetExact, Online
  <1>5. PresenceAgrees' /\ Tickets'
    BY <1>1 DEF SessionInv, PresenceAgrees, Tickets, Online
  <1> QED
    BY <1>1, <1>2, <1>4, <1>5 DEF SessionInv

LEMMA ReplySessions ==
    ASSUME RosterInv, SessionInv, Tickets, NEW u \in User, ReplyFriend(u) \/ ReplyWho(u)
    PROVE  SessionInv' /\ Tickets'
  <1>1. told \in [User -> [User -> {"unknown", "on", "off"}]] /\ friends \in [User -> SUBSET User]
    BY DEF RosterInv, TypeOK
  <1>2. UNCHANGED <<server, sessionVars, offmsg, friends>> /\ server = "up"
    BY DEF ReplyFriend, ReplyWho, Sends, processVars, listVars, mailVars
  <1>3. \A v, n \in User :
            \/ told'[v][n] = told[v][n]
            \/ v = u /\ n \in friends[u] /\ (told'[v][n] = "on" <=> Online(n))
    <2>1. CASE ReplyFriend(u)
      BY <1>1, <2>1 DEF ReplyFriend
    <2>2. CASE ReplyWho(u)
      BY <1>1, <2>2 DEF ReplyWho
    <2> QED
      BY <2>1, <2>2
  <1>4. \A v, n \in User : Online(v) =>
            /\ n \notin friends'[v] => told'[v][n] = "unknown"
            /\ n \in friends'[v] /\ told'[v][n] # "unknown" => (told'[v][n] = "on" <=> Online(n))
    <2> SUFFICES ASSUME NEW v \in User, NEW n \in User, Online(v)
                 PROVE  /\ n \notin friends[v] => told'[v][n] = "unknown"
                        /\ n \in friends[v] /\ told'[v][n] # "unknown" =>
                             (told'[v][n] = "on" <=> Online(n))
      BY <1>2
    <2>1. n \notin friends[v] => told[v][n] = "unknown"
      BY DEF SessionInv
    <2>2. n \in friends[v] /\ told[v][n] # "unknown" => (told[v][n] = "on" <=> Online(n))
      BY DEF SessionInv, PresenceAgrees
    <2> QED
      BY <1>3, <2>1, <2>2
  <1>5. \A v \in User : Online(v)' => offmsg'[v] = <<>>
    BY <1>2 DEF SessionInv, Online, sessionVars
  <1>6. SessionInv'
    BY <1>1, <1>2, <1>4, <1>5, SessionsCalm
  <1> QED
    BY <1>2, <1>6 DEF Tickets

LEMMA DelFriendSessions ==
    ASSUME RosterAssumption, RosterInv, SessionInv, Tickets, NEW u \in User, NEW n \in User, DelFriend(u, n)
    PROVE  SessionInv' /\ Tickets'
  <1>1. CASE DieSaving(saved, {}, u)
    BY <1>1, MemoryLostSessions DEF DieSaving
  <1>2. CASE ~DieSaving(saved, {}, u)
    <2>1. /\ friends' = [friends EXCEPT ![u] = @ \ {n}]
          /\ told' = [told EXCEPT ![u][n] = "unknown"]
          /\ server = "up" /\ server' # "down"
          /\ UNCHANGED <<offmsg, sessionVars>>
      BY <1>2 DEF DelFriend, Sends, mailVars
    <2>2. told \in [User -> [User -> {"unknown", "on", "off"}]] /\ friends \in [User -> SUBSET User]
      BY DEF RosterInv, TypeOK
    <2>3. friends' \in [User -> SUBSET User]
      BY <2>1, <2>2
    <2>4. \A v, x \in User : Online(v) =>
            /\ x \notin friends'[v] => told'[v][x] = "unknown"
            /\ x \in friends'[v] /\ told'[v][x] # "unknown" => (told'[v][x] = "on" <=> Online(x))
      <3> SUFFICES ASSUME NEW v \in User, NEW x \in User, Online(v)
                   PROVE  /\ x \notin friends'[v] => told'[v][x] = "unknown"
                          /\ x \in friends'[v] /\ told'[v][x] # "unknown" =>
                               (told'[v][x] = "on" <=> Online(x))
        OBVIOUS
      <3>1. x \notin friends[v] => told[v][x] = "unknown"
        BY DEF SessionInv
      <3>2. x \in friends[v] /\ told[v][x] # "unknown" => (told[v][x] = "on" <=> Online(x))
        BY DEF SessionInv, PresenceAgrees
      <3>3. told'[v][x] = IF v = u /\ x = n THEN "unknown" ELSE told[v][x]
        BY <2>1, <2>2
      <3>4. x \in friends'[v] <=> x \in friends[v] /\ ~(v = u /\ x = n)
        BY <2>1, <2>2
      <3> QED
        BY <3>1, <3>2, <3>3, <3>4
    <2>5. \A v \in User : Online(v)' => offmsg'[v] = <<>>
      BY <2>1 DEF SessionInv, Online, sessionVars
    <2>6. SessionInv'
      BY <2>1, <2>3, <2>4, <2>5, SessionsCalm
    <2> QED
      BY <2>1, <2>6 DEF Tickets
  <1> QED
    BY <1>1, <1>2

\* A restart begins with nobody online.
LEMMA RestartSessions ==
    ASSUME RosterInv, SessionInv, Tickets, Restart PROVE SessionInv' /\ Tickets'
  <1>1. UNCHANGED <<sessionVars, told, offmsg>> /\ server' # "down" /\ server = "down"
    BY DEF Restart, mailVars
  <1>2. \A u \in User : ~Online(u)'
    BY <1>1 DEF SessionInv, Online, sessionVars
  <1>3. FdSetExact' /\ PresenceAgrees' /\ Tickets'
    BY <1>1, <1>2 DEF SessionInv, FdSetExact, PresenceAgrees, Tickets, Online, sessionVars
  <1> QED
    BY <1>1, <1>2, <1>3 DEF SessionInv

\* A handler that adds pairs, or dies saving them.
LEMMA AddSessions ==
    ASSUME RosterAssumption, RosterInv, RosterInv', SessionInv, Tickets, server = "up", NEW P,
           \/ AddPairs(P)
           \/ \E new, done, owner : DieSaving(new, done, owner)
    PROVE  SessionInv' /\ Tickets'
  <1>1. CASE \E new, done, owner : DieSaving(new, done, owner)
    BY <1>1, MemoryLostSessions DEF DieSaving
  <1>2. CASE AddPairs(P)
    <2>1. Post({p[1] : p \in P}) /\ UNCHANGED <<sessionVars, told>> /\ server' # "down"
      BY <1>2 DEF AddPairs
    <2>2. friends' \in [User -> SUBSET User]
      BY DEF RosterInv, TypeOK
    <2>3. \A u \in User : friends[u] \subseteq friends'[u]
      BY <1>2 DEF AddPairs, Extended
    <2> QED
      BY <2>1, <2>2, <2>3, PostSessions
  <1> QED
    BY <1>1, <1>2

LEMMA CommandSessions ==
    ASSUME RosterAssumption, RosterInv, RosterInv', SessionInv, Tickets,
           NEW u \in User, NEW n \in User, Command(u, n)
    PROVE  SessionInv' /\ Tickets'
  <1>1. friends' \in [User -> SUBSET User]
    BY DEF RosterInv, TypeOK
  <1>2. CASE RealMessage(u, n)
    BY <1>1, <1>2, PostSessions DEF RealMessage, Sends, processVars, listVars
  <1>3. CASE RequestAdd(u, n)
    BY <1>1, <1>3, PostSessions DEF RequestAdd, Sends, processVars, listVars
  <1>4. CASE RefuseAdd(u, n)
    BY <1>1, <1>4, PostSessions DEF RefuseAdd, Sends, processVars, listVars
  <1>5. CASE AddFriendNow(u, n)
    BY <1>5, AddSessions DEF AddFriendNow, Sends
  <1>6. CASE AcceptAdd(u, n)
    BY <1>6, AddSessions DEF AcceptAdd, Sends
  <1>7. CASE AcceptAndAdd(u, n)
    BY <1>7, AddSessions DEF AcceptAndAdd, Sends
  <1>8. CASE DelFriend(u, n)
    BY <1>8, DelFriendSessions
  <1> QED
    BY <1>2, <1>3, <1>4, <1>5, <1>6, <1>7, <1>8 DEF Command

\* Every step keeps the sessions, and the mailboxes in order.
LEMMA NextSessions ==
    ASSUME RosterAssumption, RosterInv, RosterInv', SessionInv, Tickets, [Next]_vars
    PROVE  SessionInv' /\ Tickets'
  <1>1. CASE Crash
    BY <1>1, MemoryLostSessions DEF Crash
  <1>2. CASE Restart
    BY <1>2, RestartSessions
  <1>3. CASE NameUnready
    BY <1>3, StillSessions DEF NameUnready, listVars, mailVars
  <1>4. ASSUME NEW u \in User, Register(u) PROVE SessionInv' /\ Tickets'
    <2>1. server = "up" /\ UNCHANGED <<server, sessionVars, told, offmsg, friends>>
      BY <1>4 DEF Register, RegisterLink, RegisterHeads, RegisterDir, RegisterXml, RegisterReply,
                  RegisterStep, mailVars
    <2> QED
      BY <2>1, StillSessions
  <1>5. ASSUME NEW u \in User, NEW f \in Fd, Login(u, f) PROVE SessionInv' /\ Tickets'
    BY <1>5, LoginSessions
  <1>6. ASSUME NEW u \in User, ClientDies(u) \/ Disconnect(u) PROVE SessionInv' /\ Tickets'
    BY <1>6, ClientDiesSessions, DisconnectSessions
  <1>7. ASSUME NEW u \in User, ReplyFriend(u) \/ ReplyWho(u) PROVE SessionInv' /\ Tickets'
    BY <1>7, ReplySessions
  <1>8. ASSUME NEW u \in User, NEW n \in User, Command(u, n) PROVE SessionInv' /\ Tickets'
    BY <1>8, CommandSessions
  <1>9. CASE UNCHANGED vars
    BY <1>9 DEF vars, processVars, listVars, mailVars, sessionVars, SessionInv, Tickets,
                FdSetExact, PresenceAgrees, Online
  <1> QED
    BY <1>1, <1>2, <1>3, <1>4, <1>5, <1>6, <1>7, <1>8, <1>9 DEF Next

\* What is done for an account when the next thing is.
LEMMA OrderFacts ==
    ASSUME NEW done, InOrder(done)
    PROVE  /\ "announced" \in done => "xml" \in done /\ "heads" \in done
           /\ done \in {{}, {"linked"}, {"linked", "heads"}, {"linked", "heads", "dir"}} =>
                "xml" \notin done /\ "announced" \notin done
  BY DEF InOrder, BeforeReply, Step

\* Handlers that change neither lists nor profiles: who comes online, or asks, is ready
\* unless it was named early.
LEMMA QuietAccounts ==
    ASSUME AccountInv, server = "up", UNCHANGED <<server, account, profile, saved, friends>>,
           early' = {} => early = {},
           early' = {} => \A u \in User : (Online(u)' => Ready(u)) /\ (~Ready(u) => waits'[u] = {})
    PROVE  AccountInv'
  <1>1. UndefinedHasCause'
    BY DEF UndefinedHasCause
  <1>2. ASSUME early' = {}, NEW u \in User PROVE Orderly(u)'
    <2>1. Orderly(u)
      BY <1>2 DEF AccountInv
    <2> QED
      BY <1>2, <2>1 DEF Orderly, Ready
  <1> QED
    BY <1>1, <1>2 DEF AccountInv, InOrder

\* Handlers that add pairs of accounts that are ready, unless one was named early.
LEMMA AddPairsAccounts ==
    ASSUME RosterInv, AccountInv, server = "up", NEW P \in SUBSET (User \X User), AddPairs(P),
           early' = {} => early = {},
           early' = {} => \A x, y \in User : <<x, y>> \in P => Ready(x) /\ Ready(y),
           early' = {} => \A u \in User : ~Ready(u) => waits'[u] = {}
    PROVE  AccountInv'
  <1>1. /\ friends \in [User -> SUBSET User] /\ saved \in [User -> SUBSET User]
        /\ account \in [User -> SUBSET Step]
    BY DEF RosterInv, TypeOK
  <1>2. /\ \A u \in User : friends'[u] = friends[u] \cup {n \in User : <<u, n>> \in P}
        /\ \A u \in User : saved'[u] = saved[u] \cup {n \in User : <<u, n>> \in P}
        /\ account' = account /\ profile' = profile /\ fd' = fd
        /\ IF \E p \in P : "xml" \notin account[p[1]] THEN server' = "undefined" ELSE server' = server
    BY DEF AddPairs, Extended, sessionVars
  <1>3. \A u \in User : Ready(u) => "xml" \in account[u]
    BY OrderFacts DEF AccountInv, Ready
  <1>4. ASSUME early' = {} PROVE server' = "up"
    <2>1. \A p \in P : p[1] \in User /\ p[2] \in User /\ p = <<p[1], p[2]>>
      OBVIOUS
    <2>2. \A p \in P : "xml" \in account[p[1]]
      BY <1>3, <1>4, <2>1
    <2> QED
      BY <1>2, <2>2
  <1>5. UndefinedHasCause'
    BY <1>4 DEF UndefinedHasCause
  <1>6. ASSUME early' = {}, NEW u \in User PROVE Orderly(u)'
    <2>1. /\ \A v \in User : Orderly(v)
          /\ server' = "up"
          /\ \A n \in User : <<u, n>> \in P => Ready(u) /\ Ready(n)
      BY <1>4, <1>6 DEF AccountInv
    <2>2. \A v \in User : Ready(v) => profile[v] = "saved"
      BY <1>3, <2>1 DEF Orderly
    <2>3. Online(u)' => Ready(u)'
      BY <1>2, <2>1 DEF Orderly, Online, Ready
    <2>4. profile'[u] # "saved" => saved'[u] = {}
      BY <1>2, <2>1, <2>2 DEF Orderly
    <2>5. \A n \in saved'[u] : profile'[n] # "none"
      BY <1>2, <2>1, <2>2 DEF Orderly
    <2>6. profile'[u] = "saved" <=> "xml" \in account'[u]
      BY <1>2, <2>1 DEF Orderly
    <2>7. profile'[u] = "saved" => friends'[u] = saved'[u]
      <3>1. profile'[u] = "saved" => friends[u] = saved[u]
        BY <1>2, <2>1 DEF Orderly
      <3> QED
        BY ONLY <1>2, <3>1
    <2>8. ~Ready(u)' => friends'[u] = {} /\ waits'[u] = {}
      BY <1>2, <1>6, <2>1 DEF Orderly, Ready
    <2> QED
      BY <1>4, <1>6, <2>3, <2>4, <2>5, <2>6, <2>7, <2>8 DEF Orderly
  <1>7. \A u \in User : InOrder(account'[u])
    BY <1>2 DEF AccountInv
  <1> QED
    BY <1>5, <1>6, <1>7 DEF AccountInv

\* A process that dies in a save leaves one profile torn, and those before it whole.
LEMMA DieSavingAccounts ==
    ASSUME RosterAssumption, RosterInv, AccountInv, NEW new, NEW done \in SUBSET User, NEW owner \in User,
           DieSaving(new, done, owner),
           early' = {} => early = {},
           early' = {} => \A x \in done : profile[x] = "saved" /\ \A n \in new[x] : profile[n] # "none"
    PROVE  AccountInv'
  <1>1. /\ profile' = [profile EXCEPT ![owner] = "torn"]
        /\ saved' = [u \in User |-> IF u = owner THEN {} ELSE IF u \in done THEN new[u] ELSE saved[u]]
        /\ MemoryLost
    BY DEF DieSaving
  <1>2. /\ server' = "down" /\ \A u \in User : account'[u] = {} /\ fd'[u] = NoFd /\ waits'[u] = {}
    BY <1>1 DEF MemoryLost, None
  <1>3. profile \in [User -> {"none", "torn", "saved"}] /\ saved \in [User -> SUBSET User]
    BY DEF RosterInv, TypeOK
  <1>4. ASSUME early' = {}, NEW u \in User PROVE Orderly(u)'
    <2>1. Orderly(u) /\ (u \in done => profile[u] = "saved" /\ \A n \in new[u] : profile[n] # "none")
      BY <1>4 DEF AccountInv
    <2>2. \A n : profile[n] # "none" => profile'[n] # "none"
      BY <1>1, <1>3
    <2>3. profile'[u] = IF u = owner THEN "torn" ELSE profile[u]
      BY <1>1, <1>3
    <2>4. saved'[u] = IF u = owner THEN {} ELSE IF u \in done THEN new[u] ELSE saved[u]
      BY <1>1
    <2>5. profile'[u] # "saved" => saved'[u] = {}
      BY <2>1, <2>3, <2>4 DEF Orderly
    <2>6. \A n \in saved'[u] : profile'[n] # "none"
      BY <2>1, <2>2, <2>4 DEF Orderly
    <2> QED
      BY <1>2, <2>5, <2>6 DEF Orderly, Online
  <1> QED
    BY <1>2, <1>4 DEF AccountInv, InOrder, UndefinedHasCause

LEMMA InitAccounts == ASSUME RosterAssumption, Init PROVE AccountInv
  <1>1. /\ server = "up" /\ early = {}
        /\ account = [u \in User |-> IF u \in Preloaded THEN Step ELSE {}]
        /\ profile = [u \in User |-> IF u \in Preloaded THEN "saved" ELSE "none"]
        /\ saved \in [User -> SUBSET Preloaded]
        /\ \A u \in User : u \notin Preloaded => saved[u] = {}
        /\ friends = saved
        /\ \A u \in User : fd[u] = NoFd /\ waits[u] = {}
        /\ Preloaded \subseteq User
    BY DEF Init, NoSessions, None, RosterAssumption
  <1>2. \A u \in User : InOrder(account[u])
    BY <1>1 DEF InOrder
  <1>3. ASSUME NEW u \in User PROVE Orderly(u)
    BY <1>1 DEF Orderly, Online, Ready, Step
  <1> QED
    BY <1>1, <1>2, <1>3 DEF AccountInv, UndefinedHasCause

LEMMA RestartAccounts ==
    ASSUME RosterInv, SessionInv, AccountInv, Restart PROVE AccountInv'
  <1> DEFINE known == {u \in User : profile[u] # "none"}
  <1>1. /\ server' = IF \E u \in known : profile[u] = "torn" THEN "undefined" ELSE "up"
        /\ account' = [u \in User |-> IF u \in known THEN Step ELSE {}]
        /\ friends' = Loaded(saved, known)
        /\ UNCHANGED <<profile, saved, early, waits, fd>>
        /\ server = "down"
    BY DEF Restart, sessionVars
  <1>2. /\ profile \in [User -> {"none", "torn", "saved"}] /\ saved \in [User -> SUBSET User]
    BY DEF RosterInv, TypeOK
  <1>3. \A u \in User : ~Online(u)'
    BY <1>1 DEF SessionInv, Online
  <1>4. UndefinedHasCause'
    BY <1>1 DEF UndefinedHasCause
  <1>5. \A u \in User : InOrder(account'[u])
    BY <1>1 DEF InOrder
  <1>6. ASSUME early' = {}, NEW u \in User PROVE Orderly(u)'
    <2>1. /\ \A n \in saved[u] : profile[n] # "none"
          /\ profile[u] # "saved" => saved[u] = {}
          /\ waits[u] = {}
      BY <1>1, <1>6 DEF AccountInv, Orderly
    <2>2. friends'[u] = saved[u]
      BY <1>1, <1>2, <2>1 DEF Loaded
    <2>3. Ready(u)' <=> u \in known
      BY <1>1 DEF Ready, Step
    <2>4. "xml" \in account'[u] <=> u \in known
      BY <1>1 DEF Step
    <2>5. server' = "up" => (profile[u] = "saved" <=> u \in known)
      BY <1>1, <1>2
    <2>6. u \notin known => friends'[u] = {}
      BY <2>1, <2>2
    <2> HIDE DEF known
    <2>7. server' # "down"
      BY <1>1
    <2> QED
      BY <1>1, <1>3, <2>1, <2>2, <2>3, <2>4, <2>5, <2>6, <2>7 DEF Orderly
  <1> QED
    BY <1>4, <1>5, <1>6 DEF AccountInv

LEMMA CrashAccounts ==
    ASSUME RosterAssumption, AccountInv, Crash PROVE AccountInv'
  <1>1. /\ server' = "down" /\ UNCHANGED <<profile, saved, early>>
        /\ \A u \in User : account'[u] = {} /\ fd'[u] = NoFd /\ waits'[u] = {}
    BY DEF Crash, MemoryLost, None
  <1>2. ASSUME early' = {}, NEW u \in User PROVE Orderly(u)'
    <2>1. Orderly(u)
      BY <1>1, <1>2 DEF AccountInv
    <2> QED
      BY <1>1, <2>1 DEF Orderly, Online
  <1> QED
    BY <1>1, <1>2 DEF AccountInv, InOrder, UndefinedHasCause

\* Naming an account whose list heads are not set is naming it early.
LEMMA NameUnreadyAccounts ==
    ASSUME RosterInv, AccountInv, NameUnready PROVE AccountInv'
  <1>1. PICK n \in User :
            /\ "heads" \notin account[n]
            /\ early' = IF "announced" \in account[n] THEN early ELSE early \cup {n}
    BY DEF NameUnready
  <1>2. "announced" \notin account[n]
    BY <1>1, OrderFacts DEF AccountInv
  <1>3. early' # {} /\ account' = account
    BY <1>1, <1>2 DEF NameUnready
  <1> QED
    BY <1>3 DEF AccountInv, UndefinedHasCause

LEMMA RegisterAccounts ==
    ASSUME RosterInv, AccountInv, NEW u \in User, Register(u) PROVE AccountInv'
  <1>1. /\ server = "up" /\ account \in [User -> SUBSET Step]
        /\ profile \in [User -> {"none", "torn", "saved"}] /\ saved \in [User -> SUBSET User]
        /\ UNCHANGED <<server, early, friends, waits, fd>>
        /\ \A v \in User : InOrder(account[v])
    BY DEF Register, RegisterLink, RegisterHeads, RegisterDir, RegisterXml, RegisterReply,
           RegisterStep, sessionVars, RosterInv, TypeOK, AccountInv
  <1>2. UndefinedHasCause'
    BY <1>1 DEF UndefinedHasCause
  <1>3. CASE RegisterLink(u) \/ RegisterHeads(u)
    <2>1. UNCHANGED <<profile, saved>>
      BY <1>3 DEF RegisterLink, RegisterHeads
    <2>2. /\ account[u] \in {{}, {"linked"}} /\ account'[u] \in {{"linked"}, {"linked", "heads"}}
          /\ \A v \in User : v # u => account'[v] = account[v]
      BY <1>1, <1>3 DEF RegisterLink, RegisterHeads, RegisterStep
    <2>3. \A v \in User : InOrder(account'[v])
      BY <1>1, <2>2 DEF InOrder
    <2>4. ASSUME early' = {}, NEW v \in User PROVE Orderly(v)'
      <3>1. Orderly(v)
        BY <1>1, <2>4 DEF AccountInv
      <3> QED
        BY <1>1, <2>1, <2>2, <3>1 DEF Orderly, Ready, Online
    <2> QED
      BY <1>2, <2>3, <2>4 DEF AccountInv
  <1>4. CASE RegisterDir(u)
    <2>1. profile' = [profile EXCEPT ![u] = "torn"] /\ saved' = saved
      BY <1>4 DEF RegisterDir
    <2>2. /\ account[u] = {"linked", "heads"} /\ account'[u] = {"linked", "heads", "dir"}
          /\ \A v \in User : v # u => account'[v] = account[v]
      BY <1>1, <1>4 DEF RegisterDir, RegisterStep
    <2>3. \A v \in User : InOrder(account'[v])
      BY <1>1, <2>2 DEF InOrder
    <2>4. ASSUME early' = {}, NEW v \in User PROVE Orderly(v)'
      <3>1. Orderly(v)
        BY <1>1, <2>4 DEF AccountInv
      <3>2. \A n : profile[n] # "none" => profile'[n] # "none"
        BY <1>1, <2>1
      <3>3. CASE v = u
        BY <1>1, <2>1, <2>2, <3>1, <3>2, <3>3 DEF Orderly, Ready, Online
      <3>4. CASE v # u
        BY <1>1, <2>1, <2>2, <3>1, <3>2, <3>4 DEF Orderly, Ready, Online
      <3> QED
        BY <3>3, <3>4
    <2> QED
      BY <1>2, <2>3, <2>4 DEF AccountInv
  <1>5. CASE RegisterXml(u)
    <2>1. profile' = [profile EXCEPT ![u] = "saved"] /\ saved' = [saved EXCEPT ![u] = {}]
      BY <1>5 DEF RegisterXml
    <2>2. /\ account[u] = {"linked", "heads", "dir"} /\ account'[u] = BeforeReply
          /\ \A v \in User : v # u => account'[v] = account[v]
      BY <1>1, <1>5 DEF RegisterXml, BeforeReply, RegisterStep
    <2>3. \A v \in User : InOrder(account'[v])
      BY <1>1, <2>2 DEF InOrder
    <2>4. ASSUME early' = {}, NEW v \in User PROVE Orderly(v)'
      <3>1. Orderly(v)
        BY <1>1, <2>4 DEF AccountInv
      <3>2. \A n : profile[n] # "none" => profile'[n] # "none"
        BY <1>1, <2>1
      <3>3. CASE v = u
        BY <1>1, <2>1, <2>2, <3>1, <3>2, <3>3 DEF Orderly, Ready, Online, BeforeReply
      <3>4. CASE v # u
        BY <1>1, <2>1, <2>2, <3>1, <3>2, <3>4 DEF Orderly, Ready, Online
      <3> QED
        BY <3>3, <3>4
    <2> QED
      BY <1>2, <2>3, <2>4 DEF AccountInv
  <1>6. CASE RegisterReply(u)
    <2>1. UNCHANGED <<profile, saved>>
      BY <1>6 DEF RegisterReply
    <2>2. /\ account[u] = BeforeReply /\ account'[u] = Step
          /\ \A v \in User : v # u => account'[v] = account[v]
      BY <1>1, <1>6 DEF RegisterReply, BeforeReply, Step, RegisterStep
    <2>3. \A v \in User : InOrder(account'[v])
      BY <1>1, <2>2 DEF InOrder
    <2>4. ASSUME early' = {}, NEW v \in User PROVE Orderly(v)'
      <3>1. Orderly(v)
        BY <1>1, <2>4 DEF AccountInv
      <3> QED
        BY <1>1, <2>1, <2>2, <3>1 DEF Orderly, Ready, Online, BeforeReply, Step
    <2> QED
      BY <1>2, <2>3, <2>4 DEF AccountInv
  <1> QED
    BY <1>3, <1>4, <1>5, <1>6 DEF Register

\* Who is named, when nobody was named early.
LEMMA NamesFacts ==
    ASSUME NEW n \in User, Names(n) PROVE early' = {} => early = {} /\ Ready(n)
  BY DEF Names, Ready

\* Who is online was let in, when nobody was named early; what is ready has its profile,
\* and only who is ready has friends or asks.
LEMMA ReadyFacts ==
    ASSUME AccountInv, server = "up", early = {}, NEW u \in User
    PROVE  /\ Online(u) => Ready(u)
           /\ Ready(u) => "xml" \in account[u] /\ profile[u] = "saved" /\ friends[u] = saved[u]
           /\ ~Ready(u) => friends[u] = {} /\ waits[u] = {}
           /\ \A n \in saved[u] : profile[n] # "none"
  BY OrderFacts DEF AccountInv, Orderly, Ready

LEMMA SessionAccounts ==
    ASSUME RosterInv, AccountInv, NEW u \in User,
           \/ \E f \in Fd : Login(u, f)
           \/ ClientDies(u)
           \/ Disconnect(u)
           \/ ReplyFriend(u)
           \/ ReplyWho(u)
    PROVE  AccountInv'
  <1>1. fd \in [User -> Fd \cup {NoFd}]
    BY DEF RosterInv, TypeOK
  <1>2. CASE \E f \in Fd : Login(u, f)
    <2>1. PICK f \in Fd : Login(u, f)
      BY <1>2
    <2>2. /\ server = "up" /\ UNCHANGED <<server, account, profile, saved, friends, waits>>
          /\ fd' = [fd EXCEPT ![u] = f] /\ Names(u)
      BY <2>1 DEF Login, listVars
    <2>3. early' = {} => early = {} /\ Ready(u)
      BY <2>2, NamesFacts
    <2>4. early' = {} => \A v \in User : (Online(v)' => Ready(v)) /\ (~Ready(v) => waits'[v] = {})
      BY <1>1, <2>2, <2>3, ReadyFacts DEF Online
    <2> QED
      BY <2>2, <2>3, <2>4, QuietAccounts
  <1>3. CASE ClientDies(u) \/ Disconnect(u) \/ ReplyFriend(u) \/ ReplyWho(u)
    <2>1. /\ server = "up" /\ UNCHANGED <<server, account, profile, saved, friends, waits, early>>
          /\ \A v \in User : Online(v)' => Online(v)
      BY <1>1, <1>3 DEF ClientDies, Disconnect, ReplyFriend, ReplyWho, Sends, Online,
                        processVars, listVars, sessionVars
    <2>2. early' = {} => \A v \in User : (Online(v)' => Ready(v)) /\ (~Ready(v) => waits'[v] = {})
      BY <2>1, ReadyFacts
    <2> QED
      BY <2>1, <2>2, QuietAccounts
  <1> QED
    BY <1>2, <1>3

\* Handlers that write messages, or a request of somebody online.
LEMMA MessageAccounts ==
    ASSUME RosterInv, AccountInv, NEW u \in User, NEW n \in User,
           RealMessage(u, n) \/ RequestAdd(u, n) \/ RefuseAdd(u, n)
    PROVE  AccountInv'
  <1>1. waits \in [User -> SUBSET User]
    BY DEF RosterInv, TypeOK
  <1>2. /\ server = "up" /\ UNCHANGED <<server, account, profile, saved, friends, fd>> /\ Online(u)
        /\ \A v \in User : v # u => waits'[v] = waits[v]
        /\ early' = {} => early = {}
    BY <1>1, NamesFacts DEF RealMessage, RequestAdd, RefuseAdd, Sends, processVars, listVars, sessionVars
  <1>3. early' = {} => \A v \in User : (Online(v)' => Ready(v)) /\ (~Ready(v) => waits'[v] = {})
    <2> SUFFICES ASSUME early' = {}, NEW v \in User
                 PROVE  (Online(v)' => Ready(v)) /\ (~Ready(v) => waits'[v] = {})
      OBVIOUS
    <2>1. early = {} /\ Ready(u)
      BY <1>2, ReadyFacts
    <2> QED
      BY <1>2, <2>1, ReadyFacts DEF Online
  <1> QED
    BY <1>2, <1>3, QuietAccounts

LEMMA AddFriendNowAccounts ==
    ASSUME RosterAssumption, RosterInv, AccountInv, NEW u \in User, NEW n \in User, AddFriendNow(u, n)
    PROVE  AccountInv'
  <1>1. server = "up" /\ Online(u) /\ Names(n)
    BY DEF AddFriendNow, Sends
  <1>2. early' = {} => early = {} /\ Ready(n) /\ Ready(u)
    BY <1>1, NamesFacts, ReadyFacts
  <1>3. CASE AddPairs({<<u, n>>}) /\ UNCHANGED waits
    <2>1. {<<u, n>>} \in SUBSET (User \X User)
      OBVIOUS
    <2>2. early' = {} => \A x, y \in User : <<x, y>> \in {<<u, n>>} => Ready(x) /\ Ready(y)
      BY <1>2
    <2>3. early' = {} => \A v \in User : ~Ready(v) => waits'[v] = {}
      BY <1>1, <1>2, <1>3, ReadyFacts
    <2> QED
      BY <1>1, <1>2, <1>3, <2>1, <2>2, <2>3, AddPairsAccounts
  <1>4. CASE DieSaving(saved, {}, u)
    BY <1>2, <1>4, DieSavingAccounts
  <1> QED
    BY <1>3, <1>4 DEF AddFriendNow

LEMMA AcceptAddAccounts ==
    ASSUME RosterAssumption, RosterInv, AccountInv, NEW u \in User, NEW n \in User, AcceptAdd(u, n)
    PROVE  AccountInv'
  <1>1. server = "up" /\ Online(u) /\ Names(n) /\ waits \in [User -> SUBSET User]
    BY DEF AcceptAdd, Sends, RosterInv, TypeOK
  <1>2. early' = {} => early = {} /\ Ready(n) /\ Ready(u)
    BY <1>1, NamesFacts, ReadyFacts
  <1>3. CASE AddPairs({<<n, u>>}) /\ waits' = [waits EXCEPT ![n] = @ \ {u}]
    <2>1. {<<n, u>>} \in SUBSET (User \X User)
      OBVIOUS
    <2>2. early' = {} => \A x, y \in User : <<x, y>> \in {<<n, u>>} => Ready(x) /\ Ready(y)
      BY <1>2
    <2>3. \A v \in User : waits'[v] \subseteq waits[v]
      BY <1>1, <1>3
    <2>4. early' = {} => \A v \in User : ~Ready(v) => waits'[v] = {}
      BY <1>1, <1>2, <2>3, ReadyFacts
    <2> QED
      BY <1>1, <1>2, <1>3, <2>1, <2>2, <2>4, AddPairsAccounts
  <1>4. CASE DieSaving(saved, {}, n)
    BY <1>2, <1>4, DieSavingAccounts
  <1> QED
    BY <1>3, <1>4 DEF AcceptAdd

LEMMA AcceptAndAddAccounts ==
    ASSUME RosterAssumption, RosterInv, AccountInv, NEW u \in User, NEW n \in User, AcceptAndAdd(u, n)
    PROVE  AccountInv'
  <1> DEFINE P == {<<n, u>>} \cup (IF n \in friends[u] THEN {} ELSE {<<u, n>>})
  <1>1. server = "up" /\ Online(u) /\ Names(n) /\ waits \in [User -> SUBSET User] /\ u # n
    BY DEF AcceptAndAdd, Sends, RosterInv, TypeOK
  <1>2. early' = {} => early = {} /\ Ready(n) /\ Ready(u)
    BY <1>1, NamesFacts, ReadyFacts
  <1>3. P \in SUBSET (User \X User)
    OBVIOUS
  <1>4. CASE AddPairs(P) /\ waits' = [waits EXCEPT ![n] = @ \ {u}]
    <2>1. early' = {} => \A x, y \in User : <<x, y>> \in P => Ready(x) /\ Ready(y)
      BY <1>2
    <2>2. \A v \in User : waits'[v] \subseteq waits[v]
      BY <1>1, <1>4
    <2>3. early' = {} => \A v \in User : ~Ready(v) => waits'[v] = {}
      BY <1>1, <1>2, <2>2, ReadyFacts
    <2> QED
      BY <1>1, <1>2, <1>3, <1>4, <2>1, <2>3, AddPairsAccounts
  <1>5. CASE DieSaving(saved, {}, n)
    BY <1>2, <1>5, DieSavingAccounts
  <1>6. CASE DieSaving(Extended(saved, P), {n}, u)
    <2>1. Extended(saved, P)[n] = saved[n] \cup {u}
      BY <1>1 DEF Extended
    <2>2. early' = {} => \A x \in {n} : /\ profile[x] = "saved"
                                        /\ \A m \in Extended(saved, P)[x] : profile[m] # "none"
      <3> SUFFICES ASSUME early' = {}
                   PROVE  profile[n] = "saved" /\ \A m \in saved[n] \cup {u} : profile[m] # "none"
        BY <2>1
      <3>1. profile[n] = "saved" /\ profile[u] = "saved" /\ \A m \in saved[n] : profile[m] # "none"
        BY <1>1, <1>2, ReadyFacts
      <3> QED
        BY <3>1
    <2> QED
      BY <1>2, <1>6, <2>2, DieSavingAccounts
  <1> QED
    BY <1>4, <1>5, <1>6 DEF AcceptAndAdd

LEMMA DelFriendAccounts ==
    ASSUME RosterAssumption, RosterInv, AccountInv, NEW u \in User, NEW n \in User, DelFriend(u, n)
    PROVE  AccountInv'
  <1>1. early' = early /\ server = "up" /\ Online(u)
    BY DEF DelFriend, Sends
  <1>2. CASE DieSaving(saved, {}, u)
    BY <1>1, <1>2, DieSavingAccounts
  <1>3. CASE ~DieSaving(saved, {}, u)
    <2>1. /\ friends' = [friends EXCEPT ![u] = @ \ {n}]
          /\ saved' = [saved EXCEPT ![u] = @ \ {n}]
          /\ IF "xml" \notin account[u] THEN server' = "undefined" ELSE server' = server
          /\ UNCHANGED <<account, profile, waits, fd>>
      BY <1>3 DEF DelFriend, SavedWithout, sessionVars
    <2>2. friends \in [User -> SUBSET User] /\ saved \in [User -> SUBSET User]
      BY DEF RosterInv, TypeOK
    <2>3. early = {} => server' = "up"
      BY <1>1, <2>1, ReadyFacts
    <2>4. ASSUME early' = {}, NEW v \in User PROVE Orderly(v)'
      <3>1. Orderly(v)
        BY <1>1, <2>4 DEF AccountInv
      <3>2. /\ friends'[v] = friends[v] \ (IF v = u THEN {n} ELSE {})
            /\ saved'[v] = saved[v] \ (IF v = u THEN {n} ELSE {})
        BY <2>1, <2>2
      <3> QED
        BY <1>1, <2>1, <2>3, <2>4, <3>1, <3>2 DEF Orderly, Ready, Online
    <2> QED
      BY <1>1, <2>1, <2>3, <2>4 DEF AccountInv, UndefinedHasCause
  <1> QED
    BY <1>2, <1>3

\* Every step keeps what the disk and the accounts agree on.
LEMMA NextAccounts ==
    ASSUME RosterAssumption, RosterInv, SessionInv, AccountInv, [Next]_vars
    PROVE  AccountInv'
  <1>1. CASE Crash
    BY <1>1, CrashAccounts
  <1>2. CASE Restart
    BY <1>2, RestartAccounts
  <1>3. CASE NameUnready
    BY <1>3, NameUnreadyAccounts
  <1>4. ASSUME NEW u \in User, Register(u) PROVE AccountInv'
    BY <1>4, RegisterAccounts
  <1>5. ASSUME NEW u \in User, NEW f \in Fd, Login(u, f) PROVE AccountInv'
    BY <1>5, SessionAccounts
  <1>6. ASSUME NEW u \in User, ClientDies(u) \/ Disconnect(u) \/ ReplyFriend(u) \/ ReplyWho(u)
        PROVE  AccountInv'
    BY <1>6, SessionAccounts
  <1>7. ASSUME NEW u \in User, NEW n \in User, Command(u, n) PROVE AccountInv'
    BY <1>7, MessageAccounts, AddFriendNowAccounts, AcceptAddAccounts, AcceptAndAddAccounts,
       DelFriendAccounts DEF Command
  <1>8. CASE UNCHANGED vars
    <2>1. \A u \in User : Orderly(u)' <=> Orderly(u)
      BY <1>8 DEF vars, processVars, listVars, sessionVars, Orderly, Online, Ready
    <2> QED
      BY <1>8, <2>1 DEF vars, processVars, AccountInv, UndefinedHasCause
  <1> QED
    BY <1>1, <1>2, <1>3, <1>4, <1>5, <1>6, <1>7, <1>8 DEF Next

\* Draining is reading from the oldest ticket on.
LEMMA DrainedInOrder ==
    ASSUME NEW s \in Seq(Nat), \A i \in 1..Len(s) : s[i] = Len(s) + 1 - i
    PROVE  Reverse(s) = [i \in 1..Len(s) |-> i]
  <1>1. Reverse(s) = [i \in 1..Len(s) |-> s[(Len(s) - i) + 1]]
    BY DEF Reverse
  <1>2. \A i \in 1..Len(s) : s[(Len(s) - i) + 1] = i
    <2> TAKE i \in 1..Len(s)
    <2> DEFINE k == (Len(s) - i) + 1
    <2>1. k \in 1..Len(s) /\ Len(s) + 1 - k = i
      OBVIOUS
    <2> HIDE DEF k
    <2>2. s[k] = i
      BY <2>1
    <2> QED
      BY <2>2 DEF k
  <1> QED
    BY <1>1, <1>2

\* Only a login makes a mailbox shorter while the process lives.
LEMMA DrainStep ==
    ASSUME RosterInv, Tickets, [Next]_vars, NEW u \in User,
           server' # "down", Len(offmsg'[u]) < Len(offmsg[u])
    PROVE  offmsg'[u] = <<>> /\ handed'[u] = [i \in 1..Len(offmsg[u]) |-> i]
  <1>1. offmsg \in [User -> Seq(Nat)] /\ handed \in [User -> Seq(Nat)] /\ Len(offmsg[u]) \in Nat
    BY DEF RosterInv, TypeOK
  <1>2. offmsg'[u] # offmsg[u]
    BY <1>1
  <1>3. ASSUME NEW S, Post(S) PROVE FALSE
    <2>1. offmsg'[u] = Queued(offmsg[u]) \/ offmsg'[u] = offmsg[u]
      BY <1>3 DEF Post
    <2> DEFINE q == offmsg[u]
    <2>2. q \in Seq(Nat) /\ Len(<<Len(q) + 1>>) = 1 /\ <<Len(q) + 1>> \in Seq(Nat)
      BY <1>1
    <2> HIDE DEF q
    <2>3. Len(Queued(q)) = 1 + Len(q)
      BY <2>2 DEF Queued
    <2> QED
      BY <1>1, <1>2, <2>1, <2>3 DEF q
  <1>4. CASE \E v \in User, f \in Fd : Login(v, f)
    <2>1. PICK v \in User, f \in Fd : Login(v, f)
      BY <1>4
    <2>2. /\ handed' = [handed EXCEPT ![v] = Reverse(offmsg[v])]
          /\ offmsg' = [offmsg EXCEPT ![v] = <<>>]
      BY <2>1 DEF Login
    <2>3. u = v
      BY <1>1, <1>2, <2>2
    <2>4. handed'[u] = Reverse(offmsg[u]) /\ offmsg'[u] = <<>>
      BY <1>1, <2>2, <2>3
    <2> QED
      BY <1>1, <2>4, DrainedInOrder DEF Tickets
  <1>5. CASE Crash
    BY <1>5 DEF Crash, MemoryLost
  <1>6. CASE Restart \/ NameUnready \/ UNCHANGED vars
    BY <1>2, <1>6 DEF Restart, NameUnready, vars, mailVars
  <1>7. ASSUME NEW v \in User, Register(v) PROVE FALSE
    BY <1>2, <1>7 DEF Register, RegisterLink, RegisterHeads, RegisterDir, RegisterXml, RegisterReply,
                      RegisterStep, mailVars
  <1>8. ASSUME NEW v \in User, ClientDies(v) \/ Disconnect(v) \/ ReplyFriend(v) \/ ReplyWho(v)
        PROVE  FALSE
    BY <1>2, <1>8 DEF ClientDies, Disconnect, ReplyFriend, ReplyWho, mailVars
  <1>9. ASSUME NEW v \in User, NEW n \in User, Command(v, n) PROVE FALSE
    <2>1. ASSUME NEW P, AddPairs(P) PROVE FALSE
      BY <1>3, <2>1 DEF AddPairs
    <2>2. ASSUME NEW new, NEW done, NEW owner, DieSaving(new, done, owner) PROVE FALSE
      BY <2>2 DEF DieSaving, MemoryLost
    <2>3. CASE RealMessage(v, n) \/ RequestAdd(v, n) \/ RefuseAdd(v, n)
      BY <1>3, <2>3 DEF RealMessage, RequestAdd, RefuseAdd
    <2>4. CASE AddFriendNow(v, n) \/ AcceptAdd(v, n) \/ AcceptAndAdd(v, n)
      BY <2>1, <2>2, <2>4 DEF AddFriendNow, AcceptAdd, AcceptAndAdd
    <2>5. CASE DelFriend(v, n)
      BY <1>2, <2>2, <2>5 DEF DelFriend, mailVars
    <2> QED
      BY <1>9, <2>3, <2>4, <2>5 DEF Command
  <1> QED
    BY <1>4, <1>5, <1>6, <1>7, <1>8, <1>9 DEF Next

\* What a process leaves on disk when it dies, by itself or in a save.
LEMMA DeathStep ==
    ASSUME RosterInv, AccountInv, [Next]_vars, server = "up", early = {}, server' = "down",
           NEW u \in User, profile'[u] = "saved"
    PROVE  \/ saved'[u] = friends[u]
           \/ /\ \E v \in User : profile'[v] = "torn"
              /\ \E n \in wanted[u] : saved'[u] = friends[u] \cup {n}
  <1>1. /\ profile \in [User -> {"none", "torn", "saved"}] /\ saved \in [User -> SUBSET User]
        /\ waits \in [User -> SUBSET User]
        /\ \A v \in User : waits[v] \subseteq wanted[v]
    BY DEF RosterInv, TypeOK, Asked
  <1>2. profile[u] = "saved" => friends[u] = saved[u]
    BY DEF AccountInv, Orderly
  <1>3. ASSUME NEW new, NEW done, NEW owner \in User, DieSaving(new, done, owner), u \notin done
        PROVE  saved'[u] = friends[u]
    BY <1>1, <1>2, <1>3 DEF DieSaving
  <1>4. CASE Crash
    BY <1>2, <1>4 DEF Crash
  <1>5. ASSUME NEW v \in User, NEW n \in User, AcceptAndAdd(v, n)
        PROVE  \/ saved'[u] = friends[u]
               \/ /\ \E w \in User : profile'[w] = "torn"
                  /\ \E m \in wanted[u] : saved'[u] = friends[u] \cup {m}
    <2> DEFINE P == {<<n, v>>} \cup (IF n \in friends[v] THEN {} ELSE {<<v, n>>})
    <2>1. CASE DieSaving(saved, {}, n)
      BY <1>3, <2>1
    <2>2. CASE DieSaving(Extended(saved, P), {n}, v) /\ u # n
      BY <1>3, <2>2
    <2>3. CASE DieSaving(Extended(saved, P), {n}, v) /\ u = n
      <3>1. v # n /\ v \in waits[n]
        BY <1>5 DEF AcceptAndAdd, Pending
      <3>2. profile'[v] = "torn" /\ profile[u] = "saved"
        BY <1>1, <2>3, <3>1 DEF DieSaving
      <3>3. saved'[u] = Extended(saved, P)[u]
        BY <2>3, <3>1 DEF DieSaving
      <3>4. Extended(saved, P)[u] = saved[u] \cup {v}
        BY <2>3, <3>1 DEF Extended
      <3> QED
        BY <1>1, <1>2, <2>3, <3>1, <3>2, <3>3, <3>4
    <2>4. CASE AddPairs(P)
      BY <2>4 DEF AddPairs
    <2> QED
      BY <1>5, <2>1, <2>2, <2>3, <2>4 DEF AcceptAndAdd
  <1>6. ASSUME NEW v \in User, NEW n \in User, AddFriendNow(v, n) \/ AcceptAdd(v, n) \/ DelFriend(v, n)
        PROVE  saved'[u] = friends[u]
    <2>1. ASSUME NEW P, AddPairs(P) PROVE FALSE
      BY <2>1 DEF AddPairs
    <2> QED
      BY <1>3, <1>6, <2>1 DEF AddFriendNow, AcceptAdd, DelFriend
  <1>7. ASSUME NEW v \in User, NEW n \in User, RealMessage(v, n) \/ RequestAdd(v, n) \/ RefuseAdd(v, n)
        PROVE  FALSE
    BY <1>7 DEF RealMessage, RequestAdd, RefuseAdd, processVars
  <1>8. ASSUME NEW v \in User, Register(v) PROVE FALSE
    BY <1>8 DEF Register, RegisterLink, RegisterHeads, RegisterDir, RegisterXml, RegisterReply, RegisterStep
  <1>9. ASSUME NEW v \in User,
               ClientDies(v) \/ Disconnect(v) \/ ReplyFriend(v) \/ ReplyWho(v) \/ \E f \in Fd : Login(v, f)
        PROVE  FALSE
    BY <1>9 DEF ClientDies, Disconnect, ReplyFriend, ReplyWho, Login, processVars
  <1>10. ~Restart /\ ~NameUnready /\ ~UNCHANGED vars
    BY DEF Restart, NameUnready, vars, processVars
  <1> QED
    BY <1>4, <1>5, <1>6, <1>7, <1>8, <1>9, <1>10 DEF Next, Command

LEMMA InitSessions == ASSUME RosterAssumption, Init PROVE SessionInv /\ Tickets
  <1>1. /\ allset = {} /\ open = {} /\ dead = {} /\ server = "up"
        /\ \A u \in User : fd[u] = NoFd /\ offmsg[u] = <<>>
    BY DEF Init, NoSessions
  <1> QED
    BY <1>1 DEF SessionInv, Tickets, FdSetExact, PresenceAgrees, Online

\* Sessions, mail and accounts agree in every reachable state of the server.
THEOREM RosterSessions == Spec => [](SessionInv /\ Tickets /\ AccountInv)
  <1>1. Init => RosterInv /\ SessionInv /\ Tickets /\ AccountInv
    BY InitRoster, InitSessions, InitAccounts, RosterAssumption
  <1>2. RosterInv /\ RosterInv' /\ SessionInv /\ Tickets /\ AccountInv /\ [Next]_vars
        => SessionInv' /\ Tickets' /\ AccountInv'
    BY NextSessions, NextAccounts, RosterAssumption
  <1> QED
    BY <1>1, <1>2, RosterInvariant, PTL DEF Spec

\* select waits for the sessions' descriptors and no others, through takeovers.
THEOREM RosterFdSet == Spec => []FdSetExact
  <1>1. SessionInv => FdSetExact
    BY DEF SessionInv
  <1> QED
    BY <1>1, RosterSessions, PTL

\* No message waits in the mailbox of a session, and its counter is exact.
THEOREM RosterNoOvertaking == Spec => []NoOvertaking
  <1>1. RosterInv /\ SessionInv => NoOvertaking
    BY DEF RosterInv, SessionInv, CountExact, NoOvertaking
  <1> QED
    BY <1>1, RosterInvariant, RosterSessions, PTL

\* What a session was last told of a friend is what the server knows.
THEOREM RosterPresence == Spec => []PresenceAgrees
  <1>1. SessionInv => PresenceAgrees
    BY DEF SessionInv
  <1> QED
    BY <1>1, RosterSessions, PTL

\* Memory that nobody initialised is read only for an account that was named early,
\* or after a profile was cut short.
THEOREM RosterUndefined == Spec => []UndefinedHasCause
  <1>1. AccountInv => UndefinedHasCause
    BY DEF AccountInv
  <1> QED
    BY <1>1, RosterSessions, PTL

\* A mailbox is emptied by a login only, which hands out all of it, the oldest first.
THEOREM RosterDrains == Spec => DrainsInOrder
  <1>1. RosterInv /\ Tickets /\ [Next]_vars =>
          [\A u \in User :
              server' # "down" /\ Len(offmsg'[u]) < Len(offmsg[u]) =>
                  /\ offmsg'[u] = <<>>
                  /\ handed'[u] = [i \in 1..Len(offmsg[u]) |-> i]]_vars
    BY DrainStep
  <1> QED
    BY <1>1, RosterInvariant, RosterSessions, PTL DEF Spec, DrainsInOrder

\* A death of the process, also inside a save, loses no change that was finished.
THEOREM RosterRestores == Spec => RestartRestores
  <1>1. RosterInv /\ AccountInv /\ [Next]_vars =>
          [server = "up" /\ early = {} /\ server' = "down" =>
              \A u \in User : profile'[u] = "saved" =>
                  \/ saved'[u] = friends[u]
                  \/ /\ \E v \in User : profile'[v] = "torn"
                     /\ \E n \in wanted[u] : saved'[u] = friends[u] \cup {n}]_vars
    BY DeathStep
  <1> QED
    BY <1>1, RosterInvariant, RosterSessions, PTL DEF Spec, RestartRestores

-----------------------------------------------------------------------------
(* The thread pool                                                          *)

\* The threads created so far are the first ones of the pool.
Created == \A t \in Thread : pc[t] # "none" <=> t <= cur

PoolInv == PoolTypeOK /\ FreeListExact /\ Created

\* The threads that alloc_thread_pool creates, newest first, each once.
LEMMA GrownFacts ==
    ASSUME PoolTypeOK, MayGrow
    PROVE  /\ GrownTo \in (cur + 1)..(MaxThreads - 1)
           /\ Grown \in Seq(Thread)
           /\ Len(Grown) = GrownTo - cur
           /\ Grown # <<>>
           /\ {Grown[i] : i \in 1..Len(Grown)} = (cur + 1)..GrownTo
           /\ \A i, k \in 1..Len(Grown) : Grown[i] = Grown[k] => i = k
  <1>1. cur \in Nat /\ GrownTo \in (cur + 1)..(MaxThreads - 1)
    BY PoolAssumption DEF PoolTypeOK, MayGrow, GrownTo
  <1>2. \A i \in 1..(GrownTo - cur) : GrownTo - i + 1 \in (cur + 1)..GrownTo
    BY <1>1
  <1>3. Grown \in Seq(Thread) /\ Len(Grown) = GrownTo - cur
    BY <1>1, <1>2, PoolAssumption DEF Grown, Thread
  <1>4. \A i \in 1..Len(Grown) : Grown[i] = GrownTo - i + 1
    BY <1>3 DEF Grown
  <1>5. {Grown[i] : i \in 1..Len(Grown)} = (cur + 1)..GrownTo
    <2>1. ASSUME NEW t \in (cur + 1)..GrownTo
          PROVE  \E i \in 1..Len(Grown) : Grown[i] = t
      <3>1. GrownTo - t + 1 \in 1..Len(Grown)
        BY <1>1, <1>3
      <3>2. Grown[GrownTo - t + 1] = t
        BY <3>1, <1>1, <1>4
      <3> QED
        BY <3>1, <3>2
    <2>2. ASSUME NEW i \in 1..Len(Grown) PROVE Grown[i] \in (cur + 1)..GrownTo
      BY <1>2, <1>3, <1>4
    <2> QED
      BY <2>1, <2>2
  <1>6. \A i, k \in 1..Len(Grown) : Grown[i] = Grown[k] => i = k
    BY <1>1, <1>3, <1>4
  <1> QED
    BY <1>1, <1>3, <1>5, <1>6

\* Handing a job to the first thread of a list: the rest of the list, without
\* repetition, holds every other thread of it.
LEMMA TailFacts ==
    ASSUME NEW h \in Seq(Thread), h # <<>>,
           \A i, k \in 1..Len(h) : h[i] = h[k] => i = k
    PROVE  /\ Head(h) \in Thread
           /\ Tail(h) \in Seq(Thread)
           /\ \A i, k \in 1..Len(Tail(h)) : Tail(h)[i] = Tail(h)[k] => i = k
           /\ {Tail(h)[i] : i \in 1..Len(Tail(h))} = {h[i] : i \in 1..Len(h)} \ {Head(h)}
  <1>1. /\ Len(h) \in Nat \ {0} /\ Head(h) = h[1] /\ Head(h) \in Thread
        /\ Tail(h) \in Seq(Thread) /\ Len(Tail(h)) = Len(h) - 1
        /\ \A i \in 1..Len(Tail(h)) : Tail(h)[i] = h[i + 1]
    OBVIOUS
  <1>2. \A i, k \in 1..Len(Tail(h)) : Tail(h)[i] = Tail(h)[k] => i = k
    BY <1>1
  <1>3. ASSUME NEW i \in 2..Len(h) PROVE \E k \in 1..Len(Tail(h)) : Tail(h)[k] = h[i]
    <2>1. i - 1 \in 1..Len(Tail(h)) /\ Tail(h)[i - 1] = h[i]
      BY <1>1
    <2> QED
      BY <2>1
  <1>4. {Tail(h)[i] : i \in 1..Len(Tail(h))} = {h[i] : i \in 1..Len(h)} \ {Head(h)}
    <2>1. ASSUME NEW i \in 1..Len(Tail(h))
          PROVE  Tail(h)[i] \in {h[k] : k \in 1..Len(h)} \ {Head(h)}
      BY <1>1
    <2>2. ASSUME NEW i \in 1..Len(h), h[i] # Head(h)
          PROVE  h[i] \in {Tail(h)[k] : k \in 1..Len(Tail(h))}
      BY <1>1, <1>3, <2>2
    <2> QED
      BY <2>1, <2>2
  <1> QED
    BY <1>1, <1>2, <1>4

\* A free thread put back in front of the list.
LEMMA ConsFacts ==
    ASSUME NEW h \in Seq(Thread), NEW t \in Thread,
           \A i, k \in 1..Len(h) : h[i] = h[k] => i = k,
           t \notin {h[i] : i \in 1..Len(h)}
    PROVE  /\ <<t>> \o h \in Seq(Thread)
           /\ \A i, k \in 1..Len(<<t>> \o h) : (<<t>> \o h)[i] = (<<t>> \o h)[k] => i = k
           /\ {(<<t>> \o h)[i] : i \in 1..Len(<<t>> \o h)} = {h[i] : i \in 1..Len(h)} \cup {t}
  <1> DEFINE g == <<t>> \o h
  <1>1. /\ g \in Seq(Thread) /\ Len(h) \in Nat /\ Len(g) = Len(h) + 1 /\ g[1] = t
        /\ \A i \in 2..Len(g) : g[i] = h[i - 1]
    <2>1. <<t>> \in Seq(Thread) /\ Len(<<t>>) = 1 /\ <<t>>[1] = t /\ Len(h) \in Nat
      OBVIOUS
    <2>2. g \in Seq(Thread) /\ Len(g) = Len(h) + 1
      BY <2>1
    <2>3. \A i \in 1..Len(g) : g[i] = IF i <= 1 THEN <<t>>[i] ELSE h[i - 1]
      BY <2>1
    <2> QED
      BY <2>1, <2>2, <2>3
  <1> HIDE DEF g
  <1>2. ASSUME NEW i \in 1..Len(g), NEW k \in 1..Len(g), g[i] = g[k] PROVE i = k
    <2>1. \A n \in 2..Len(g) : n - 1 \in 1..Len(h) /\ g[n] = h[n - 1]
      BY <1>1
    <2>2. \A n \in 2..Len(g) : g[n] # t
      BY <2>1
    <2>3. CASE i = 1 \/ k = 1
      BY <1>1, <1>2, <2>2, <2>3
    <2>4. CASE i # 1 /\ k # 1
      <3>1. h[i - 1] = h[k - 1] /\ i - 1 \in 1..Len(h) /\ k - 1 \in 1..Len(h)
        BY <1>1, <1>2, <2>1, <2>4
      <3> QED
        BY <3>1
    <2> QED
      BY <2>3, <2>4
  <1>3. ASSUME NEW i \in 1..Len(h) PROVE \E k \in 1..Len(g) : g[k] = h[i]
    <2>1. i + 1 \in 2..Len(g) /\ g[i + 1] = h[i]
      BY <1>1
    <2> QED
      BY <2>1
  <1>4. {g[i] : i \in 1..Len(g)} = {h[i] : i \in 1..Len(h)} \cup {t}
    <2>1. ASSUME NEW i \in 1..Len(g) PROVE g[i] \in {h[k] : k \in 1..Len(h)} \cup {t}
      BY <1>1
    <2>2. t \in {g[i] : i \in 1..Len(g)}
      BY <1>1
    <2>3. ASSUME NEW i \in 1..Len(h) PROVE h[i] \in {g[k] : k \in 1..Len(g)}
      BY <1>3
    <2>4. {g[i] : i \in 1..Len(g)} \subseteq {h[i] : i \in 1..Len(h)} \cup {t}
      BY <2>1
    <2>5. {h[i] : i \in 1..Len(h)} \subseteq {g[i] : i \in 1..Len(g)}
      BY <2>3
    <2> QED
      BY <2>2, <2>4, <2>5
  <1> QED
    BY <1>1, <1>2, <1>4 DEF g

-----------------------------------------------------------------------------
(* Every step keeps the invariant                                           *)

LEMMA InitPool == PoolInit => PoolInv
  BY PoolAssumption DEF PoolInit, PoolInv, PoolTypeOK, FreeListExact, Created, Thread

LEMMA AllocFreeKeeps ==
    ASSUME PoolInv, NEW j \in Job, AllocFree(j) PROVE PoolInv'
  <1> DEFINE t == Head(head)
  <1>1. /\ head \in Seq(Thread) /\ head # <<>>
        /\ \A i, k \in 1..Len(head) : head[i] = head[k] => i = k
        /\ {head[i] : i \in 1..Len(head)} = {s \in Thread : pc[s] = "lock" /\ s \notin unlocked}
    BY DEF PoolInv, PoolTypeOK, FreeListExact, AllocFree
  <1>2. /\ t \in Thread
        /\ Tail(head) \in Seq(Thread)
        /\ \A i, k \in 1..Len(Tail(head)) : Tail(head)[i] = Tail(head)[k] => i = k
        /\ {Tail(head)[i] : i \in 1..Len(Tail(head))} = {head[i] : i \in 1..Len(head)} \ {t}
    BY <1>1, TailFacts
  <1>3. t \in {head[i] : i \in 1..Len(head)}
    BY <1>1
  <1>4. /\ head' = Tail(head)
        /\ handler' = [handler EXCEPT ![t] = j]
        /\ unlocked' = unlocked \cup {t}
        /\ UNCHANGED <<cur, pc>>
    BY DEF AllocFree, HandTo
  <1> HIDE DEF t
  <1>5. PoolTypeOK'
    BY <1>2, <1>4 DEF PoolInv, PoolTypeOK
  <1>6. FreeListExact'
    <2> DEFINE was == {head[i] : i \in 1..Len(head)}
               now == {Tail(head)[i] : i \in 1..Len(Tail(head))}
    <2>3. now = was \ {t} /\ was = {s \in Thread : pc[s] = "lock" /\ s \notin unlocked}
      BY <1>1, <1>2
    <2>4. {head'[i] : i \in 1..Len(head')} = now
      BY <1>4
    <2> HIDE DEF was, now
    <2>5. now = {s \in Thread : pc'[s] = "lock" /\ s \notin unlocked'}
      BY <2>3, <1>4
    <2>1. {head'[i] : i \in 1..Len(head')} = {s \in Thread : pc'[s] = "lock" /\ s \notin unlocked'}
      BY <2>4, <2>5
    <2>2. \A s \in unlocked' : pc'[s] = "lock" /\ handler'[s] # NoJob
      <3>1. pc[t] = "lock" /\ handler'[t] = j /\ j # NoJob
        BY <1>1, <1>2, <1>3, <1>4, PoolAssumption DEF PoolInv, PoolTypeOK
      <3>2. ASSUME NEW s \in unlocked, s # t PROVE pc'[s] = "lock" /\ handler'[s] # NoJob
        BY <1>4, <3>2 DEF PoolInv, PoolTypeOK, FreeListExact
      <3> QED
        BY <1>4, <3>1, <3>2
    <2> QED
      BY <1>2, <1>4, <2>1, <2>2 DEF FreeListExact
  <1> QED
    BY <1>4, <1>5, <1>6 DEF PoolInv, Created

LEMMA AllocGrowKeeps ==
    ASSUME PoolInv, NEW j \in Job, AllocGrow(j) PROVE PoolInv'
  <1> DEFINE t == Head(Grown)
  <1>1. /\ GrownTo \in (cur + 1)..(MaxThreads - 1) /\ cur \in 0..(MaxThreads - 1)
        /\ Grown \in Seq(Thread) /\ Grown # <<>>
        /\ \A i, k \in 1..Len(Grown) : Grown[i] = Grown[k] => i = k
        /\ {Grown[i] : i \in 1..Len(Grown)} = (cur + 1)..GrownTo
    BY GrownFacts DEF PoolInv, AllocGrow, PoolTypeOK
  <1>2. /\ t \in Thread
        /\ Tail(Grown) \in Seq(Thread)
        /\ \A i, k \in 1..Len(Tail(Grown)) : Tail(Grown)[i] = Tail(Grown)[k] => i = k
        /\ {Tail(Grown)[i] : i \in 1..Len(Tail(Grown))} = ((cur + 1)..GrownTo) \ {t}
    BY <1>1, TailFacts
  <1>3. t \in (cur + 1)..GrownTo
    BY <1>1
  <1>4. /\ head' = Tail(Grown)
        /\ handler' = [handler EXCEPT ![t] = j]
        /\ unlocked' = unlocked \cup {t}
        /\ cur' = GrownTo
        /\ pc' = [s \in Thread |-> IF s \in (cur + 1)..GrownTo THEN "lock" ELSE pc[s]]
        /\ head = <<>>
    BY DEF AllocGrow, HandTo
  <1> HIDE DEF t
  <1>5. PoolTypeOK'
    BY <1>1, <1>2, <1>4 DEF PoolInv, PoolTypeOK
  <1>6. Created'
    BY <1>1, <1>4 DEF PoolInv, Created, PoolTypeOK, Thread
  <1>7. FreeListExact'
    <2>1. \A s \in Thread : ~(pc[s] = "lock" /\ s \notin unlocked)
      BY <1>4 DEF PoolInv, FreeListExact
    <2>2. \A s \in (cur + 1)..GrownTo : s \in Thread /\ pc[s] = "none" /\ s \notin unlocked
      BY <1>1, PoolAssumption DEF PoolInv, Created, FreeListExact, Thread
    <2>3. {head'[i] : i \in 1..Len(head')} = {s \in Thread : pc'[s] = "lock" /\ s \notin unlocked'}
      BY <1>1, <1>2, <1>4, <2>1, <2>2
    <2>4. \A s \in unlocked' : pc'[s] = "lock" /\ handler'[s] # NoJob
      BY <1>1, <1>2, <1>3, <1>4, PoolAssumption DEF PoolInv, PoolTypeOK, FreeListExact
    <2> QED
      BY <1>2, <1>4, <2>3, <2>4 DEF FreeListExact
  <1> QED
    BY <1>5, <1>6, <1>7 DEF PoolInv

LEMMA LockKeeps ==
    ASSUME PoolInv, NEW t \in Thread, Lock(t) PROVE PoolInv'
  <1>1. handler[t] # NoJob
    BY DEF PoolInv, FreeListExact, Lock
  <1>2. PoolTypeOK'
    BY DEF PoolInv, PoolTypeOK, Lock
  <1>3. FreeListExact'
    BY <1>1 DEF PoolInv, PoolTypeOK, FreeListExact, Lock
  <1>4. Created'
    BY <1>1 DEF PoolInv, PoolTypeOK, Created, Lock
  <1> QED
    BY <1>2, <1>3, <1>4 DEF PoolInv

LEMMA ReturnKeeps ==
    ASSUME PoolInv, NEW t \in Thread, Return(t) PROVE PoolInv'
  BY DEF PoolInv, PoolTypeOK, FreeListExact, Created, Return, Thread

LEMMA FreeThreadKeeps ==
    ASSUME PoolInv, NEW t \in Thread, FreeThread(t) PROVE PoolInv'
  <1>1. /\ head \in Seq(Thread)
        /\ \A i, k \in 1..Len(head) : head[i] = head[k] => i = k
        /\ {head[i] : i \in 1..Len(head)} = {s \in Thread : pc[s] = "lock" /\ s \notin unlocked}
        /\ pc[t] = "free" /\ t \notin unlocked
    BY DEF PoolInv, PoolTypeOK, FreeListExact, FreeThread
  <1>6. t \notin {head[i] : i \in 1..Len(head)}
    BY <1>1
  <1>7. head' = <<t>> \o head
    BY DEF FreeThread
  <1>8. LET g == <<t>> \o head IN
          /\ g \in Seq(Thread)
          /\ \A i, k \in 1..Len(g) : g[i] = g[k] => i = k
          /\ {g[i] : i \in 1..Len(g)} = {head[i] : i \in 1..Len(head)} \cup {t}
    BY ONLY <1>1, <1>6, ConsFacts
  <1>2. /\ head' \in Seq(Thread)
        /\ \A i, k \in 1..Len(head') : head'[i] = head'[k] => i = k
        /\ {head'[i] : i \in 1..Len(head')} = {head[i] : i \in 1..Len(head)} \cup {t}
    BY <1>7, <1>8
  <1>3. PoolTypeOK'
    BY <1>2 DEF PoolInv, PoolTypeOK, FreeThread
  <1>4. FreeListExact'
    <2>1. {head'[i] : i \in 1..Len(head')} = {s \in Thread : pc'[s] = "lock" /\ s \notin unlocked'}
      BY <1>1, <1>2 DEF PoolInv, PoolTypeOK, FreeThread
    <2>2. \A s \in unlocked' : pc'[s] = "lock" /\ handler'[s] # NoJob
      BY <1>1 DEF PoolInv, PoolTypeOK, FreeListExact, FreeThread
    <2> QED
      BY <1>2, <2>1, <2>2 DEF FreeListExact
  <1>5. Created'
    BY <1>1 DEF PoolInv, PoolTypeOK, Created, FreeThread, Thread
  <1> QED
    BY <1>3, <1>4, <1>5 DEF PoolInv

\* The induction hypothesis holds in every reachable state of the pool.
THEOREM PoolInvariant == PoolSpec => []PoolInv
  <1>1. PoolInit => PoolInv
    BY InitPool
  <1>2. PoolInv /\ [PoolNext]_poolVars => PoolInv'
    <2> SUFFICES ASSUME PoolInv, [PoolNext]_poolVars PROVE PoolInv'
      OBVIOUS
    <2>1. CASE UNCHANGED poolVars
      BY <2>1 DEF poolVars, PoolInv, PoolTypeOK, FreeListExact, Created
    <2>2. CASE PoolNext
      BY <2>2, AllocFreeKeeps, AllocGrowKeeps, LockKeeps, ReturnKeeps, FreeThreadKeeps DEF PoolNext
    <2> QED
      BY <2>1, <2>2
  <1> QED
    BY <1>1, <1>2, PTL DEF PoolSpec

\* The free list holds exactly the sleeping threads, each once.
THEOREM PoolFreeList == PoolSpec => []FreeListExact
  <1>1. PoolInv => FreeListExact
    BY DEF PoolInv
  <1> QED
    BY <1>1, PoolInvariant, PTL

\* A job is refused only while all MaxThreads - 1 threads exist and none is free.
THEOREM PoolRefuses == PoolSpec => []RefusesOnlyWhenBusy
  <1>1. PoolInv => RefusesOnlyWhenBusy
    <2> SUFFICES ASSUME PoolInv, head = <<>>, ~MayGrow
                 PROVE  Cardinality({t \in Thread : t \in unlocked \/ pc[t] \in {"run", "free"}})
                            = MaxThreads - 1
      BY DEF RefusesOnlyWhenBusy
    <2>1. cur = MaxThreads - 1 /\ MaxThreads - 1 \in Nat
      BY PoolAssumption DEF PoolInv, PoolTypeOK, MayGrow
    <2>2. \A t \in Thread : ~(pc[t] = "lock" /\ t \notin unlocked)
      BY DEF PoolInv, FreeListExact
    <2>3. \A t \in Thread : (t \in unlocked \/ pc[t] \in {"run", "free"}) <=> t <= cur
      BY <2>2 DEF PoolInv, PoolTypeOK, FreeListExact, Created
    <2>4. {t \in Thread : t \in unlocked \/ pc[t] \in {"run", "free"}} = 1..(MaxThreads - 1)
      BY <2>1, <2>3, PoolAssumption DEF Thread
    <2>5. ASSUME NEW n \in Nat PROVE Cardinality(1..n) = n
      <3>1. 1 \in Int /\ n \in Int
        OBVIOUS
      <3>2. Cardinality(1..n) = IF 1 > n THEN 0 ELSE n - 1 + 1
        BY <3>1, FS_Interval, Zenon
      <3> QED
        BY <3>2
    <2>6. Cardinality(1..(MaxThreads - 1)) = MaxThreads - 1
      BY <2>1, <2>5
    <2> QED
      BY <2>4, <2>6
  <1> QED
    BY <1>1, PoolInvariant, PTL


-----------------------------------------------------------------------------
(* The pool is a job pool: every step of its threads is one of JobPool      *)

\* A thread is busy from the moment it is handed a job until the job returns.
Busy(t) == t \in unlocked \/ pc[t] = "run"

\* Busy threads have a job each, and no two the same.
JobsApart ==
    /\ \A t \in Thread : Busy(t) => handler[t] # NoJob
    /\ \A s, t \in Thread : Busy(s) /\ Busy(t) /\ handler[s] = handler[t] => s = t

\* The job handed to the first thread of a list is not one a busy thread has.
LEMMA HandedApart ==
    ASSUME PoolInv, JobsApart, NEW j \in Job, ~Held(j), NEW t \in Thread, ~Busy(t),
           handler' = [handler EXCEPT ![t] = j], unlocked' = unlocked \cup {t},
           \A s \in Thread : pc'[s] = "run" <=> pc[s] = "run"
    PROVE  JobsApart'
  <1>1. handler \in [Thread -> Job \cup {NoJob}] /\ j # NoJob
    BY PoolAssumption DEF PoolInv, PoolTypeOK
  <1>2. handler'[t] = j /\ \A s \in Thread : s # t => handler'[s] = handler[s]
    BY <1>1
  <1>3. \A s \in Thread : Busy(s)' <=> Busy(s) \/ s = t
    BY DEF Busy
  <1>4. \A s \in Thread : Busy(s) => handler[s] # j /\ s # t
    BY DEF Held, Busy
  <1> QED
    BY <1>1, <1>2, <1>3, <1>4 DEF JobsApart

\* No job is in the hands of two threads, whatever the threads do meanwhile.
LEMMA StepApart == PoolInv /\ JobsApart /\ [PoolNext]_poolVars => JobsApart'
  <1> SUFFICES ASSUME PoolInv, JobsApart, [PoolNext]_poolVars PROVE JobsApart'
    OBVIOUS
  <1>t. /\ handler \in [Thread -> Job \cup {NoJob}] /\ unlocked \subseteq Thread
        /\ pc \in [Thread -> {"none", "lock", "run", "free"}]
    BY DEF PoolInv, PoolTypeOK
  <1>1. ASSUME NEW j \in Job, AllocFree(j) PROVE JobsApart'
    <2>1. /\ head \in Seq(Thread) /\ head # <<>> /\ ~Held(j)
          /\ {head[i] : i \in 1..Len(head)} = {t \in Thread : pc[t] = "lock" /\ t \notin unlocked}
      BY <1>1 DEF AllocFree, PoolInv, PoolTypeOK, FreeListExact
    <2>2. PICK t : t = Head(head)
      OBVIOUS
    <2>3. 1 \in 1..Len(head) /\ t = head[1]
      BY <2>1, <2>2
    <2>4. t \in Thread /\ pc[t] = "lock" /\ t \notin unlocked
      BY <2>1, <2>3
    <2>5. handler' = [handler EXCEPT ![t] = j] /\ unlocked' = unlocked \cup {t} /\ pc' = pc
      BY <1>1, <2>2 DEF AllocFree, HandTo
    <2> QED
      BY <2>1, <2>4, <2>5, HandedApart DEF Busy
  <1>2. ASSUME NEW j \in Job, AllocGrow(j) PROVE JobsApart'
    <2>1. /\ GrownTo \in (cur + 1)..(MaxThreads - 1) /\ cur \in 0..(MaxThreads - 1) /\ ~Held(j)
          /\ Grown \in Seq(Thread) /\ Grown # <<>>
          /\ {Grown[i] : i \in 1..Len(Grown)} = (cur + 1)..GrownTo
      BY <1>2, GrownFacts DEF PoolInv, AllocGrow, PoolTypeOK
    <2>2. PICK t : t = Head(Grown)
      OBVIOUS
    <2>3. 1 \in 1..Len(Grown) /\ t = Grown[1]
      BY <2>1, <2>2
    <2>4. t \in (cur + 1)..GrownTo
      BY <2>1, <2>3
    <2>5. \A s \in (cur + 1)..GrownTo : s \in Thread /\ pc[s] = "none" /\ s \notin unlocked
      BY <2>1, PoolAssumption DEF PoolInv, Created, FreeListExact, Thread
    <2>6. handler' = [handler EXCEPT ![t] = j] /\ unlocked' = unlocked \cup {t}
          /\ pc' = [s \in Thread |-> IF s \in (cur + 1)..GrownTo THEN "lock" ELSE pc[s]]
      BY <1>2, <2>2 DEF AllocGrow, HandTo
    <2>7. \A s \in Thread : pc'[s] = "run" <=> pc[s] = "run"
      BY <2>5, <2>6
    <2> QED
      BY <2>1, <2>4, <2>5, <2>6, <2>7, HandedApart DEF Busy
  <1>3. ASSUME NEW t \in Thread, Lock(t) PROVE JobsApart'
    <2>1. \A s \in Thread : Busy(s)' => Busy(s)
      BY <1>3, <1>t DEF Lock, Busy
    <2> QED
      BY <1>3, <2>1 DEF Lock, JobsApart
  <1>4. ASSUME NEW t \in Thread, Return(t) PROVE JobsApart'
    <2>1. \A s \in Thread : Busy(s)' => Busy(s)
      BY <1>4, <1>t DEF Return, Busy
    <2> QED
      BY <1>4, <2>1 DEF Return, JobsApart
  <1>5. ASSUME NEW t \in Thread, FreeThread(t) PROVE JobsApart'
    <2>1. ~Busy(t)
      BY <1>5 DEF FreeThread, PoolInv, FreeListExact, Busy
    <2>2. \A s \in Thread : Busy(s)' => Busy(s) /\ handler'[s] = handler[s]
      BY <1>5, <1>t, <2>1 DEF FreeThread, Busy
    <2> QED
      BY <2>2 DEF JobsApart
  <1>6. CASE UNCHANGED poolVars
    BY <1>6 DEF poolVars, JobsApart, Busy
  <1> QED
    BY <1>1, <1>2, <1>3, <1>4, <1>5, <1>6 DEF PoolNext

\* While a thread that exists or may still be created has no job, there is room for one.
LEMMA RoomForOne ==
    ASSUME PoolInv, NEW x \in 1..(MaxThreads - 1), ~Busy(x)
    PROVE  Cardinality(Accepted \cup Running) < MaxThreads - 1
  <1> DEFINE B == {t \in 1..(MaxThreads - 1) : Busy(t)}
             H == {handler[t] : t \in B}
  <1>1. MaxThreads - 1 \in Nat /\ 1..(MaxThreads - 1) \subseteq Thread
    BY PoolAssumption DEF Thread
  <1>2. IsFiniteSet(1..(MaxThreads - 1)) /\ Cardinality(1..(MaxThreads - 1)) = MaxThreads - 1
    <2>1. 1 \in Int /\ MaxThreads - 1 \in Int
      BY <1>1
    <2>2. /\ IsFiniteSet(1..(MaxThreads - 1))
          /\ Cardinality(1..(MaxThreads - 1)) = IF 1 > MaxThreads - 1 THEN 0 ELSE (MaxThreads - 1) - 1 + 1
      BY <2>1, FS_Interval, Zenon
    <2> QED
      BY <1>1, <2>2
  <1>3. B \in SUBSET (1..(MaxThreads - 1)) /\ B # 1..(MaxThreads - 1)
    OBVIOUS
  <1>4. IsFiniteSet(B) /\ Cardinality(B) <= MaxThreads - 1 /\ Cardinality(B) # MaxThreads - 1
    BY <1>2, <1>3, FS_Subset
  <1>5. Cardinality(B) \in Nat
    BY <1>4, FS_CardinalityType
  <1>6. Accepted \cup Running = H
    <2>1. \A t \in Thread : Busy(t) => t \in B
      <3>1. \A t \in Thread : Busy(t) => pc[t] # "none"
        BY DEF Busy, PoolInv, FreeListExact
      <3>2. \A t \in Thread : Busy(t) => t <= cur
        BY <3>1 DEF PoolInv, Created
      <3> QED
        BY <3>2, <1>1 DEF PoolInv, PoolTypeOK, Thread
    <2>2. unlocked \subseteq Thread
      BY DEF PoolInv, PoolTypeOK
    <2> QED
      BY <1>1, <2>1, <2>2 DEF Accepted, Running, Busy
  <1>7. IsFiniteSet(H) /\ Cardinality(H) <= Cardinality(B)
    <2> DEFINE f == [t \in B |-> handler[t]]
    <2>1. f \in Surjection(B, H)
      BY DEF Surjection
    <2> HIDE DEF f, B, H
    <2> QED
      BY <1>4, <2>1, FS_Surjection
  <1>8. Cardinality(H) \in Nat
    BY <1>7, FS_CardinalityType
  <1> HIDE DEF B, H
  <1> QED
    BY <1>1, <1>4, <1>5, <1>6, <1>7, <1>8

\* A job that alloc_thread takes is a new one, and there was room for it.
LEMMA HandedIsSubmit ==
    ASSUME PoolInv, NEW j \in Job, ~Held(j), NEW t \in 1..(MaxThreads - 1), ~Busy(t),
           handler' = [handler EXCEPT ![t] = j], unlocked' = unlocked \cup {t},
           \A s \in Thread : pc'[s] = "run" <=> pc[s] = "run"
    PROVE  Pool!Submit(j)
  <1>1. /\ handler \in [Thread -> Job \cup {NoJob}] /\ unlocked \subseteq Thread /\ t \in Thread
    BY PoolAssumption DEF PoolInv, PoolTypeOK, Thread
  <1>2. handler'[t] = j /\ \A s \in Thread : s # t => handler'[s] = handler[s]
    BY <1>1
  <1>3. j \notin Accepted \cup Running
    BY <1>1 DEF Held, Accepted, Running
  <1>4. Accepted' = Accepted \cup {j}
    <2>1. \A s \in unlocked : s # t
      BY DEF Busy
    <2> QED
      BY <1>1, <1>2, <2>1 DEF Accepted
  <1>5. Running' = Running
    <2>1. \A s \in Thread : pc[s] = "run" => s # t
      BY DEF Busy
    <2>2. {s \in Thread : pc'[s] = "run"} = {s \in Thread : pc[s] = "run"}
      OBVIOUS
    <2> QED
      BY <1>2, <2>1, <2>2 DEF Running
  <1>6. Pool!Cardinality(Accepted \cup Running) < MaxThreads - 1
    <2>1. Cardinality(Accepted \cup Running) < MaxThreads - 1
      BY RoomForOne
    <2>2. Pool!Cardinality(Accepted \cup Running) = Cardinality(Accepted \cup Running)
      BY DEF Pool!Cardinality, Cardinality
    <2> QED
      BY <2>1, <2>2
  <1> QED
    BY <1>3, <1>4, <1>5, <1>6 DEF Pool!Submit

\* Each step of the pool is a step of a job pool, or none.
LEMMA StepIsJob ==
    PoolInv /\ JobsApart /\ [PoolNext]_poolVars => [Pool!Next]_(Pool!jobVars)
  <1> SUFFICES ASSUME PoolInv, JobsApart, [PoolNext]_poolVars
               PROVE  Pool!Next \/ (Accepted' = Accepted /\ Running' = Running)
    BY DEF Pool!jobVars
  <1>t. /\ handler \in [Thread -> Job \cup {NoJob}] /\ unlocked \subseteq Thread
        /\ pc \in [Thread -> {"none", "lock", "run", "free"}]
        /\ cur \in 0..(MaxThreads - 1)
    BY DEF PoolInv, PoolTypeOK
  <1>1. ASSUME NEW j \in Job, AllocFree(j) PROVE Pool!Next
    <2>1. /\ head \in Seq(Thread) /\ head # <<>> /\ ~Held(j)
          /\ {head[i] : i \in 1..Len(head)} = {t \in Thread : pc[t] = "lock" /\ t \notin unlocked}
      BY <1>1 DEF AllocFree, PoolInv, PoolTypeOK, FreeListExact
    <2>2. PICK t : t = Head(head)
      OBVIOUS
    <2>3. 1 \in 1..Len(head) /\ t = head[1]
      BY <2>1, <2>2
    <2>4. t \in Thread /\ pc[t] = "lock" /\ t \notin unlocked
      BY <2>1, <2>3
    <2>5. t \in 1..(MaxThreads - 1)
      BY <2>4, <1>t, PoolAssumption DEF PoolInv, Created, Thread
    <2>6. handler' = [handler EXCEPT ![t] = j] /\ unlocked' = unlocked \cup {t} /\ pc' = pc
      BY <1>1, <2>2 DEF AllocFree, HandTo
    <2>7. Pool!Submit(j)
      BY <2>1, <2>4, <2>5, <2>6, HandedIsSubmit DEF Busy
    <2> QED
      BY <2>7 DEF Pool!Next
  <1>2. ASSUME NEW j \in Job, AllocGrow(j) PROVE Pool!Next
    <2>1. /\ GrownTo \in (cur + 1)..(MaxThreads - 1) /\ ~Held(j)
          /\ Grown \in Seq(Thread) /\ Grown # <<>>
          /\ {Grown[i] : i \in 1..Len(Grown)} = (cur + 1)..GrownTo
      BY <1>2, GrownFacts DEF PoolInv, AllocGrow, PoolTypeOK
    <2>2. PICK t : t = Head(Grown)
      OBVIOUS
    <2>3. 1 \in 1..Len(Grown) /\ t = Grown[1]
      BY <2>1, <2>2
    <2>4. t \in (cur + 1)..GrownTo /\ t \in 1..(MaxThreads - 1)
      <3>1. t \in (cur + 1)..GrownTo
        BY <2>1, <2>3
      <3> HIDE DEF GrownTo
      <3>2. GrownTo \in Nat /\ GrownTo <= MaxThreads - 1 /\ MaxThreads \in Nat /\ cur \in Nat
        BY <2>1, <1>t, PoolAssumption
      <3> QED
        BY <3>1, <3>2
    <2>5. \A s \in (cur + 1)..GrownTo : s \in Thread /\ pc[s] = "none" /\ s \notin unlocked
      BY <2>1, <1>t, PoolAssumption DEF PoolInv, Created, FreeListExact, Thread
    <2>6. handler' = [handler EXCEPT ![t] = j] /\ unlocked' = unlocked \cup {t}
          /\ pc' = [s \in Thread |-> IF s \in (cur + 1)..GrownTo THEN "lock" ELSE pc[s]]
      BY <1>2, <2>2 DEF AllocGrow, HandTo
    <2>7. \A s \in Thread : pc'[s] = "run" <=> pc[s] = "run"
      BY <2>5, <2>6
    <2>8. Pool!Submit(j)
      BY <2>1, <2>4, <2>5, <2>6, <2>7, HandedIsSubmit DEF Busy
    <2> QED
      BY <2>8 DEF Pool!Next
  <1>3. ASSUME NEW t \in Thread, Lock(t) PROVE Pool!Next
    <2>1. /\ t \in unlocked /\ handler[t] \in Job /\ pc' = [pc EXCEPT ![t] = "run"]
          /\ unlocked' = unlocked \ {t} /\ handler' = handler /\ pc[t] = "lock"
      BY <1>3, <1>t DEF Lock, JobsApart, Busy
    <2>2. \A s \in unlocked : s # t => handler[s] # handler[t]
      BY <2>1, <1>t DEF JobsApart, Busy
    <2>3. Accepted' = Accepted \ {handler[t]}
      BY <2>1, <2>2 DEF Accepted
    <2>4. {s \in Thread : pc'[s] = "run"} = {s \in Thread : pc[s] = "run"} \cup {t}
      BY <2>1, <1>t
    <2>5. Running' = Running \cup {handler[t]}
      BY <2>1, <2>4 DEF Running
    <2>6. handler[t] \in Accepted
      BY <2>1 DEF Accepted
    <2> QED
      BY <2>1, <2>3, <2>5, <2>6 DEF Pool!Next, Pool!Start
  <1>4. ASSUME NEW t \in Thread, Return(t) PROVE Pool!Next
    <2>1. /\ pc[t] = "run" /\ handler[t] \in Job /\ pc' = [pc EXCEPT ![t] = "free"]
          /\ unlocked' = unlocked /\ handler' = handler
      BY <1>4, <1>t DEF Return, JobsApart, Busy
    <2>2. \A s \in Thread : pc[s] = "run" /\ s # t => handler[s] # handler[t]
      BY <2>1 DEF JobsApart, Busy
    <2>3. {s \in Thread : pc'[s] = "run"} = {s \in Thread : pc[s] = "run"} \ {t}
      BY <2>1, <1>t
    <2>4. Running' = Running \ {handler[t]}
      BY <2>1, <2>2, <2>3 DEF Running
    <2>5. Accepted' = Accepted /\ handler[t] \in Running
      BY <2>1 DEF Accepted, Running
    <2> QED
      BY <2>1, <2>4, <2>5 DEF Pool!Next, Pool!Finish
  <1>5. ASSUME NEW t \in Thread, FreeThread(t) PROVE Accepted' = Accepted /\ Running' = Running
    <2>1. /\ pc[t] = "free" /\ t \notin unlocked /\ unlocked' = unlocked
          /\ pc' = [pc EXCEPT ![t] = "lock"] /\ handler' = [handler EXCEPT ![t] = NoJob]
      BY <1>5 DEF FreeThread, PoolInv, FreeListExact
    <2>2. \A s \in Thread : s # t => handler'[s] = handler[s]
      BY <2>1, <1>t
    <2>3. {s \in Thread : pc'[s] = "run"} = {s \in Thread : pc[s] = "run"}
      BY <2>1, <1>t
    <2>4. \A s \in unlocked : s \in Thread /\ s # t
      BY <2>1, <1>t
    <2>5. Accepted' = Accepted
      BY <2>1, <2>2, <2>4 DEF Accepted
    <2>6. \A s \in {r \in Thread : pc[r] = "run"} : s # t
      BY <2>1
    <2>7. Running' = Running
      BY <2>2, <2>3, <2>6 DEF Running
    <2> QED
      BY <2>5, <2>7
  <1>6. CASE UNCHANGED poolVars
    BY <1>6 DEF poolVars, Accepted, Running
  <1> QED
    BY <1>1, <1>2, <1>3, <1>4, <1>5, <1>6 DEF PoolNext

\* The threads of the pool implement the safety part of JobPool, for every number of
\* threads: what alloc_thread accepts is run once, by one thread, and never more than
\* MaxThreads - 1 jobs at a time.
THEOREM PoolRunsJobsOnce == PoolSpec => Pool!Safety
  <1>1. PoolInit => PoolInv /\ JobsApart /\ Pool!Init
    <2>1. PoolInit => PoolInv
      BY InitPool
    <2>2. PoolInit => JobsApart
      BY DEF PoolInit, JobsApart, Busy
    <2>3. PoolInit => Accepted = {} /\ Running = {}
      BY DEF PoolInit, Accepted, Running
    <2> QED
      BY <2>1, <2>2, <2>3 DEF Pool!Init
  <1> QED
    BY <1>1, StepApart, StepIsJob, PoolInvariant, PTL DEF PoolSpec, Pool!Safety
=============================================================================
