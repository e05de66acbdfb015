------------------------------- MODULE Roster -------------------------------
(***************************************************************************)
(* The message server of msg/server.c, without file transfers: accounts    *)
(* and their registration by a second thread, sessions, the friend and     *)
(* contact lists, pending friend requests, the offline mailbox of each     *)
(* account and the profiles on disk.                                       *)
(*                                                                         *)
(* The select loop is one thread, so every handler it calls is one action. *)
(* add_user runs on the registration thread and takes no lock, so it is    *)
(* cut into the steps the select loop can observe.                         *)
(***************************************************************************)
EXTENDS Naturals, Sequences, SequencesExt, FiniteSets

CONSTANTS
    User,        \* account names
    Fd,          \* descriptors accept() may return
    NoFd,        \* the -1 of User.fd
    Preloaded,   \* accounts that have a profile when the server first starts
    Commands,    \* the commands the clients send (bound of a run)
    CanCrash,    \* the process may die between two handlers
    CanTear,     \* the process may die while a profile is being saved
    MaxBacklog   \* bound on the length of a mailbox

ASSUME RosterAssumption ==
    /\ NoFd \notin Fd
    /\ Preloaded \subseteq User
    /\ {CanCrash, CanTear} \subseteq BOOLEAN
    /\ MaxBacklog \in Nat

VARIABLES
    server,      \* the process: "up", "down", or "undefined" once it has
                 \* followed a pointer nobody initialised
    account,     \* register_head: what add_user has done for each name
    early,       \* history: accounts somebody named before they were announced
    profile,     \* profile.xml: "none", "torn" (truncated), "saved"
    saved,       \* the <friend> element of profile.xml
    friends,     \* User.friend_h
    contacts,    \* User.contact_h: the accounts that list this one
    waits,       \* User.wait_h, the entries of type WaitTypeFriend
    offmsg,      \* User.offmsg_h, head first; a message is its ticket number
    offm_nr,     \* User.offm_nr
    handed,      \* what the last login of an account wrote from its mailbox
    fd,          \* User.fd
    allset,      \* the descriptors the select loop waits for
    open,        \* descriptors of client connections not yet closed
    dead,        \* those whose client is gone, unnoticed so far
    told,        \* the presence of a friend last written to a session
    wanted,      \* history: whom an account asked, or chose, to add
    approved     \* history: whose request an account accepted

processVars == <<server, account, early, profile>>
listVars    == <<friends, contacts, saved>>
historyVars == <<wanted, approved>>
mailVars    == <<offmsg, offm_nr, handed>>
sessionVars == <<fd, allset, open, dead>>
vars == <<processVars, listVars, waits, historyVars, mailVars, sessionVars, told>>

\* Linked into register_head, list heads set, directory made, User.xml set, and
\* the success reply on its way to the client: in this order.
Step == {"linked", "heads", "dir", "xml", "announced"}

TypeOK ==
    /\ server \in {"up", "down", "undefined"}
    /\ account \in [User -> SUBSET Step]
    /\ early \subseteq User
    /\ profile \in [User -> {"none", "torn", "saved"}]
    /\ saved \in [User -> SUBSET User]
    /\ friends \in [User -> SUBSET User]
    /\ contacts \in [User -> SUBSET User]
    /\ waits \in [User -> SUBSET User]
    /\ offmsg \in [User -> Seq(Nat)]
    /\ offm_nr \in [User -> Nat]
    /\ handed \in [User -> Seq(Nat)]
    /\ fd \in [User -> Fd \cup {NoFd}]
    /\ allset \subseteq Fd
    /\ open \subseteq Fd
    /\ dead \subseteq Fd
    /\ told \in [User -> [User -> {"unknown", "on", "off"}]]
    /\ wanted \in [User -> SUBSET User]
    /\ approved \in [User -> SUBSET User]

-----------------------------------------------------------------------------
(* Loading and losing the memory of the process                             *)

None == [u \in User |-> {}]
Unknown == [u \in User |-> "unknown"]

\* load_friend: a saved name becomes a friend when it has an account.
Loaded(s, known) == [u \in User |-> s[u] \cap known]
Inverted(f) == [n \in User |-> {u \in User : n \in f[u]}]

NoSessions ==
    /\ fd = [u \in User |-> NoFd]
    /\ allset = {} /\ open = {} /\ dead = {}
    /\ told = [u \in User |-> Unknown]
    /\ offmsg = [u \in User |-> <<>>]
    /\ offm_nr = [u \in User |-> 0]
    /\ handed = [u \in User |-> <<>>]
    /\ waits = None

Init ==
    /\ server = "up"
    /\ account = [u \in User |-> IF u \in Preloaded THEN Step ELSE {}]
    /\ early = {}
    /\ profile = [u \in User |-> IF u \in Preloaded THEN "saved" ELSE "none"]
    /\ saved \in [User -> SUBSET Preloaded]
    /\ \A u \in User : u \notin saved[u] /\ (u \notin Preloaded => saved[u] = {})
    /\ friends = saved
    /\ contacts = Inverted(saved)
    /\ wanted = saved
    /\ approved = Inverted(saved)
    /\ NoSessions

\* Every structure the process held is gone; the disk and history stay.
MemoryLost ==
    /\ server' = "down"
    /\ account' = None
    /\ friends' = None
    /\ contacts' = None
    /\ fd' = [u \in User |-> NoFd]
    /\ allset' = {} /\ open' = {} /\ dead' = {}
    /\ told' = [u \in User |-> Unknown]
    /\ offmsg' = [u \in User |-> <<>>]
    /\ offm_nr' = [u \in User |-> 0]
    /\ handed' = [u \in User |-> <<>>]
    /\ waits' = None

Crash ==
    /\ CanCrash
    /\ server # "down"
    /\ MemoryLost
    /\ UNCHANGED <<profile, saved, early, historyVars>>

\* load_user: a profile that does not parse leaves its account linked with a
\* released document, which load_friend then reads.
Restart ==
    /\ server = "down"
    /\ LET known == {u \in User : profile[u] # "none"} IN
       /\ server' = IF \E u \in known : profile[u] = "torn" THEN "undefined" ELSE "up"
       /\ account' = [u \in User |-> IF u \in known THEN Step ELSE {}]
       /\ friends' = Loaded(saved, known)
       /\ contacts' = Inverted(Loaded(saved, known))
    /\ UNCHANGED <<profile, saved, early, waits, historyVars, mailVars, sessionVars, told>>

-----------------------------------------------------------------------------
(* Registration: add_user on the thread of register_handler                 *)

RegisterStep(u, done, step) ==
    /\ server = "up"
    /\ account[u] = done
    /\ account' = [account EXCEPT ![u] = @ \cup {step}]
    /\ UNCHANGED <<server, early, friends, contacts, waits, historyVars, mailVars, sessionVars, told>>

\* register_handler serves one client at a time; find_user must not know u.
RegisterLink(u) ==
    /\ \A v \in User : account[v] \in {{}, Step}
    /\ RegisterStep(u, {}, "linked")
    /\ UNCHANGED <<profile, saved>>

RegisterHeads(u) ==
    /\ RegisterStep(u, {"linked"}, "heads")
    /\ UNCHANGED <<profile, saved>>

\* mkdir: a restart now finds the directory, but no document in it.
RegisterDir(u) ==
    /\ RegisterStep(u, {"linked", "heads"}, "dir")
    /\ profile' = [profile EXCEPT ![u] = "torn"]
    /\ UNCHANGED saved

RegisterXml(u) ==
    /\ RegisterStep(u, {"linked", "heads", "dir"}, "xml")
    /\ profile' = [profile EXCEPT ![u] = "saved"]
    /\ saved' = [saved EXCEPT ![u] = {}]

ReplyAtOnce == {"linked"}                                         \* mutant
BeforeReply == {"linked", "heads", "dir", "xml"}
RegisterReply(u) ==
    /\ RegisterStep(u, BeforeReply, "announced")
    /\ UNCHANGED <<profile, saved>>

\* A client logs in as n, or names n in a command, and find_user finds it.
Names(n) ==
    /\ "heads" \in account[n]
    /\ early' = IF "announced" \in account[n] THEN early ELSE early \cup {n}

\* It does so while the list heads of the account hold what malloc left there.
NameUnready ==
    /\ server = "up"
    /\ \E n \in User :
        /\ "linked" \in account[n] /\ "heads" \notin account[n]
        /\ early' = IF "announced" \in account[n] THEN early ELSE early \cup {n}
    /\ server' = "undefined"
    /\ UNCHANGED <<account, profile, listVars, waits, historyVars, mailVars, sessionVars, told>>

-----------------------------------------------------------------------------
(* Sessions                                                                 *)

Online(u) == fd[u] # NoFd

\* send_online_msg: u's presence, as written to the contacts that are online.
AudienceOfFriends(u) == {c \in friends[u] : Online(c)}            \* mutant
Audience(u) == {c \in contacts[u] : Online(c)}
Notified(t, u, what) ==
    [c \in User |-> IF c \in Audience(u)
                    THEN [t[c] EXCEPT ![u] = what] ELSE t[c]]

\* The descriptor of u leaves the set select waits for, if u has one.
ClearedNothing(u) == allset                                       \* mutant
Cleared(u) == allset \ {fd[u]}

\* login_user's loop over next_offmsg, which takes messages from the tail.
CountForgotten(u) == offm_nr[u]                                   \* mutant
CountAfterDrain(u) == offm_nr[u] - Len(offmsg[u])

\* login_user after the password matched. A session that is still open is
\* dropped first: its descriptor leaves the set, its friends hear nothing.
Login(u, f) ==
    /\ server = "up"
    /\ Names(u)
    /\ f \notin open
    /\ fd' = [fd EXCEPT ![u] = f]
    /\ allset' = Cleared(u) \cup {f}
    /\ open' = (open \ {fd[u]}) \cup {f}
    /\ dead' = dead \ {fd[u]}
    /\ told' = Notified([told EXCEPT ![u] = Unknown], u, "on")
    /\ handed' = [handed EXCEPT ![u] = Reverse(offmsg[u])]
    /\ offmsg' = [offmsg EXCEPT ![u] = <<>>]
    /\ offm_nr' = [offm_nr EXCEPT ![u] = CountAfterDrain(u)]
    /\ UNCHANGED <<server, account, profile, listVars, waits, historyVars>>

\* The client, or the network in front of it, goes away.
ClientDies(u) ==
    /\ server = "up"
    /\ Online(u)
    /\ fd[u] \notin dead
    /\ dead' = dead \cup {fd[u]}
    /\ UNCHANGED <<processVars, listVars, waits, historyVars, mailVars, fd, allset, open, told>>

\* main: readn on a dead connection comes back short.
Disconnect(u) ==
    /\ server = "up"
    /\ Online(u)
    /\ fd[u] \in dead
    /\ fd' = [fd EXCEPT ![u] = NoFd]
    /\ allset' = Cleared(u)
    /\ open' = open \ {fd[u]}
    /\ dead' = dead \ {fd[u]}
    /\ handed' = [handed EXCEPT ![u] = <<>>]
    /\ told' = Notified([told EXCEPT ![u] = Unknown], u, "off")
    /\ UNCHANGED <<processVars, listVars, waits, historyVars, offmsg, offm_nr>>

-----------------------------------------------------------------------------
(* Commands                                                                 *)

\* u, in a session, sends command c.
Sends(u, c) ==
    /\ server = "up"
    /\ Online(u)
    /\ c \in Commands

\* offline_sendv: list_add puts a message at the head of the mailbox.
QueuedAtTail(q) == Append(q, Len(q) + 1)                          \* mutant
Queued(q) == <<Len(q) + 1>> \o q

\* A message to each account of S: written to its session when it has one,
\* otherwise queued in its mailbox.
Post(S) ==
    LET queued == {d \in S : ~Online(d)} IN
    /\ \A d \in queued : Len(offmsg[d]) < MaxBacklog
    /\ offmsg' = [d \in User |-> IF d \in queued
                                 THEN Queued(offmsg[d]) ELSE offmsg[d]]
    /\ offm_nr' = [d \in User |-> IF d \in queued THEN offm_nr[d] + 1 ELSE offm_nr[d]]
    /\ UNCHANGED handed

RealMessage(u, n) ==
    /\ Sends(u, "REALMESSAGE")
    /\ n \in friends[u] \cup contacts[u]
    /\ Post({n})
    /\ UNCHANGED <<processVars, listVars, waits, historyVars, sessionVars, told>>

\* server_reply_friend (every friend) and server_reply_who (those online).
ReplyFriend(u) ==
    /\ Sends(u, "SEARCHFRIEND")
    /\ told' = [told EXCEPT ![u] = [n \in User |->
                    IF n \in friends[u] THEN IF Online(n) THEN "on" ELSE "off" ELSE @[n]]]
    /\ UNCHANGED <<processVars, listVars, waits, historyVars, mailVars, sessionVars>>

ReplyWho(u) ==
    /\ Sends(u, "SEARCHWHO")
    /\ told' = [told EXCEPT ![u] = [n \in User |->
                    IF n \in friends[u] /\ Online(n) THEN "on" ELSE @[n]]]
    /\ UNCHANGED <<processVars, listVars, waits, historyVars, mailVars, sessionVars>>

\* The saved lists after the pairs <<owner, friend>> of P are added.
Extended(f, P) == [u \in User |-> f[u] \cup {n \in User : <<u, n>> \in P}]

\* add_user_to_friend for one pair, or for two in a row: list, contact,
\* document, xml_save and the ACCEPTADD reply to the owner of each list.
AddPairs(P) ==
    /\ friends' = Extended(friends, P)
    /\ contacts' = Extended(contacts, {q \in User \X User : <<q[2], q[1]>> \in P})
    /\ saved' = Extended(saved, P)
    /\ Post({p[1] : p \in P})
    /\ IF \E p \in P : "xml" \notin account[p[1]]
         THEN server' = "undefined" ELSE UNCHANGED server
    /\ UNCHANGED <<account, profile, sessionVars, told>>

\* The process dies in a handler that saves: the profiles of `done` have their
\* new text, the one of `owner` has been truncated and not written.
DieSaving(newSaved, done, owner) ==
    /\ CanTear
    /\ profile' = [profile EXCEPT ![owner] = "torn"]
    /\ saved' = [u \in User |-> IF u = owner THEN {}
                                ELSE IF u \in done THEN newSaved[u] ELSE saved[u]]
    /\ MemoryLost

\* server_add_friend: at once when n already lists u, otherwise by request.
AddFriendNow(u, n) ==
    /\ Sends(u, "REQUESTADD")
    /\ Names(n)
    /\ n \notin friends[u]
    /\ u \in friends[n]
    /\ \/ AddPairs({<<u, n>>}) /\ UNCHANGED waits
       \/ DieSaving(saved, {}, u)
    /\ wanted' = [wanted EXCEPT ![u] = @ \cup {n}]
    /\ UNCHANGED approved

RequestAdd(u, n) ==
    /\ Sends(u, "REQUESTADD")
    /\ Names(n)
    /\ n \notin friends[u]
    /\ u \notin friends[n]
    /\ waits' = [waits EXCEPT ![u] = @ \cup {n}]
    /\ Post({n})
    /\ wanted' = [wanted EXCEPT ![u] = @ \cup {n}]
    /\ UNCHANGED <<server, account, profile, listVars, approved, sessionVars, told>>

\* free_user_wait finds the request of n for u.
PendingAlways(u, n) == TRUE                                       \* mutant
Pending(u, n) == u \in waits[n]

\* server_accept_add: u accepts n's request, which must be pending.
AcceptAdd(u, n) ==
    /\ Sends(u, "ACCEPTADD")
    /\ u # n
    /\ Names(n)
    /\ u \notin friends[n]
    /\ Pending(u, n)
    /\ \/ AddPairs({<<n, u>>}) /\ waits' = [waits EXCEPT ![n] = @ \ {u}]
       \/ DieSaving(saved, {}, n)
    /\ approved' = [approved EXCEPT ![u] = @ \cup {n}]
    /\ UNCHANGED wanted

\* server_accept_and_add: and adds n in return, unless it has n already.
AcceptAndAdd(u, n) ==
    LET P == {<<n, u>>} \cup (IF n \in friends[u] THEN {} ELSE {<<u, n>>}) IN
    /\ Sends(u, "ACCEPTANDADD")
    /\ u # n
    /\ Names(n)
    /\ u \notin friends[n]
    /\ Pending(u, n)
    /\ \/ AddPairs(P) /\ waits' = [waits EXCEPT ![n] = @ \ {u}]
       \/ DieSaving(saved, {}, n)
       \/ n \notin friends[u] /\ DieSaving(Extended(saved, P), {n}, u)
    /\ approved' = [approved EXCEPT ![u] = @ \cup {n}]
    /\ wanted' = [wanted EXCEPT ![u] = @ \cup {n}]

\* server_refuse_add tells the other side and leaves the request pending.
RefuseAdd(u, n) ==
    /\ Sends(u, "REFUSEADD")
    /\ Names(n)
    /\ Post({n})
    /\ UNCHANGED <<server, account, profile, listVars, waits, historyVars, sessionVars, told>>

\* server_del_friend: one direction only; the reply removes n from u's roster.
DropNoContact(u, n) == contacts                                   \* mutant
DropContact(u, n) == [contacts EXCEPT ![n] = @ \ {u}]
SavedNot(u, n) == saved                                           \* mutant
SavedWithout(u, n) == [saved EXCEPT ![u] = @ \ {n}]
DelFriend(u, n) ==
    /\ Sends(u, "DELFRIEND")
    /\ n \in friends[u]
    /\ \/ /\ friends' = [friends EXCEPT ![u] = @ \ {n}]
          /\ contacts' = DropContact(u, n)
          /\ saved' = SavedWithout(u, n)
          /\ told' = [told EXCEPT ![u][n] = "unknown"]
          /\ IF "xml" \notin account[u] THEN server' = "undefined" ELSE UNCHANGED server
          /\ UNCHANGED <<account, profile, waits, mailVars, sessionVars>>
       \/ DieSaving(saved, {}, u)
    /\ UNCHANGED <<early, historyVars>>

Command(u, n) ==
    \/ RealMessage(u, n)
    \/ AddFriendNow(u, n)
    \/ RequestAdd(u, n)
    \/ AcceptAdd(u, n)
    \/ AcceptAndAdd(u, n)
    \/ RefuseAdd(u, n)
    \/ DelFriend(u, n)

Register(u) ==
    \/ RegisterLink(u)
    \/ RegisterHeads(u)
    \/ RegisterDir(u)
    \/ RegisterXml(u)
    \/ RegisterReply(u)

Next ==
    \/ Crash
    \/ Restart
    \/ NameUnready
    \/ \E u \in User :
        \/ Register(u)
        \/ \E f \in Fd : Login(u, f)
        \/ ClientDies(u)
        \/ Disconnect(u)
        \/ ReplyFriend(u)
        \/ ReplyWho(u)
        \/ \E n \in User : Command(u, n)

Spec == Init /\ [][Next]_vars

-----------------------------------------------------------------------------
(* Properties                                                               *)

\* add_user_to_friend and server_del_friend keep two lists of two accounts in
\* one allocation; load_friend rebuilds both. The contact list of an account is
\* exactly the accounts that list it, so a presence change reaches all of them.
FriendContactDual == contacts = Inverted(friends)

\* An account is listed as a friend only if its owner asked for it (REQUESTADD
\* or ACCEPTANDADD), and the other side accepted or asked the owner itself,
\* across refusals, deletions, crashes and restarts.
Consent ==
    \A u \in User : \A n \in friends[u] :
        n \in wanted[u] /\ (u \in approved[n] \/ u \in wanted[n])

\* A session never has mail waiting in the mailbox, so a message written to it
\* directly cannot overtake one queued before; the counter offm_nr is exact.
NoOvertaking ==
    \A u \in User :
        /\ Online(u) => offmsg[u] = <<>>
        /\ offm_nr[u] = Len(offmsg[u])

\* The descriptor set of select holds exactly the descriptors of the sessions,
\* no two sessions share one, and no other client connection is left open:
\* also after a login took over a session.
FdSetExact ==
    /\ allset = {fd[u] : u \in {v \in User : Online(v)}}
    /\ open = allset
    /\ dead \subseteq open
    /\ \A u, v \in User : Online(u) /\ fd[u] = fd[v] => u = v

\* What a session was last told about a friend is what the server knows: no
\* login, takeover, disconnect, addition or deletion leaves it out of date.
PresenceAgrees ==
    \A u \in User : \A n \in friends[u] :
        Online(u) /\ told[u][n] # "unknown" => (told[u][n] = "on" <=> Online(n))

\* The server reads uninitialised or released memory only when a client named
\* an account before it was announced, or after a crash cut a profile short.
UndefinedHasCause ==
    server = "undefined" =>
        \/ \E u \in User : profile[u] = "torn"
        \/ early # {}

\* A mailbox shrinks, while the process lives, only by a login that writes all
\* of it, oldest message first.
DrainsInOrder ==
    [][\A u \in User :
          server' # "down" /\ Len(offmsg'[u]) < Len(offmsg[u]) =>
              /\ offmsg'[u] = <<>>
              /\ handed'[u] = [i \in 1..Len(offmsg[u]) |-> i]]_vars

\* A crash loses no change that a handler has finished: every profile it leaves
\* intact holds the friends the account had, or, where the crash interrupted an
\* ACCEPTANDADD between its two saves, one friend more. (An account that was
\* named before it was announced may not survive the crash.)
RestartRestores ==
    [][server = "up" /\ early = {} /\ server' = "down" =>
          \A u \in User : profile'[u] = "saved" =>
              \/ saved'[u] = friends[u]
              \/ /\ \E v \in User : profile'[v] = "torn"
                 /\ \E n \in wanted[u] : saved'[u] = friends[u] \cup {n}]_vars
=============================================================================
