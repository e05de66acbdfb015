----------------------------- MODULE Rendezvous -----------------------------
(***************************************************************************)
(* How msg/server.c joins the two ends of an accepted file transfer. The   *)
(* main thread makes a TrHandler and lists it, its pool thread waits for   *)
(* two connections, the listener thread wires each connection to the       *)
(* handler that has its cred, and the clear thread strikes the handlers    *)
(* that waited too long. Only finding, clearing and unlinking hold tr_lock *)
(* - a handler is listed, struck and wired without it.                     *)
(***************************************************************************)
EXTENDS Integers, Sequences, SequencesExt

CONSTANTS
    Cred,       \* the transfers; each one has a cred of its own
    None,       \* NULL
    Absent,     \* the ends that never connect (bound)
    Faults,     \* what may go wrong with which transfer outside (bound):
                \* "write", "cancel", "hangup"
    MaxPosts    \* bound on the pending posts of a semaphore

ASSUME RendezvousAssumption ==
    /\ None \notin Cred \cup (Cred \X {1, 2})
    /\ Absent \subseteq Cred \X {1, 2}
    /\ Faults \subseteq {"write", "cancel", "hangup"} \X Cred
    /\ MaxPosts \in Nat \ {0}

\* Each end of a transfer connects once, when it is told STARTTRANS.
Conn == Cred \X {1, 2}

VARIABLES
    trans,      \* trans_head
    pc,         \* where the pool thread of a handler is in tr_handler
    fd, sem, sockfd,    \* fields of a handler
    main,       \* what the main thread does: a step, a handler, head->next
    listener,   \* what listen_data_handler does: a connection, its handler
    clear,      \* the handler clear_timeout_thread is about to strike
    unlinking,  \* the handler tr_free_thread removes, and whether it is first
    conn,       \* where a connection is
    told,       \* the ends that got STARTTRANS
    cancelled,  \* the transfers an end sent a late CANCELTRANS for
    struck,     \* history: the handlers somebody gave fd = -1
    raced,      \* history: list_add met list_del
    undefined   \* freed memory or an index outside sockfd was used

handlers == <<trans, pc, fd, sem, sockfd>>
vars == <<handlers, main, listener, clear, unlinking, conn, told, cancelled,
          struck, raced, undefined>>

Idle == [at |-> "idle", tr |-> None, next |-> None]
Nobody == [tr |-> None, first |-> FALSE]
NoConn == [k |-> None, tr |-> None]
Locked == clear # None \/ unlinking.tr # None

TypeOK ==
    /\ trans \in Seq(Cred) /\ IsInjective(trans)
    /\ pc \in [Cred -> {"none", "wait1", "wait2", "work", "close", "unlink", "freed"}]
    /\ fd \in [Cred -> -1..2]
    /\ sem \in [Cred -> Nat]
    /\ sockfd \in [Cred -> [{0, 1} -> Conn \cup {None}]]
    /\ main \in [at : {"idle", "add", "publish", "announce", "strike"},
                 tr : Cred \cup {None}, next : Cred \cup {None}]
    /\ listener \in [k : Conn \cup {None}, tr : Cred \cup {None}]
    /\ clear \in Cred \cup {None}
    /\ unlinking \in [tr : Cred \cup {None}, first : BOOLEAN]
    /\ conn \in [Conn -> {"none", "backlog", "reading", "held", "closed"}]
    /\ told \subseteq Conn
    /\ cancelled \subseteq Cred
    /\ struck \subseteq Cred
    /\ raced \in BOOLEAN
    /\ undefined \in BOOLEAN

Init ==
    /\ trans = <<>>
    /\ pc = [c \in Cred |-> "none"]
    /\ fd = [c \in Cred |-> 0]
    /\ sem = [c \in Cred |-> 0]
    /\ sockfd = [c \in Cred |-> [s \in {0, 1} |-> None]]
    /\ main = Idle
    /\ listener = NoConn
    /\ clear = None
    /\ unlinking = Nobody
    /\ conn = [k \in Conn |-> "none"]
    /\ told = {}
    /\ cancelled = {}
    /\ struck = {}
    /\ raced = FALSE
    /\ undefined = FALSE

\* tr_find_thread: the handler of c, or else the last one of the list.
Found(c) ==
    IF trans = <<>> THEN None
    ELSE IF Contains(trans, c) THEN c ELSE Last(trans)

\* fd = -1 and a post; the memory may be gone.
Strike(c) ==
    /\ struck' = struck \cup {c}
    /\ \/ /\ pc[c] # "freed"
          /\ fd' = [fd EXCEPT ![c] = -1]
          /\ sem' = [sem EXCEPT ![c] = @ + 1]
          /\ UNCHANGED undefined
       \/ /\ pc[c] = "freed"
          /\ undefined' = TRUE
          /\ UNCHANGED <<fd, sem>>

-----------------------------------------------------------------------------
(* The main thread                                                          *)

\* tr_alloc_thread up to list_add: a pool thread runs tr_handler.
Alloc(c) ==
    /\ main = Idle
    /\ pc[c] = "none"
    /\ pc' = [pc EXCEPT ![c] = "wait1"]
    /\ main' = [at |-> "add", tr |-> c, next |-> None]
    /\ UNCHANGED <<trans, fd, sem, sockfd, listener, clear, unlinking, conn, told,
                   cancelled, struck, raced, undefined>>

\* list_add reads head->next ...
ReadNext ==
    /\ main.at = "add"
    /\ main' = [main EXCEPT !.at = "publish", !.next = IF trans = <<>> THEN None ELSE Head(trans)]
    /\ UNCHANGED <<handlers, listener, clear, unlinking, conn, told, cancelled,
                   struck, raced, undefined>>

\* ... and links the handler before it, even if it was removed meanwhile. What
\* list_add then leaves behind depends on the order of the writes.
Publish ==
    /\ main.at = "publish"
    /\ trans' = <<main.tr>> \o trans
    /\ main' = [main EXCEPT !.at = "announce", !.next = None]
    /\ \/ main.next = None /\ UNCHANGED <<raced, undefined>>
       \/ main.next # None /\ Contains(trans, main.next) /\ UNCHANGED <<raced, undefined>>
       \/ /\ main.next # None /\ ~Contains(trans, main.next)
          /\ raced' = TRUE
          /\ undefined' \in {FALSE, TRUE}
    /\ UNCHANGED <<pc, fd, sem, sockfd, listener, clear, unlinking, conn, told,
                   cancelled, struck>>

\* start_transfer tells both ends; if a write fails the handler is struck, and
\* the end written to first may know of the transfer.
Announce ==
    /\ main.at = "announce"
    /\ \/ /\ told' = told \cup {<<main.tr, 1>>, <<main.tr, 2>>}
          /\ main' = Idle
       \/ /\ <<"write", main.tr>> \in Faults
          /\ \E T \in {{}, {<<main.tr, 1>>}} : told' = told \cup T
          /\ main' = [main EXCEPT !.at = "strike"]
    /\ UNCHANGED <<handlers, listener, clear, unlinking, conn, cancelled, struck,
                   raced, undefined>>

\* release_ready_thread looks up the handler of a transfer under way ...
Release(c) ==
    /\ <<"cancel", c>> \in Faults
    /\ main = Idle
    /\ ~Locked
    /\ pc[c] # "none"
    /\ c \notin cancelled
    /\ cancelled' = cancelled \cup {c}
    /\ main' = IF Found(c) = None THEN Idle
               ELSE [at |-> "strike", tr |-> Found(c), next |-> None]
    /\ UNCHANGED <<handlers, listener, clear, unlinking, conn, told, struck, raced, undefined>>

\* ... and strikes what it found, as start_transfer does after a failed write.
MainStrike ==
    /\ main.at = "strike"
    /\ Strike(main.tr)
    /\ main' = Idle
    /\ UNCHANGED <<trans, pc, sockfd, listener, clear, unlinking, conn, told,
                   cancelled, raced>>

-----------------------------------------------------------------------------
(* The clear thread                                                         *)

\* clear_timeout_thread, holding tr_lock, sees a listed handler that is over
\* its time and not yet at work ...
ClearCheckUnwired(c) ==                                            \* mutant
    /\ ~Locked
    /\ Contains(trans, c)
    /\ pc[c] # "work" /\ fd[c] = 0
    /\ sem[c] < MaxPosts
    /\ clear' = c
    /\ UNCHANGED <<handlers, main, listener, unlinking, conn, told, cancelled,
                   struck, raced, undefined>>
ClearCheck(c) ==
    /\ ~Locked
    /\ Contains(trans, c)
    /\ pc[c] # "work"
    /\ sem[c] < MaxPosts
    /\ clear' = c
    /\ UNCHANGED <<handlers, main, listener, unlinking, conn, told, cancelled,
                   struck, raced, undefined>>

\* ... and strikes it, whatever it does by then.
ClearStrike ==
    /\ clear # None
    /\ Strike(clear)
    /\ clear' = None
    /\ UNCHANGED <<trans, pc, sockfd, main, listener, unlinking, conn, told,
                   cancelled, raced>>

-----------------------------------------------------------------------------
(* The pool thread of a handler                                             *)

WakeUnchecked(c) ==                                                \* mutant
    /\ pc[c] \in {"wait1", "wait2"}
    /\ sem[c] > 0
    /\ sem' = [sem EXCEPT ![c] = @ - 1]
    /\ pc' = [pc EXCEPT ![c] = IF pc[c] = "wait1" THEN "wait2" ELSE "work"]
    /\ UNCHANGED <<trans, fd, sockfd, main, listener, clear, unlinking, conn,
                   told, cancelled, struck, raced, undefined>>

\* sem_wait returns and fd is looked at.
Wake(c) ==
    /\ pc[c] \in {"wait1", "wait2"}
    /\ sem[c] > 0
    /\ sem' = [sem EXCEPT ![c] = @ - 1]
    /\ pc' = [pc EXCEPT ![c] = IF fd[c] = -1 THEN "close"
                               ELSE IF pc[c] = "wait1" THEN "wait2" ELSE "work"]
    /\ UNCHANGED <<trans, fd, sockfd, main, listener, clear, unlinking, conn,
                   told, cancelled, struck, raced, undefined>>

\* transmit_loop returns: an end closed its connection, or a call failed.
EndWork(c) ==
    /\ pc[c] = "work"
    /\ pc' = [pc EXCEPT ![c] = "close"]
    /\ UNCHANGED <<trans, fd, sem, sockfd, main, listener, clear, unlinking, conn,
                   told, cancelled, struck, raced, undefined>>

ClosedOne(c) == {k \in Conn : k = sockfd[c][0]}                    \* mutant
Closed(c) == {k \in Conn : k \in {sockfd[c][0], sockfd[c][1]}}

CloseBoth(c) ==
    /\ pc[c] = "close"
    /\ conn' = [k \in Conn |-> IF k \in Closed(c) THEN "closed" ELSE conn[k]]
    /\ pc' = [pc EXCEPT ![c] = "unlink"]
    /\ UNCHANGED <<trans, fd, sem, sockfd, main, listener, clear, unlinking, told,
                   cancelled, struck, raced, undefined>>

\* tr_free_thread, holding tr_lock, reads the neighbours of the handler ...
BeginUnlink(c) ==
    /\ pc[c] = "unlink"
    /\ ~Locked
    /\ unlinking' = [tr |-> c, first |-> trans # <<>> /\ Head(trans) = c]
    /\ UNCHANGED <<handlers, main, listener, clear, conn, told, cancelled, struck,
                   raced, undefined>>

\* ... and joins them: what was listed before it in between is lost, and a lost
\* handler is still linked to the freed one when its own turn comes.
EndUnlink(c) ==
    /\ unlinking.tr = c
    /\ \/ /\ unlinking.first
          /\ \E i \in DOMAIN trans :
                trans[i] = c /\ trans' = SubSeq(trans, i + 1, Len(trans)) /\ raced' = (raced \/ i > 1)
          /\ UNCHANGED undefined
       \/ /\ ~unlinking.first
          /\ trans' = RemoveFirst(trans, c)
          /\ undefined' = ~Contains(trans, c)
          /\ UNCHANGED raced
    /\ pc' = [pc EXCEPT ![c] = "freed"]
    /\ unlinking' = Nobody
    /\ UNCHANGED <<fd, sem, sockfd, main, listener, clear, conn, told, cancelled, struck>>

-----------------------------------------------------------------------------
(* The listener thread and the ends                                         *)

\* An end connects, or does not, once it knows of the transfer.
Connect(k) ==
    /\ k \in told \ Absent
    /\ conn[k] = "none"
    /\ conn' = [conn EXCEPT ![k] = "backlog"]
    /\ UNCHANGED <<handlers, main, listener, clear, unlinking, told, cancelled,
                   struck, raced, undefined>>

\* accept; the cred is read next, for as long as the end takes to send it.
Accept(k) ==
    /\ listener = NoConn
    /\ conn[k] = "backlog"
    /\ conn' = [conn EXCEPT ![k] = "reading"]
    /\ listener' = [k |-> k, tr |-> None]
    /\ UNCHANGED <<handlers, main, clear, unlinking, told, cancelled, struck, raced, undefined>>

\* The end goes away before its cred is read.
Hangup ==
    /\ listener.k # None /\ listener.tr = None
    /\ <<"hangup", listener.k[1]>> \in Faults
    /\ conn' = [conn EXCEPT ![listener.k] = "closed"]
    /\ listener' = NoConn
    /\ UNCHANGED <<handlers, main, clear, unlinking, told, cancelled, struck, raced, undefined>>

\* tr_find_thread of the cred that was read; without a handler it is closed.
Find ==
    /\ listener.k # None /\ listener.tr = None
    /\ ~Locked
    /\ LET tr == Found(listener.k[1]) IN
       /\ listener' = IF tr = None THEN NoConn ELSE [listener EXCEPT !.tr = tr]
       /\ conn' = IF tr = None THEN [conn EXCEPT ![listener.k] = "closed"] ELSE conn
    /\ UNCHANGED <<handlers, main, clear, unlinking, told, cancelled, struck, raced, undefined>>

\* The connection is wired to the handler found, which may be freed by now.
Wire ==
    /\ listener.tr # None
    /\ LET c == listener.tr IN
       \/ /\ pc[c] # "freed" /\ fd[c] \in {0, 1}
          /\ sockfd' = [sockfd EXCEPT ![c][fd[c]] = listener.k]
          /\ fd' = [fd EXCEPT ![c] = @ + 1]
          /\ sem' = [sem EXCEPT ![c] = @ + 1]
          /\ conn' = [conn EXCEPT ![listener.k] = "held"]
          /\ UNCHANGED undefined
       \/ /\ pc[c] = "freed" \/ fd[c] \notin {0, 1}
          /\ undefined' = TRUE
          /\ UNCHANGED <<sockfd, fd, sem, conn>>
    /\ listener' = NoConn
    /\ UNCHANGED <<trans, pc, main, clear, unlinking, told, cancelled, struck, raced>>

-----------------------------------------------------------------------------

MainStep == \/ \E c \in Cred : Alloc(c) \/ Release(c)
            \/ ReadNext \/ Publish \/ Announce \/ MainStrike
ClearStep == (\E c \in Cred : ClearCheck(c)) \/ ClearStrike
PoolStep(c) == Wake(c) \/ EndWork(c) \/ CloseBoth(c) \/ BeginUnlink(c) \/ EndUnlink(c)
ListenStep == (\E k \in Conn : Accept(k)) \/ Hangup \/ Find \/ Wire

\* After undefined behaviour nothing is said of the server.
Next ==
    /\ ~undefined
    /\ \/ MainStep
       \/ ClearStep
       \/ \E c \in Cred : PoolStep(c)
       \/ ListenStep
       \/ \E k \in Conn : Connect(k)

\* Threads run, the clear thread comes round to every listed handler, an end
\* that was accepted sends its cred or goes away, and every transfer ends.
Fairness ==
    /\ WF_vars(~undefined /\ (ReadNext \/ Publish \/ Announce \/ MainStrike))
    /\ WF_vars(~undefined /\ ClearStrike)
    /\ WF_vars(~undefined /\ ListenStep)
    /\ \A c \in Cred : SF_vars(~undefined /\ ClearCheck(c)) /\ SF_vars(~undefined /\ PoolStep(c))

Spec == Init /\ [][Next]_vars /\ Fairness

-----------------------------------------------------------------------------
(* Properties                                                               *)

\* Nobody gave up on a handler, and no insertion met a removal.
FaultFree == struck = {} /\ ~raced

\* A handler at work relays between two different connections: a strike never
\* lets it through with fewer. They are those of its own transfer, unless some
\* handler was given up.
RelaysItsEnds ==
    \A c \in Cred : pc[c] = "work" =>
        /\ sockfd[c][0] # None /\ sockfd[c][1] # None /\ sockfd[c][0] # sockfd[c][1]
        /\ FaultFree => \A s \in {0, 1} : sockfd[c][s][1] = c

\* Every connection the server keeps open is in the hands of one handler that
\* will still close it, and no freed handler is touched nor sockfd overrun, unless
\* some handler was given up, looked for in vain or added during a removal.
SocketsAccounted ==
    /\ TypeOK
    /\ undefined => ~FaultFree
    /\ FaultFree => \A k \in Conn : conn[k] = "held" =>
        \E c \in Cred : k \in Closed(c) /\ pc[c] \in {"wait1", "wait2", "work", "close"}

\* Every handler goes back to the pool, unless it was lost from the list.
HandlersEnd ==
    \A c \in Cred : pc[c] = "wait1" ~> (pc[c] = "freed" \/ raced \/ undefined)

\* Every end that connects is disconnected in the end, unless some handler was
\* given up before.
ConnectionsEnd ==
    \A k \in Conn : conn[k] = "backlog" ~> (conn[k] = "closed" \/ ~FaultFree)
=============================================================================
