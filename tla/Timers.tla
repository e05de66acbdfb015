------------------------------- MODULE Timers -------------------------------
(***************************************************************************)
(* The timers of elib/timer.c, called by the event loop, and two of their  *)
(* users in egui/menu.c: a scroll button of a menu, which deletes its      *)
(* timer when the pointer leaves and whose callback may end it before, and *)
(* a menu item, whose callback opens a submenu once and forgets the timer. *)
(***************************************************************************)
EXTENDS Integers, FiniteSets, FiniteSetsExt

CONSTANTS
    NodeAddr,           \* where a node may be: memory that is freed is used again
    NoTimer,
    Interval,       \* of the two users' timers, in milliseconds
    Msec, Sec,      \* the microseconds in a millisecond, in a second
    MaxRound        \* bound: the microseconds between two rounds

ASSUME TimersAssumption ==
    /\ NoTimer \notin NodeAddr
    /\ Interval \in [{"button", "item"} -> Nat \ {0}]
    /\ Msec \in Nat \ {0} /\ Sec \in Nat \ {0} /\ Sec % Msec = 0
    /\ MaxRound \in Nat

VARIABLES
    node,           \* the memory of each node
    handle,         \* bn->timer and menu->popup_timer
    usec, remain,   \* oldusec; what is left of a millisecond
    stale           \* history: the users whose handle is of a timer that ended: by
                    \* its callback, or by the button's stale handle

timersVars == <<node, handle, usec, remain, stale>>

User == {"button", "item"}
Freed == [in |-> "none"]
TimerNode == [in : {"added", "list"}, user : User, status : {"doing", "del"},
         msec : Nat, rest : Nat]

Held(a) == node[a].in # "none"
Doing(a) == Held(a) /\ node[a].status = "doing"

TimersTypeOK ==
    /\ node \in [NodeAddr -> TimerNode \cup {Freed}]
    /\ handle \in [User -> NodeAddr \cup {NoTimer}]
    /\ usec \in 0..Sec - 1 /\ remain \in 0..Msec - 1
    /\ stale \subseteq User

TimersInit ==
    /\ node = [a \in NodeAddr |-> Freed]
    /\ handle = [u \in User |-> NoTimer]
    /\ usec = 0 /\ remain = 0
    /\ stale = {}

-----------------------------------------------------------------------------
(* timer.c                                                                  *)

SinceWhole(d) == [sec |-> (usec + d) \div Sec,
                  usec |-> d % Sec]  \* mutant

\* e_timer_loop and dispense_usec: the time since the last round, d microseconds,
\* from the two fields of the clock
Since(d) ==
    LET s == (usec + d) \div Sec
        newusec == (usec + d) % Sec
    IN  IF newusec < usec THEN [sec |-> s - 1, usec |-> Sec - usec + newusec]
        ELSE [sec |-> s, usec |-> newusec - usec]
Elapsed(d) ==
    LET t == Since(d) IN
    (remain + t.usec) \div Msec + t.sec * (Sec \div Msec)

\* What a round adds to each timer
Later(n, ms) == n.msec + ms

\* A timer that is two intervals late is left alone until three have passed, counted
\* from then: a program that is too slow would do nothing else.
Rests(n, ms) ==
    /\ n.rest < 3 * Interval[n.user]
    /\ Later(n, ms) >= 2 * Interval[n.user]
Fires(n, ms) ==
    /\ n.in # "none" /\ n.status = "doing"
    /\ Later(n, ms) >= Interval[n.user]
    /\ ~Rests(n, ms)

\* A node after a round in which the callbacks of ended returned -1
Walked(n, ms, ended) ==
    IF n.in = "none" \/ n.status = "del" THEN Freed
    ELSE LET listed == [n EXCEPT !.in = "list"] IN
         CASE Fires(n, ms) -> [listed EXCEPT !.rest = 0, !.msec = Later(n, ms) % Interval[n.user],
                                  !.status = IF n.user \in ended THEN "del" ELSE "doing"]
           [] ~Fires(n, ms) /\ Later(n, ms) >= Interval[n.user] ->
                [listed EXCEPT !.msec = Later(n, ms), !.rest = @ + ms]
           [] OTHER -> [listed EXCEPT !.msec = Later(n, ms)]

Forgetful == {}                                                    \* mutant

\* The users whose callback clears the handle when it ends the timer
Forgets == {"item"}

\* e_timer_loop. The callback of the item always ends the timer, and its handler
\* forgets it; the button's ends it when the menu cannot scroll further.
Round(d, ended) ==
    LET ms == Elapsed(d)
        firing == {node[a].user : a \in {a \in NodeAddr : Held(a) /\ Fires(node[a], ms)}}
    IN  /\ ended \subseteq firing
        /\ "item" \in firing => "item" \in ended
        /\ node' = [a \in NodeAddr |-> Walked(node[a], ms, ended)]
        /\ handle' = [u \in User |-> IF u \in ended \cap Forgets THEN NoTimer ELSE handle[u]]
        /\ stale' = (stale \ (ended \cap Forgets)) \cup (ended \cap {"button"})
        /\ usec' = (usec + d) % Sec
        /\ remain' = (remain + Since(d).usec) % Msec

\* e_timer_add
Added(u) == [in |-> "added", user |-> u, status |-> "doing", msec |-> 0, rest |-> 0]
Add(u, a) ==
    /\ ~Held(a)
    /\ node' = [node EXCEPT ![a] = Added(u)]
    /\ handle' = [handle EXCEPT ![u] = a]
    /\ stale' = stale \ {u}

\* e_timer_del writes into the node whatever it is by then.
Del(u) ==
    /\ node' = IF Held(handle[u]) THEN [node EXCEPT ![handle[u]].status = "del"] ELSE node
    /\ handle' = [handle EXCEPT ![u] = NoTimer]
    /\ stale' = (stale \cup {v \in User : Held(handle[u]) /\ node[handle[u]].user = v}) \ {u}

-----------------------------------------------------------------------------
(* menu.c                                                                   *)

\* menu_bn_enter, after which the pointer has to leave before it enters again
BnEnter(a) ==
    /\ handle["button"] = NoTimer
    /\ Add("button", a)
    /\ UNCHANGED <<usec, remain>>

\* menu_bn_leave
BnLeave ==
    /\ handle["button"] # NoTimer
    /\ Del("button")
    /\ UNCHANGED <<usec, remain>>

\* item_focus_in of an item with a submenu
ItemFocusIn(a) ==
    /\ handle["item"] = NoTimer
    /\ Add("item", a)
    /\ UNCHANGED <<usec, remain>>

\* The focus goes elsewhere, the pointer leaves or the item is clicked.
ItemLeft ==
    /\ handle["item"] # NoTimer
    /\ Del("item")
    /\ UNCHANGED <<usec, remain>>

TimersNext ==
    \/ \E d \in 0..MaxRound, ended \in SUBSET User : Round(d, ended)
    \/ \E a \in NodeAddr : BnEnter(a) \/ ItemFocusIn(a)
    \/ BnLeave \/ ItemLeft

TimersSpec == TimersInit /\ [][TimersNext]_timersVars

-----------------------------------------------------------------------------
(* Properties                                                               *)

\* No time is lost or counted twice, however the rounds fall on the clock, as long as
\* it does not go back: what a round gives the timers and what it keeps for the next
\* are what has passed. And a timer is less than an interval late, or rests: then it
\* was less than an interval late when it began to, and rests at most three intervals
\* and a round.
TimeKept ==
    /\ TimersTypeOK
    /\ \A d \in 0..3 * Sec :
        (Elapsed(d) * Msec) + ((remain + Since(d).usec) % Msec) = remain + d
    /\ \A a \in NodeAddr :
        Held(a) =>
            LET n == node[a] IN
            /\ n.msec - n.rest \in 0..Interval[n.user] - 1
            /\ n.rest < 3 * Interval[n.user] + MaxRound \div Msec + 1

\* A handle is of a timer that runs for its holder, so that deleting it stops that
\* timer and no other. Not so the handle of the button, which it keeps when its
\* callback ended the timer (menu.c:547, 576 and 618), nor then that of a timer that
\* came to be where that one was, which the button deletes in its place.
HandlesSound ==
    \A u \in User \ stale :
        handle[u] # NoTimer => Doing(handle[u]) /\ node[handle[u]].user = u
=============================================================================
