-------------------------------- MODULE Tree --------------------------------
(***************************************************************************)
(* The balanced tree of elib/etree.c, in which the windows of the window   *)
(* system and the signals are found. A node without a child on one side    *)
(* has a thread there instead, to the node before or after it in order, so *)
(* that traversal needs no stack; insertion and removal keep both.         *)
(***************************************************************************)
EXTENDS Integers, Sequences, SequencesExt, FiniteSets, FiniteSetsExt

CONSTANTS MaxKey        \* keys are 1..MaxKey (bound); a key stands for its node, too

Key == 1..MaxKey
NULL == 0

VARIABLE tree           \* root, the nodes, nnodes

\* Memory nobody has
NoNode == [left |-> NULL, right |-> NULL, left_child |-> FALSE, right_child |-> FALSE,
           balance |-> 0]

TreeInit == tree = [root |-> NULL, node |-> [k \in Key |-> NoNode], nnodes |-> 0]

-----------------------------------------------------------------------------
(* Walking                                                                  *)

\* The nodes from x to that of key k, or to where it would be, as e_tree_find_node
\* goes
RECURSIVE PathFrom(_, _, _)
PathFrom(node, x, k) ==
    CASE k < x /\ node[x].left_child -> <<x>> \o PathFrom(node, node[x].left, k)
      [] k > x /\ node[x].right_child -> <<x>> \o PathFrom(node, node[x].right, k)
      [] OTHER -> <<x>>
PathTo(k) == PathFrom(tree.node, tree.root, k)
Found(k) == tree.root # NULL /\ Last(PathTo(k)) = k

\* From x to the left, or to the right, as long as there are children
RECURSIVE Leftmost(_, _), Rightmost(_, _)
Leftmost(node, x) == IF node[x].left_child THEN Leftmost(node, node[x].left) ELSE x
Rightmost(node, x) == IF node[x].right_child THEN Rightmost(node, node[x].right) ELSE x

\* e_tree_node_next and e_tree_node_previous
NextNode(node, x) ==
    IF node[x].right_child THEN Leftmost(node, node[x].right) ELSE node[x].right
PreviousNode(node, x) ==
    IF node[x].left_child THEN Rightmost(node, node[x].left) ELSE node[x].left

\* e_tree_foreach, from x on
RECURSIVE Following(_, _)
Following(node, x) == IF x = NULL THEN <<>> ELSE <<x>> \o Following(node, NextNode(node, x))

-----------------------------------------------------------------------------
(* Balance                                                                  *)

\* e_tree_node_rotate_left and e_tree_node_rotate_right. A child that goes leaves the
\* pointer to it behind as the thread.
RotateLeft(node, x) ==
    LET r == node[x].right
        a == node[x].balance
        b == node[r].balance
    IN  [node EXCEPT
            ![x].right = IF node[r].left_child THEN node[r].left ELSE r,
            ![x].right_child = node[r].left_child,
            ![x].balance = a - Max({b, 0}) - 1,
            ![r].left = x,
            ![r].left_child = TRUE,
            ![r].balance =
                IF b <= 0 THEN (IF a >= 1 THEN b - 1 ELSE a + b - 2)
                ELSE (IF a <= b THEN a - 2 ELSE b - 1)]
RotateRight(node, x) ==
    LET l == node[x].left
        a == node[x].balance
        b == node[l].balance
    IN  [node EXCEPT
            ![x].left = IF node[l].right_child THEN node[l].right ELSE l,
            ![x].left_child = node[l].right_child,
            ![x].balance = a - Min({b, 0}) + 1,
            ![l].right = x,
            ![l].right_child = TRUE,
            ![l].balance =
                IF b <= 0 THEN (IF b > a THEN b + 1 ELSE a + 2)
                ELSE (IF a <= -1 THEN b + 1 ELSE a + b + 2)]

\* e_tree_node_balance: the nodes, and the one that comes in the place of x
Balanced(node, x) ==
    LET l == node[x].left
        r == node[x].right
    IN  CASE node[x].balance < -1 ->
                LET turned == IF node[l].balance > 0
                              THEN [RotateLeft(node, l) EXCEPT ![x].left = node[l].right]
                              ELSE node
                IN  [node |-> RotateRight(turned, x), top |-> turned[x].left]
          [] node[x].balance > 1 ->
                LET turned == IF node[r].balance < 0
                              THEN [RotateRight(node, r) EXCEPT ![x].right = node[r].left]
                              ELSE node
                IN  [node |-> RotateLeft(turned, x), top |-> turned[x].right]
          [] OTHER -> [node |-> node, top |-> x]

StopsEarly(grew, balance) == TRUE                                  \* mutant

\* Whether a subtree is as high as it was before
SameHeight(grew, balance) == IF grew THEN balance = 0 ELSE balance # 0

\* From the last node of path up to the root: each is balanced, and if its subtree
\* grew, or shrank, the one above it leans more or less.
RECURSIVE Retrace(_, _, _)
Retrace(t, path, grew) ==
    LET x == Last(path)
        up == Front(path)
        b == Balanced(t.node, x)
        onLeft == up # <<>> /\ t.node[Last(up)].left = x
        linked == CASE up = <<>> -> [t EXCEPT !.root = b.top, !.node = b.node]
                    [] onLeft -> [t EXCEPT !.node = [b.node EXCEPT ![Last(up)].left = b.top]]
                    [] OTHER -> [t EXCEPT !.node = [b.node EXCEPT ![Last(up)].right = b.top]]
    IN  IF up = <<>> \/ SameHeight(grew, linked.node[b.top].balance) THEN linked
        ELSE Retrace([linked EXCEPT !.node[Last(up)].balance =
                        IF onLeft = grew THEN @ - 1 ELSE @ + 1], up, grew)

-----------------------------------------------------------------------------
(* Insertion                                                                *)

\* A new node takes over the thread of the one it hangs on.
Hung(node, x, k) ==
    IF k < x
    THEN [node EXCEPT ![k] = [NoNode EXCEPT !.left = node[x].left, !.right = x],
                      ![x].left = k, ![x].left_child = TRUE, ![x].balance = @ - 1]
    ELSE [node EXCEPT ![k] = [NoNode EXCEPT !.right = node[x].right, !.left = x],
                      ![x].right = k, ![x].right_child = TRUE, ![x].balance = @ + 1]

\* e_tree_insert_internal; a key that is there gets the new value in its node.
InsertKey(k) ==
    tree' =
        CASE tree.root = NULL -> [tree EXCEPT !.root = k, !.nnodes = @ + 1]
          [] Found(k) -> tree
          [] OTHER -> Retrace([tree EXCEPT !.node = Hung(@, Last(PathTo(k)), k), !.nnodes = @ + 1],
                              PathTo(k), TRUE)

-----------------------------------------------------------------------------
(* Removal                                                                  *)

\* Node y, or a thread if there is no y, comes in the place of x under the end of
\* path up, which becomes lower on that side.
Replaced(t, up, x, y) ==
    CASE up = <<>> -> [t EXCEPT !.root = y]
      [] up # <<>> /\ t.node[Last(up)].left = x ->
            [t EXCEPT !.node[Last(up)] =
                [@ EXCEPT !.left = IF y = NULL THEN t.node[x].left ELSE y,
                          !.left_child = y # NULL, !.balance = @ + 1]]
      [] OTHER ->
            [t EXCEPT !.node[Last(up)] =
                [@ EXCEPT !.right = IF y = NULL THEN t.node[x].right ELSE y,
                          !.right_child = y # NULL, !.balance = @ - 1]]

\* A node with one child at most
Spliced(t, up, x) ==
    LET n == t.node[x] IN
    CASE ~n.left_child /\ ~n.right_child -> Replaced(t, up, x, NULL)
      [] ~n.left_child /\ n.right_child ->
            Replaced([t EXCEPT !.node[NextNode(t.node, x)].left = n.left], up, x, n.right)
      [] OTHER ->
            Replaced([t EXCEPT !.node[PreviousNode(t.node, x)].right = n.right], up, x, n.left)

\* A node with two: the one after it takes its place, without its balance if it hung
\* directly under it.
Succeeded(t, up, x) ==
    LET next == NextNode(t.node, x)
        below == PathFrom(t.node, t.node[x].right, next)        \* from the child to next
        direct == Len(below) = 1
        hang == Last(Front(below))                              \* what next hangs on
        freed == IF direct THEN t.node
                 ELSE [t.node EXCEPT
                        ![hang].left = IF t.node[next].right_child THEN t.node[next].right ELSE @,
                        ![hang].left_child = t.node[next].right_child,
                        ![hang].balance = @ + 1,
                        ![next].right = t.node[x].right,
                        ![next].right_child = TRUE]
        moved == [freed EXCEPT
                    ![PreviousNode(t.node, x)].right = next,
                    ![next].left = t.node[x].left,
                    ![next].left_child = TRUE,
                    ![next].balance = IF direct THEN t.node[x].balance - 1 ELSE t.node[x].balance]
        p == Last(up)
    IN  CASE up = <<>> -> [t EXCEPT !.root = next, !.node = moved]
          [] up # <<>> /\ t.node[p].left = x ->
                [t EXCEPT !.node = [moved EXCEPT ![p].left = next]]
          [] OTHER -> [t EXCEPT !.node = [moved EXCEPT ![p].right = next]]

\* Where the balancing begins
ToBalance(t, up, x) ==
    LET below == PathFrom(t.node, t.node[x].right, NextNode(t.node, x)) IN
    IF t.node[x].left_child /\ t.node[x].right_child
    THEN up \o <<NextNode(t.node, x)>> \o Front(below)
    ELSE up

\* e_tree_remove_internal
RemoveKey(k) ==
    /\ Found(k)
    /\ LET up == Front(PathTo(k))
           cut == IF tree.node[k].left_child /\ tree.node[k].right_child
                  THEN Succeeded(tree, up, k) ELSE Spliced(tree, up, k)
           path == ToBalance(tree, up, k)
           done == IF path = <<>> THEN cut ELSE Retrace(cut, path, FALSE)
       IN  tree' = [done EXCEPT !.node[k] = NoNode, !.nnodes = @ - 1]

TreeNext == \E k \in Key : InsertKey(k) \/ RemoveKey(k)

TreeSpec == TreeInit /\ [][TreeNext]_tree

-----------------------------------------------------------------------------
(* Properties                                                               *)

\* The nodes of the subtree at x
RECURSIVE Within(_)
Within(x) ==
    {x} \cup (IF tree.node[x].left_child THEN Within(tree.node[x].left) ELSE {})
        \cup (IF tree.node[x].right_child THEN Within(tree.node[x].right) ELSE {})

RECURSIVE HeightOf(_)
HeightOf(x) ==
    1 + Max({0} \cup {HeightOf(y) : y \in
            (IF tree.node[x].left_child THEN {tree.node[x].left} ELSE {}) \cup
            (IF tree.node[x].right_child THEN {tree.node[x].right} ELSE {})})

\* e_tree_height: down the left side, by the balance of each node
RECURSIVE HeightAlong(_)
HeightAlong(x) ==
    1 + Max({tree.node[x].balance, 0}) +
        (IF tree.node[x].left_child THEN HeightAlong(tree.node[x].left) ELSE 0)

\* After any insertions and removals the tree is one: searches find what is in it, the
\* threads, followed either way, visit all of it in order, every node knows by how much
\* its sides differ, which is one at most, and nnodes and e_tree_height say what is so.
TreeExact ==
    IF tree.root = NULL THEN tree.nnodes = 0
    ELSE LET all == Within(tree.root) IN
        /\ all \subseteq Key
        /\ LET visited == Following(tree.node, Leftmost(tree.node, tree.root)) IN
            /\ ToSet(visited) = all
            /\ \A i \in 1..Len(visited) - 1 : visited[i] < visited[i + 1]
        /\ \A x \in all :
            LET n == tree.node[x]
                before == {y \in all : y < x}
                lh == IF n.left_child THEN HeightOf(n.left) ELSE 0
                rh == IF n.right_child THEN HeightOf(n.right) ELSE 0
            IN  /\ n.balance = rh - lh /\ n.balance \in -1..1
                /\ PreviousNode(tree.node, x) = IF before = {} THEN NULL ELSE Max(before)
                /\ n.left_child => \A y \in Within(n.left) : y < x
                /\ n.right_child => \A y \in Within(n.right) : y > x
        /\ \A k \in Key \ all : tree.node[k] = NoNode
        /\ tree.nnodes = Cardinality(all)
        /\ HeightAlong(tree.root) = HeightOf(tree.root)
=============================================================================
