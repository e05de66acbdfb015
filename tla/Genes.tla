------------------------------- MODULE Genes -------------------------------
(***************************************************************************)
(* The types of objects (elib/object.c). A type is registered below one or *)
(* more others. What it is made of, its DNA, is a chain of nodes from the  *)
(* root down to its own; where it derives from several types, the chains   *)
(* meet in a node with branches, which hold what the chains do not share.  *)
(* A node is known by its id among the types derived from one type, and a  *)
(* cast finds the part of an object that belongs to a type by these ids    *)
(* alone.                                                                  *)
(***************************************************************************)
EXTENDS Integers, Sequences, SequencesExt, FiniteSetsExt

CONSTANTS Programs  \* the parents of the types a program has registered so far, how many
                    \* more it registers (may.types) and of how many parents at most
                    \* (may.parents, which PARENT_MAX bounds)

ASSUME GenesAssumption ==
    \A p \in Programs :
        /\ p.may.types \in Nat /\ p.may.parents \in Nat
        /\ \A i \in DOMAIN p.types : p.types[i] # <<>> /\ ToSet(p.types[i]) \subseteq 1..i

VARIABLES
    genes,      \* of each type, in the order of registration: its nodes, how many types
                \* are counted as its children, and what it is meant to be
    may         \* what is still to be registered

genesVars == <<genes, may>>

DNA_ID_NULL == 65535    \* of a node where chains meet that is no type yet
CrashId == -1           \* of what a step through NULL leaves

DnaNode(id, owner, branches, min, max) ==
    [id |-> id, owner |-> owner, branches |-> branches, min |-> min, max |-> max]
Crash == DnaNode(CrashId, 0, <<>>, 0, 0)

Branching(list) == Head(list).branches # <<>>
HeadId(list) == Head(list).id
Drop(list, n) == SubSeq(list, n + 1, Len(list))

\* How far two chains go together, and what is left of one
Shared(list1, list2) ==
    Max({0} \cup {n \in 1..Min({Len(list1), Len(list2)}) :
                    \A i \in 1..n : list1[i].id = list2[i].id})
Rest(list, other) == Drop(list, Shared(list, other))

-----------------------------------------------------------------------------
(* Does one chain hold all of another? The answer is 1 or 2 for the one that *)
(* does, 0 for none.                                                         *)

Swapped(which) == IF which = 0 THEN 0 ELSE 3 - which

\* The chains among some that begin like another
Alike(lists, list) == SelectSeq(lists, LAMBDA l : HeadId(l) = HeadId(list))

\* dna_combin_contain and dna_list_contain
RECURSIVE CombinContains(_, _)
ListContains(rest1, rest2) ==
    \/ rest2 = <<>>
    \/ rest1 # <<>> /\ Branching(rest1) /\ CombinContains(rest1, rest2)
CombinContains(com, list) ==
    LET same == Alike(Head(com).branches, list) IN
    /\ same # <<>>
    /\ ListContains(Rest(Head(same), list), Rest(list, Head(same)))

\* __dna_list_which_contain, of what is left after the nodes shared
RECURSIVE Which(_, _)
WhichRest(rest1, rest2) ==
    CASE rest2 = <<>> -> 1
      [] rest2 # <<>> /\ rest1 = <<>> -> 2
      [] OTHER -> Which(rest1, rest2)
WhichChain(list1, list2) == WhichRest(Rest(list1, list2), Rest(list2, list1))

\* __dna_combin_which_contain: whatever is not held by the first counts for the second.
WhichOf(com, sin) ==
    LET same == Alike(<<com>> \o Head(com).branches, sin) IN
    IF same = <<>> THEN 0 ELSE IF WhichChain(Head(same), sin) = 1 THEN 1 ELSE 2

\* dna_combin_which_contain: the second and each of its branches have the same answer.
Agreed(answers, com1, com2) ==
    CASE answers = {1} -> 1
      [] answers = {2} /\ Len(Head(com1).branches) <= Len(Head(com2).branches) -> 2
      [] OTHER -> 0
Agree(com1, com2) ==
    Agreed({WhichOf(com1, sin) : sin \in {com2} \cup ToSet(Head(com2).branches)}, com1, com2)
WhichCombin(list1, list2) ==
    IF Len(Head(list2).branches) > Len(Head(list1).branches) THEN Swapped(Agree(list2, list1))
    ELSE Agree(list1, list2)

\* dna_list_which_contain
Which(list1, list2) ==
    CASE Branching(list1) /\ Branching(list2) -> WhichCombin(list1, list2)
      [] Branching(list1) /\ ~Branching(list2) ->
            IF CombinContains(list1, list2) THEN 1 ELSE 0
      [] ~Branching(list1) /\ Branching(list2) ->
            IF CombinContains(list2, list1) THEN 2 ELSE 0
      [] OTHER -> IF HeadId(list1) = HeadId(list2) THEN WhichChain(list1, list2) ELSE 0

-----------------------------------------------------------------------------
(* Merging chains                                                           *)

\* What goes into the node where chains meet: the branches, then the node itself
\* without them, if it is a type
Bare(list) == <<[Head(list) EXCEPT !.branches = <<>>]>> \o Tail(list)
Parted(list) ==
    Head(list).branches \o
        (IF Branching(list) /\ HeadId(list) = DNA_ID_NULL THEN <<>> ELSE <<Bare(list)>>)

\* min stays as it was when a branch goes before the others.
MinKept(com, id) == com.min                                           \* mutant

\* The least id of the branches
MinWith(com, id) == Min({com.min, id})

\* __dna_list_insert_branch: branches are in the order of their ids.
RECURSIVE Merged(_, _)
InsertBranch(com, list) ==
    LET id == HeadId(list)
        same == {i \in DOMAIN com.branches : HeadId(com.branches[i]) = id}
        after == {i \in DOMAIN com.branches : id < HeadId(com.branches[i])}
    IN  CASE id \in com.min..com.max /\ same # {} ->
                [com EXCEPT !.branches[Min(same)] = Merged(@, list)]
          [] ~(id \in com.min..com.max /\ same # {}) /\ after # {} ->
                [com EXCEPT !.branches = InsertAt(@, Min(after), list), !.min = MinWith(com, id)]
          [] OTHER ->
                [com EXCEPT !.branches = Append(@, list), !.max = id]

\* dna_list_insert_branch
InsertBranches(com, list) == FoldLeft(InsertBranch, com, Parted(list))

\* __dna_list_merger: the node where two chains meet, made of the first that branches
Opened(list) ==
    DnaNode(DNA_ID_NULL, 0, Parted(list),
            IF Branching(list) THEN Head(list).min ELSE HeadId(list),
            IF HeadId(list) = DNA_ID_NULL THEN Head(list).max ELSE HeadId(list))
Turned(rest1, rest2) == ~Branching(rest1) /\ Branching(rest2)
Meet(rest1, rest2) ==
    InsertBranches(Opened(IF Turned(rest1, rest2) THEN rest2 ELSE rest1),
                   IF Turned(rest1, rest2) THEN rest1 ELSE rest2)

\* dna_list_merger
MergedBy(which, list1, list2) ==
    LET rest1 == Rest(list1, list2)
        rest2 == Rest(list2, list1)
    IN  CASE which = 1 -> list1
          [] which = 2 -> list2
          [] which = 0 /\ (rest1 = <<>> \/ rest2 = <<>>) -> <<Crash>>
          [] OTHER ->
                SubSeq(IF Turned(rest1, rest2) THEN list2 ELSE list1, 1, Shared(list1, list2))
                    \o <<Meet(rest1, rest2)>>
Merged(list1, list2) == MergedBy(Which(list1, list2), list1, list2)

-----------------------------------------------------------------------------
(* Types and casts                                                          *)

RECURSIVE Crashed(_)
Crashed(list) ==
    \E i \in DOMAIN list :
        list[i].id = CrashId \/ \E j \in DOMAIN list[i].branches : Crashed(list[i].branches[j])

\* A chain that holds a node where chains meet that is no type
RECURSIVE HasMeeting(_)
HasMeeting(list) ==
    \E i \in DOMAIN list :
        \/ list[i].id = DNA_ID_NULL
        \/ \E j \in DOMAIN list[i].branches : HasMeeting(list[i].branches[j])

\* register_genetype_with_dnalist: the type gets the node where the chains of its
\* parents meet, or one at the end of the only chain.
WithGene(gs, dna, is, twice) ==
    LET new == Len(gs) + 1
        meets == Last(dna).id = DNA_ID_NULL
        above == IF meets THEN dna[Len(dna) - 1].owner ELSE Last(dna).owner
        own == IF meets THEN [Last(dna) EXCEPT !.id = gs[above].child_seq, !.owner = new]
               ELSE DnaNode(gs[above].child_seq, new, <<>>, 0, 0)
        Gene(nodes) ==
            [nodes |-> nodes, child_seq |-> 0, is |-> is \cup {new}, twice |-> twice]
    IN  IF Crashed(dna) THEN Append(gs, Gene(<<Crash>>))
        ELSE Append([gs EXCEPT ![above].child_seq = @ + 1],
                    Gene(Append(IF meets THEN Front(dna) ELSE dna, own)))

\* e_register_genetype: the chains of the parents are merged one after the other.
Join(joined, list) ==
    [dna |-> Merged(joined.dna, list),
     twice |-> joined.twice \/ (HasMeeting(joined.dna) /\ HasMeeting(list))]
Joined(lists, twice) == FoldLeft(Join, [dna |-> Head(lists), twice |-> twice], Tail(lists))
Registered(gs, parents) ==
    LET Gene(joined) ==
            WithGene(gs, joined.dna, UNION {gs[p].is : p \in ToSet(parents)}, joined.twice)
    IN  Gene(Joined([i \in DOMAIN parents |-> gs[parents[i]].nodes],
                    \E p \in ToSet(parents) : gs[p].twice))

\* __dnode_find_subset and __dnode_branch_find_subset_cast: <<>> if another branch may
\* have it, else what was found, or Crash if it cannot be there.
RECURSIVE FindSubset(_, _)
Missing(i) == IF i = 0 THEN <<>> ELSE <<Crash>>
FindSubset(nodes, type) ==
    LET n == Shared(nodes, type)
        p1 == nodes[n + 1]
        p2 == type[n + 1]
        rest == Drop(type, n)
        found == SelectSeq([j \in DOMAIN p1.branches |-> FindSubset(p1.branches[j], rest)],
                           LAMBDA f : f # <<>>)
    IN  CASE n = Len(type) -> <<nodes[n]>>
          [] n < Len(type) /\ n = Len(nodes) -> Missing(n)
          [] n < Min({Len(type), Len(nodes)}) ->
                IF p2.id > p1.id \/ p1.branches = <<>> \/ p2.id \notin p1.min..p1.max
                THEN Missing(n)
                ELSE IF found = <<>> THEN <<Crash>> ELSE Head(found)

\* e_genetype_node
GenetypeNode(g, t) == FindSubset(genes[g].nodes, genes[t].nodes)

\* invoke_node_init: the order in which a new object initialises its parts
RECURSIVE InitOrder(_)
InitOrder(nodes) ==
    IF nodes = <<>> THEN <<>>
    ELSE FlattenSeq([j \in DOMAIN Head(nodes).branches |-> InitOrder(Head(nodes).branches[j])])
            \o (IF HeadId(nodes) = DNA_ID_NULL THEN <<>> ELSE <<Head(nodes).owner>>)
            \o InitOrder(Tail(nodes))

\* call_node_free: the order in which the parts of an object are freed
RECURSIVE FreeOrder(_)
FreeOrder(nodes) ==
    IF nodes = <<>> THEN <<>>
    ELSE FlattenSeq([j \in DOMAIN Head(nodes).branches |-> FreeOrder(Head(nodes).branches[j])])
            \o (IF HeadId(nodes) = DNA_ID_NULL THEN <<>>
                ELSE Append(FreeOrder(Tail(nodes)), Head(nodes).owner))

-----------------------------------------------------------------------------
(* Specification                                                            *)

\* e_genetype_cell
CellGene == [nodes |-> <<DnaNode(0, 1, <<>>, 0, 0)>>, child_seq |-> 0, is |-> {1}, twice |-> FALSE]

GenesInit ==
    \E p \in Programs :
        /\ genes = FoldLeft(Registered, <<CellGene>>, p.types)
        /\ may = p.may

\* e_register_genetype
Register(parents) ==
    /\ genes' = Registered(genes, parents)
    /\ may' = [may EXCEPT !.types = @ - 1]

GenesNext ==
    /\ may.types > 0
    /\ ~Crashed(Last(genes).nodes)
    /\ \E n \in 1..may.parents : \E parents \in [1..n -> DOMAIN genes] :
        IsInjective(parents) /\ Register(parents)

GenesSpec == GenesInit /\ [][GenesNext]_genesVars

-----------------------------------------------------------------------------
(* Property                                                                 *)

CastTo(t, g, part) ==
    IF t \in genes[g].is THEN part # <<>> /\ Head(part).owner = t
    ELSE part \in {<<>>, <<Crash>>}

BasesFirst(order) ==
    \A i, j \in DOMAIN order : order[j] \in genes[order[i]].is => j <= i

\* The ids of e_register_genetype tell the parts of an object apart, and merging the
\* chains of several parents loses none and keeps none twice: e_genetype_node finds
\* the part of a type in every type derived from it and in no other, a new object
\* (invoke_node_init) initialises each of its parts once, after those it is derived
\* from, and its end (call_node_free) frees each once. Types are exempt that have
\* twice put together two chains with a node that is no type: such nodes all have one id.
PartsExact ==
    \A g \in {h \in DOMAIN genes : ~genes[h].twice} :
        /\ ~Crashed(genes[g].nodes)
        /\ \A t \in DOMAIN genes : CastTo(t, g, GenetypeNode(g, t))
        /\ BasesFirst(InitOrder(genes[g].nodes))
        /\ \A order \in {InitOrder(genes[g].nodes), FreeOrder(genes[g].nodes)} :
            ToSet(order) = genes[g].is /\ IsInjective(order)
=============================================================================
