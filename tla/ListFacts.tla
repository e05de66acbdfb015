----------------------------- MODULE ListFacts -----------------------------
(***************************************************************************)
(* What the lists and channels of the server hold after an element was     *)
(* added, read or taken out: facts about sequences that the proofs of the  *)
(* components share.                                                       *)
(***************************************************************************)
EXTENDS Naturals, Sequences, SequencesExt, SequenceTheorems, TLAPS

\* s holds x at most once.
Once(s, x) == \A i, k \in 1..Len(s) : s[i] = x /\ s[k] = x => i = k

\* Every x in s is in front of every y.
Before(s, x, y) == \A i, k \in 1..Len(s) : s[i] = x /\ s[k] = y => i < k

\* A command sent is on its way behind the others.
LEMMA AppendFacts ==
    ASSUME NEW S, NEW s \in Seq(S), NEW x \in S
    PROVE  /\ Append(s, x) \in Seq(S)
           /\ \A y : Contains(Append(s, x), y) <=> Contains(s, y) \/ y = x
           /\ \A y : Once(s, y) /\ (y = x => ~Contains(s, y)) => Once(Append(s, x), y)
  <1> DEFINE a == Append(s, x)
  <1>1. /\ a \in Seq(S) /\ Len(s) \in Nat /\ Len(a) = Len(s) + 1 /\ a[Len(s) + 1] = x
        /\ \A i \in 1..Len(s) : a[i] = s[i]
    OBVIOUS
  <1> HIDE DEF a
  <1>2. \A i \in 1..Len(a) : i \in 1..Len(s) \/ i = Len(s) + 1
    BY <1>1
  <1>3. ASSUME NEW y PROVE Contains(a, y) <=> Contains(s, y) \/ y = x
    <2>1. CASE Contains(s, y)
      <3>1. PICK i \in 1..Len(s) : s[i] = y
        BY <2>1 DEF Contains
      <3> QED
        BY <2>1, <3>1, <1>1 DEF Contains
    <2>2. CASE y = x
      BY <2>2, <1>1 DEF Contains
    <2>3. CASE ~Contains(s, y) /\ y # x
      BY <2>3, <1>1, <1>2 DEF Contains
    <2> QED
      BY <2>1, <2>2, <2>3
  <1>4. ASSUME NEW y, Once(s, y), y = x => ~Contains(s, y) PROVE Once(a, y)
    BY <1>1, <1>2, <1>4 DEF Once, Contains
  <1> QED
    BY <1>1, <1>3, <1>4 DEF a

\* A command taken from the head of its channel is gone from it.
LEMMA HeadFacts ==
    ASSUME NEW S, NEW s \in Seq(S), s # <<>>
    PROVE  /\ Head(s) \in S /\ Tail(s) \in Seq(S)
           /\ \A y : Contains(s, y) <=> Contains(Tail(s), y) \/ y = Head(s)
           /\ \A y : Once(s, y) => Once(Tail(s), y)
           /\ \A y : Once(s, y) /\ y = Head(s) => ~Contains(Tail(s), y)
  <1> DEFINE h == Tail(s)
  <1>1. /\ Len(s) \in Nat \ {0} /\ Head(s) = s[1] /\ Head(s) \in S
        /\ h \in Seq(S) /\ Len(h) = Len(s) - 1 /\ Len(h) \in Nat
        /\ \A i \in 1..Len(h) : h[i] = s[i + 1]
    OBVIOUS
  <1> HIDE DEF h
  <1>2. \A i \in 2..Len(s) : i - 1 \in 1..Len(h) /\ h[i - 1] = s[i]
    BY <1>1
  <1>3. ASSUME NEW y PROVE Contains(s, y) <=> Contains(h, y) \/ y = Head(s)
    <2>1. ASSUME Contains(h, y) PROVE Contains(s, y)
      <3>1. PICK i \in 1..Len(h) : h[i] = y
        BY <2>1 DEF Contains
      <3>2. i + 1 \in 1..Len(s) /\ s[i + 1] = y
        BY <3>1, <1>1
      <3> QED
        BY <3>2 DEF Contains
    <2>2. ASSUME Contains(s, y), y # Head(s) PROVE Contains(h, y)
      <3>1. PICK i \in 1..Len(s) : s[i] = y
        BY <2>2 DEF Contains
      <3>2. i \in 2..Len(s)
        BY <3>1, <2>2, <1>1
      <3> QED
        BY <3>1, <3>2, <1>2 DEF Contains
    <2>3. Contains(s, Head(s))
      BY <1>1 DEF Contains
    <2> QED
      BY <2>1, <2>2, <2>3
  <1>4. ASSUME NEW y, Once(s, y) PROVE Once(h, y)
    <2>1. \A i \in 1..Len(h) : i + 1 \in 1..Len(s) /\ h[i] = s[i + 1]
      BY <1>1
    <2> SUFFICES ASSUME NEW i \in 1..Len(h), NEW k \in 1..Len(h), h[i] = y, h[k] = y
                 PROVE  i = k
      BY DEF Once
    <2>2. i + 1 = k + 1
      BY <2>1, <1>4 DEF Once
    <2> QED
      BY <2>2, <1>1
  <1>5. ASSUME NEW y, Once(s, y), y = Head(s), Contains(h, y) PROVE FALSE
    <2>1. PICK i \in 1..Len(h) : h[i] = y
      BY <1>5 DEF Contains
    <2>2. i + 1 \in 1..Len(s) /\ s[i + 1] = y /\ 1 \in 1..Len(s) /\ s[1] = y
      BY <1>1, <2>1, <1>5
    <2>3. i + 1 = 1
      BY <2>2, <1>5 DEF Once
    <2> QED
      BY <2>3, <1>1
  <1> QED
    BY <1>1, <1>3, <1>4, <1>5 DEF h

\* An order in a channel stays when a command is sent that need not be in front.
LEMMA BeforeAppend ==
    ASSUME NEW S, NEW s \in Seq(S), NEW x \in S, NEW y, NEW z, y # z,
           Before(s, y, z), x = y => ~Contains(s, z)
    PROVE  Before(Append(s, x), y, z)
  <1> DEFINE a == Append(s, x)
  <1>1. /\ Len(s) \in Nat /\ Len(a) = Len(s) + 1 /\ a[Len(s) + 1] = x
        /\ \A i \in 1..Len(s) : a[i] = s[i]
    OBVIOUS
  <1> HIDE DEF a
  <1>2. ASSUME NEW i \in 1..Len(a), NEW k \in 1..Len(a), a[i] = y, a[k] = z PROVE i < k
    <2>1. CASE k \in 1..Len(s)
      <3>1. s[k] = z
        BY <1>1, <1>2, <2>1
      <3>2. x # y
        BY <2>1, <3>1 DEF Contains
      <3>3. i \in 1..Len(s) /\ s[i] = y
        BY <1>1, <1>2, <3>2
      <3> QED
        BY <2>1, <3>1, <3>3 DEF Before
    <2>2. CASE k = Len(s) + 1
      <3>1. i # k
        BY <1>2
      <3> QED
        BY <1>1, <2>2, <3>1
    <2> QED
      BY <1>1, <2>1, <2>2
  <1> QED
    BY <1>2 DEF Before, a

\* And when one is taken; the later of two is not taken before the earlier.
LEMMA BeforeHead ==
    ASSUME NEW S, NEW s \in Seq(S), s # <<>>, NEW y, NEW z, Before(s, y, z)
    PROVE  /\ Before(Tail(s), y, z)
           /\ Head(s) = z => ~Contains(s, y)
  <1> DEFINE h == Tail(s)
  <1>1. /\ Len(s) \in Nat \ {0} /\ Head(s) = s[1]
        /\ Len(h) = Len(s) - 1 /\ Len(h) \in Nat
        /\ \A i \in 1..Len(h) : h[i] = s[i + 1]
    OBVIOUS
  <1> HIDE DEF h
  <1>2. ASSUME NEW i \in 1..Len(h), NEW k \in 1..Len(h), h[i] = y, h[k] = z PROVE i < k
    <2>1. i + 1 \in 1..Len(s) /\ k + 1 \in 1..Len(s) /\ s[i + 1] = y /\ s[k + 1] = z
      BY <1>1, <1>2
    <2>2. i + 1 < k + 1
      BY <2>1 DEF Before
    <2> QED
      BY <2>2
  <1>3. ASSUME Head(s) = z, Contains(s, y) PROVE FALSE
    <2>1. PICK i \in 1..Len(s) : s[i] = y
      BY <1>3 DEF Contains
    <2>2. i < 1
      BY <1>1, <1>3, <2>1 DEF Before
    <2> QED
      BY <2>2
  <1> QED
    BY <1>2, <1>3 DEF Before, h

\* A wait or a handler put in front of its list.
LEMMA ConsFacts ==
    ASSUME NEW S, NEW s \in Seq(S), NEW x \in S
    PROVE  /\ <<x>> \o s \in Seq(S)
           /\ \A y : Contains(<<x>> \o s, y) <=> Contains(s, y) \/ y = x
           /\ IsInjective(s) /\ ~Contains(s, x) => IsInjective(<<x>> \o s)
  <1> DEFINE g == <<x>> \o s
  <1>1. /\ g \in Seq(S) /\ Len(s) \in Nat /\ Len(g) = Len(s) + 1 /\ g[1] = x
        /\ \A i \in 2..Len(g) : g[i] = s[i - 1]
    <2>1. <<x>> \in Seq(S) /\ Len(<<x>>) = 1 /\ <<x>>[1] = x /\ Len(s) \in Nat
      OBVIOUS
    <2>2. g \in Seq(S) /\ Len(g) = Len(s) + 1
      BY <2>1
    <2>3. \A i \in 1..Len(g) : g[i] = IF i <= 1 THEN <<x>>[i] ELSE s[i - 1]
      BY <2>1
    <2> QED
      BY <2>1, <2>2, <2>3
  <1> HIDE DEF g
  <1>2. \A i \in 1..Len(g) : i = 1 \/ (i \in 2..Len(g) /\ i - 1 \in 1..Len(s))
    BY <1>1
  <1>3. \A i \in 1..Len(s) : i + 1 \in 2..Len(g) /\ g[i + 1] = s[i]
    BY <1>1
  <1>4. ASSUME NEW y PROVE Contains(g, y) <=> Contains(s, y) \/ y = x
    <2>1. ASSUME Contains(s, y) PROVE Contains(g, y)
      <3>1. PICK i \in 1..Len(s) : s[i] = y
        BY <2>1 DEF Contains
      <3>2. i + 1 \in 1..Len(g) /\ g[i + 1] = y
        BY <3>1, <1>1, <1>3
      <3> QED
        BY <3>2 DEF Contains
    <2>2. ASSUME Contains(g, y), y # x PROVE Contains(s, y)
      <3>1. PICK i \in 1..Len(g) : g[i] = y
        BY <2>2 DEF Contains
      <3> QED
        BY <3>1, <1>1, <1>2, <2>2 DEF Contains
    <2>3. Contains(g, x)
      BY <1>1 DEF Contains
    <2> QED
      BY <2>1, <2>2, <2>3
  <1>5. ASSUME IsInjective(s), ~Contains(s, x) PROVE IsInjective(g)
    <2>1. \A i, k \in 1..Len(s) : s[i] = s[k] => i = k
      BY <1>5 DEF IsInjective
    <2>2. \A i \in 2..Len(g) : g[i] # x
      BY <1>1, <1>2, <1>5 DEF Contains
    <2>3. DOMAIN g = 1..Len(g)
      BY <1>1
    <2> SUFFICES ASSUME NEW i \in 1..Len(g), NEW k \in 1..Len(g), g[i] = g[k] PROVE i = k
      BY <2>3 DEF IsInjective
    <2>4. CASE i = 1 \/ k = 1
      BY <1>1, <1>2, <2>2, <2>4
    <2>5. CASE i # 1 /\ k # 1
      <3>1. s[i - 1] = s[k - 1] /\ i - 1 \in 1..Len(s) /\ k - 1 \in 1..Len(s)
        BY <1>1, <1>2, <2>5
      <3> QED
        BY <3>1, <2>1
    <2> QED
      BY <2>4, <2>5
  <1> QED
    BY <1>1, <1>4, <1>5 DEF g

\* What the server writes to a session comes behind the rest.
LEMMA WriteFacts ==
    ASSUME NEW S, NEW s \in Seq(S), NEW x \in S
    PROVE  /\ s \o <<x>> \in Seq(S)
           /\ \A y : Contains(s \o <<x>>, y) <=> Contains(s, y) \/ y = x
           /\ s \o <<>> = s
           /\ s \o <<x>> = Append(s, x)
  <1>1. s \o <<x>> = Append(s, x) /\ s \o <<>> = s
    OBVIOUS
  <1>2. /\ Append(s, x) \in Seq(S)
        /\ \A y : Contains(Append(s, x), y) <=> Contains(s, y) \/ y = x
    BY AppendFacts
  <1> QED
    BY ONLY <1>1, <1>2

\* RemoveFirst of a list without repetition takes out the one place.
LEMMA RemovedPlace ==
    ASSUME NEW S, NEW s \in Seq(S), IsInjective(s), NEW k \in 1..Len(s), NEW e, s[k] = e
    PROVE  RemoveFirst(s, e) = RemoveAt(s, k)
  <1>1. {i \in 1..Len(s) : s[i] = e} = {k}
    BY DEF IsInjective
  <1>2. (CHOOSE x \in {k} : \A y \in {k} : x =< y) = k
    <2>1. k \in Int
      OBVIOUS
    <2> QED
      BY <2>1
  <1>3. SelectInSeq(s, LAMBDA v : v = e) = k
    BY <1>1, <1>2 DEF SelectInSeq, Min
  <1>4. \E i \in 1..Len(s) : s[i] = e
    OBVIOUS
  <1> QED
    BY <1>3, <1>4 DEF RemoveFirst

\* The entries of a list without the one at k.
LEMMA RemovedEntries ==
    ASSUME NEW S, NEW s \in Seq(S), NEW k \in 1..Len(s)
    PROVE  LET r == RemoveAt(s, k) IN
              /\ r \in Seq(S) /\ Len(r) = Len(s) - 1 /\ Len(s) \in Nat \ {0} /\ Len(r) \in Nat
              /\ \A i \in 1..Len(r) : r[i] = IF i < k THEN s[i] ELSE s[i + 1]
  <1> DEFINE r == RemoveAt(s, k)
  <1> DEFINE p == SubSeq(s, 1, k - 1)
             q == SubSeq(s, k + 1, Len(s))
  <1>1. k \in Nat \ {0} /\ Len(s) \in Nat /\ k <= Len(s)
    OBVIOUS
  <1>2. /\ p \in Seq(S) /\ Len(p) = k - 1
        /\ \A i \in 1..(k - 1) : p[i] = s[i]
    BY <1>1
  <1>3. /\ q \in Seq(S) /\ Len(q) = Len(s) - k
        /\ \A i \in 1..(Len(s) - k) : q[i] = s[i + k]
    BY <1>1
  <1> HIDE DEF p, q
  <1>4. p \o q \in Seq(S) /\ Len(p \o q) = Len(s) - 1
    <2>1. p \o q \in Seq(S) /\ Len(p \o q) = Len(p) + Len(q)
      BY <1>2, <1>3, ConcatProperties
    <2> QED
      BY <2>1, <1>1, <1>2, <1>3
  <1>5. ASSUME NEW i \in 1..(Len(s) - 1)
        PROVE  (p \o q)[i] = IF i < k THEN s[i] ELSE s[i + 1]
    <2>1. (p \o q)[i] = IF i <= Len(p) THEN p[i] ELSE q[i - Len(p)]
      BY <1>1, <1>2, <1>3
    <2>2. CASE i < k
      BY <2>1, <2>2, <1>1, <1>2
    <2>3. CASE ~(i < k)
      <3>1. i - Len(p) \in 1..(Len(s) - k) /\ ~(i <= Len(p)) /\ (i - Len(p)) + k = i + 1
        BY <1>1, <1>2, <2>3
      <3> QED
        BY <2>1, <2>3, <3>1, <1>3
    <2> QED
      BY <2>2, <2>3
  <1>6. r = p \o q
    BY DEF RemoveAt, p, q
  <1> QED
    <2>1. Len(s) - 1 \in Nat /\ Len(s) \in Nat \ {0}
      BY <1>1
    <2> QED
      BY ONLY <2>1, <1>4, <1>5, <1>6

\* The entries of a list with another at k.
LEMMA InsertedEntries ==
    ASSUME NEW S, NEW s \in Seq(S), NEW x \in S, NEW k \in 1..Len(s) + 1
    PROVE  LET r == InsertAt(s, k, x) IN
              /\ r \in Seq(S) /\ Len(r) = Len(s) + 1 /\ Len(s) \in Nat
              /\ \A i \in 1..Len(r) : r[i] = IF i < k THEN s[i] ELSE IF i = k THEN x ELSE s[i - 1]
  <1> DEFINE p == SubSeq(s, 1, k - 1)
             q == SubSeq(s, k, Len(s))
  <1>1. k \in Nat \ {0} /\ Len(s) \in Nat /\ k <= Len(s) + 1
    OBVIOUS
  <1>2. /\ p \in Seq(S) /\ Len(p) = k - 1
        /\ \A i \in 1..(k - 1) : p[i] = s[i]
    BY <1>1
  <1>3. /\ q \in Seq(S) /\ Len(q) = Len(s) + 1 - k
        /\ \A i \in 1..(Len(s) + 1 - k) : q[i] = s[i + k - 1]
    BY <1>1
  <1> HIDE DEF p, q
  <1>4. PICK o : o = p \o <<x>>
    OBVIOUS
  <1>5. o \in Seq(S) /\ Len(o) = k /\ o[k] = x /\ \A i \in 1..(k - 1) : o[i] = s[i]
    <2>1. <<x>> \in Seq(S) /\ Len(<<x>>) = 1 /\ <<x>>[1] = x
      OBVIOUS
    <2>2. /\ o \in Seq(S) /\ Len(o) = Len(p) + 1
          /\ \A i \in 1..(Len(p) + 1) : o[i] = IF i <= Len(p) THEN p[i] ELSE <<x>>[i - Len(p)]
      BY <1>2, <1>4, <2>1, ConcatProperties
    <2> QED
      BY <1>1, <1>2, <2>1, <2>2
  <1>6. PICK r : r = o \o q
    OBVIOUS
  <1>7. /\ r \in Seq(S) /\ Len(r) = Len(s) + 1
        /\ \A i \in 1..Len(r) : r[i] = IF i <= k THEN o[i] ELSE q[i - k]
    <2>1. /\ r \in Seq(S) /\ Len(r) = Len(o) + Len(q)
          /\ \A i \in 1..(Len(o) + Len(q)) : r[i] = IF i <= Len(o) THEN o[i] ELSE q[i - Len(o)]
      BY <1>3, <1>5, <1>6, ConcatProperties
    <2> QED
      BY <1>1, <1>3, <1>5, <2>1
  <1>8. ASSUME NEW i \in 1..Len(r)
        PROVE  r[i] = IF i < k THEN s[i] ELSE IF i = k THEN x ELSE s[i - 1]
    <2>1. CASE i <= k
      BY <1>1, <1>5, <1>7, <2>1
    <2>2. CASE ~(i <= k)
      <3>1. i - k \in 1..(Len(s) + 1 - k) /\ (i - k) + k - 1 = i - 1
        BY <1>1, <1>7, <2>2
      <3> QED
        BY <1>1, <1>3, <1>7, <2>2, <3>1
    <2> QED
      BY <2>1, <2>2
  <1>9. InsertAt(s, k, x) = r
    BY <1>4, <1>6 DEF InsertAt, p, q
  <1> QED
    BY ONLY <1>1, <1>7, <1>8, <1>9

\* What RemoveFirst leaves keeps its order.
LEMMA RemovedOrder ==
    ASSUME NEW S, NEW s \in Seq(S), IsInjective(s), NEW e, Contains(s, e), NEW r, r = RemoveFirst(s, e)
    PROVE  \A i, j \in 1..Len(r) : i < j => \E v, w \in 1..Len(s) : v < w /\ r[i] = s[v] /\ r[j] = s[w]
  <1>1. PICK k \in 1..Len(s) : s[k] = e
    BY DEF Contains
  <1>2. r = RemoveAt(s, k)
    BY <1>1, RemovedPlace
  <1>3. /\ Len(r) = Len(s) - 1 /\ Len(s) \in Nat \ {0}
        /\ \A x \in 1..Len(r) : r[x] = IF x < k THEN s[x] ELSE s[x + 1]
    BY <1>2, RemovedEntries
  <1> SUFFICES ASSUME NEW i \in 1..Len(r), NEW j \in 1..Len(r), i < j
               PROVE  \E v, w \in 1..Len(s) : v < w /\ r[i] = s[v] /\ r[j] = s[w]
    OBVIOUS
  <1>4. PICK v \in 1..Len(s) : v = IF i < k THEN i ELSE i + 1
    BY <1>3
  <1>5. PICK w \in 1..Len(s) : w = IF j < k THEN j ELSE j + 1
    BY <1>3
  <1>6. v < w /\ r[i] = s[v] /\ r[j] = s[w]
    BY <1>3, <1>4, <1>5
  <1> QED
    BY <1>6

\* A wait or a handler taken off its list.
LEMMA RemoveFacts ==
    ASSUME NEW S, NEW s \in Seq(S), IsInjective(s), NEW e
    PROVE  /\ RemoveFirst(s, e) \in Seq(S)
           /\ IsInjective(RemoveFirst(s, e))
           /\ \A y : Contains(RemoveFirst(s, e), y) <=> Contains(s, y) /\ y # e
  <1>1. CASE ~Contains(s, e)
    BY <1>1 DEF RemoveFirst, Contains
  <1>2. CASE Contains(s, e)
    <2>1. PICK k \in 1..Len(s) : s[k] = e
      BY <1>2 DEF Contains
    <2> DEFINE r == RemoveAt(s, k)
    <2>2. RemoveFirst(s, e) = r
      BY <2>1, RemovedPlace
    <2>3. /\ r \in Seq(S) /\ Len(r) = Len(s) - 1 /\ Len(s) \in Nat \ {0} /\ Len(r) \in Nat
          /\ \A i \in 1..Len(r) : r[i] = IF i < k THEN s[i] ELSE s[i + 1]
      BY RemovedEntries
    <2> HIDE DEF r
    <2>4. \A i, j \in 1..Len(s) : s[i] = s[j] => i = j
      BY DEF IsInjective
    <2>5. IsInjective(r)
      <3>1. DOMAIN r = 1..Len(r)
        BY <2>3
      <3> SUFFICES ASSUME NEW i \in 1..Len(r), NEW j \in 1..Len(r), r[i] = r[j] PROVE i = j
        BY <3>1 DEF IsInjective
      <3> QED
        BY <2>3, <2>4
    <2>6. ASSUME NEW y, Contains(r, y) PROVE Contains(s, y) /\ y # e
      <3>1. PICK i \in 1..Len(r) : r[i] = y
        BY <2>6 DEF Contains
      <3>2. PICK j \in 1..Len(s) : j # k /\ s[j] = y
        BY <2>3, <3>1
      <3> QED
        BY <3>2, <2>1, <2>4 DEF Contains
    <2>7. ASSUME NEW y, Contains(s, y), y # e PROVE Contains(r, y)
      <3>1. PICK i \in 1..Len(s) : s[i] = y
        BY <2>7 DEF Contains
      <3>2. PICK j \in 1..Len(r) : r[j] = y
        <4>1. CASE i < k
          BY <4>1, <2>3, <3>1
        <4>2. CASE i > k
          <5>1. i - 1 \in 1..Len(r) /\ ~(i - 1 < k) /\ (i - 1) + 1 = i
            BY <4>2, <2>3
          <5> QED
            BY <5>1, <2>3, <3>1
        <4> QED
          BY <4>1, <4>2, <3>1, <2>1, <2>7
      <3> QED
        BY <3>2 DEF Contains
    <2> QED
      BY <2>2, <2>3, <2>5, <2>6, <2>7
  <1> QED
    BY <1>1, <1>2
=============================================================================
