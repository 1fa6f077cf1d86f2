------------------------------ MODULE TableProof ------------------------------
(***************************************************************************)
(* Proofs about the fact table kept on both sides of the process boundary,  *)
(* for every set of paths, symbols, rows and facts and every leaf size: a   *)
(* packed index holds a set of rows with distinct keys, every operation on  *)
(* it is an operation on that set, and the operations a transition carries  *)
(* take the rows of the published table to those of the next one.           *)
(***************************************************************************)
EXTENDS TableTransition, FiniteSetTheorems, SequenceTheorems,
        NaturalsInduction, WellFoundedInduction, TLAPS

-----------------------------------------------------------------------------
(* Numbers. *)

\* A set of numbers has a least element.
LEMMA LeastNumber ==
  ASSUME NEW T \in SUBSET Nat, T # {}
  PROVE  \E m \in T : \A k \in T : m <= k
<1> DEFINE R == OpToRel(<, Nat)
<1>1. IsWellFoundedOn(R, Nat)
  BY NatLessThanWellFounded
<1>2. \A a \in Nat, b \in Nat : (<<a, b>> \in R) <=> (a < b)
  BY DEF OpToRel
<1> HIDE DEF R
<1>3. PICK m \in T : \A y \in T : ~ (<<y, m>> \in R)
  BY <1>1, WFMin, Zenon
<1>4. \A y \in T : ~ (y < m)
  BY <1>2, <1>3, Zenon
<1>5. \A y \in T : m <= y
  BY <1>4
<1> QED
  BY <1>5

\* Induction: a set that holds zero and with each number the next one.
LEMMA SetInduction ==
  ASSUME NEW S, 0 \in S, \A n \in Nat : n \in S => n + 1 \in S
  PROVE  Nat \subseteq S
<1> SUFFICES ASSUME NEW T, T = Nat \ S, T # {} PROVE FALSE
  OBVIOUS
<1>1. PICK m \in T : \A k \in T : m <= k
  BY LeastNumber
<1> QED
  BY <1>1

\* A set of places that is closed downwards is the places up to its size.
LEMMA InitialSegment ==
  ASSUME NEW n \in Nat, NEW D \in SUBSET (1..n),
         \A i \in D, j \in 1..n : j < i => j \in D
  PROVE  /\ IsFiniteSet(D) /\ Cardinality(D) \in 0..n
         /\ \A i \in 1..n : (i \in D) <=> (i <= Cardinality(D))
<1> DEFINE T == {b \in Nat : \A i \in D : i <= b}
<1>1. T \in SUBSET Nat /\ n \in T
  OBVIOUS
<1>2. PICK m \in T : \A k \in T : m <= k
  BY <1>1, LeastNumber
<1>3. m \in Nat /\ m <= n /\ \A i \in D : i <= m
  BY <1>1, <1>2
<1>4. m # 0 => m \in D
  <2> SUFFICES ASSUME m # 0, m \notin D PROVE FALSE
    OBVIOUS
  <2>1. m - 1 \in Nat /\ \A i \in D : i <= m - 1
    BY <1>3
  <2> QED
    BY <1>2, <1>3, <2>1
<1>5. D = 1..m
  <2>1. \A i \in D : i \in 1..m
    BY <1>3
  <2>2. ASSUME NEW i \in 1..m PROVE i \in D
    <3>1. m \in D /\ i \in 1..n
      BY <1>3, <1>4
    <3> QED
      BY <1>3, <3>1
  <2> QED
    BY <2>1, <2>2
<1>6. IsFiniteSet(1..m) /\ Cardinality(1..m) = IF 1 > m THEN 0 ELSE m - 1 + 1
  BY <1>3, FS_Interval
<1>7. Cardinality(D) = m
  BY <1>3, <1>5, <1>6
<1> QED
  BY <1>3, <1>5, <1>6, <1>7

-----------------------------------------------------------------------------
(* Sequences. *)

IsSeq(s) == \E X : s \in Seq(X)

\* What a sequence is.
LEMMA SeqFacts ==
  ASSUME NEW s, IsSeq(s)
  PROVE  /\ Len(s) \in Nat /\ DOMAIN s = 1..Len(s)
         /\ s = [i \in 1..Len(s) |-> s[i]]
  BY DEF IsSeq

LEMMA MapIsSeq ==
  ASSUME NEW s, NEW n \in Nat, s = [i \in 1..n |-> s[i]]
  PROVE  IsSeq(s) /\ Len(s) = n
<1> DEFINE X == {s[i] : i \in 1..n}
<1>1. s \in [1..n -> X]
  OBVIOUS
<1> HIDE DEF X
<1>2. s \in Seq(X)
  BY <1>1, SeqDef
<1>3. IsSeq(s)
  BY <1>2 DEF IsSeq
<1>4. Len(s) = n
  BY <1>1, <1>2
<1> QED
  BY <1>3, <1>4

LEMMA SameSeq ==
  ASSUME NEW s, NEW t, IsSeq(s), IsSeq(t), Len(s) = Len(t),
         \A i \in 1..Len(s) : s[i] = t[i]
  PROVE  s = t
<1> DEFINE n == Len(t)
<1>1. s = [i \in 1..n |-> s[i]] /\ t = [i \in 1..n |-> t[i]]
  BY SeqFacts
<1>2. \A i \in 1..n : s[i] = t[i]
  OBVIOUS
<1> HIDE DEF n
<1>3. [i \in 1..n |-> s[i]] = [i \in 1..n |-> t[i]]
  BY <1>2
<1> QED
  BY <1>1, <1>3, Zenon

LEMMA RangeSeq ==
  ASSUME NEW s, IsSeq(s)
  PROVE  /\ Range(s) = {s[i] : i \in 1..Len(s)}
         /\ (s = <<>>) <=> (Len(s) = 0)
<1>1. Len(s) \in Nat /\ DOMAIN s = 1..Len(s)
  BY SeqFacts
<1>2. Range(s) = {s[i] : i \in 1..Len(s)}
  BY <1>1 DEF Range
<1>3. (s = <<>>) <=> (Len(s) = 0)
  <2>1. PICK X : s \in Seq(X)
    BY DEF IsSeq
  <2> QED
    BY <2>1, EmptySeq
<1> QED
  BY <1>2, <1>3

LEMMA EmptyIsSeq == IsSeq(<<>>) /\ Len(<<>>) = 0 /\ Range(<<>>) = {}
<1>1. <<>> \in Seq({})
  OBVIOUS
<1> QED
  BY <1>1 DEF IsSeq, Range

LEMMA SingleIsSeq ==
  ASSUME NEW x
  PROVE  /\ IsSeq(<<x>>) /\ Len(<<x>>) = 1 /\ <<x>>[1] = x /\ Range(<<x>>) = {x}
         /\ <<x>> # <<>>
<1> DEFINE s == <<x>>
<1>1. s \in Seq({x}) /\ Len(s) = 1 /\ s[1] = x /\ DOMAIN s = {1}
  OBVIOUS
<1>2. s # <<>>
  OBVIOUS
<1> HIDE DEF s
<1>3. IsSeq(s)
  BY <1>1 DEF IsSeq
<1>4. Range(s) = {x}
  BY <1>1 DEF Range
<1> QED
  BY <1>1, <1>2, <1>3, <1>4 DEF s

LEMMA ConcatIsSeq ==
  ASSUME NEW s, NEW t, IsSeq(s), IsSeq(t)
  PROVE  /\ IsSeq(s \o t) /\ Len(s \o t) = Len(s) + Len(t)
         /\ \A i \in 1..Len(s) : (s \o t)[i] = s[i]
         /\ \A i \in 1..Len(t) : (s \o t)[Len(s) + i] = t[i]
         /\ Range(s \o t) = Range(s) \cup Range(t)
<1>1. PICK X : s \in Seq(X)
  BY DEF IsSeq
<1>2. PICK Y : t \in Seq(Y)
  BY DEF IsSeq
<1> DEFINE Z == X \cup Y
           u == s \o t
<1>3. s \in Seq(Z) /\ t \in Seq(Z)
  BY <1>1, <1>2
<1> HIDE DEF Z
<1>4. u \in Seq(Z) /\ Len(u) = Len(s) + Len(t) /\ Len(s) \in Nat /\ Len(t) \in Nat
  BY <1>3
<1>5. \A i \in 1..Len(s) : u[i] = s[i]
  BY <1>3
<1>6. ASSUME NEW i \in 1..Len(t) PROVE u[Len(s) + i] = t[i]
  BY <1>3, <1>4
<1>7. IsSeq(u)
  BY <1>4 DEF IsSeq
<1> HIDE DEF u
<1>8. Range(u) = Range(s) \cup Range(t)
  <2>1. Range(u) = {u[i] : i \in 1..Len(u)}
    BY <1>7, RangeSeq
  <2>2. Range(s) = {s[i] : i \in 1..Len(s)} /\ Range(t) = {t[i] : i \in 1..Len(t)}
    BY RangeSeq
  <2>3. ASSUME NEW i \in 1..Len(u) PROVE u[i] \in Range(s) \cup Range(t)
    <3>1. CASE i <= Len(s)
      BY <1>4, <1>5, <2>2, <3>1
    <3>2. CASE i > Len(s)
      <4>1. i - Len(s) \in 1..Len(t) /\ i = Len(s) + (i - Len(s))
        BY <1>4, <3>2
      <4> QED
        BY <1>6, <2>2, <4>1
    <3> QED
      BY <1>4, <3>1, <3>2
  <2>4. ASSUME NEW i \in 1..Len(s) PROVE s[i] \in Range(u)
    BY <1>4, <1>5, <2>1
  <2>5. ASSUME NEW i \in 1..Len(t) PROVE t[i] \in Range(u)
    <3>1. Len(s) + i \in 1..Len(u)
      BY <1>4
    <3> QED
      BY <1>6, <2>1, <3>1
  <2> QED
    BY <2>1, <2>2, <2>3, <2>4, <2>5
<1> QED
  BY <1>4, <1>5, <1>6, <1>7, <1>8 DEF u

LEMMA PairConcat ==
  ASSUME NEW x, NEW y
  PROVE  <<x>> \o <<y>> = <<x, y>>
<1> DEFINE s == <<x>>
           t == <<y>>
           u == <<x, y>>
<1>1. IsSeq(s) /\ Len(s) = 1 /\ s[1] = x /\ IsSeq(t) /\ Len(t) = 1 /\ t[1] = y
  BY SingleIsSeq
<1>2. u \in Seq({x, y}) /\ Len(u) = 2 /\ u[1] = x /\ u[2] = y
  OBVIOUS
<1>3. IsSeq(u)
  BY <1>2 DEF IsSeq
<1> HIDE DEF s, t, u
<1>4. IsSeq(s \o t) /\ Len(s \o t) = 1 + 1 /\ (s \o t)[1] = x /\ (s \o t)[1 + 1] = y
  BY <1>1, ConcatIsSeq
<1>5. \A i \in 1..Len(u) : (s \o t)[i] = u[i]
  BY <1>2, <1>4
<1>6. s \o t = u
  BY <1>2, <1>3, <1>4, <1>5, SameSeq
<1> QED
  BY <1>6 DEF s, t, u

LEMMA SubIsSeq ==
  ASSUME NEW s, IsSeq(s), NEW a \in 1..(Len(s) + 1), NEW b \in (a - 1)..Len(s)
  PROVE  /\ IsSeq(SubSeq(s, a, b)) /\ Len(SubSeq(s, a, b)) = b - a + 1
         /\ \A i \in 1..(b - a + 1) : SubSeq(s, a, b)[i] = s[a + i - 1]
         /\ Range(SubSeq(s, a, b)) = {s[i] : i \in a..b}
<1>1. PICK X : s \in Seq(X)
  BY DEF IsSeq
<1> DEFINE u == SubSeq(s, a, b)
<1>2. Len(s) \in Nat /\ a \in Nat /\ b \in Nat /\ b - a + 1 \in Nat
  BY <1>1
<1>3. u \in Seq(X) /\ Len(u) = b - a + 1
  BY <1>1, <1>2, SubSeqProperties
<1>4. \A i \in 1..(b - a + 1) : u[i] = s[a + i - 1]
  BY <1>1, <1>2, SubSeqProperties
<1>5. IsSeq(u)
  BY <1>3 DEF IsSeq
<1> HIDE DEF u
<1>6. Range(u) = {s[i] : i \in a..b}
  <2>1. Range(u) = {u[i] : i \in 1..(b - a + 1)}
    BY <1>3, <1>5, RangeSeq
  <2>2. ASSUME NEW i \in a..b PROVE s[i] \in Range(u)
    <3>1. i - a + 1 \in 1..(b - a + 1) /\ a + (i - a + 1) - 1 = i
      BY <1>2
    <3> QED
      BY <1>4, <2>1, <3>1
  <2>3. ASSUME NEW i \in 1..(b - a + 1) PROVE u[i] \in {s[j] : j \in a..b}
    <3>1. a + i - 1 \in a..b
      BY <1>2
    <3> QED
      BY <1>4, <3>1
  <2> QED
    BY <2>1, <2>2, <2>3
<1> QED
  BY <1>3, <1>4, <1>5, <1>6 DEF u

-----------------------------------------------------------------------------
(* Sorted runs of rows. *)

Sorted(rows) ==
  /\ IsSeq(rows)
  /\ \A i \in 1..Len(rows) : rows[i].key \in Nat
  /\ \A i, j \in 1..Len(rows) : i < j => rows[i].key < rows[j].key

\* The optional row of key k in a set of rows.
Opt(S, k) == IF \E r \in S : r.key = k THEN << CHOOSE r \in S : r.key = k >> ELSE <<>>

Without(S, k) == {r \in S : r.key # k}

\* An optional row of key k.
IsOpt(o, k) == o = <<>> \/ \E r : o = <<r>> /\ r.key = k

LEMMA SortedLen ==
  ASSUME NEW rows, Sorted(rows)
  PROVE  /\ IsSeq(rows) /\ Len(rows) \in Nat /\ DOMAIN rows = 1..Len(rows)
         /\ Range(rows) = {rows[i] : i \in 1..Len(rows)}
         /\ \A r \in Range(rows) : r.key \in Nat
<1>1. IsSeq(rows)
  BY DEF Sorted
<1>2. Len(rows) \in Nat /\ DOMAIN rows = 1..Len(rows)
  BY <1>1, SeqFacts
<1>3. Range(rows) = {rows[i] : i \in 1..Len(rows)}
  BY <1>1, RangeSeq
<1> QED
  BY <1>1, <1>2, <1>3 DEF Sorted

LEMMA SortedEmpty == Sorted(<<>>)
  BY EmptyIsSeq DEF Sorted

LEMMA SortedSingle ==
  ASSUME NEW r, r.key \in Nat
  PROVE  Sorted(<<r>>)
<1> DEFINE s == <<r>>
<1>1. IsSeq(s) /\ Len(s) = 1 /\ s[1] = r
  BY SingleIsSeq
<1> HIDE DEF s
<1>2. Sorted(s)
  BY <1>1 DEF Sorted
<1> QED
  BY <1>2 DEF s

LEMMA SortedOpt ==
  ASSUME NEW k \in Nat, NEW o, IsOpt(o, k)
  PROVE  Sorted(o) /\ Len(o) \in {0, 1} /\ \A r \in Range(o) : r.key = k
<1>1. CASE o = <<>>
  BY <1>1, SortedEmpty, EmptyIsSeq
<1>2. CASE \E r : o = <<r>> /\ r.key = k
  <2>1. PICK r : o = <<r>> /\ r.key = k
    BY <1>2
  <2>2. Sorted(o) /\ Len(o) = 1 /\ Range(o) = {r}
    BY <2>1, SortedSingle, SingleIsSeq
  <2> QED
    BY <2>1, <2>2
<1> QED
  BY <1>1, <1>2 DEF IsOpt

LEMMA SortedConcat ==
  ASSUME NEW s, NEW t, Sorted(s), Sorted(t),
         \A q \in Range(s), r \in Range(t) : q.key < r.key
  PROVE  Sorted(s \o t) /\ Range(s \o t) = Range(s) \cup Range(t)
                        /\ Len(s \o t) = Len(s) + Len(t)
<1> DEFINE u == s \o t
<1>1. IsSeq(s) /\ IsSeq(t) /\ Len(s) \in Nat /\ Len(t) \in Nat
  BY SortedLen
<1>2. /\ IsSeq(u) /\ Len(u) = Len(s) + Len(t)
      /\ \A i \in 1..Len(s) : u[i] = s[i]
      /\ \A i \in 1..Len(t) : u[Len(s) + i] = t[i]
      /\ Range(u) = Range(s) \cup Range(t)
  BY <1>1, ConcatIsSeq
<1> HIDE DEF u
<1>3. /\ Range(s) = {s[i] : i \in 1..Len(s)} /\ Range(t) = {t[i] : i \in 1..Len(t)}
  BY SortedLen
<1>4. /\ \A i \in 1..Len(s) : s[i].key \in Nat
      /\ \A i, j \in 1..Len(s) : i < j => s[i].key < s[j].key
      /\ \A i \in 1..Len(t) : t[i].key \in Nat
      /\ \A i, j \in 1..Len(t) : i < j => t[i].key < t[j].key
  BY DEF Sorted
<1>5. ASSUME NEW i \in 1..Len(u) PROVE i <= Len(s) \/ (i > Len(s) /\ i - Len(s) \in 1..Len(t) /\ u[i] = t[i - Len(s)])
  <2>1. CASE i > Len(s)
    <3>1. i - Len(s) \in 1..Len(t) /\ Len(s) + (i - Len(s)) = i
      BY <1>1, <1>2, <2>1
    <3> QED
      BY <1>2, <2>1, <3>1
  <2> QED
    BY <1>1, <2>1
<1>6. ASSUME NEW i \in 1..Len(u) PROVE u[i].key \in Nat
  <2>1. CASE i <= Len(s)
    BY <1>1, <1>2, <1>4, <2>1
  <2>2. CASE i > Len(s) /\ i - Len(s) \in 1..Len(t) /\ u[i] = t[i - Len(s)]
    BY <1>4, <2>2
  <2> QED
    BY <1>5, <2>1, <2>2
<1>7. ASSUME NEW i \in 1..Len(u), NEW j \in 1..Len(u), i < j PROVE u[i].key < u[j].key
  <2>1. CASE i <= Len(s) /\ j <= Len(s)
    <3>1. i \in 1..Len(s) /\ j \in 1..Len(s)
      BY <1>1, <2>1
    <3> QED
      BY <1>2, <1>4, <1>7, <3>1
  <2>2. CASE i <= Len(s) /\ j > Len(s) /\ j - Len(s) \in 1..Len(t) /\ u[j] = t[j - Len(s)]
    <3>1. i \in 1..Len(s)
      BY <1>1, <2>2
    <3> QED
      BY <1>2, <1>3, <2>2, <3>1
  <2>3. CASE i > Len(s)
    <3>1. j > Len(s) /\ i - Len(s) < j - Len(s)
      BY <1>1, <1>2, <1>7, <2>3
    <3>2. i - Len(s) \in 1..Len(t) /\ u[i] = t[i - Len(s)]
          /\ j - Len(s) \in 1..Len(t) /\ u[j] = t[j - Len(s)]
      BY <1>1, <1>2, <1>5, <2>3, <3>1
    <3> QED
      BY <1>4, <3>1, <3>2
  <2> QED
    BY <1>1, <1>2, <1>5, <2>1, <2>2, <2>3
<1>8. Sorted(u)
  BY <1>2, <1>6, <1>7 DEF Sorted
<1> QED
  BY <1>2, <1>8 DEF u

LEMMA SortedSub ==
  ASSUME NEW s, Sorted(s), NEW a \in 1..(Len(s) + 1), NEW b \in (a - 1)..Len(s)
  PROVE  /\ Sorted(SubSeq(s, a, b)) /\ Len(SubSeq(s, a, b)) = b - a + 1
         /\ Range(SubSeq(s, a, b)) = {s[i] : i \in a..b}
<1> DEFINE u == SubSeq(s, a, b)
<1>1. IsSeq(s) /\ Len(s) \in Nat
  BY SortedLen
<1>2. /\ IsSeq(u) /\ Len(u) = b - a + 1
      /\ \A i \in 1..(b - a + 1) : u[i] = s[a + i - 1]
      /\ Range(u) = {s[i] : i \in a..b}
  BY <1>1, SubIsSeq
<1> HIDE DEF u
<1>3. a \in Nat /\ b \in Nat
  BY <1>1
<1>4. ASSUME NEW i \in 1..Len(u)
      PROVE  u[i] = s[a + i - 1] /\ a + i - 1 \in 1..Len(s)
  BY <1>1, <1>2, <1>3
<1>5. ASSUME NEW i \in 1..Len(u), NEW j \in 1..Len(u), i < j PROVE u[i].key < u[j].key
  <2>1. a + i - 1 < a + j - 1
    BY <1>2, <1>3, <1>5
  <2> QED
    BY <1>4, <2>1 DEF Sorted
<1>6. Sorted(u)
  BY <1>2, <1>4, <1>5 DEF Sorted
<1> QED
  BY <1>2, <1>6 DEF u

\* Below counts the rows before the place of k.
LEMMA BelowPlace ==
  ASSUME NEW rows, Sorted(rows), NEW k \in Nat
  PROVE  /\ Below(rows, k) \in 0..Len(rows)
         /\ \A i \in 1..Len(rows) : (rows[i].key < k) <=> (i <= Below(rows, k))
<1> DEFINE D == {i \in DOMAIN rows : rows[i].key < k}
           n == Len(rows)
<1>1. n \in Nat /\ DOMAIN rows = 1..n
  BY SortedLen
<1>2. D \in SUBSET (1..n) /\ \A i \in 1..n : (i \in D) <=> (rows[i].key < k)
  BY <1>1
<1>3. ASSUME NEW i \in D, NEW j \in 1..n, j < i PROVE j \in D
  <2>1. i \in 1..n /\ rows[i].key \in Nat /\ rows[j].key \in Nat /\ rows[j].key < rows[i].key
    BY <1>2, <1>3 DEF Sorted
  <2> QED
    BY <1>2, <2>1
<1>4. Below(rows, k) = Cardinality(D)
  BY DEF Below
<1> HIDE DEF D, n
<1>5. /\ Cardinality(D) \in 0..n
      /\ \A i \in 1..n : (i \in D) <=> (i <= Cardinality(D))
  BY <1>1, <1>2, <1>3, InitialSegment
<1> QED
  BY <1>2, <1>4, <1>5 DEF n

Keyed(S) == \A q, r \in S : q.key = r.key => q = r

LEMMA SortedKeyed ==
  ASSUME NEW rows, Sorted(rows)
  PROVE  Keyed(Range(rows))
<1>1. Range(rows) = {rows[i] : i \in 1..Len(rows)} /\ Len(rows) \in Nat
  BY SortedLen
<1>2. ASSUME NEW i \in 1..Len(rows), NEW j \in 1..Len(rows), rows[i].key = rows[j].key
      PROVE  rows[i] = rows[j]
  <2>1. rows[i].key \in Nat /\ ~(i < j) /\ ~(j < i)
    BY <1>2 DEF Sorted
  <2>2. i = j
    BY <1>1, <2>1
  <2> QED
    BY <2>2
<1> QED
  BY <1>1, <1>2 DEF Keyed

LEMMA OptFound ==
  ASSUME NEW S, Keyed(S), NEW r \in S
  PROVE  Opt(S, r.key) = <<r>>
<1>1. (CHOOSE q \in S : q.key = r.key) = r
  BY DEF Keyed
<1> QED
  BY <1>1 DEF Opt

LEMMA OptIsOpt ==
  ASSUME NEW S, NEW k
  PROVE  /\ IsOpt(Opt(S, k), k)
         /\ (Opt(S, k) = <<>>) <=> ~(\E r \in S : r.key = k)
         /\ \A r : Opt(S, k) = <<r>> => r \in S /\ r.key = k
<1>1. CASE \E r \in S : r.key = k
  <2> DEFINE q == CHOOSE r \in S : r.key = k
  <2>1. q \in S /\ q.key = k
    BY <1>1
  <2> HIDE DEF q
  <2>2. Opt(S, k) = <<q>>
    BY <1>1 DEF Opt, q
  <2>3. <<q>> # <<>>
    BY SingleIsSeq
  <2>4. \A r : <<q>> = <<r>> => q = r
    OBVIOUS
  <2> QED
    BY <1>1, <2>1, <2>2, <2>3, <2>4 DEF IsOpt
<1>2. CASE ~(\E r \in S : r.key = k)
  <2>1. Opt(S, k) = <<>>
    BY <1>2 DEF Opt
  <2>2. \A r : <<>> # <<r>>
    BY SingleIsSeq
  <2> QED
    BY <1>2, <2>1, <2>2 DEF IsOpt
<1> QED
  BY <1>1, <1>2

\* The binary search finds the row of k where there is one.
LEMMA HitOpt ==
  ASSUME NEW rows, Sorted(rows), NEW k \in Nat
  PROVE  /\ Hit(rows, k) = Opt(Range(rows), k)
         /\ Len(Hit(rows, k)) \in {0, 1}
         /\ Len(Hit(rows, k)) = 1 =>
              Below(rows, k) < Len(rows) /\ rows[Below(rows, k) + 1].key = k
         /\ Len(Hit(rows, k)) = 0 => \A i \in 1..Len(rows) : rows[i].key # k
<1> DEFINE b == Below(rows, k)
           n == Len(rows)
<1>1. n \in Nat /\ b \in 0..n /\ Range(rows) = {rows[i] : i \in 1..n}
      /\ \A i \in 1..n : (rows[i].key < k) <=> (i <= b)
  BY SortedLen, BelowPlace
<1>2. \A i \in 1..n : rows[i].key \in Nat
  BY DEF Sorted
<1>3. Hit(rows, k) = IF b + 1 <= n /\ rows[b + 1].key = k THEN <<rows[b + 1]>> ELSE <<>>
  BY DEF Hit
<1>4. \A i, j \in 1..n : i < j => rows[i].key < rows[j].key
  BY DEF Sorted
<1> HIDE DEF b, n
<1>5. CASE b + 1 <= n /\ rows[b + 1].key = k
  <2>1. b + 1 \in 1..n /\ rows[b + 1] \in Range(rows)
    BY <1>1, <1>5
  <2>2. Opt(Range(rows), k) = <<rows[b + 1]>>
    BY <1>5, <2>1, SortedKeyed, OptFound
  <2>3. Len(<<rows[b + 1]>>) = 1
    OBVIOUS
  <2> QED
    BY <1>1, <1>3, <1>5, <2>2, <2>3 DEF b, n
<1>6. CASE ~(b + 1 <= n /\ rows[b + 1].key = k)
  <2>1. ASSUME NEW i \in 1..n PROVE rows[i].key # k
    <3>1. CASE i <= b
      BY <1>1, <1>2, <3>1
    <3>2. CASE i = b + 1
      BY <1>1, <1>6, <3>2
    <3>3. CASE i > b + 1
      <4>1. b + 1 \in 1..n /\ ~(b + 1 <= b)
        BY <1>1, <3>3
      <4>2. rows[b + 1].key < rows[i].key /\ ~(rows[b + 1].key < k)
        BY <1>1, <1>4, <3>3, <4>1
      <4> QED
        BY <1>2, <4>1, <4>2
    <3> QED
      BY <1>1, <3>1, <3>2, <3>3
  <2>2. Opt(Range(rows), k) = <<>>
    BY <1>1, <2>1 DEF Opt
  <2>3. Hit(rows, k) = <<>>
    BY <1>3, <1>6
  <2> QED
    BY <2>1, <2>2, <2>3, EmptyIsSeq DEF n
<1> QED
  BY <1>5, <1>6

RowsBefore(S, k) == {r \in S : r.key < k}
RowsAfter(S, k)  == {r \in S : k < r.key}

\* Cutting a run at the row of k: what is before and what is after it.
LEMMA CutAt ==
  ASSUME NEW rows, Sorted(rows), NEW k \in Nat, NEW rest,
         rest = Below(rows, k) + Len(Hit(rows, k))
  PROVE  /\ Below(rows, k) \in 0..Len(rows) /\ rest \in 0..Len(rows)
         /\ Sorted(SubSeq(rows, 1, Below(rows, k)))
         /\ Range(SubSeq(rows, 1, Below(rows, k))) = RowsBefore(Range(rows), k)
         /\ Len(SubSeq(rows, 1, Below(rows, k))) = Below(rows, k)
         /\ Sorted(SubSeq(rows, rest + 1, Len(rows)))
         /\ Range(SubSeq(rows, rest + 1, Len(rows))) = RowsAfter(Range(rows), k)
         /\ Len(SubSeq(rows, rest + 1, Len(rows))) = Len(rows) - rest
<1> DEFINE b == Below(rows, k)
           n == Len(rows)
           h == Len(Hit(rows, k))
<1>1. n \in Nat /\ b \in 0..n /\ Range(rows) = {rows[i] : i \in 1..n}
      /\ \A i \in 1..n : (rows[i].key < k) <=> (i <= b)
  BY SortedLen, BelowPlace
<1>2. \A i \in 1..n : rows[i].key \in Nat
  BY DEF Sorted
<1>3. h \in {0, 1} /\ (h = 1 => b < n /\ rows[b + 1].key = k)
      /\ (h = 0 => \A i \in 1..n : rows[i].key # k)
  BY HitOpt
<1>4. \A i, j \in 1..n : i < j => rows[i].key < rows[j].key
  BY DEF Sorted
<1>5. rest = b + h
  OBVIOUS
<1> HIDE DEF b, n, h
<1>6. rest \in 0..n /\ 1 \in 1..(n + 1) /\ b \in (1 - 1)..n
      /\ rest + 1 \in 1..(n + 1) /\ n \in (rest + 1 - 1)..n
  BY <1>1, <1>3, <1>5
<1>7. \A i \in 1..n : (i \in 1..b) <=> (rows[i].key < k)
  BY <1>1
<1>8. ASSUME NEW i \in 1..n PROVE (i \in (rest + 1)..n) <=> (k < rows[i].key)
  <2>1. CASE i <= b
    BY <1>1, <1>2, <1>3, <1>5, <2>1
  <2>2. CASE i > b /\ h = 0
    <3>1. rows[i].key # k /\ ~(rows[i].key < k)
      BY <1>1, <1>3, <2>2
    <3> QED
      BY <1>1, <1>2, <1>5, <2>2, <3>1
  <2>3. CASE i = b + 1 /\ h = 1
    BY <1>1, <1>2, <1>3, <1>5, <2>3
  <2>4. CASE i > b + 1 /\ h = 1
    <3>1. b + 1 \in 1..n /\ rows[b + 1].key < rows[i].key
      BY <1>1, <1>3, <1>4, <2>4
    <3> QED
      BY <1>1, <1>2, <1>3, <1>5, <2>4, <3>1
  <2> QED
    BY <1>1, <1>3, <2>1, <2>2, <2>3, <2>4
<1> DEFINE A == SubSeq(rows, 1, b)
           B == SubSeq(rows, rest + 1, n)
<1>9. Sorted(A) /\ Len(A) = b - 1 + 1 /\ Range(A) = {rows[i] : i \in 1..b}
  BY <1>6, SortedSub DEF n
<1>10. Sorted(B) /\ Len(B) = n - (rest + 1) + 1 /\ Range(B) = {rows[i] : i \in (rest + 1)..n}
  <2> DEFINE start == rest + 1
  <2>1. start \in 1..(Len(rows) + 1) /\ n \in (start - 1)..Len(rows)
    BY <1>6 DEF n
  <2> HIDE DEF start, n
  <2>2. Sorted(SubSeq(rows, start, n)) /\ Len(SubSeq(rows, start, n)) = n - start + 1
        /\ Range(SubSeq(rows, start, n)) = {rows[i] : i \in start..n}
    BY <2>1, SortedSub
  <2> QED
    BY <2>2 DEF start
<1> HIDE DEF A, B
<1>11. Range(A) = RowsBefore(Range(rows), k)
  <2>1. \A i \in 1..b : i \in 1..n
    BY <1>1
  <2> QED
    BY <1>1, <1>7, <1>9, <2>1 DEF RowsBefore
<1>12. Range(B) = RowsAfter(Range(rows), k)
  <2>1. \A i \in (rest + 1)..n : i \in 1..n
    BY <1>1, <1>6
  <2> QED
    BY <1>1, <1>8, <1>10, <2>1 DEF RowsAfter
<1>13. Len(A) = b /\ Len(B) = n - rest
  BY <1>1, <1>6, <1>9, <1>10
<1> QED
  BY <1>1, <1>6, <1>9, <1>10, <1>11, <1>12, <1>13 DEF A, B, b, n

-----------------------------------------------------------------------------
(* Packed indexes. *)

\* The rows an index holds.
Content(index) == UNION {Range(index[i]) : i \in 1..Len(index)}

Well(index) ==
  /\ IsSeq(index)
  /\ \A i \in 1..Len(index) : Sorted(index[i]) /\ Len(index[i]) \in 1..LEAF_MAX
  /\ \A i, j \in 1..Len(index) : i < j =>
       \A q \in Range(index[i]), r \in Range(index[j]) : q.key < r.key

LEMMA LeafSizes == LEAF_TARGET \in Nat /\ LEAF_TARGET >= 1 /\ LEAF_MAX \in Nat
                   /\ LEAF_MAX = LEAF_TARGET + LEAF_TARGET
  BY LeafAssumption DEF LEAF_MAX

LEMMA WellEmpty == Well(<<>>) /\ Content(<<>>) = {}
  BY EmptyIsSeq DEF Well, Content

LEMMA WellSingle ==
  ASSUME NEW leaf, Sorted(leaf), Len(leaf) \in 1..LEAF_MAX
  PROVE  Well(<<leaf>>) /\ Content(<<leaf>>) = Range(leaf)
<1> DEFINE s == <<leaf>>
<1>1. IsSeq(s) /\ Len(s) = 1 /\ s[1] = leaf
  BY SingleIsSeq
<1> HIDE DEF s
<1>2. Well(s) /\ Content(s) = Range(leaf)
  BY <1>1 DEF Well, Content
<1> QED
  BY <1>2 DEF s

LEMMA ContentKeys ==
  ASSUME NEW index, Well(index)
  PROVE  /\ IsSeq(index) /\ Len(index) \in Nat
         /\ \A r \in Content(index) :
              r.key \in Nat /\ \E i \in 1..Len(index) : r \in Range(index[i])
         /\ \A i \in 1..Len(index) : Range(index[i]) \subseteq Content(index)
         /\ Keyed(Content(index))
<1>1. IsSeq(index) /\ Len(index) \in Nat
  BY SeqFacts DEF Well
<1>2. ASSUME NEW r \in Content(index)
      PROVE  r.key \in Nat /\ \E i \in 1..Len(index) : r \in Range(index[i])
  <2>1. PICK i \in 1..Len(index) : r \in Range(index[i])
    BY DEF Content
  <2> QED
    BY <2>1, SortedLen DEF Well
<1>3. \A i \in 1..Len(index) : Range(index[i]) \subseteq Content(index)
  BY DEF Content
<1>4. ASSUME NEW q \in Content(index), NEW r \in Content(index), q.key = r.key PROVE q = r
  <2>1. PICK i \in 1..Len(index) : q \in Range(index[i])
    BY <1>2
  <2>2. PICK j \in 1..Len(index) : r \in Range(index[j])
    BY <1>2
  <2>3. q.key \in Nat /\ r.key \in Nat
    BY <1>2
  <2>4. ~(i < j) /\ ~(j < i)
    BY <1>4, <2>1, <2>2, <2>3 DEF Well
  <2>5. i = j
    BY <1>1, <2>4
  <2> QED
    BY <1>4, <2>1, <2>2, <2>5, SortedKeyed DEF Well, Keyed
<1> QED
  BY <1>1, <1>2, <1>3, <1>4 DEF Keyed

LEMMA WellConcat ==
  ASSUME NEW s, NEW t, Well(s), Well(t),
         \A q \in Content(s), r \in Content(t) : q.key < r.key
  PROVE  Well(s \o t) /\ Content(s \o t) = Content(s) \cup Content(t)
<1> DEFINE u == s \o t
<1>1. IsSeq(s) /\ IsSeq(t) /\ Len(s) \in Nat /\ Len(t) \in Nat
  BY ContentKeys
<1>2. /\ IsSeq(u) /\ Len(u) = Len(s) + Len(t)
      /\ \A i \in 1..Len(s) : u[i] = s[i]
      /\ \A i \in 1..Len(t) : u[Len(s) + i] = t[i]
  BY <1>1, ConcatIsSeq
<1> HIDE DEF u
<1>3. ASSUME NEW i \in 1..Len(u)
      PROVE  \/ i \in 1..Len(s)
             \/ i > Len(s) /\ i - Len(s) \in 1..Len(t) /\ u[i] = t[i - Len(s)]
  <2>1. CASE i > Len(s)
    <3>1. i - Len(s) \in 1..Len(t) /\ Len(s) + (i - Len(s)) = i
      BY <1>1, <1>2, <2>1
    <3> QED
      BY <1>2, <2>1, <3>1
  <2> QED
    BY <1>1, <2>1
<1>4. ASSUME NEW i \in 1..Len(u) PROVE Sorted(u[i]) /\ Len(u[i]) \in 1..LEAF_MAX
  BY <1>2, <1>3 DEF Well
<1>5. ASSUME NEW i \in 1..Len(u), NEW j \in 1..Len(u), i < j,
             NEW q \in Range(u[i]), NEW r \in Range(u[j])
      PROVE  q.key < r.key
  <2>1. CASE i \in 1..Len(s) /\ j \in 1..Len(s)
    BY <1>2, <1>5, <2>1 DEF Well
  <2>2. CASE i \in 1..Len(s) /\ j > Len(s) /\ j - Len(s) \in 1..Len(t) /\ u[j] = t[j - Len(s)]
    <3>1. q \in Content(s) /\ r \in Content(t)
      BY <1>2, <1>5, <2>2, ContentKeys
    <3> QED
      BY <3>1
  <2>3. CASE i > Len(s)
    <3>1. j > Len(s) /\ i - Len(s) < j - Len(s)
      BY <1>1, <1>2, <1>5, <2>3
    <3>2. i - Len(s) \in 1..Len(t) /\ u[i] = t[i - Len(s)]
          /\ j - Len(s) \in 1..Len(t) /\ u[j] = t[j - Len(s)]
      BY <1>1, <1>2, <1>3, <2>3, <3>1
    <3> QED
      BY <1>5, <3>1, <3>2 DEF Well
  <2> QED
    BY <1>1, <1>2, <1>3, <2>1, <2>2, <2>3
<1>6. Well(u)
  BY <1>2, <1>4, <1>5 DEF Well
<1>7. Content(u) = Content(s) \cup Content(t)
  <2>1. ASSUME NEW i \in 1..Len(u) PROVE Range(u[i]) \subseteq Content(s) \cup Content(t)
    BY <1>2, <1>3, ContentKeys
  <2>2. ASSUME NEW i \in 1..Len(s) PROVE Range(s[i]) \subseteq Content(u)
    <3>1. i \in 1..Len(u) /\ u[i] = s[i]
      BY <1>1, <1>2
    <3> QED
      BY <1>6, <3>1, ContentKeys
  <2>3. ASSUME NEW i \in 1..Len(t) PROVE Range(t[i]) \subseteq Content(u)
    <3>1. Len(s) + i \in 1..Len(u) /\ u[Len(s) + i] = t[i]
      BY <1>1, <1>2
    <3> QED
      BY <1>6, <3>1, ContentKeys
  <2> QED
    BY <2>1, <2>2, <2>3 DEF Content
<1> QED
  BY <1>6, <1>7 DEF u

LEMMA WellSub ==
  ASSUME NEW s, Well(s), NEW a \in 1..(Len(s) + 1), NEW b \in (a - 1)..Len(s)
  PROVE  /\ Well(SubSeq(s, a, b))
         /\ Content(SubSeq(s, a, b)) = UNION {Range(s[i]) : i \in a..b}
<1> DEFINE u == SubSeq(s, a, b)
<1>1. IsSeq(s) /\ Len(s) \in Nat
  BY ContentKeys
<1>2. /\ IsSeq(u) /\ Len(u) = b - a + 1
      /\ \A i \in 1..(b - a + 1) : u[i] = s[a + i - 1]
  BY <1>1, SubIsSeq
<1> HIDE DEF u
<1>3. a \in Nat /\ b \in Nat
  BY <1>1
<1>4. ASSUME NEW i \in 1..Len(u)
      PROVE  u[i] = s[a + i - 1] /\ a + i - 1 \in 1..Len(s) /\ a + i - 1 \in a..b
  BY <1>1, <1>2, <1>3
<1>5. ASSUME NEW i \in 1..Len(u), NEW j \in 1..Len(u), i < j,
             NEW q \in Range(u[i]), NEW r \in Range(u[j])
      PROVE  q.key < r.key
  <2>1. a + i - 1 < a + j - 1
    BY <1>2, <1>3, <1>5
  <2> QED
    BY <1>4, <1>5, <2>1 DEF Well
<1>6. Well(u)
  BY <1>2, <1>4, <1>5 DEF Well
<1>7. ASSUME NEW i \in a..b PROVE i - a + 1 \in 1..Len(u) /\ s[i] = u[i - a + 1]
  <2>1. i - a + 1 \in 1..(b - a + 1) /\ a + (i - a + 1) - 1 = i
    BY <1>3
  <2> QED
    BY <1>2, <2>1
<1>8. Content(u) = UNION {Range(s[i]) : i \in a..b}
  <2>1. ASSUME NEW r \in Content(u) PROVE r \in UNION {Range(s[i]) : i \in a..b}
    BY <1>4, <2>1 DEF Content
  <2>2. ASSUME NEW i \in a..b, NEW r \in Range(s[i]) PROVE r \in Content(u)
    BY <1>7 DEF Content
  <2> QED
    BY <2>1, <2>2
<1> QED
  BY <1>6, <1>8 DEF u

\* The leaf for k: what is in the leaves before it and after it.
LEMMA LeafPlace ==
  ASSUME NEW index, Well(index), index # <<>>, NEW k \in Nat
  PROVE  /\ LeafFor(index, k) \in 1..Len(index)
         /\ \A i \in 1..Len(index), r \in Content(index) : r \in Range(index[i]) =>
              /\ i < LeafFor(index, k) => r.key < k
              /\ LeafFor(index, k) < i => k < r.key
<1> DEFINE n == Len(index)
           last(i) == index[i][Len(index[i])]
           D == {i \in DOMAIN index : Last(index[i]).key < k}
           at == LeafFor(index, k)
<1>1. IsSeq(index) /\ n \in Nat /\ DOMAIN index = 1..n
  BY ContentKeys, SeqFacts
<1>2. n # 0
  BY <1>1, RangeSeq
<1>3. \A i \in 1..n : Last(index[i]) = last(i)
  BY DEF Last
<1>4. ASSUME NEW i \in 1..n
      PROVE  last(i) \in Range(index[i]) /\ last(i).key \in Nat
             /\ \A r \in Range(index[i]) : r.key \in Nat /\ r.key <= last(i).key
  <2> DEFINE leaf == index[i]
             m == Len(leaf)
  <2>1. Sorted(leaf) /\ m \in 1..LEAF_MAX
    BY DEF Well
  <2>2. m \in 1..m /\ m \in Nat
    BY <2>1, LeafSizes
  <2> HIDE DEF leaf, m
  <2>3. Range(leaf) = {leaf[j] : j \in 1..m}
    BY <2>1, SortedLen DEF m
  <2>4. ASSUME NEW j \in 1..m PROVE leaf[j].key \in Nat /\ leaf[j].key <= leaf[m].key
    <3>1. leaf[j].key \in Nat /\ leaf[m].key \in Nat /\ (j < m => leaf[j].key < leaf[m].key)
      BY <2>1, <2>2 DEF Sorted, m
    <3> QED
      BY <2>2, <3>1
  <2> QED
    BY <2>2, <2>3, <2>4 DEF leaf, m
<1>5. ASSUME NEW i \in 1..n, NEW j \in 1..n, j < i PROVE last(j).key < last(i).key
  BY <1>4, <1>5 DEF Well
<1> HIDE DEF last, n
<1>6. D \in SUBSET (1..n) /\ \A i \in 1..n : (i \in D) <=> (last(i).key < k)
  BY <1>1, <1>3
<1>7. ASSUME NEW i \in D, NEW j \in 1..n, j < i PROVE j \in D
  <2>1. i \in 1..n /\ last(i).key < k /\ last(j).key < last(i).key
        /\ last(i).key \in Nat /\ last(j).key \in Nat
    BY <1>4, <1>5, <1>6, <1>7
  <2> QED
    BY <1>6, <2>1
<1>8. at = IF Cardinality(D) < n THEN Cardinality(D) + 1 ELSE n
  BY DEF LeafFor, n
<1> HIDE DEF D, at
<1>9. /\ Cardinality(D) \in 0..n
      /\ \A i \in 1..n : (i \in D) <=> (i <= Cardinality(D))
  BY <1>1, <1>6, <1>7, InitialSegment
<1>10. at \in 1..n
  BY <1>1, <1>2, <1>8, <1>9
<1>11. ASSUME NEW i \in 1..n, NEW r \in Range(index[i]), i < at PROVE r.key < k
  <2>1. i <= Cardinality(D)
    BY <1>1, <1>8, <1>9, <1>11
  <2>2. last(i).key < k
    BY <1>6, <1>9, <2>1
  <2> QED
    BY <1>4, <2>2
<1>12. ASSUME NEW i \in 1..n, NEW r \in Range(index[i]), at < i PROVE k < r.key
  <2>1. at = Cardinality(D) + 1 /\ ~(at <= Cardinality(D))
    BY <1>1, <1>8, <1>9, <1>12
  <2>2. ~(last(at).key < k) /\ last(at).key \in Nat
    BY <1>4, <1>6, <1>9, <1>10, <2>1
  <2>3. last(at) \in Range(index[at]) /\ last(at).key < r.key /\ r.key \in Nat
    BY <1>4, <1>10, <1>12 DEF Well, n
  <2> QED
    BY <2>2, <2>3
<1> QED
  BY <1>10, <1>11, <1>12 DEF n, at

\* A lookup finds the row of k wherever the index holds it.
LEMMA LookupOpt ==
  ASSUME NEW index, Well(index), NEW k \in Nat
  PROVE  Lookup(index, k) = Opt(Content(index), k)
<1>1. CASE index = <<>>
  BY <1>1, WellEmpty DEF Lookup, Opt
<1>2. CASE index # <<>>
  <2> DEFINE at == LeafFor(index, k)
             leaf == index[at]
  <2>1. at \in 1..Len(index) /\ Sorted(leaf) /\ Len(index) \in Nat
    BY <1>2, LeafPlace, ContentKeys DEF Well
  <2>2. Lookup(index, k) = Opt(Range(leaf), k)
    BY <1>2, <2>1, HitOpt DEF Lookup
  <2>3. \A r \in Range(leaf) : r \in Content(index)
    BY <2>1, ContentKeys
  <2>4. ASSUME NEW r \in Content(index), r.key = k PROVE r \in Range(leaf)
    <3>1. PICK i \in 1..Len(index) : r \in Range(index[i])
      BY ContentKeys
    <3>2. ~(i < at) /\ ~(at < i)
      BY <1>2, <2>4, <3>1, LeafPlace
    <3>3. i = at
      BY <2>1, <3>2
    <3> QED
      BY <3>1, <3>3
  <2> HIDE DEF leaf
  <2>5. Keyed(Content(index))
    BY ContentKeys
  <2>6. CASE \E r \in Content(index) : r.key = k
    <3>1. PICK r \in Content(index) : r.key = k
      BY <2>6
    <3>2. r \in Range(leaf)
      BY <2>4, <3>1
    <3>3. Opt(Range(leaf), k) = <<r>> /\ Opt(Content(index), k) = <<r>>
      BY <2>1, <2>5, <3>1, <3>2, OptFound, SortedKeyed
    <3> QED
      BY <2>2, <3>3
  <2>7. CASE ~(\E r \in Content(index) : r.key = k)
    BY <2>2, <2>3, <2>7 DEF Opt
  <2> QED
    BY <2>6, <2>7
<1> QED
  BY <1>1, <1>2

LEMMA SplitWell ==
  ASSUME NEW leaf, Sorted(leaf), Len(leaf) <= LEAF_MAX + 1
  PROVE  Well(Split(leaf)) /\ Content(Split(leaf)) = Range(leaf)
<1> DEFINE n == Len(leaf)
           A == SubSeq(leaf, 1, LEAF_TARGET)
           B == SubSeq(leaf, LEAF_TARGET + 1, n)
<1>1. IsSeq(leaf) /\ n \in Nat /\ Range(leaf) = {leaf[i] : i \in 1..n}
  BY SortedLen
<1>2. (leaf = <<>>) <=> (n = 0)
  BY <1>1, RangeSeq
<1>3. CASE leaf = <<>>
  BY <1>3, WellEmpty, EmptyIsSeq DEF Split
<1>4. CASE leaf # <<>> /\ ~(n > LEAF_MAX)
  <2>1. n \in 1..LEAF_MAX
    BY <1>1, <1>2, <1>4, LeafSizes
  <2> QED
    BY <1>4, <2>1, WellSingle DEF Split
<1>5. CASE n > LEAF_MAX
  <2> HIDE DEF n
  <2>1. /\ 1 \in 1..(n + 1) /\ LEAF_TARGET \in (1 - 1)..n
        /\ LEAF_TARGET + 1 \in 1..(n + 1) /\ n \in (LEAF_TARGET + 1 - 1)..n
        /\ n = LEAF_MAX + 1
    BY <1>1, <1>5, LeafSizes DEF n
  <2>2. Sorted(A) /\ Len(A) = LEAF_TARGET - 1 + 1 /\ Range(A) = {leaf[i] : i \in 1..LEAF_TARGET}
    BY <2>1, SortedSub DEF n
  <2>3. Sorted(B) /\ Len(B) = n - (LEAF_TARGET + 1) + 1
        /\ Range(B) = {leaf[i] : i \in (LEAF_TARGET + 1)..n}
    <3> DEFINE start == LEAF_TARGET + 1
    <3>1. start \in 1..(Len(leaf) + 1) /\ n \in (start - 1)..Len(leaf)
      BY <2>1 DEF n
    <3> HIDE DEF start, n
    <3>2. Sorted(SubSeq(leaf, start, n)) /\ Len(SubSeq(leaf, start, n)) = n - start + 1
          /\ Range(SubSeq(leaf, start, n)) = {leaf[i] : i \in start..n}
      BY <3>1, SortedSub
    <3> QED
      BY <3>2 DEF start
  <2> HIDE DEF A, B
  <2>4. Len(A) \in 1..LEAF_MAX /\ Len(B) \in 1..LEAF_MAX
    BY <2>1, <2>2, <2>3, LeafSizes
  <2>5. \A q \in Range(A), r \in Range(B) : q.key < r.key
    <3>1. ASSUME NEW i \in 1..LEAF_TARGET, NEW j \in (LEAF_TARGET + 1)..n
          PROVE  leaf[i].key < leaf[j].key
      <4>1. i \in 1..Len(leaf) /\ j \in 1..Len(leaf) /\ i < j
        BY <2>1, LeafSizes DEF n
      <4> QED
        BY <4>1 DEF Sorted
    <3> QED
      BY <2>2, <2>3, <3>1
  <2>6. Range(leaf) = Range(A) \cup Range(B)
    <3>1. \A i \in 1..n : i \in 1..LEAF_TARGET \/ i \in (LEAF_TARGET + 1)..n
      BY <1>1, LeafSizes
    <3>2. \A i \in 1..LEAF_TARGET : i \in 1..n
      BY <2>1
    <3>3. \A i \in (LEAF_TARGET + 1)..n : i \in 1..n
      BY <2>1
    <3> QED
      BY <1>1, <2>2, <2>3, <3>1, <3>2, <3>3 DEF n
  <2>7. Well(<<A>>) /\ Content(<<A>>) = Range(A) /\ Well(<<B>>) /\ Content(<<B>>) = Range(B)
    BY <2>2, <2>3, <2>4, WellSingle
  <2>8. Well(<<A>> \o <<B>>) /\ Content(<<A>> \o <<B>>) = Range(A) \cup Range(B)
    <3> DEFINE a == <<A>>
               b == <<B>>
    <3>1. Well(a) /\ Content(a) = Range(A) /\ Well(b) /\ Content(b) = Range(B)
      BY <2>7
    <3> HIDE DEF a, b
    <3>2. Well(a \o b) /\ Content(a \o b) = Range(A) \cup Range(B)
      BY <2>5, <3>1, WellConcat
    <3> QED
      BY <3>2 DEF a, b
  <2>9. <<A>> \o <<B>> = <<A, B>>
    BY PairConcat
  <2>10. leaf # <<>>
    BY <1>2, <1>1, <1>5, LeafSizes DEF n
  <2>11. Split(leaf) = <<A, B>>
    BY <1>5, <2>10 DEF Split, A, B, n
  <2> QED
    BY <2>6, <2>8, <2>9, <2>11
<1> QED
  BY <1>1, <1>3, <1>4, <1>5, LeafSizes

LEMMA SpliceSets ==
  ASSUME NEW S, NEW N, NEW k \in Nat, \A r \in S : r.key \in Nat, \A r \in N : r.key = k
  PROVE  /\ (RowsBefore(S, k) \cup N) \cup RowsAfter(S, k) = Without(S, k) \cup N
         /\ \A q \in RowsBefore(S, k) \cup N, r \in RowsAfter(S, k) : q.key < r.key
  BY DEF RowsBefore, RowsAfter, Without

\* The leaf a replacement leaves behind.
Splice(leaf, k, new) ==
  SubSeq(leaf, 1, Below(leaf, k)) \o new
    \o SubSeq(leaf, Below(leaf, k) + Len(Hit(leaf, k)) + 1, Len(leaf))

LEMMA LeafSplice ==
  ASSUME NEW leaf, Sorted(leaf), NEW k \in Nat, NEW new, IsOpt(new, k)
  PROVE  /\ Sorted(Splice(leaf, k, new)) /\ Len(Splice(leaf, k, new)) <= Len(leaf) + 1
         /\ Range(Splice(leaf, k, new)) = Without(Range(leaf), k) \cup Range(new)
<1> DEFINE s == Splice(leaf, k, new)
           rest == Below(leaf, k) + Len(Hit(leaf, k))
           A == SubSeq(leaf, 1, Below(leaf, k))
           B == SubSeq(leaf, rest + 1, Len(leaf))
           b == Below(leaf, k)
           n == Len(leaf)
<1>1. /\ b \in 0..n /\ rest \in 0..n /\ n \in Nat
      /\ Sorted(A) /\ Range(A) = RowsBefore(Range(leaf), k) /\ Len(A) = b
      /\ Sorted(B) /\ Range(B) = RowsAfter(Range(leaf), k) /\ Len(B) = n - rest
  BY CutAt, SortedLen
<1>2. Len(Hit(leaf, k)) \in {0, 1}
  BY HitOpt
<1>3. Sorted(new) /\ Len(new) \in {0, 1} /\ \A r \in Range(new) : r.key = k
  BY SortedOpt
<1>4. \A r \in Range(leaf) : r.key \in Nat
  BY SortedLen
<1>5. s = (A \o new) \o B /\ b <= rest
  BY <1>1, <1>2 DEF Splice
<1> HIDE DEF A, B, b, n, s, rest
<1> DEFINE C == A \o new
<1>6. Sorted(C) /\ Range(C) = Range(A) \cup Range(new) /\ Len(C) = b + Len(new)
  <2>1. \A q \in Range(A), r \in Range(new) : q.key < r.key
    BY <1>1, <1>3 DEF RowsBefore
  <2> QED
    BY <1>1, <1>3, <2>1, SortedConcat
<1>7. s = C \o B
  BY <1>5
<1> HIDE DEF C
<1> DEFINE S == Range(leaf)
           N == Range(new)
<1>11. /\ (RowsBefore(S, k) \cup N) \cup RowsAfter(S, k) = Without(S, k) \cup N
       /\ \A q \in RowsBefore(S, k) \cup N, r \in RowsAfter(S, k) : q.key < r.key
  <2>1. (\A r \in S : r.key \in Nat) /\ (\A r \in N : r.key = k)
    BY <1>3, <1>4
  <2> HIDE DEF S, N
  <2> QED
    BY <2>1, SpliceSets
<1>8. Sorted(s) /\ Range(s) = Range(C) \cup Range(B) /\ Len(s) = Len(C) + Len(B)
  <2>1. \A q \in Range(C), r \in Range(B) : q.key < r.key
    BY <1>1, <1>6, <1>11, Zenon
  <2> QED
    BY <1>1, <1>6, <1>7, <2>1, SortedConcat
<1>9. Range(s) = Without(Range(leaf), k) \cup Range(new)
  BY <1>1, <1>6, <1>8, <1>11, Zenon
<1>10. Len(s) <= n + 1
  <2> DEFINE x == Len(new)
             m == Len(s)
  <2>1. x \in {0, 1} /\ m = (b + x) + (n - rest)
    BY <1>1, <1>3, <1>6, <1>8
  <2> HIDE DEF x, m
  <2>2. m <= n + 1
    BY <1>1, <1>5, <2>1
  <2> QED
    BY <2>2 DEF m
<1> QED
  BY <1>8, <1>9, <1>10 DEF n, s

\* Building an index cuts the rows into leaves and loses none.
LEMMA FromSortedWell ==
  ASSUME NEW rows, Sorted(rows)
  PROVE  Well(FromSorted(rows)) /\ Content(FromSorted(rows)) = Range(rows)
<1> DEFINE n == Len(rows)
           T == LEAF_TARGET
           leaves == (n + T - 1) \div T
           upTo(i) == IF i * T < n THEN i * T ELSE n
           index == FromSorted(rows)
<1>1. IsSeq(rows) /\ n \in Nat /\ Range(rows) = {rows[i] : i \in 1..n}
  BY SortedLen
<1>2. T \in Nat /\ T >= 1
  BY LeafSizes
<1>3. index = [i \in 1..leaves |-> SubSeq(rows, (i - 1) * T + 1, upTo(i))]
  BY DEF FromSorted
<1> HIDE DEF n, T, index
<1>4. leaves \in Nat /\ leaves * T <= n + T - 1 /\ n + T - 1 < leaves * T + T
  <2> DEFINE x == n + T - 1
  <2>1. x \in Nat /\ T \in Nat \ {0}
    BY <1>1, <1>2
  <2> HIDE DEF x
  <2>2. (x \div T) \in Nat /\ (x \div T) * T <= x /\ x < (x \div T) * T + T
    BY <2>1
  <2> QED
    BY <2>2 DEF x
<1> HIDE DEF leaves
<1>5. ASSUME NEW i \in 1..leaves
      PROVE  /\ i * T \in Nat /\ (i - 1) * T \in Nat /\ (i - 1) * T + T = i * T
             /\ (i - 1) * T < n /\ upTo(i) \in Nat /\ upTo(i) <= n
             /\ (i - 1) * T < upTo(i) /\ upTo(i) <= (i - 1) * T + T
             /\ (i < leaves => upTo(i) = i * T)
             /\ (i = leaves => upTo(i) = n)
  <2>1. i \in Nat /\ i - 1 \in Nat /\ i <= leaves
    BY <1>4
  <2>2. i * T \in Nat /\ (i - 1) * T \in Nat /\ (i - 1) * T + T = i * T /\ leaves * T \in Nat
    BY <1>2, <1>4, <2>1
  <2>3. i * T <= leaves * T
    BY <1>2, <1>4, <2>1
  <2>4. (i - 1) * T < n
    BY <1>1, <1>2, <1>4, <2>2, <2>3
  <2>5. ASSUME i < leaves PROVE i * T < n
    <3>1. (i + 1) * T <= leaves * T /\ (i + 1) * T = i * T + T
      BY <1>2, <1>4, <2>1, <2>5
    <3> QED
      BY <1>1, <1>2, <1>4, <2>2, <3>1
  <2>6. i = leaves => ~(i * T < n)
    BY <1>1, <1>2, <1>4, <2>2
  <2> QED
    BY <1>1, <1>2, <2>2, <2>4, <2>5, <2>6
<1>6. IsSeq(index) /\ Len(index) = leaves
  <2>1. index = [i \in 1..leaves |-> index[i]]
    BY <1>3
  <2> QED
    BY <1>4, <2>1, MapIsSeq
<1> HIDE DEF upTo
<1>7. ASSUME NEW i \in 1..leaves
      PROVE  /\ Sorted(index[i]) /\ Len(index[i]) \in 1..LEAF_MAX
             /\ Range(index[i]) = {rows[j] : j \in ((i - 1) * T + 1)..upTo(i)}
  <2> DEFINE a == (i - 1) * T + 1
             b == upTo(i)
  <2>1. index[i] = SubSeq(rows, a, b)
    BY <1>3
  <2>2. a \in 1..(n + 1) /\ b \in (a - 1)..n /\ b - a + 1 \in 1..T
    BY <1>1, <1>2, <1>5
  <2> HIDE DEF a, b
  <2>3. Sorted(SubSeq(rows, a, b)) /\ Len(SubSeq(rows, a, b)) = b - a + 1
        /\ Range(SubSeq(rows, a, b)) = {rows[j] : j \in a..b}
    BY <2>2, SortedSub DEF n
  <2>4. b - a + 1 \in 1..LEAF_MAX
    BY <2>2, LeafSizes DEF T
  <2> QED
    BY <2>1, <2>3, <2>4 DEF a, b
<1>8. ASSUME NEW i \in 1..leaves, NEW j \in 1..leaves, i < j,
             NEW q \in Range(index[i]), NEW r \in Range(index[j])
      PROVE  q.key < r.key
  <2>1. PICK x \in ((i - 1) * T + 1)..upTo(i) : q = rows[x]
    BY <1>7
  <2>2. PICK y \in ((j - 1) * T + 1)..upTo(j) : r = rows[y]
    BY <1>7
  <2>3. i * T <= (j - 1) * T
    <3>1. i \in Nat /\ j - 1 \in Nat /\ i <= j - 1
      BY <1>4, <1>8
    <3> QED
      BY <1>2, <3>1
  <2>4. x \in 1..n /\ y \in 1..n /\ x < y
    <3>1. x <= i * T /\ x >= 1 /\ x <= n
      BY <1>1, <1>2, <1>5
    <3>2. y > (j - 1) * T /\ y <= n
      BY <1>1, <1>2, <1>5
    <3> QED
      BY <1>1, <1>5, <2>3, <3>1, <3>2
  <2> QED
    BY <2>1, <2>2, <2>4 DEF Sorted, n
<1>9. Well(index)
  BY <1>6, <1>7, <1>8 DEF Well
<1>10. ASSUME NEW x \in 1..n PROVE \E i \in 1..leaves : x \in ((i - 1) * T + 1)..upTo(i)
  <2> DEFINE q == (x - 1) \div T
  <2>1. x - 1 \in Nat /\ T \in Nat \ {0} /\ x <= n /\ x \in Nat
    BY <1>1, <1>2
  <2>2. q \in Nat /\ q * T <= x - 1 /\ x - 1 < q * T + T
    BY <2>1
  <2> HIDE DEF q
  <2>3. q < leaves
    <3> SUFFICES ASSUME leaves <= q PROVE FALSE
      BY <1>4, <2>2
    <3>1. leaves * T <= q * T /\ leaves * T \in Nat /\ q * T \in Nat
      BY <1>2, <1>4, <2>2
    <3> QED
      BY <1>1, <1>2, <1>4, <2>1, <2>2, <3>1
  <2> DEFINE i == q + 1
  <2>4. i \in 1..leaves /\ i - 1 = q
    BY <1>4, <2>2, <2>3
  <2> HIDE DEF i
  <2>5. (i - 1) * T <= x - 1 /\ x - 1 < (i - 1) * T + T
    BY <2>2, <2>4
  <2>6. x <= upTo(i)
    <3>1. i < leaves \/ i = leaves
      BY <1>4, <2>4
    <3>2. /\ (i - 1) * T \in Nat /\ (i - 1) * T + T = i * T
          /\ (i < leaves => upTo(i) = i * T) /\ (i = leaves => upTo(i) = n)
      BY <1>5, <2>4
    <3> QED
      BY <1>1, <2>1, <2>5, <3>1, <3>2
  <2>7. x \in ((i - 1) * T + 1)..upTo(i)
    BY <1>5, <2>1, <2>4, <2>5, <2>6
  <2> QED
    BY <2>4, <2>7
<1>11. Content(index) = Range(rows)
  <2>1. ASSUME NEW r \in Content(index) PROVE r \in Range(rows)
    <3>1. PICK i \in 1..leaves : r \in Range(index[i])
      BY <1>6 DEF Content
    <3>2. PICK x \in ((i - 1) * T + 1)..upTo(i) : r = rows[x]
      BY <1>7, <3>1
    <3>3. x \in 1..n
      BY <1>1, <1>5
    <3> QED
      BY <1>1, <3>2, <3>3
  <2>2. ASSUME NEW x \in 1..n PROVE rows[x] \in Content(index)
    BY <1>6, <1>7, <1>10 DEF Content
  <2> QED
    BY <1>1, <2>1, <2>2
<1> QED
  BY <1>9, <1>11 DEF index

\* Updating an index replaces the row of k and nothing else.
LEMMA UpdatedWell ==
  ASSUME NEW index, Well(index), NEW k \in Nat, NEW new, IsOpt(new, k)
  PROVE  /\ Well(Updated(index, k, new))
         /\ Content(Updated(index, k, new)) = Without(Content(index), k) \cup Range(new)
<1>1. CASE index = <<>>
  <2>1. Sorted(new) /\ Len(new) \in {0, 1}
    BY SortedOpt
  <2>2. Updated(index, k, new) = FromSorted(new)
    BY <1>1 DEF Updated
  <2>3. Content(index) = {}
    BY <1>1, WellEmpty
  <2> QED
    BY <2>1, <2>2, <2>3, FromSortedWell DEF Without
<1>2. CASE index # <<>>
  <2> DEFINE at == LeafFor(index, k)
             n == Len(index)
             leaf == index[at]
             s == Splice(leaf, k, new)
             A == SubSeq(index, 1, at - 1)
             M == Split(s)
             B == SubSeq(index, at + 1, n)
  <2>1. at \in 1..n /\ n \in Nat
    BY <1>2, LeafPlace, ContentKeys
  <2>2. \A i \in 1..n, r \in Content(index) : r \in Range(index[i]) =>
              /\ i < at => r.key < k
              /\ at < i => k < r.key
    BY <1>2, LeafPlace
  <2>3. Sorted(leaf) /\ Len(leaf) \in 1..LEAF_MAX
    BY <2>1 DEF Well
  <2>4. Updated(index, k, new) = (A \o M) \o B
    BY <1>2 DEF Updated, Splice
  <2>5. Sorted(s) /\ Len(s) <= Len(leaf) + 1 /\ Range(s) = Without(Range(leaf), k) \cup Range(new)
    <3> HIDE DEF leaf
    <3> QED
      BY <2>3, LeafSplice
  <2> HIDE DEF at, n, leaf, s
  <2>6. Len(s) <= LEAF_MAX + 1
    <3>1. Len(s) \in Nat
      BY <2>5, SortedLen
    <3> QED
      BY <2>3, <2>5, <3>1, LeafSizes
  <2>7. Well(M) /\ Content(M) = Range(s)
    BY <2>5, <2>6, SplitWell
  <2>8. Well(A) /\ Content(A) = UNION {Range(index[i]) : i \in 1..(at - 1)}
    <3> DEFINE end == at - 1
    <3>1. 1 \in 1..(Len(index) + 1) /\ end \in (1 - 1)..Len(index)
      BY <2>1 DEF n
    <3> HIDE DEF end
    <3>2. Well(SubSeq(index, 1, end)) /\ Content(SubSeq(index, 1, end)) = UNION {Range(index[i]) : i \in 1..end}
      BY <3>1, WellSub
    <3> QED
      BY <3>2 DEF end
  <2>9. Well(B) /\ Content(B) = UNION {Range(index[i]) : i \in (at + 1)..n}
    <3> DEFINE start == at + 1
    <3>1. start \in 1..(Len(index) + 1) /\ n \in (start - 1)..Len(index)
      BY <2>1 DEF n
    <3> HIDE DEF start
    <3>2. Well(SubSeq(index, start, n)) /\ Content(SubSeq(index, start, n)) = UNION {Range(index[i]) : i \in start..n}
      BY <3>1, WellSub
    <3> QED
      BY <3>2 DEF start
  <2> HIDE DEF A, B, M
  <2>10. ASSUME NEW i \in 1..n PROVE Range(index[i]) \subseteq Content(index)
    BY <2>10, ContentKeys DEF n
  <2>11. ASSUME NEW r \in Content(A)
         PROVE  r \in Content(index) /\ r.key < k /\ \E i \in 1..n : i < at /\ r \in Range(index[i])
    <3>1. PICK i \in 1..(at - 1) : r \in Range(index[i])
      BY <2>8
    <3>2. i \in 1..n /\ i < at
      BY <2>1
    <3> QED
      BY <2>2, <2>10, <3>1, <3>2
  <2>12. ASSUME NEW r \in Content(B)
         PROVE  r \in Content(index) /\ k < r.key /\ \E i \in 1..n : at < i /\ r \in Range(index[i])
    <3>1. PICK i \in (at + 1)..n : r \in Range(index[i])
      BY <2>9
    <3>2. i \in 1..n /\ at < i
      BY <2>1
    <3> QED
      BY <2>2, <2>10, <3>1, <3>2
  <2>13. \A r \in Range(new) : r.key = k
    BY SortedOpt
  <2>14. \A r \in Content(index) : r.key \in Nat
    BY ContentKeys
  <2>15. ASSUME NEW r \in Content(M) PROVE (r \in Range(leaf) /\ r.key # k) \/ r.key = k
    BY <2>5, <2>7, <2>13 DEF Without
  <2>16. \A q \in Content(A), r \in Content(M) : q.key < r.key
    <3>1. ASSUME NEW q \in Content(A), NEW r \in Range(leaf) PROVE q.key < r.key
      BY <2>1, <2>11 DEF Well, leaf, n
    <3> QED
      BY <2>11, <2>15, <3>1
  <2>17. \A q \in Content(M), r \in Content(B) : q.key < r.key
    <3>1. ASSUME NEW r \in Content(B), NEW q \in Range(leaf) PROVE q.key < r.key
      BY <2>1, <2>12 DEF Well, leaf, n
    <3> QED
      BY <2>12, <2>15, <3>1
  <2>18. \A q \in Content(A), r \in Content(B) : q.key < r.key
    BY <2>11, <2>12, <2>14
  <2> DEFINE C == A \o M
  <2>19. Well(C) /\ Content(C) = Content(A) \cup Content(M)
    BY <2>7, <2>8, <2>16, WellConcat
  <2> HIDE DEF C
  <2>20. Well(C \o B) /\ Content(C \o B) = Content(C) \cup Content(B)
    <3>1. \A q \in Content(C), r \in Content(B) : q.key < r.key
      BY <2>17, <2>18, <2>19
    <3> QED
      BY <2>9, <2>19, <3>1, WellConcat
  <2>21. Content(C \o B) = Without(Content(index), k) \cup Range(new)
    <3>1. Content(C \o B) = Content(A) \cup Range(s) \cup Content(B)
      BY <2>7, <2>19, <2>20
    <3>2. ASSUME NEW r \in Content(A) \cup Content(B) PROVE r \in Without(Content(index), k)
      BY <2>11, <2>12, <2>14 DEF Without
    <3>3. ASSUME NEW r \in Range(leaf), r.key # k PROVE r \in Without(Content(index), k)
      BY <2>1, <2>10, <3>3 DEF Without, leaf
    <3>4. ASSUME NEW r \in Content(index), r.key # k PROVE r \in Content(A) \cup Range(s) \cup Content(B)
      <4>1. PICK i \in 1..n : r \in Range(index[i])
        BY ContentKeys DEF n
      <4>2. CASE i < at
        <5>1. i \in 1..(at - 1)
          BY <2>1, <4>2
        <5> QED
          BY <2>8, <4>1, <5>1
      <4>3. CASE at < i
        <5>1. i \in (at + 1)..n
          BY <2>1, <4>3
        <5> QED
          BY <2>9, <4>1, <5>1
      <4>4. CASE at = i
        BY <2>5, <3>4, <4>1, <4>4 DEF Without, leaf
      <4> QED
        BY <2>1, <4>2, <4>3, <4>4
    <3>5. Range(s) = {r \in Range(leaf) : r.key # k} \cup Range(new)
      BY <2>5 DEF Without
    <3> QED
      BY <3>1, <3>2, <3>3, <3>4, <3>5 DEF Without
  <2> QED
    BY <2>4, <2>20, <2>21 DEF C
<1> QED
  BY <1>1, <1>2

-----------------------------------------------------------------------------
(* Flattened sequences. *)

\* The element at n of flat is the one at pos[n] of the part at[n] of seqs,
\* for the first m parts, in their order.
Layout(flat, seqs, m, at, pos) ==
  /\ IsSeq(flat)
  /\ \A n \in 1..Len(flat) :
       /\ at[n] \in 1..m /\ pos[n] \in 1..Len(seqs[at[n]])
       /\ flat[n] = seqs[at[n]][pos[n]]
  /\ \A x, y \in 1..Len(flat) : x < y =>
       at[x] < at[y] \/ (at[x] = at[y] /\ pos[x] < pos[y])
  /\ \A i \in 1..m : \A j \in 1..Len(seqs[i]) :
       \E n \in 1..Len(flat) : at[n] = i /\ pos[n] = j

LEMMA FlattenChain ==
  ASSUME NEW seqs, NEW n \in Nat, Len(seqs) = n, n # 0
  PROVE  \E g : /\ g[1] = seqs[1]
                /\ \A i \in 2..n : g[i] = g[i - 1] \o seqs[i]
                /\ FlattenSeq(seqs) = g[n]
<1> DEFINE Eq(h, i) == IF i = 1 THEN seqs[i] ELSE h[i - 1] \o seqs[i]
           Right(h, k) == \A i \in 1..n : i <= k => h[i] = Eq(h, i)
           K == {k \in Nat : \E h : Right(h, k)}
<1>1. 0 \in K
  <2>1. \A h : Right(h, 0)
    OBVIOUS
  <2> HIDE DEF Right
  <2> QED
    BY <2>1
<1>2. ASSUME NEW k \in Nat, k \in K PROVE k + 1 \in K
  <2>1. PICK h : Right(h, k)
    BY <1>2
  <2> DEFINE f == [i \in 1..n |-> Eq(h, i)]
  <2>2. \A i \in 1..n : i <= k => f[i] = h[i]
    BY <2>1
  <2>3. ASSUME NEW i \in 1..n, i <= k + 1 PROVE f[i] = Eq(f, i)
    <3>1. f[i] = Eq(h, i)
      OBVIOUS
    <3>2. CASE i = 1
      BY <3>1, <3>2
    <3>3. CASE i # 1
      <4>1. i - 1 \in 1..n /\ i - 1 <= k
        BY <2>3, <3>3
      <4>2. f[i - 1] = h[i - 1]
        BY <2>2, <4>1
      <4> HIDE DEF f
      <4> QED
        BY <3>1, <3>3, <4>2
    <3> QED
      BY <3>2, <3>3
  <2>4. Right(f, k + 1)
    BY <2>3
  <2> HIDE DEF Right, f
  <2> QED
    BY <2>4
<1> HIDE DEF K
<1>3. n \in K
  BY <1>1, <1>2, SetInduction
<1>4. PICK h : Right(h, n)
  BY <1>3 DEF K
<1> DEFINE f == [i \in 1..n |-> h[i]]
<1>5. ASSUME NEW i \in 1..n PROVE f[i] = Eq(f, i)
  <2>1. h[i] = Eq(h, i)
    BY <1>4
  <2>2. i = 1 \/ i - 1 \in 1..n
    OBVIOUS
  <2> QED
    BY <2>1, <2>2
<1>6. f = [i \in 1..n |-> Eq(f, i)]
  BY <1>5
<1> HIDE DEF f
<1> DEFINE g == CHOOSE e : e = [i \in 1..n |-> Eq(e, i)]
<1>7. g = [i \in 1..n |-> Eq(g, i)]
  BY <1>6, Zenon
<1>8. FlattenSeq(seqs) = g[n]
  BY DEF FlattenSeq
<1> HIDE DEF g
<1>9. g[1] = seqs[1] /\ \A i \in 2..n : g[i] = g[i - 1] \o seqs[i]
  <2>1. \A i \in 1..n : g[i] = Eq(g, i)
    BY <1>7, Zenon
  <2>2. 1 \in 1..n /\ \A i \in 2..n : i \in 1..n /\ i # 1
    OBVIOUS
  <2> QED
    BY <2>1, <2>2, Zenon
<1> QED
  BY <1>8, <1>9

LEMMA LayoutStep ==
  ASSUME NEW flat, NEW seqs, NEW m \in Nat, NEW at, NEW pos,
         Layout(flat, seqs, m, at, pos), IsSeq(seqs[m + 1])
  PROVE  \E a, p : Layout(flat \o seqs[m + 1], seqs, m + 1, a, p)
<1> DEFINE t == seqs[m + 1]
           u == flat \o t
           c == Len(flat)
           a == [n \in 1..Len(u) |-> IF n <= c THEN at[n] ELSE m + 1]
           p == [n \in 1..Len(u) |-> IF n <= c THEN pos[n] ELSE n - c]
<1>1. IsSeq(flat) /\ c \in Nat /\ Len(t) \in Nat
  BY SeqFacts DEF Layout
<1>2. /\ IsSeq(u) /\ Len(u) = c + Len(t)
      /\ \A i \in 1..c : u[i] = flat[i]
      /\ \A i \in 1..Len(t) : u[c + i] = t[i]
  BY <1>1, ConcatIsSeq
<1>3. \A n \in 1..c : /\ at[n] \in 1..m /\ pos[n] \in 1..Len(seqs[at[n]])
                      /\ flat[n] = seqs[at[n]][pos[n]]
  BY DEF Layout
<1>4. \A x, y \in 1..c : x < y => at[x] < at[y] \/ (at[x] = at[y] /\ pos[x] < pos[y])
  BY DEF Layout
<1>5. \A i \in 1..m : \A j \in 1..Len(seqs[i]) : \E n \in 1..c : at[n] = i /\ pos[n] = j
  BY DEF Layout
<1> HIDE DEF u, c
<1>6. ASSUME NEW n \in 1..Len(u)
      PROVE  \/ n \in 1..c /\ a[n] = at[n] /\ p[n] = pos[n]
             \/ n > c /\ a[n] = m + 1 /\ p[n] = n - c /\ n - c \in 1..Len(t) /\ u[n] = t[n - c]
  <2>1. CASE n <= c
    BY <1>1, <1>2, <2>1
  <2>2. CASE n > c
    <3>1. n - c \in 1..Len(t) /\ c + (n - c) = n
      BY <1>1, <1>2, <2>2
    <3>2. u[n] = t[n - c]
      BY <1>2, <3>1
    <3> QED
      BY <1>1, <2>2, <3>1, <3>2
  <2> QED
    BY <1>1, <1>2, <2>1, <2>2
<1>7. \A n \in 1..c : n \in 1..Len(u)
  BY <1>1, <1>2
<1>8. \A n \in 1..c : a[n] = at[n] /\ p[n] = pos[n]
  BY <1>1, <1>7
<1>9. \A j \in 1..Len(t) : c + j \in 1..Len(u) /\ a[c + j] = m + 1 /\ p[c + j] = j
  BY <1>1, <1>2
<1> HIDE DEF a, p
<1>10. ASSUME NEW n \in 1..Len(u)
       PROVE  /\ a[n] \in 1..(m + 1) /\ p[n] \in 1..Len(seqs[a[n]])
              /\ u[n] = seqs[a[n]][p[n]]
  <2>1. CASE n \in 1..c /\ a[n] = at[n] /\ p[n] = pos[n]
    BY <1>2, <1>3, <2>1
  <2>2. CASE n > c /\ a[n] = m + 1 /\ p[n] = n - c /\ n - c \in 1..Len(t) /\ u[n] = t[n - c]
    BY <2>2
  <2> QED
    BY <1>6, <2>1, <2>2
<1>11. ASSUME NEW x \in 1..Len(u), NEW y \in 1..Len(u), x < y
       PROVE  a[x] < a[y] \/ (a[x] = a[y] /\ p[x] < p[y])
  <2>1. CASE y \in 1..c
    <3>1. x \in 1..c
      BY <1>1, <1>2, <1>11, <2>1
    <3> QED
      BY <1>4, <1>8, <1>11, <2>1, <3>1
  <2>2. CASE y > c /\ a[y] = m + 1 /\ p[y] = y - c
    <3>1. CASE x \in 1..c /\ a[x] = at[x]
      BY <1>3, <2>2, <3>1
    <3>2. CASE x > c /\ a[x] = m + 1 /\ p[x] = x - c
      BY <1>1, <1>2, <1>11, <2>2, <3>2
    <3> QED
      BY <1>6, <3>1, <3>2
  <2> QED
    BY <1>6, <2>1, <2>2
<1>12. ASSUME NEW i \in 1..(m + 1), NEW j \in 1..Len(seqs[i])
       PROVE  \E n \in 1..Len(u) : a[n] = i /\ p[n] = j
  <2>1. CASE i \in 1..m
    <3>1. PICK n \in 1..c : at[n] = i /\ pos[n] = j
      BY <1>5, <2>1
    <3> QED
      BY <1>7, <1>8, <3>1
  <2>2. CASE i = m + 1
    <3>1. j \in 1..Len(t)
      BY <2>2
    <3> QED
      BY <1>9, <2>2, <3>1
  <2> QED
    BY <2>1, <2>2
<1>13. Layout(u, seqs, m + 1, a, p)
  BY <1>2, <1>10, <1>11, <1>12 DEF Layout
<1> QED
  BY <1>13 DEF u

\* Flattening lays the parts one after the other.
LEMMA FlattenLayout ==
  ASSUME NEW seqs, IsSeq(seqs), \A i \in 1..Len(seqs) : IsSeq(seqs[i])
  PROVE  \E at, pos : Layout(FlattenSeq(seqs), seqs, Len(seqs), at, pos)
<1> DEFINE n == Len(seqs)
<1>1. n \in Nat
  BY SeqFacts
<1>2. CASE n = 0
  <2>1. seqs = <<>>
    BY <1>2, RangeSeq
  <2>2. FlattenSeq(seqs) = <<>>
    BY <1>2, <2>1 DEF FlattenSeq
  <2>3. Layout(<<>>, seqs, n, <<>>, <<>>)
    BY <1>2, EmptyIsSeq DEF Layout
  <2> QED
    BY <2>2, <2>3
<1>3. CASE n # 0
  <2>1. PICK g : /\ g[1] = seqs[1]
                 /\ \A i \in 2..n : g[i] = g[i - 1] \o seqs[i]
                 /\ FlattenSeq(seqs) = g[n]
    BY <1>1, <1>3, FlattenChain
  <2> DEFINE K == {k \in Nat : k + 1 <= n => \E a, p : Layout(g[k + 1], seqs, k + 1, a, p)}
  <2> HIDE DEF n
  <2>2. 0 \in K
    <3> DEFINE s == seqs[1]
               a == [i \in 1..Len(s) |-> 1]
               p == [i \in 1..Len(s) |-> i]
    <3>1. IsSeq(s) /\ Len(s) \in Nat
      BY <1>1, <1>3, SeqFacts DEF n
    <3>2. /\ \A i \in 1..Len(s) : a[i] = 1 /\ p[i] = i
      OBVIOUS
    <3> HIDE DEF a, p
    <3>3. Layout(s, seqs, 1, a, p)
      BY <3>1, <3>2 DEF Layout
    <3>4. g[0 + 1] = s /\ 0 + 1 = 1
      BY <2>1
    <3> HIDE DEF s
    <3> QED
      BY <3>3, <3>4
  <2>3. ASSUME NEW k \in Nat, k \in K PROVE k + 1 \in K
    <3> SUFFICES ASSUME k + 2 <= n PROVE \E a, p : Layout(g[k + 2], seqs, k + 2, a, p)
      <4>1. k + 1 \in Nat /\ (k + 1) + 1 = k + 2
        OBVIOUS
      <4> QED
        BY <4>1
    <3> DEFINE m == k + 1
    <3>1. m \in Nat /\ m + 1 = k + 2 /\ k + 2 \in 2..n /\ k + 2 \in 1..n /\ (k + 2) - 1 = m /\ m <= n
      BY <1>1
    <3>2. PICK at, pos : Layout(g[m], seqs, m, at, pos)
      BY <2>3, <3>1
    <3> HIDE DEF m
    <3>3. g[k + 2] = g[m] \o seqs[m + 1] /\ IsSeq(seqs[m + 1])
      BY <2>1, <3>1 DEF n
    <3>4. \E a, p : Layout(g[m] \o seqs[m + 1], seqs, m + 1, a, p)
      BY <3>1, <3>2, <3>3, LayoutStep
    <3> QED
      BY <3>1, <3>3, <3>4
  <2> HIDE DEF K
  <2>4. n - 1 \in K
    BY <1>1, <1>3, <2>2, <2>3, SetInduction
  <2>5. (n - 1) + 1 = n
    BY <1>1
  <2>6. \E a, p : Layout(g[n], seqs, n, a, p)
    BY <1>1, <2>4, <2>5 DEF K
  <2> QED
    BY <2>1, <2>6 DEF n
<1> QED
  BY <1>2, <1>3

-----------------------------------------------------------------------------
(* The rows of an index. *)

LEMMA RowsSorted ==
  ASSUME NEW index, Well(index)
  PROVE  Sorted(Rows(index)) /\ Range(Rows(index)) = Content(index)
<1> DEFINE flat == Rows(index)
           m == Len(index)
<1>1. IsSeq(index) /\ \A i \in 1..m : Sorted(index[i]) /\ IsSeq(index[i])
  BY SortedLen DEF Well
<1>2. PICK at, pos : Layout(flat, index, m, at, pos)
  BY <1>1, FlattenLayout DEF Rows
<1> HIDE DEF flat
<1>3. \A n \in 1..Len(flat) :
       /\ at[n] \in 1..m /\ pos[n] \in 1..Len(index[at[n]])
       /\ flat[n] = index[at[n]][pos[n]]
  BY <1>2 DEF Layout
<1>4. IsSeq(flat)
  BY <1>2 DEF Layout
<1>5. \A i \in 1..m : /\ Range(index[i]) = {index[i][j] : j \in 1..Len(index[i])}
                      /\ \A j \in 1..Len(index[i]) : index[i][j].key \in Nat
  BY <1>1, SortedLen DEF Sorted
<1>6. ASSUME NEW n \in 1..Len(flat)
      PROVE  flat[n].key \in Nat /\ flat[n] \in Range(index[at[n]])
  <2> DEFINE i == at[n]
             j == pos[n]
  <2>1. i \in 1..m /\ j \in 1..Len(index[i]) /\ flat[n] = index[i][j]
    BY <1>3
  <2> HIDE DEF i, j
  <2>2. flat[n].key \in Nat /\ flat[n] \in Range(index[i])
    BY <1>5, <2>1
  <2> QED
    BY <2>2 DEF i
<1>7. ASSUME NEW x \in 1..Len(flat), NEW y \in 1..Len(flat), x < y
      PROVE  flat[x].key < flat[y].key
  <2>1. at[x] < at[y] \/ (at[x] = at[y] /\ pos[x] < pos[y])
    BY <1>2, <1>7 DEF Layout
  <2>2. CASE at[x] < at[y]
    <3>1. at[x] \in 1..Len(index) /\ at[y] \in 1..Len(index)
      BY <1>3
    <3> QED
      BY <1>6, <2>2, <3>1 DEF Well
  <2>3. CASE at[x] = at[y] /\ pos[x] < pos[y]
    <3> DEFINE s == index[at[x]]
    <3>1. Sorted(s) /\ pos[x] \in 1..Len(s) /\ pos[y] \in 1..Len(s)
          /\ flat[x] = s[pos[x]] /\ flat[y] = s[pos[y]]
      BY <1>1, <1>3, <2>3
    <3> HIDE DEF s
    <3> QED
      BY <2>3, <3>1 DEF Sorted
  <2> QED
    BY <2>1, <2>2, <2>3
<1>8. Sorted(flat)
  BY <1>4, <1>6, <1>7 DEF Sorted
<1>9. Range(flat) = Content(index)
  <2>1. Range(flat) = {flat[n] : n \in 1..Len(flat)}
    BY <1>4, RangeSeq
  <2>2. \A n \in 1..Len(flat) : flat[n] \in Content(index)
    BY <1>3, <1>6 DEF Content
  <2>3. ASSUME NEW r \in Content(index) PROVE r \in Range(flat)
    <3>1. PICK i \in 1..m : r \in Range(index[i])
      BY DEF Content
    <3>2. PICK j \in 1..Len(index[i]) : r = index[i][j]
      BY <1>5, <3>1
    <3>3. PICK n \in 1..Len(flat) : at[n] = i /\ pos[n] = j
      BY <1>2, <3>2 DEF Layout
    <3>4. r = flat[n]
      BY <1>3, <3>2, <3>3
    <3> QED
      BY <2>1, <3>4
  <2> QED
    BY <2>1, <2>2, <2>3
<1> QED
  BY <1>8, <1>9 DEF flat

LEMMA WellCanonical ==
  ASSUME NEW index, Well(index)
  PROVE  Canonical(index)
<1> DEFINE rows == Rows(index)
<1>1. Sorted(rows) /\ Len(rows) \in Nat
  BY RowsSorted, SortedLen
<1>2. DOMAIN index = 1..Len(index)
  BY SeqFacts DEF Well
<1> HIDE DEF rows
<1>3. ASSUME NEW i \in 1..(Len(rows) - 1) PROVE rows[i].key < rows[i + 1].key
  <2>1. i \in 1..Len(rows) /\ i + 1 \in 1..Len(rows) /\ i < i + 1
    BY <1>1
  <2> QED
    BY <1>1, <2>1 DEF Sorted
<1>4. \A i \in DOMAIN index : Len(index[i]) \in 1..LEAF_MAX
  BY <1>2 DEF Well
<1> QED
  BY <1>3, <1>4 DEF Canonical, rows

-----------------------------------------------------------------------------
(* The linear merge. *)

\* What a merge has kept of the rows S and what it has still to pass after
\* the first i keys, whose optional rows are now those of news.
MergeState(m, S, keys, news, i) ==
  /\ Sorted(m.merged) /\ Sorted(m.rest)
  /\ Range(m.rest) = {r \in S : \A j \in 1..i : keys[j] < r.key}
  /\ Range(m.merged) =
       {r \in S : (\E j \in 1..i : r.key < keys[j]) /\ (\A j \in 1..i : r.key # keys[j])}
         \cup UNION {Range(news[j]) : j \in 1..i}

LEMMA MergeStep ==
  ASSUME NEW m, NEW S, NEW keys, NEW news, NEW i \in Nat,
         \A r \in S : r.key \in Nat,
         \A j \in 1..(i + 1) : keys[j] \in Nat /\ IsOpt(news[j], keys[j]),
         \A j \in 1..i : keys[j] < keys[i + 1],
         MergeState(m, S, keys, news, i)
  PROVE  MergeState(MergeOne(m, keys[i + 1], news[i + 1]), S, keys, news, i + 1)
<1> DEFINE k == keys[i + 1]
           new == news[i + 1]
           rest == m.rest
           merged == m.merged
           A == SubSeq(rest, 1, Below(rest, k))
           B == SubSeq(rest, Below(rest, k) + Len(Hit(rest, k)) + 1, Len(rest))
           x == MergeOne(m, k, new)
<1>1. i + 1 \in 1..(i + 1) /\ k \in Nat /\ IsOpt(new, k)
      /\ \A j \in 1..(i + 1) : j \in 1..i \/ j = i + 1
  OBVIOUS
<1>0. \A j \in 1..i : j \in 1..(i + 1)
  OBVIOUS
<1>2. Sorted(merged) /\ Sorted(rest)
      /\ Range(rest) = {r \in S : \A j \in 1..i : keys[j] < r.key}
      /\ Range(merged) =
           {r \in S : (\E j \in 1..i : r.key < keys[j]) /\ (\A j \in 1..i : r.key # keys[j])}
             \cup UNION {Range(news[j]) : j \in 1..i}
  BY DEF MergeState
<1>3. x.merged = (merged \o A) \o new /\ x.rest = B
  BY DEF MergeOne
<1> HIDE DEF x, rest, merged, new, k
<1>4. Sorted(A) /\ Range(A) = RowsBefore(Range(rest), k)
      /\ Sorted(B) /\ Range(B) = RowsAfter(Range(rest), k)
  BY <1>1, <1>2, CutAt
<1>5. Sorted(new) /\ \A r \in Range(new) : r.key = k
  BY <1>1, SortedOpt
<1> HIDE DEF A, B
<1>6. \A r \in Range(rest) : r \in S /\ r.key \in Nat /\ \A j \in 1..i : keys[j] < r.key
  BY <1>2
<1>7. ASSUME NEW r \in Range(merged)
      PROVE  \E j \in 1..i : r.key <= keys[j] /\ r.key \in Nat /\ keys[j] \in Nat
  <2>1. CASE r \in S /\ \E j \in 1..i : r.key < keys[j]
    BY <1>0, <2>1
  <2>2. CASE r \in UNION {Range(news[j]) : j \in 1..i}
    <3>1. PICK j \in 1..i : r \in Range(news[j])
      BY <2>2
    <3>2. r.key = keys[j] /\ keys[j] \in Nat
      BY <1>0, <3>1, SortedOpt
    <3> QED
      BY <3>2
  <2> QED
    BY <1>2, <2>1, <2>2
<1> DEFINE C == merged \o A
<1>8. Sorted(C) /\ Range(C) = Range(merged) \cup Range(A)
  <2>1. \A q \in Range(merged), r \in Range(A) : q.key < r.key
    <3> SUFFICES ASSUME NEW q \in Range(merged), NEW r \in Range(A) PROVE q.key < r.key
      OBVIOUS
    <3>1. PICK j \in 1..i : q.key <= keys[j] /\ q.key \in Nat /\ keys[j] \in Nat
      BY <1>7
    <3>2. keys[j] < r.key /\ r.key \in Nat
      BY <1>4, <1>6 DEF RowsBefore
    <3> QED
      BY <3>1, <3>2
  <2> QED
    BY <1>2, <1>4, <2>1, SortedConcat
<1> HIDE DEF C
<1>9. Sorted(C \o new) /\ Range(C \o new) = Range(C) \cup Range(new)
  <2>1. ASSUME NEW q \in Range(C) PROVE q.key < k
    <3>1. CASE q \in Range(merged)
      <4>1. PICK j \in 1..i : q.key <= keys[j] /\ q.key \in Nat /\ keys[j] \in Nat
        BY <1>7, <3>1
      <4>2. keys[j] < k
        BY DEF k
      <4> QED
        BY <1>1, <4>1, <4>2
    <3>2. CASE q \in Range(A)
      BY <1>4, <3>2 DEF RowsBefore
    <3> QED
      BY <1>8, <3>1, <3>2
  <2>2. \A q \in Range(C), r \in Range(new) : q.key < r.key
    BY <1>5, <2>1
  <2> QED
    BY <1>5, <1>8, <2>2, SortedConcat
<1>10. Range(B) = {r \in S : \A j \in 1..(i + 1) : keys[j] < r.key}
  <2>1. ASSUME NEW r \in S
        PROVE  (\A j \in 1..(i + 1) : keys[j] < r.key) <=> ((\A j \in 1..i : keys[j] < r.key) /\ k < r.key)
    BY <1>0, <1>1 DEF k
  <2>2. Range(rest) = {r \in S : \A j \in 1..i : keys[j] < r.key}
    BY <1>2
  <2> QED
    BY <1>4, <2>1, <2>2 DEF RowsAfter
<1> DEFINE T(n) == {r \in S : (\E j \in 1..n : r.key < keys[j]) /\ (\A j \in 1..n : r.key # keys[j])}
           U(n) == UNION {Range(news[j]) : j \in 1..n}
<1>11. T(i + 1) = T(i) \cup Range(A)
  <2>1. Range(A) = {r \in S : (\A j \in 1..i : keys[j] < r.key) /\ r.key < k}
    BY <1>2, <1>4 DEF RowsBefore
  <2>2. ASSUME NEW r \in S, r \in T(i + 1) PROVE r \in T(i) \cup Range(A)
    <3>1. \A j \in 1..i : r.key # keys[j]
      BY <1>0, <2>2
    <3>2. CASE \E j \in 1..i : r.key < keys[j]
      BY <3>1, <3>2
    <3>3. CASE ~(\E j \in 1..i : r.key < keys[j])
      <4>1. \A j \in 1..i : keys[j] < r.key
        BY <1>0, <3>1, <3>3
      <4>2. r.key < k
        BY <1>1, <2>2, <3>3 DEF k
      <4> QED
        BY <2>1, <4>1, <4>2
    <3> QED
      BY <3>2, <3>3
  <2>3. ASSUME NEW r \in S, r \in T(i) PROVE r \in T(i + 1)
    <3>1. PICK j \in 1..i : r.key < keys[j]
      BY <2>3
    <3>2. keys[j] < k /\ r.key < k /\ j \in 1..(i + 1)
      BY <1>0, <1>1, <3>1 DEF k
    <3>3. \A h \in 1..(i + 1) : r.key # keys[h]
      BY <1>1, <2>3, <3>2 DEF k
    <3> QED
      BY <3>1, <3>2, <3>3
  <2>4. ASSUME NEW r \in S, r \in Range(A) PROVE r \in T(i + 1)
    <3>1. r.key < k /\ \A j \in 1..i : keys[j] < r.key
      BY <2>1, <2>4
    <3>2. \A h \in 1..(i + 1) : r.key # keys[h]
      <4>1. \A j \in 1..i : keys[j] \in Nat /\ r.key \in Nat /\ keys[j] < r.key
        BY <1>0, <3>1
      <4>2. r.key # k /\ \A j \in 1..i : r.key # keys[j]
        BY <1>1, <3>1, <4>1
      <4> QED
        BY <1>1, <4>2 DEF k
    <3>3. \E j \in 1..(i + 1) : r.key < keys[j]
      BY <1>1, <3>1 DEF k
    <3> QED
      BY <3>2, <3>3
  <2>5. Range(A) \subseteq S
    BY <2>1
  <2> QED
    BY <2>2, <2>3, <2>4, <2>5
<1>12. U(i + 1) = U(i) \cup Range(new)
  BY <1>0, <1>1 DEF new
<1>13. Range(merged) = T(i) \cup U(i)
  BY <1>2
<1> HIDE DEF T, U
<1>14. Range(C \o new) = T(i + 1) \cup U(i + 1)
  BY <1>8, <1>9, <1>11, <1>12, <1>13
<1>15. MergeState(x, S, keys, news, i + 1)
  <2>1. x.merged = C \o new /\ x.rest = B
    BY <1>3 DEF C
  <2>2. Sorted(x.merged) /\ Sorted(x.rest)
    BY <1>4, <1>9, <2>1
  <2>3. Range(x.rest) = {r \in S : \A j \in 1..(i + 1) : keys[j] < r.key}
    BY <1>10, <2>1
  <2>4. Range(x.merged) =
           {r \in S : (\E j \in 1..(i + 1) : r.key < keys[j]) /\ (\A j \in 1..(i + 1) : r.key # keys[j])}
             \cup UNION {Range(news[j]) : j \in 1..(i + 1)}
    BY <1>14, <2>1 DEF T, U
  <2> QED
    BY <2>2, <2>3, <2>4 DEF MergeState
<1> QED
  BY <1>15 DEF x, k, new

\* The states m a merge of the rows S goes through.
Merging(m, rows, keys, news, n) ==
  /\ m[0] = [merged |-> <<>>, rest |-> rows]
  /\ \A i \in 1..n : m[i] = MergeOne(m[i - 1], keys[i], news[i])

\* The rows of S after the optional rows of the first n keys became news.
Replaced(S, keys, news, n) ==
  {r \in S : \A j \in 1..n : r.key # keys[j]} \cup UNION {Range(news[j]) : j \in 1..n}

\* A merge over ascending keys replaces the optional rows of the keys.
LEMMA MergeRun ==
  ASSUME NEW rows, Sorted(rows), NEW n \in Nat, NEW m, NEW keys, NEW news,
         \A i \in 1..n : keys[i] \in Nat,
         \A i, j \in 1..n : i < j => keys[i] < keys[j],
         Merging(m, rows, keys, news, n),
         \A i \in 1..n : Hit(m[i - 1].rest, keys[i]) = Opt(Range(rows), keys[i])
                           => IsOpt(news[i], keys[i])
  PROVE  /\ \A i \in 1..n : Hit(m[i - 1].rest, keys[i]) = Opt(Range(rows), keys[i])
         /\ Sorted(m[n].merged \o m[n].rest)
         /\ Range(m[n].merged \o m[n].rest) = Replaced(Range(rows), keys, news, n)
<1> DEFINE S == Range(rows)
           Good(i) == /\ MergeState(m[i], S, keys, news, i)
                      /\ \A j \in 1..i : IsOpt(news[j], keys[j])
                      /\ \A j \in 1..i : Hit(m[j - 1].rest, keys[j]) = Opt(S, keys[j])
           K == {i \in Nat : i <= n => Good(i)}
<1>1. \A r \in S : r.key \in Nat
  BY SortedLen
<1>2. Keyed(S)
  BY SortedKeyed
<1>3. m[0].merged = <<>> /\ m[0].rest = rows
  BY DEF Merging
<1> HIDE DEF S
<1>4. 0 \in K
  <2>1. Range(rows) = {r \in S : \A j \in 1..0 : keys[j] < r.key}
    BY DEF S
  <2>2. MergeState(m[0], S, keys, news, 0)
    BY <1>3, <2>1, SortedEmpty, EmptyIsSeq DEF MergeState
  <2> QED
    BY <2>2
<1>5. ASSUME NEW i \in Nat, i \in K PROVE i + 1 \in K
  <2> SUFFICES ASSUME i + 1 <= n PROVE Good(i + 1)
    OBVIOUS
  <2> DEFINE x == m[i]
             k == keys[i + 1]
  <2>1. Good(i)
    BY <1>5
  <2>2. i + 1 \in 1..n /\ k \in Nat /\ \A j \in 1..i : j \in 1..n /\ j < i + 1
    OBVIOUS
  <2>3. m[i + 1] = MergeOne(x, k, news[i + 1]) /\ (i + 1) - 1 = i
    BY <2>2 DEF Merging
  <2>4. \A j \in 1..i : keys[j] < k /\ keys[j] \in Nat
    BY <2>2
  <2>5. Sorted(x.rest) /\ Range(x.rest) = {r \in S : \A j \in 1..i : keys[j] < r.key}
    BY <2>1 DEF MergeState
  <2> HIDE DEF x, k
  <2>6. Hit(x.rest, k) = Opt(S, k)
    <3>1. Hit(x.rest, k) = Opt(Range(x.rest), k)
      BY <2>2, <2>5, HitOpt
    <3>2. CASE \E r \in S : r.key = k
      <4>1. PICK r \in S : r.key = k
        BY <3>2
      <4>2. r \in Range(x.rest)
        BY <2>4, <2>5, <4>1
      <4>3. Opt(Range(x.rest), k) = <<r>> /\ Opt(S, k) = <<r>>
        BY <1>2, <2>5, <4>1, <4>2, OptFound, SortedKeyed
      <4> QED
        BY <3>1, <4>3
    <3>3. CASE ~(\E r \in S : r.key = k)
      <4>1. ~(\E r \in Range(x.rest) : r.key = k)
        BY <2>5, <3>3
      <4> QED
        BY <3>1, <3>3, <4>1 DEF Opt
    <3> QED
      BY <3>2, <3>3
  <2>7. IsOpt(news[i + 1], k) /\ Hit(m[(i + 1) - 1].rest, keys[i + 1]) = Opt(S, keys[i + 1])
    BY <2>2, <2>3, <2>6 DEF x, k, S
  <2>8. \A j \in 1..(i + 1) : j \in 1..i \/ j = i + 1
    OBVIOUS
  <2>9. \A j \in 1..(i + 1) : keys[j] \in Nat /\ IsOpt(news[j], keys[j])
    BY <2>1, <2>2, <2>4, <2>7, <2>8 DEF k
  <2>10. MergeState(m[i + 1], S, keys, news, i + 1)
    <3>1. MergeState(x, S, keys, news, i)
      BY <2>1 DEF x
    <3>2. \A j \in 1..i : keys[j] < keys[i + 1]
      BY <2>4 DEF k
    <3>3. MergeState(MergeOne(x, keys[i + 1], news[i + 1]), S, keys, news, i + 1)
      BY <1>1, <2>9, <3>1, <3>2, MergeStep
    <3> QED
      BY <2>3, <3>3 DEF k
  <2>11. \A j \in 1..(i + 1) : Hit(m[j - 1].rest, keys[j]) = Opt(S, keys[j])
    BY <2>1, <2>7, <2>8
  <2> QED
    BY <2>9, <2>10, <2>11
<1> HIDE DEF K, Good
<1>6. n \in K
  BY <1>4, <1>5, SetInduction
<1>7. Good(n)
  BY <1>6 DEF K
<1> DEFINE A == m[n].merged
           B == m[n].rest
<1>8. /\ Sorted(A) /\ Sorted(B)
      /\ Range(B) = {r \in S : \A j \in 1..n : keys[j] < r.key}
      /\ Range(A) =
           {r \in S : (\E j \in 1..n : r.key < keys[j]) /\ (\A j \in 1..n : r.key # keys[j])}
             \cup UNION {Range(news[j]) : j \in 1..n}
  BY <1>7 DEF Good, MergeState
<1> HIDE DEF A, B
<1>9. \A j \in 1..n : \A r \in Range(news[j]) : r.key = keys[j]
  BY <1>7, SortedOpt DEF Good
<1>10. \A q \in Range(A), r \in Range(B) : q.key < r.key
  <2> SUFFICES ASSUME NEW q \in Range(A), NEW r \in Range(B) PROVE q.key < r.key
    OBVIOUS
  <2>1. r \in S /\ r.key \in Nat /\ \A j \in 1..n : keys[j] < r.key
    BY <1>1, <1>8
  <2>2. PICK j \in 1..n : q.key = keys[j] \/ (q \in S /\ q.key < keys[j])
    BY <1>8, <1>9
  <2> QED
    BY <1>1, <2>1, <2>2
<1>11. Sorted(A \o B) /\ Range(A \o B) = Range(A) \cup Range(B)
  BY <1>8, <1>10, SortedConcat
<1>12. Range(A \o B) = {r \in S : \A i \in 1..n : r.key # keys[i]}
                         \cup UNION {Range(news[i]) : i \in 1..n}
  <2> DEFINE U == UNION {Range(news[i]) : i \in 1..n}
  <2>1. ASSUME NEW r \in S
        PROVE  (\A i \in 1..n : r.key # keys[i]) <=> (r \in Range(B) \/
                ((\E j \in 1..n : r.key < keys[j]) /\ (\A j \in 1..n : r.key # keys[j])))
    <3>1. r.key \in Nat
      BY <1>1
    <3>2. r \in Range(B) => \A i \in 1..n : r.key # keys[i]
      BY <1>8, <3>1
    <3>3. (\A i \in 1..n : r.key # keys[i]) /\ ~(\E j \in 1..n : r.key < keys[j]) => r \in Range(B)
      BY <1>8, <3>1
    <3> QED
      BY <3>2, <3>3
  <2>2. Range(B) \subseteq S
    BY <1>8
  <2>3. Range(A) = {r \in S : (\E j \in 1..n : r.key < keys[j]) /\ (\A j \in 1..n : r.key # keys[j])} \cup U
    BY <1>8
  <2> HIDE DEF U
  <2>4. Range(A) \cup Range(B) = {r \in S : \A i \in 1..n : r.key # keys[i]} \cup U
    BY <2>1, <2>2, <2>3
  <2> QED
    BY <1>11, <2>4 DEF U
<1>13. \A i \in 1..n : Hit(m[i - 1].rest, keys[i]) = Opt(S, keys[i])
  BY <1>7 DEF Good
<1> QED
  BY <1>11, <1>12, <1>13 DEF A, B, S, Replaced

-----------------------------------------------------------------------------
(* Ascending enumerations. *)

Enumerates(s, S) ==
  /\ IsSeq(s)
  /\ \A i \in 1..Len(s) : s[i] \in S
  /\ \A i, j \in 1..Len(s) : i < j => s[i] < s[j]
  /\ \A x \in S : \E i \in 1..Len(s) : s[i] = x

LEMMA AscendingExists ==
  ASSUME NEW S \in SUBSET Nat, IsFiniteSet(S)
  PROVE  \E s \in [1..Cardinality(S) -> S] :
           \A i, j \in 1..Cardinality(S) : i < j => s[i] < s[j]
<1> DEFINE Has(T, n) == \E s \in [1..n -> T] : \A i, j \in 1..n : i < j => s[i] < s[j]
           K == {n \in Nat : \A T \in SUBSET Nat : IsFiniteSet(T) /\ Cardinality(T) = n => Has(T, n)}
<1>1. 0 \in K
  <2> SUFFICES ASSUME NEW T \in SUBSET Nat PROVE Has(T, 0)
    OBVIOUS
  <2> DEFINE e == [i \in 1..0 |-> 0]
  <2>1. e \in [1..0 -> T]
    OBVIOUS
  <2>2. \A i, j \in 1..0 : i < j => e[i] < e[j]
    OBVIOUS
  <2> HIDE DEF e
  <2> QED
    BY <2>1, <2>2
<1>2. ASSUME NEW n \in Nat, n \in K PROVE n + 1 \in K
  <2> SUFFICES ASSUME NEW T \in SUBSET Nat, IsFiniteSet(T), Cardinality(T) = n + 1
               PROVE  Has(T, n + 1)
    OBVIOUS
  <2>1. T # {}
    BY FS_EmptySet
  <2>2. PICK m \in T : \A k \in T : m <= k
    BY <2>1, LeastNumber
  <2> DEFINE U == T \ {m}
  <2>3. IsFiniteSet(U) /\ Cardinality(U) = n
    <3>1. IsFiniteSet(U) /\ Cardinality(U) = Cardinality(T) - 1
      BY FS_RemoveElement
    <3> QED
      BY <3>1
  <2>4. Has(U, n)
    BY <1>2, <2>3
  <2>5. PICK s \in [1..n -> U] : \A i, j \in 1..n : i < j => s[i] < s[j]
    BY <2>4
  <2> DEFINE f == [i \in 1..(n + 1) |-> IF i = 1 THEN m ELSE s[i - 1]]
  <2>6. ASSUME NEW i \in 1..(n + 1) PROVE i = 1 \/ i - 1 \in 1..n
    OBVIOUS
  <2>7. f \in [1..(n + 1) -> T]
    BY <2>6
  <2>8. ASSUME NEW i \in 1..(n + 1), NEW j \in 1..(n + 1), i < j PROVE f[i] < f[j]
    <3>1. j # 1 /\ j - 1 \in 1..n /\ f[j] = s[j - 1] /\ s[j - 1] \in U
      BY <2>8
    <3>2. CASE i = 1
      <4>1. f[i] = m /\ s[j - 1] \in T /\ s[j - 1] # m /\ m \in Nat /\ s[j - 1] \in Nat
        BY <3>1, <3>2
      <4>2. m <= s[j - 1]
        BY <2>2, <4>1
      <4> HIDE DEF f
      <4> QED
        BY <3>1, <4>1, <4>2
    <3>3. CASE i # 1
      <4>1. i - 1 \in 1..n /\ f[i] = s[i - 1] /\ i - 1 < j - 1
        BY <2>8, <3>3
      <4> HIDE DEF f
      <4> QED
        BY <2>5, <3>1, <4>1
    <3> QED
      BY <3>2, <3>3
  <2> HIDE DEF f
  <2> QED
    BY <2>7, <2>8
<1> HIDE DEF K
<1>3. Cardinality(S) \in Nat
  BY FS_CardinalityType
<1>4. Cardinality(S) \in K
  BY <1>1, <1>2, <1>3, SetInduction
<1> QED
  BY <1>4 DEF K

LEMMA AscendingEnumerates ==
  ASSUME NEW S \in SUBSET Nat, IsFiniteSet(S)
  PROVE  Enumerates(Ascending(S), S) /\ Len(Ascending(S)) = Cardinality(S)
<1> DEFINE n == Cardinality(S)
           s == Ascending(S)
<1>1. n \in Nat
  BY FS_CardinalityType
<1>2. s \in [1..n -> S] /\ \A i, j \in 1..n : i < j => s[i] < s[j]
  BY AscendingExists DEF Ascending
<1> HIDE DEF s
<1>3. IsSeq(s) /\ Len(s) = n
  <2>1. s = [i \in 1..n |-> s[i]]
    BY <1>2
  <2> QED
    BY <1>1, <2>1, MapIsSeq
<1> HIDE DEF n
<1>4. s \in Injection(1..n, S)
  <2>1. ASSUME NEW i \in 1..n, NEW j \in 1..n, s[i] = s[j] PROVE i = j
    <3>0. s[i] \in S /\ s[i] \in Nat
      BY <1>2
    <3>1. s[i] \in Nat /\ ~(i < j) /\ ~(j < i)
      BY <1>2, <2>1, <3>0
    <3> QED
      BY <1>1, <3>1
  <2> QED
    BY <1>2, <2>1 DEF Injection, IsInjective
<1>5. IsFiniteSet(1..n) /\ Cardinality(1..n) = n
  BY <1>1, FS_Interval
<1>6. s \in Surjection(1..n, S)
  BY <1>4, <1>5, FS_Injection DEF n
<1>7. \A x \in S : \E i \in 1..n : s[i] = x
  BY <1>6 DEF Surjection
<1> QED
  BY <1>2, <1>3, <1>7 DEF Enumerates, s, n

-----------------------------------------------------------------------------
(* Counting. *)

LEMMA CardinalitySwap ==
  ASSUME NEW A, NEW X, NEW Y, IsFiniteSet(A), X \subseteq A, IsFiniteSet(Y),
         Y \cap (A \ X) = {}
  PROVE  /\ IsFiniteSet(X) /\ IsFiniteSet((A \ X) \cup Y)
         /\ Cardinality((A \ X) \cup Y) = Cardinality(A) - Cardinality(X) + Cardinality(Y)
         /\ Cardinality(A) \in Nat /\ Cardinality(X) \in Nat /\ Cardinality(Y) \in Nat
<1> DEFINE D == A \ X
<1>1. IsFiniteSet(X)
  BY FS_Subset
<1>2. A \cap X = X
  OBVIOUS
<1>3. IsFiniteSet(D) /\ Cardinality(D) = Cardinality(A) - Cardinality(X)
  BY <1>2, FS_Difference
<1> HIDE DEF D
<1>4. D \cap Y = {} /\ Cardinality({}) = 0
  BY FS_EmptySet DEF D
<1>5. IsFiniteSet(D \cup Y) /\ Cardinality(D \cup Y) = Cardinality(D) + Cardinality(Y) - Cardinality(D \cap Y)
  BY <1>3, FS_Union
<1>6. /\ Cardinality(A) \in Nat /\ Cardinality(X) \in Nat /\ Cardinality(Y) \in Nat
      /\ Cardinality(D) \in Nat
  BY <1>1, <1>3, FS_CardinalityType
<1>7. Cardinality(D \cup Y) = Cardinality(A) - Cardinality(X) + Cardinality(Y)
  <2> DEFINE a == Cardinality(A)
             x == Cardinality(X)
             y == Cardinality(Y)
             d == Cardinality(D)
             e == Cardinality(D \cap Y)
  <2>1. e = 0 /\ d = a - x /\ a \in Nat /\ x \in Nat /\ y \in Nat /\ d \in Nat
    BY <1>3, <1>4, <1>6
  <2>2. Cardinality(D \cup Y) = d + y - e
    BY <1>5
  <2> HIDE DEF a, x, y, d, e
  <2>3. d + y - e = a - x + y
    BY <2>1
  <2> QED
    BY <2>2, <2>3 DEF a, x, y
<1> QED
  BY <1>1, <1>5, <1>6, <1>7 DEF D

\* The places of rows that are f[row] long.
Cells(S, f) == UNION {{r.key} \X (1..f[r]) : r \in S}

SizeOf(o, f) == IF o = <<>> THEN 0 ELSE f[o[1]]

LEMMA CellsFinite ==
  ASSUME NEW S, IsFiniteSet(S), NEW f, \A r \in S : f[r] \in Nat
  PROVE  IsFiniteSet(Cells(S, f))
<1> DEFINE g == [r \in S |-> {r.key} \X (1..f[r])]
           G == {{r.key} \X (1..f[r]) : r \in S}
<1>1. g \in Surjection(S, G)
  <2>1. g \in [S -> G]
    OBVIOUS
  <2>2. \A t \in G : \E r \in S : g[r] = t
    OBVIOUS
  <2> QED
    BY <2>1, <2>2 DEF Surjection
<1>2. \A t \in G : IsFiniteSet(t)
  <2> SUFFICES ASSUME NEW r \in S PROVE IsFiniteSet({r.key} \X (1..f[r]))
    OBVIOUS
  <2> DEFINE n == f[r]
             K == {r.key}
  <2>1. n \in Nat /\ IsFiniteSet(K)
    BY FS_Singleton
  <2> HIDE DEF n, K
  <2>2. IsFiniteSet(1..n)
    BY <2>1, FS_Interval
  <2>3. IsFiniteSet(K \X (1..n))
    BY <2>1, <2>2, FS_Product
  <2> QED
    BY <2>3 DEF n, K
<1>3. Cells(S, f) = UNION G
  BY DEF Cells
<1> HIDE DEF g, G
<1>4. IsFiniteSet(G)
  BY <1>1, FS_Surjection
<1> QED
  BY <1>2, <1>3, <1>4, FS_UNION

LEMMA OptCells ==
  ASSUME NEW k, NEW o, IsOpt(o, k), NEW f, \A r \in Range(o) : f[r] \in Nat
  PROVE  /\ SizeOf(o, f) \in Nat /\ IsFiniteSet(Cells(Range(o), f))
         /\ Cardinality(Cells(Range(o), f)) = SizeOf(o, f)
<1>1. CASE o = <<>>
  <2>1. Cells(Range(o), f) = {}
    BY <1>1, EmptyIsSeq DEF Cells
  <2> QED
    BY <1>1, <2>1, FS_EmptySet DEF SizeOf
<1>2. CASE \E r : o = <<r>> /\ r.key = k
  <2>1. PICK r : o = <<r>> /\ r.key = k
    BY <1>2
  <2>2. Range(o) = {r} /\ o # <<>> /\ o[1] = r
    BY <2>1, SingleIsSeq
  <2>3. Cells(Range(o), f) = {r.key} \X (1..f[r])
    BY <2>2 DEF Cells
  <2>4. f[r] \in Nat
    BY <2>2
  <2>5. IsFiniteSet({r.key}) /\ Cardinality({r.key}) = 1
    BY FS_Singleton
  <2>6. ASSUME NEW n \in Nat, NEW K, IsFiniteSet(K), Cardinality(K) = 1
        PROVE  IsFiniteSet(K \X (1..n)) /\ Cardinality(K \X (1..n)) = n
    <3>1. IsFiniteSet(1..n) /\ Cardinality(1..n) = n
      BY FS_Interval
    <3>2. IsFiniteSet(K \X (1..n)) /\ Cardinality(K \X (1..n)) = Cardinality(K) * Cardinality(1..n)
      BY <2>6, <3>1, FS_Product
    <3>3. Cardinality(K) * Cardinality(1..n) = 1 * n
      BY <2>6, <3>1
    <3> QED
      BY <3>2, <3>3
  <2>7. IsFiniteSet(Cells(Range(o), f)) /\ Cardinality(Cells(Range(o), f)) = f[r]
    BY <2>3, <2>4, <2>5, <2>6
  <2> QED
    BY <2>2, <2>4, <2>7 DEF SizeOf
<1> QED
  BY <1>1, <1>2 DEF IsOpt

\* The rows of a set that a replacement takes away.
LEMMA OptRange ==
  ASSUME NEW S, Keyed(S), NEW k
  PROVE  Range(Opt(S, k)) = {r \in S : r.key = k} /\ Range(Opt(S, k)) \subseteq S
<1>1. CASE \E r \in S : r.key = k
  <2>1. PICK r \in S : r.key = k
    BY <1>1
  <2>2. Opt(S, k) = <<r>>
    BY <2>1, OptFound
  <2>3. Range(Opt(S, k)) = {r}
    BY <2>2, SingleIsSeq
  <2> QED
    BY <2>1, <2>3 DEF Keyed
<1>2. CASE ~(\E r \in S : r.key = k)
  <2>1. Range(Opt(S, k)) = {}
    BY <1>2, EmptyIsSeq DEF Opt
  <2> QED
    BY <1>2, <2>1
<1> QED
  BY <1>1, <1>2

LEMMA OptKeys ==
  ASSUME NEW k, NEW o, IsOpt(o, k)
  PROVE  \A r \in Range(o) : r.key = k
  BY SingleIsSeq, EmptyIsSeq DEF IsOpt

\* Replacing the row of a key moves the number of places by the difference.
LEMMA CellsReplaced ==
  ASSUME NEW S, IsFiniteSet(S), Keyed(S), NEW k, NEW new, IsOpt(new, k), NEW f,
         \A r \in S \cup Range(new) : f[r] \in Nat
  PROVE  /\ Cardinality(Cells(Without(S, k) \cup Range(new), f))
              = Cardinality(Cells(S, f)) - SizeOf(Opt(S, k), f) + SizeOf(new, f)
         /\ Cardinality(Cells(S, f)) \in Nat
         /\ SizeOf(Opt(S, k), f) \in Nat /\ SizeOf(new, f) \in Nat
<1> DEFINE old == Opt(S, k)
           A == Cells(S, f)
           X == Cells(Range(old), f)
           Y == Cells(Range(new), f)
<1>1. Range(old) = {r \in S : r.key = k} /\ Range(old) \subseteq S /\ IsOpt(old, k)
  BY OptRange, OptIsOpt
<1>2. \A r \in Range(new) : r.key = k
  BY OptKeys
<1>3. IsFiniteSet(A)
  BY CellsFinite
<1>4. SizeOf(new, f) \in Nat /\ IsFiniteSet(Y) /\ Cardinality(Y) = SizeOf(new, f)
  BY OptCells
<1>5. SizeOf(old, f) \in Nat /\ Cardinality(X) = SizeOf(old, f)
  BY <1>1, OptCells
<1>6. X \subseteq A
  BY <1>1 DEF Cells
<1>7. \A c \in Y : c[1] = k
  BY <1>2 DEF Cells
<1>8. A \ X = Cells(Without(S, k), f) /\ \A c \in A \ X : c[1] # k
  <2>1. ASSUME NEW c \in A PROVE \E r \in S : c \in {r.key} \X (1..f[r]) /\ c[1] = r.key
    BY DEF Cells
  <2>2. ASSUME NEW c \in A, c[1] = k PROVE c \in X
    <3>1. PICK r \in S : c \in {r.key} \X (1..f[r]) /\ c[1] = r.key
      BY <2>1
    <3>2. r \in Range(old)
      BY <1>1, <2>2, <3>1
    <3> QED
      BY <3>1, <3>2 DEF Cells
  <2>3. \A c \in X : c[1] = k
    BY <1>1 DEF Cells
  <2>4. ASSUME NEW c \in A, c[1] # k PROVE c \in Cells(Without(S, k), f)
    <3>1. PICK r \in S : c \in {r.key} \X (1..f[r]) /\ c[1] = r.key
      BY <2>1
    <3>2. r \in Without(S, k)
      BY <2>4, <3>1 DEF Without
    <3> QED
      BY <3>1, <3>2 DEF Cells
  <2>5. ASSUME NEW c \in Cells(Without(S, k), f) PROVE c \in A /\ c[1] # k
    BY DEF Cells, Without
  <2> HIDE DEF A, X
  <2> QED
    BY <2>2, <2>3, <2>4, <2>5
<1>9. Cells(Without(S, k) \cup Range(new), f) = (A \ X) \cup Y
  <2>1. Cells(Without(S, k) \cup Range(new), f) = Cells(Without(S, k), f) \cup Y
    BY DEF Cells
  <2> QED
    BY <1>8, <2>1
<1>10. Y \cap (A \ X) = {}
  <2> HIDE DEF A, X, Y
  <2> QED
    BY <1>7, <1>8
<1> HIDE DEF A, X, Y, old
<1>11. /\ Cardinality((A \ X) \cup Y) = Cardinality(A) - Cardinality(X) + Cardinality(Y)
       /\ Cardinality(A) \in Nat
  BY <1>3, <1>4, <1>6, <1>10, CardinalitySwap
<1> QED
  BY <1>4, <1>5, <1>9, <1>11 DEF A, old

LEMMA WellFinite ==
  ASSUME NEW index, Well(index)
  PROVE  IsFiniteSet(Content(index))
<1> DEFINE rows == Rows(index)
           n == Len(rows)
           C == Content(index)
<1>1. Sorted(rows) /\ Range(rows) = C
  BY RowsSorted
<1>2. n \in Nat /\ Range(rows) = {rows[i] : i \in 1..n}
  BY <1>1, SortedLen
<1>3. C = {rows[i] : i \in 1..n}
  BY <1>1, <1>2
<1> HIDE DEF rows, C, n
<1> DEFINE g == [i \in 1..n |-> rows[i]]
<1>4. g \in Surjection(1..n, C)
  BY <1>3 DEF Surjection
<1>5. IsFiniteSet(1..n)
  BY <1>2, FS_Interval
<1> HIDE DEF g
<1>6. IsFiniteSet(C)
  BY <1>4, <1>5, FS_Surjection
<1> QED
  BY <1>6 DEF C

\* One for a row of T, none for another or for no row.
FlagOf(o, T) == IF o # <<>> /\ o[1] \in T THEN 1 ELSE 0

LEMMA OptFlag ==
  ASSUME NEW k, NEW o, IsOpt(o, k), NEW T
  PROVE  IsFiniteSet(Range(o) \cap T) /\ Cardinality(Range(o) \cap T) = FlagOf(o, T)
<1>1. CASE o = <<>>
  <2>1. Range(o) \cap T = {}
    BY <1>1, EmptyIsSeq
  <2> QED
    BY <1>1, <2>1, FS_EmptySet DEF FlagOf
<1>2. CASE \E r : o = <<r>> /\ r.key = k
  <2>1. PICK r : o = <<r>> /\ r.key = k
    BY <1>2
  <2>2. Range(o) = {r} /\ o # <<>> /\ o[1] = r
    BY <2>1, SingleIsSeq
  <2>3. Range(o) \cap T = IF r \in T THEN {r} ELSE {}
    BY <2>2
  <2>4. IsFiniteSet({r}) /\ Cardinality({r}) = 1 /\ IsFiniteSet({}) /\ Cardinality({}) = 0
    BY FS_Singleton, FS_EmptySet
  <2> QED
    BY <2>2, <2>3, <2>4 DEF FlagOf
<1> QED
  BY <1>1, <1>2 DEF IsOpt

\* Replacing the row of a key moves the number of rows in T by the difference.
LEMMA FlagsReplaced ==
  ASSUME NEW S, IsFiniteSet(S), Keyed(S), NEW k, NEW new, IsOpt(new, k), NEW T
  PROVE  Cardinality((Without(S, k) \cup Range(new)) \cap T)
           = Cardinality(S \cap T) - FlagOf(Opt(S, k), T) + FlagOf(new, T)
<1> DEFINE old == Opt(S, k)
           A == S \cap T
           X == Range(old) \cap T
           Y == Range(new) \cap T
<1>1. Range(old) = {r \in S : r.key = k} /\ Range(old) \subseteq S /\ IsOpt(old, k)
  BY OptRange, OptIsOpt
<1>2. \A r \in Range(new) : r.key = k
  BY OptKeys
<1>3. IsFiniteSet(A)
  BY FS_Subset
<1>4. IsFiniteSet(Y) /\ Cardinality(Y) = FlagOf(new, T) /\ Cardinality(X) = FlagOf(old, T)
  BY <1>1, OptFlag
<1>5. X \subseteq A /\ Y \cap (A \ X) = {}
  BY <1>1, <1>2
<1>6. (Without(S, k) \cup Range(new)) \cap T = (A \ X) \cup Y
  BY <1>1 DEF Without
<1> HIDE DEF A, X, Y, old
<1>7. Cardinality((A \ X) \cup Y) = Cardinality(A) - Cardinality(X) + Cardinality(Y)
  BY <1>3, <1>4, <1>5, CardinalitySwap
<1> QED
  BY <1>4, <1>6, <1>7 DEF A, old

\* The counts of a set of path rows.
CountsOf(S) ==
  [sources  |-> Cardinality({row \in S : row.val.source # 0}),
   entities |-> Cardinality(UNION {{row.key} \X DOMAIN row.val.entities : row \in S}),
   files    |-> Cardinality({row \in S : row.val.file # 0})]

EntryRows(S) == \A r \in S : IsSeq(r.val.entities)

LEMMA RecountedContent ==
  ASSUME NEW index, Well(index)
  PROVE  Recounted(index) = CountsOf(Content(index))
<1>1. Range(Rows(index)) = Content(index)
  BY RowsSorted
<1> QED
  BY <1>1 DEF Recounted, CountsOf

LEMMA EntityCells ==
  ASSUME NEW S, EntryRows(S), NEW f, \A r \in S : f[r] = Len(r.val.entities)
  PROVE  UNION {{row.key} \X DOMAIN row.val.entities : row \in S} = Cells(S, f)
<1>1. \A r \in S : DOMAIN r.val.entities = 1..f[r]
  BY SeqFacts DEF EntryRows
<1> QED
  BY <1>1 DEF Cells

\* The counts kept beside an index follow its rows.
LEMMA CountsReplaced ==
  ASSUME NEW S, IsFiniteSet(S), Keyed(S), NEW k, NEW new, IsOpt(new, k),
         EntryRows(S), EntryRows(Range(new))
  PROVE  CountsOf(Without(S, k) \cup Range(new)) = Counted(CountsOf(S), Opt(S, k), new)
<1> DEFINE old == Opt(S, k)
           U == S \cup Range(new)
           after == Without(S, k) \cup Range(new)
           f == [r \in U |-> Len(r.val.entities)]
           T1 == {r \in U : r.val.source # 0}
           T2 == {r \in U : r.val.file # 0}
<1>1. /\ \A r \in U : f[r] = Len(r.val.entities) /\ f[r] \in Nat
      /\ after \subseteq U /\ EntryRows(U) /\ EntryRows(after)
  BY SeqFacts DEF EntryRows, Without
<1>2. IsOpt(old, k) /\ Range(old) \subseteq U
  BY OptIsOpt, OptRange
<1>3. /\ {row \in S : row.val.source # 0} = S \cap T1
      /\ {row \in after : row.val.source # 0} = after \cap T1
      /\ {row \in S : row.val.file # 0} = S \cap T2
      /\ {row \in after : row.val.file # 0} = after \cap T2
  BY <1>1
<1>4. ASSUME NEW o, IsOpt(o, k), Range(o) \subseteq U
      PROVE  SourceCount(o) = FlagOf(o, T1) /\ FileCount(o) = FlagOf(o, T2)
             /\ EntityCount(o) = SizeOf(o, f)
  <2>1. o # <<>> => o[1] \in U
    BY <1>4, SingleIsSeq DEF IsOpt
  <2>2. SourceCount(o) = FlagOf(o, T1) /\ FileCount(o) = FlagOf(o, T2)
    BY <2>1 DEF SourceCount, FileCount, FlagOf
  <2>3. EntityCount(o) = SizeOf(o, f)
    BY <1>1, <2>1 DEF EntityCount, SizeOf
  <2> QED
    BY <2>2, <2>3
<1>5. /\ UNION {{row.key} \X DOMAIN row.val.entities : row \in S} = Cells(S, f)
      /\ UNION {{row.key} \X DOMAIN row.val.entities : row \in after} = Cells(after, f)
  BY <1>1, EntityCells
<1> HIDE DEF f, T1, T2
<1>6. Cardinality(Cells(after, f)) = Cardinality(Cells(S, f)) - SizeOf(old, f) + SizeOf(new, f)
  BY <1>1, CellsReplaced
<1>7. /\ Cardinality(after \cap T1) = Cardinality(S \cap T1) - FlagOf(old, T1) + FlagOf(new, T1)
      /\ Cardinality(after \cap T2) = Cardinality(S \cap T2) - FlagOf(old, T2) + FlagOf(new, T2)
  BY FlagsReplaced
<1> HIDE DEF after, old
<1>8. /\ SourceCount(old) = FlagOf(old, T1) /\ SourceCount(new) = FlagOf(new, T1)
      /\ EntityCount(old) = SizeOf(old, f) /\ EntityCount(new) = SizeOf(new, f)
      /\ FileCount(old) = FlagOf(old, T2) /\ FileCount(new) = FlagOf(new, T2)
  BY <1>2, <1>4
<1>9. CountsOf(after) = Counted(CountsOf(S), old, new)
  BY <1>3, <1>5, <1>6, <1>7, <1>8 DEF CountsOf, Counted
<1> QED
  BY <1>9 DEF after, old

-----------------------------------------------------------------------------
(* Path operations. *)

LEMMA OptSame ==
  ASSUME NEW S, Keyed(S), NEW R, NEW k,
         \A r \in S : r.key = k => r \in R,
         \A r \in R : r.key = k => r \in S
  PROVE  Opt(R, k) = Opt(S, k)
<1>1. CASE \E r \in S : r.key = k
  <2>1. PICK r \in S : r.key = k
    BY <1>1
  <2>2. r \in R /\ \A q \in R : q.key = k => q = r
    BY <2>1 DEF Keyed
  <2>3. (CHOOSE q \in R : q.key = k) = r
    BY <2>1, <2>2
  <2>4. Opt(S, k) = <<r>>
    BY <2>1, OptFound
  <2> QED
    BY <2>1, <2>2, <2>3, <2>4 DEF Opt
<1>2. CASE ~(\E r \in S : r.key = k)
  BY <1>2 DEF Opt
<1> QED
  BY <1>1, <1>2

LEMMA ReplacedStep ==
  ASSUME NEW S, Keyed(S), NEW keys, NEW news, NEW i \in Nat,
         \A j \in 1..(i + 1) : IsOpt(news[j], keys[j]),
         \A j \in 1..i : keys[j] # keys[i + 1]
  PROVE  /\ Opt(Replaced(S, keys, news, i), keys[i + 1]) = Opt(S, keys[i + 1])
         /\ Without(Replaced(S, keys, news, i), keys[i + 1]) \cup Range(news[i + 1])
              = Replaced(S, keys, news, i + 1)
<1> DEFINE R == Replaced(S, keys, news, i)
           k == keys[i + 1]
           U == UNION {Range(news[j]) : j \in 1..i}
           K == {keys[j] : j \in 1..i}
<1>1. \A r \in U : r.key \in K
  BY OptKeys
<1>2. k \notin K
  OBVIOUS
<1>3. R = {r \in S : r.key \notin K} \cup U
  BY DEF Replaced
<1>4. 1..(i + 1) = (1..i) \cup {i + 1}
  OBVIOUS
<1>5. Replaced(S, keys, news, i + 1) = {r \in S : r.key \notin K /\ r.key # k} \cup U \cup Range(news[i + 1])
  <2>1. UNION {Range(news[j]) : j \in 1..(i + 1)} = U \cup Range(news[i + 1])
    BY <1>4
  <2>2. {r \in S : \A j \in 1..(i + 1) : r.key # keys[j]} = {r \in S : r.key \notin K /\ r.key # k}
    BY <1>4
  <2> QED
    BY <2>1, <2>2 DEF Replaced
<1> HIDE DEF R, U, K, k
<1>6. Opt(R, k) = Opt(S, k)
  <2>1. \A r \in S : r.key = k => r \in R
    BY <1>2, <1>3
  <2>2. \A r \in R : r.key = k => r \in S
    BY <1>1, <1>2, <1>3
  <2> QED
    BY <2>1, <2>2, OptSame
<1>7. Without(R, k) \cup Range(news[i + 1]) = Replaced(S, keys, news, i + 1)
  BY <1>1, <1>2, <1>3, <1>5 DEF Without
<1> QED
  BY <1>6, <1>7 DEF R, k

\* A path operation that replaces entities brings a sequence of them.
PathOp(op) ==
  /\ op.path \in Nat
  /\ op.entities.op \in {"unchanged", "replace", "remove"}
  /\ op.entities.op = "replace" => IsSeq(op.entities.row)

PathOps(ops) ==
  /\ IsSeq(ops)
  /\ \A i \in 1..Len(ops) : PathOp(ops[i])
  /\ \A i, j \in 1..Len(ops) : i < j => ops[i].path < ops[j].path

OpPaths(ops) == [i \in 1..Len(ops) |-> ops[i].path]
OpEntries(S, ops) == [i \in 1..Len(ops) |-> ApplyPath(Opt(S, ops[i].path), ops[i])]

\* The rows after a whole sequence of path operations.
EntriesAfter(S, ops) == Replaced(S, OpPaths(ops), OpEntries(S, ops), Len(ops))

LEMMA ApplyPathOpt ==
  ASSUME NEW op, PathOp(op), NEW o, IsOpt(o, op.path), EntryRows(Range(o))
  PROVE  IsOpt(ApplyPath(o, op), op.path) /\ EntryRows(Range(ApplyPath(o, op)))
<1> DEFINE old == IF o = <<>> THEN NoRows ELSE o[1].val
           new == [source   |-> ApplySlot(old.source, op.source, 0),
                   entities |-> ApplySlot(old.entities, op.entities, <<>>),
                   file     |-> ApplySlot(old.file, op.file, 0)]
           row == Row(op.path, new)
<1>1. IsSeq(old.entities)
  <2>1. CASE o = <<>>
    BY <2>1, EmptyIsSeq DEF NoRows
  <2>2. CASE o # <<>>
    <3>1. PICK r : o = <<r>>
      BY <2>2 DEF IsOpt
    <3>2. o[1] \in Range(o)
      BY <3>1, SingleIsSeq
    <3> QED
      BY <2>2, <3>2 DEF EntryRows
  <2> QED
    BY <2>1, <2>2
<1>2. IsSeq(new.entities)
  <2>1. IsSeq(<<>>)
    BY EmptyIsSeq
  <2>2. new.entities = ApplySlot(old.entities, op.entities, <<>>)
    OBVIOUS
  <2> HIDE DEF old, new
  <2> QED
    BY <1>1, <2>1, <2>2 DEF ApplySlot, PathOp
<1>3. ApplyPath(o, op) = IF new = NoRows THEN <<>> ELSE <<row>>
  BY DEF ApplyPath
<1>4. row.key = op.path /\ row.val = new
  BY DEF Row
<1> HIDE DEF new, row
<1>5. Range(<<row>>) = {row} /\ Range(<<>>) = {}
  BY SingleIsSeq, EmptyIsSeq
<1> QED
  BY <1>2, <1>3, <1>4, <1>5 DEF IsOpt, EntryRows

\* What both ways of applying path operations know of each operation.
LEMMA PathEntries ==
  ASSUME NEW S, Keyed(S), EntryRows(S), NEW ops, PathOps(ops)
  PROVE  /\ Len(ops) \in Nat /\ DOMAIN ops = 1..Len(ops)
         /\ \A i \in 1..Len(ops) :
              /\ OpPaths(ops)[i] = ops[i].path /\ ops[i].path \in Nat
              /\ OpEntries(S, ops)[i] = ApplyPath(Opt(S, ops[i].path), ops[i])
              /\ IsOpt(OpEntries(S, ops)[i], OpPaths(ops)[i])
              /\ EntryRows(Range(OpEntries(S, ops)[i]))
         /\ \A i, j \in 1..Len(ops) : i < j => OpPaths(ops)[i] < OpPaths(ops)[j]
<1>1. Len(ops) \in Nat /\ DOMAIN ops = 1..Len(ops)
  BY SeqFacts DEF PathOps
<1>2. ASSUME NEW i \in 1..Len(ops)
      PROVE  /\ OpPaths(ops)[i] = ops[i].path /\ ops[i].path \in Nat
             /\ OpEntries(S, ops)[i] = ApplyPath(Opt(S, ops[i].path), ops[i])
             /\ IsOpt(OpEntries(S, ops)[i], OpPaths(ops)[i])
             /\ EntryRows(Range(OpEntries(S, ops)[i]))
  <2> DEFINE o == Opt(S, ops[i].path)
  <2>1. PathOp(ops[i]) /\ ops[i].path \in Nat
    BY DEF PathOps, PathOp
  <2>2. IsOpt(o, ops[i].path) /\ EntryRows(Range(o))
    BY OptIsOpt, OptRange DEF EntryRows
  <2>3. OpPaths(ops)[i] = ops[i].path /\ OpEntries(S, ops)[i] = ApplyPath(o, ops[i])
    BY DEF OpPaths, OpEntries
  <2> HIDE DEF o
  <2>4. IsOpt(ApplyPath(o, ops[i]), ops[i].path) /\ EntryRows(Range(ApplyPath(o, ops[i])))
    BY <2>1, <2>2, ApplyPathOpt
  <2> QED
    BY <2>1, <2>3, <2>4 DEF o
<1> QED
  BY <1>1, <1>2 DEF PathOps

\* A table whose path rows are S.
PathState(t, gen, symbols, S) ==
  /\ t = [gen |-> gen, paths |-> t.paths, symbols |-> symbols, counts |-> CountsOf(S)]
  /\ Well(t.paths) /\ Content(t.paths) = S /\ EntryRows(S)

\* One path operation, applied on its own.
PathStep(t, op) ==
  LET old == Lookup(t.paths, op.path)
      new == ApplyPath(old, op)
  IN  [t EXCEPT !.paths  = Updated(@, op.path, new),
                !.counts = Counted(@, old, new)]

LEMMA PathStepState ==
  ASSUME NEW t, NEW gen, NEW symbols, NEW S, PathState(t, gen, symbols, S),
         NEW op, PathOp(op)
  PROVE  PathState(PathStep(t, op), gen, symbols,
                   Without(S, op.path) \cup Range(ApplyPath(Opt(S, op.path), op)))
<1> DEFINE k == op.path
           old == Opt(S, k)
           new == ApplyPath(old, op)
           after == Without(S, k) \cup Range(new)
           u == Updated(t.paths, k, new)
           c == Counted(CountsOf(S), old, new)
           x == PathStep(t, op)
<1>1. /\ t = [gen |-> gen, paths |-> t.paths, symbols |-> symbols, counts |-> CountsOf(S)]
      /\ Well(t.paths) /\ Content(t.paths) = S /\ EntryRows(S)
  BY DEF PathState
<1>2. k \in Nat
  BY DEF PathOp
<1>3. Lookup(t.paths, k) = old
  BY <1>1, <1>2, LookupOpt
<1>4. x = [gen |-> gen, paths |-> u, symbols |-> symbols, counts |-> c]
  <2>1. x = [t EXCEPT !.paths = u, !.counts = Counted(@, old, new)]
    BY <1>3 DEF PathStep
  <2> DEFINE p == t.paths
             b == CountsOf(S)
  <2>2. t = [gen |-> gen, paths |-> p, symbols |-> symbols, counts |-> b]
    BY <1>1
  <2>3. t.counts = CountsOf(S)
    BY <1>1
  <2>4. x = [[t EXCEPT !.paths = u] EXCEPT !.counts = c]
    BY <2>1, <2>3, Zenon
  <2> HIDE DEF u, new, old, x, p, b, c
  <2> QED
    BY <2>2, <2>4
<1>5. Keyed(S) /\ IsFiniteSet(S)
  BY <1>1, ContentKeys, WellFinite
<1>6. IsOpt(old, k) /\ EntryRows(Range(old))
  BY <1>1, <1>5, OptIsOpt, OptRange DEF EntryRows
<1>7. IsOpt(new, k) /\ EntryRows(Range(new))
  BY <1>6, ApplyPathOpt
<1> HIDE DEF new
<1>8. Well(u) /\ Content(u) = after
  BY <1>1, <1>2, <1>7, UpdatedWell
<1>9. c = CountsOf(after)
  BY <1>1, <1>5, <1>7, CountsReplaced
<1>10. EntryRows(after)
  BY <1>1, <1>7 DEF EntryRows, Without
<1> HIDE DEF u, c, x, after
<1>11. x.paths = u
  BY <1>4
<1>12. PathState(x, gen, symbols, after)
  BY <1>4, <1>8, <1>9, <1>10, <1>11 DEF PathState
<1> QED
  BY <1>12 DEF x, after, new, old

\* The chain of tables that the sparse application goes through.
LEMMA PathSparseChain ==
  ASSUME NEW t, NEW ops, NEW n \in Nat, Len(ops) = n
  PROVE  \E g : /\ g[0] = t
                /\ \A i \in 1..n : g[i] = PathStep(g[i - 1], ops[i])
                /\ ApplyPathOperationsSparse(t, ops) = g[n]
<1> DEFINE Eq(h, i) == IF i = 0 THEN t ELSE PathStep(h[i - 1], ops[i])
           Right(h, k) == \A i \in 0..n : i <= k => h[i] = Eq(h, i)
           K == {k \in Nat : \E h : Right(h, k)}
<1>1. 0 \in K
  <2> DEFINE h == [i \in 0..n |-> t]
  <2>1. Right(h, 0)
    OBVIOUS
  <2> HIDE DEF Right, h
  <2> QED
    BY <2>1
<1>2. ASSUME NEW k \in Nat, k \in K PROVE k + 1 \in K
  <2>1. PICK h : Right(h, k)
    BY <1>2
  <2> DEFINE f == [i \in 0..n |-> Eq(h, i)]
  <2>2. \A i \in 0..n : i <= k => f[i] = h[i]
    BY <2>1
  <2>3. ASSUME NEW i \in 0..n, i <= k + 1 PROVE f[i] = Eq(f, i)
    <3>1. f[i] = Eq(h, i)
      OBVIOUS
    <3>2. CASE i = 0
      BY <3>1, <3>2
    <3>3. CASE i # 0
      <4>1. i - 1 \in 0..n /\ i - 1 <= k
        BY <2>3, <3>3
      <4>2. f[i - 1] = h[i - 1]
        BY <2>2, <4>1
      <4> HIDE DEF f
      <4> QED
        BY <3>1, <3>3, <4>2
    <3> QED
      BY <3>2, <3>3
  <2>4. Right(f, k + 1)
    BY <2>3
  <2> HIDE DEF Right, f
  <2> QED
    BY <2>4
<1> HIDE DEF K
<1>3. n \in K
  BY <1>1, <1>2, SetInduction
<1>4. PICK h : Right(h, n)
  BY <1>3 DEF K
<1> DEFINE f == [i \in 0..n |-> h[i]]
<1>5. ASSUME NEW i \in 0..n PROVE f[i] = Eq(f, i)
  <2>1. h[i] = Eq(h, i)
    BY <1>4
  <2>2. i = 0 \/ i - 1 \in 0..n
    OBVIOUS
  <2> QED
    BY <2>1, <2>2
<1>6. f = [i \in 0..n |-> Eq(f, i)]
  BY <1>5
<1> HIDE DEF f
<1> DEFINE g == CHOOSE e : e = [i \in 0..n |-> Eq(e, i)]
<1>7. g = [i \in 0..n |-> Eq(g, i)]
  BY <1>6, Zenon
<1>8. ApplyPathOperationsSparse(t, ops) = g[n]
  BY DEF ApplyPathOperationsSparse, PathStep
<1> HIDE DEF g
<1>9. g[0] = t /\ \A i \in 1..n : g[i] = PathStep(g[i - 1], ops[i])
  <2>1. \A i \in 0..n : g[i] = Eq(g, i)
    BY <1>7, Zenon
  <2>2. 0 \in 0..n /\ \A i \in 1..n : i \in 0..n /\ i # 0
    OBVIOUS
  <2> QED
    BY <2>1, <2>2, Zenon
<1> QED
  BY <1>8, <1>9

\* Path operations applied one by one.
LEMMA PathSparse ==
  ASSUME NEW t, NEW gen, NEW symbols, NEW S, PathState(t, gen, symbols, S),
         NEW ops, PathOps(ops)
  PROVE  PathState(ApplyPathOperationsSparse(t, ops), gen, symbols, EntriesAfter(S, ops))
<1> DEFINE n == Len(ops)
           keys == OpPaths(ops)
           news == OpEntries(S, ops)
<1>1. Keyed(S) /\ EntryRows(S)
  BY ContentKeys DEF PathState
<1>2. /\ n \in Nat
      /\ \A i \in 1..n : /\ keys[i] = ops[i].path /\ keys[i] \in Nat
                         /\ news[i] = ApplyPath(Opt(S, keys[i]), ops[i])
                         /\ IsOpt(news[i], keys[i])
      /\ \A i, j \in 1..n : i < j => keys[i] < keys[j]
  BY <1>1, PathEntries
<1>3. PICK g : /\ g[0] = t
               /\ \A i \in 1..n : g[i] = PathStep(g[i - 1], ops[i])
               /\ ApplyPathOperationsSparse(t, ops) = g[n]
  BY <1>2, PathSparseChain
<1> HIDE DEF n, keys, news
<1> DEFINE Good(i) == PathState(g[i], gen, symbols, Replaced(S, keys, news, i))
           K == {i \in Nat : i <= n => Good(i)}
<1>4. 0 \in K
  <2>1. Replaced(S, keys, news, 0) = S
    BY DEF Replaced
  <2> QED
    BY <1>3, <2>1
<1>5. ASSUME NEW i \in Nat, i \in K PROVE i + 1 \in K
  <2> SUFFICES ASSUME i + 1 <= n PROVE Good(i + 1)
    OBVIOUS
  <2> DEFINE R == Replaced(S, keys, news, i)
             op == ops[i + 1]
             k == keys[i + 1]
  <2>1. PathState(g[i], gen, symbols, R)
    BY <1>2, <1>5
  <2>2. i + 1 \in 1..n /\ (i + 1) - 1 = i /\ \A j \in 1..(i + 1) : j \in 1..n
    BY <1>2
  <2>3. g[i + 1] = PathStep(g[i], op) /\ k = op.path
    BY <1>2, <1>3, <2>2
  <2>4. PathOp(op)
    BY <2>2 DEF PathOps, n
  <2>5. \A j \in 1..i : keys[j] # k
    <3>1. ASSUME NEW j \in 1..i PROVE keys[j] # k
      <4>1. j \in 1..n /\ j < i + 1 /\ keys[j] < k /\ keys[j] \in Nat /\ k \in Nat
        BY <1>2, <2>2
      <4> QED
        BY <4>1
    <3> QED
      BY <3>1
  <2>6. /\ Opt(R, k) = Opt(S, k)
        /\ Without(R, k) \cup Range(news[i + 1]) = Replaced(S, keys, news, i + 1)
    BY <1>1, <1>2, <2>2, <2>5, ReplacedStep
  <2>7. news[i + 1] = ApplyPath(Opt(S, k), op)
    BY <1>2, <2>2
  <2> HIDE DEF R, op, k
  <2>8. PathState(g[i + 1], gen, symbols, Without(R, k) \cup Range(ApplyPath(Opt(R, k), op)))
    BY <2>1, <2>3, <2>4, PathStepState
  <2> QED
    BY <2>6, <2>7, <2>8
<1> HIDE DEF K, Good
<1>6. n \in K
  BY <1>2, <1>4, <1>5, SetInduction
<1>7. Good(n)
  BY <1>2, <1>6 DEF K
<1> QED
  BY <1>3, <1>7 DEF Good, EntriesAfter, n, keys, news

\* The operation on path p.
OpOn(ops, p) == ops[CHOOSE i \in DOMAIN ops : ops[i].path = p]

PathMergeStep(m, k, ops) == MergeOne(m, k, ApplyPath(Hit(m.rest, k), OpOn(ops, k)))

PathMerged(index, ops) ==
  MergeLinear(index, [i \in DOMAIN ops |-> ops[i].path],
              LAMBDA p, entry : ApplyPath(entry, OpOn(ops, p)))

\* The merge states that the linear application goes through.
PathMergeChain(g, index, ops, keys, n) ==
  /\ g[0] = [merged |-> <<>>, rest |-> Rows(index)]
  /\ \A i \in 1..n : g[i] = PathMergeStep(g[i - 1], keys[i], ops)
  /\ PathMerged(index, ops) = FromSorted(g[n].merged \o g[n].rest)

LEMMA PathLinearChain ==
  ASSUME NEW index, NEW ops, NEW n \in Nat, NEW keys, Len(keys) = n,
         keys = [i \in DOMAIN ops |-> ops[i].path]
  PROVE  \E g : PathMergeChain(g, index, ops, keys, n)
<1> DEFINE first == [merged |-> <<>>, rest |-> Rows(index)]
           Eq(h, i) == IF i = 0 THEN first ELSE PathMergeStep(h[i - 1], keys[i], ops)
           Right(h, k) == \A i \in 0..n : i <= k => h[i] = Eq(h, i)
           K == {k \in Nat : \E h : Right(h, k)}
<1>1. 0 \in K
  <2> DEFINE h == [i \in 0..n |-> first]
  <2>1. Right(h, 0)
    OBVIOUS
  <2> HIDE DEF Right, h
  <2> QED
    BY <2>1
<1>2. ASSUME NEW k \in Nat, k \in K PROVE k + 1 \in K
  <2>1. PICK h : Right(h, k)
    BY <1>2
  <2> DEFINE f == [i \in 0..n |-> Eq(h, i)]
  <2>2. \A i \in 0..n : i <= k => f[i] = h[i]
    BY <2>1
  <2>3. ASSUME NEW i \in 0..n, i <= k + 1 PROVE f[i] = Eq(f, i)
    <3>1. f[i] = Eq(h, i)
      OBVIOUS
    <3>2. CASE i = 0
      BY <3>1, <3>2
    <3>3. CASE i # 0
      <4>1. i - 1 \in 0..n /\ i - 1 <= k
        BY <2>3, <3>3
      <4>2. f[i - 1] = h[i - 1]
        BY <2>2, <4>1
      <4> HIDE DEF f
      <4> QED
        BY <3>1, <3>3, <4>2
    <3> QED
      BY <3>2, <3>3
  <2>4. Right(f, k + 1)
    BY <2>3
  <2> HIDE DEF Right, f
  <2> QED
    BY <2>4
<1> HIDE DEF K
<1>3. n \in K
  BY <1>1, <1>2, SetInduction
<1>4. PICK h : Right(h, n)
  BY <1>3 DEF K
<1> DEFINE f == [i \in 0..n |-> h[i]]
<1>5. ASSUME NEW i \in 0..n PROVE f[i] = Eq(f, i)
  <2>1. h[i] = Eq(h, i)
    BY <1>4
  <2>2. i = 0 \/ i - 1 \in 0..n
    OBVIOUS
  <2> QED
    BY <2>1, <2>2
<1>6. f = [i \in 0..n |-> Eq(f, i)]
  BY <1>5
<1> HIDE DEF f
<1> DEFINE g == CHOOSE e : e = [i \in 0..n |-> Eq(e, i)]
<1>7. g = [i \in 0..n |-> Eq(g, i)]
  BY <1>6, Zenon
<1>8. PathMerged(index, ops) = FromSorted(g[n].merged \o g[n].rest)
  BY DEF PathMerged, MergeLinear, PathMergeStep
<1> HIDE DEF g
<1>9. g[0] = first /\ \A i \in 1..n : g[i] = PathMergeStep(g[i - 1], keys[i], ops)
  <2>1. \A i \in 0..n : g[i] = Eq(g, i)
    BY <1>7, Zenon
  <2>2. 0 \in 0..n /\ \A i \in 1..n : i \in 0..n /\ i # 0
    OBVIOUS
  <2> QED
    BY <2>1, <2>2, Zenon
<1>10. PathMergeChain(g, index, ops, keys, n)
  BY <1>8, <1>9 DEF PathMergeChain
<1> QED
  BY <1>10

\* Path operations applied in one pass.
LEMMA PathLinear ==
  ASSUME NEW t, NEW gen, NEW symbols, NEW S, PathState(t, gen, symbols, S),
         NEW ops, PathOps(ops)
  PROVE  PathState(ApplyPathOperationsLinear(t, ops), gen, symbols, EntriesAfter(S, ops))
<1> DEFINE n == Len(ops)
           keys == OpPaths(ops)
           news == OpEntries(S, ops)
           index == t.paths
           rows == Rows(index)
           merged == PathMerged(index, ops)
<1>1. /\ t = [gen |-> gen, paths |-> index, symbols |-> symbols, counts |-> CountsOf(S)]
      /\ Well(index) /\ Content(index) = S /\ EntryRows(S)
  BY DEF PathState
<1>2. Keyed(S) /\ Sorted(rows) /\ Range(rows) = S
  BY <1>1, ContentKeys, RowsSorted
<1>3. /\ n \in Nat /\ DOMAIN ops = 1..n
      /\ \A i \in 1..n : /\ keys[i] = ops[i].path /\ keys[i] \in Nat
                         /\ news[i] = ApplyPath(Opt(S, keys[i]), ops[i])
                         /\ IsOpt(news[i], keys[i]) /\ EntryRows(Range(news[i]))
      /\ \A i, j \in 1..n : i < j => keys[i] < keys[j]
  BY <1>1, <1>2, PathEntries
<1>4. keys = [i \in DOMAIN ops |-> ops[i].path] /\ Len(keys) = n
  <2>1. keys = [i \in 1..n |-> keys[i]]
    BY DEF OpPaths
  <2>2. Len(keys) = n
    BY <1>3, <2>1, MapIsSeq
  <2> QED
    BY <1>3, <2>2 DEF OpPaths
<1>5. PICK m : PathMergeChain(m, index, ops, keys, n)
  <2> HIDE DEF n, keys
  <2> QED
    BY <1>3, <1>4, PathLinearChain
<1>6. ASSUME NEW i \in 1..n PROVE OpOn(ops, keys[i]) = ops[i]
  <2>1. ASSUME NEW j \in 1..n, keys[j] = keys[i] PROVE j = i
    <3>1. ~(i < j) /\ ~(j < i)
      BY <1>3, <2>1
    <3> QED
      BY <1>3, <3>1
  <2>2. \A j \in DOMAIN ops : ops[j].path = keys[i] => j = i
    BY <1>3, <2>1
  <2>3. i \in DOMAIN ops /\ ops[i].path = keys[i]
    BY <1>3
  <2>4. (CHOOSE j \in DOMAIN ops : ops[j].path = keys[i]) = i
    BY <2>2, <2>3
  <2> QED
    BY <2>4 DEF OpOn
<1> HIDE DEF n, keys, news, merged, rows
<1> DEFINE got == [i \in 1..n |-> ApplyPath(Hit(m[i - 1].rest, keys[i]), ops[i])]
<1>7. Merging(m, rows, keys, got, n)
  BY <1>5, <1>6 DEF Merging, PathMergeChain, PathMergeStep, rows
<1>8. \A i \in 1..n : Hit(m[i - 1].rest, keys[i]) = Opt(Range(rows), keys[i]) => got[i] = news[i]
  BY <1>2, <1>3
<1> HIDE DEF got
<1>10. /\ \A i \in 1..n : Hit(m[i - 1].rest, keys[i]) = Opt(Range(rows), keys[i])
       /\ Sorted(m[n].merged \o m[n].rest)
       /\ Range(m[n].merged \o m[n].rest) = Replaced(Range(rows), keys, got, n)
  <2>1. \A i \in 1..n : Hit(m[i - 1].rest, keys[i]) = Opt(Range(rows), keys[i])
                           => IsOpt(got[i], keys[i])
    BY <1>3, <1>8
  <2>2. n \in Nat /\ (\A i \in 1..n : keys[i] \in Nat)
        /\ (\A i, j \in 1..n : i < j => keys[i] < keys[j])
    BY <1>3
  <2> QED
    BY <1>2, <1>7, <2>1, <2>2, MergeRun
<1>11. \A i \in 1..n : got[i] = news[i]
  BY <1>8, <1>10
<1> DEFINE after == Replaced(S, keys, news, n)
<1>12. Range(m[n].merged \o m[n].rest) = after
  BY <1>2, <1>10, <1>11 DEF Replaced
<1>13. Well(merged) /\ Content(merged) = after
  <2>1. merged = FromSorted(m[n].merged \o m[n].rest)
    BY <1>5 DEF PathMergeChain, merged
  <2> QED
    BY <1>10, <1>12, <2>1, FromSortedWell
<1>14. EntryRows(after)
  BY <1>1, <1>3 DEF EntryRows, Replaced
<1> DEFINE x == ApplyPathOperationsLinear(t, ops)
<1>15. x = [[t EXCEPT !.paths = merged] EXCEPT !.counts = Recounted(merged)]
  BY DEF ApplyPathOperationsLinear, merged, PathMerged, OpOn
<1>16. Recounted(merged) = CountsOf(after)
  BY <1>13, RecountedContent
<1> HIDE DEF x, after, index
<1>17. x = [gen |-> gen, paths |-> merged, symbols |-> symbols, counts |-> CountsOf(after)]
  BY <1>1, <1>15, <1>16
<1>18. PathState(x, gen, symbols, after)
  BY <1>13, <1>14, <1>17 DEF PathState
<1> QED
  BY <1>18 DEF x, after, EntriesAfter, n, keys, news

-----------------------------------------------------------------------------
(* Path plans: the operations from one table to another. *)

\* The rows of a table.
TableRows(table) ==
  /\ table.paths \in [Paths -> PathRows]
  /\ DOMAIN table.symbols \subseteq SymbolIDs
  /\ \A id \in DOMAIN table.symbols : table.symbols[id] \in SymbolFacts

Entry(table, p) == IF table.paths[p] = NoRows THEN <<>> ELSE <<Row(p, table.paths[p])>>

EntriesOf(table) == {Row(p, table.paths[p]) : p \in TablePaths(table)}

LEMMA PathRowShape ==
  ASSUME NEW r \in PathRows
  PROVE  /\ r = [source |-> r.source, entities |-> r.entities, file |-> r.file]
         /\ IsSeq(r.entities)
<1>1. /\ r = [source |-> r.source, entities |-> r.entities, file |-> r.file]
      /\ r.entities \in Seq(Range(r.entities))
  BY TableAssumption
<1> QED
  BY <1>1, Zenon DEF IsSeq

LEMMA EntryOpt ==
  ASSUME NEW table, TableRows(table)
  PROVE  /\ Keyed(EntriesOf(table)) /\ EntryRows(EntriesOf(table))
         /\ \A r \in EntriesOf(table) :
              r.key \in Paths /\ r.val = table.paths[r.key] /\ r.val # NoRows
              /\ r = Row(r.key, r.val)
         /\ \A p \in Paths : Opt(EntriesOf(table), p) = Entry(table, p)
<1> DEFINE S == EntriesOf(table)
<1>1. \A r \in S : /\ r.key \in Paths /\ r.val = table.paths[r.key] /\ r.val # NoRows
                   /\ r = Row(r.key, r.val)
  BY DEF EntriesOf, TablePaths, Row
<1>2. Keyed(S)
  BY <1>1 DEF Keyed
<1>3. EntryRows(S)
  BY <1>1, PathRowShape DEF EntryRows, TableRows
<1>4. ASSUME NEW p \in Paths PROVE Opt(S, p) = Entry(table, p)
  <2>1. CASE table.paths[p] = NoRows
    <3>1. ~(\E r \in S : r.key = p)
      BY <1>1, <2>1
    <3> QED
      BY <2>1, <3>1 DEF Opt, Entry
  <2>2. CASE table.paths[p] # NoRows
    <3> DEFINE r == Row(p, table.paths[p])
    <3>1. r \in S /\ r.key = p
      BY <2>2 DEF EntriesOf, TablePaths, Row
    <3> HIDE DEF r, S
    <3>2. Opt(S, p) = <<r>>
      BY <1>2, <3>1, OptFound
    <3> QED
      BY <2>2, <3>2 DEF Entry, r
  <2> QED
    BY <2>1, <2>2
<1> QED
  BY <1>1, <1>2, <1>3, <1>4

\* The operations make the rows of their paths those of new, and every other
\* path has the rows it had.
PathPlanRight(ops, old, new) ==
  /\ \A i \in 1..Len(ops) :
       /\ ops[i].path \in Paths
       /\ ApplyPath(Entry(old, ops[i].path), ops[i]) = Entry(new, ops[i].path)
  /\ \A p \in Paths : (\A i \in 1..Len(ops) : ops[i].path # p) => old.paths[p] = new.paths[p]

\* A right plan takes the rows of one table to those of the other.
LEMMA PlanContent ==
  ASSUME NEW old, NEW new, TableRows(old), TableRows(new),
         NEW ops, PathOps(ops), PathPlanRight(ops, old, new)
  PROVE  EntriesAfter(EntriesOf(old), ops) = EntriesOf(new)
<1> DEFINE S == EntriesOf(old)
           T == EntriesOf(new)
           n == Len(ops)
           keys == OpPaths(ops)
           news == OpEntries(S, ops)
           R == EntriesAfter(S, ops)
<1>1. Keyed(S) /\ EntryRows(S)
  BY EntryOpt
<1>2. \A r \in S : r.key \in Paths /\ r.val = old.paths[r.key] /\ r.val # NoRows /\ r = Row(r.key, r.val)
  BY EntryOpt
<1>3. \A r \in T : r.key \in Paths /\ r.val = new.paths[r.key] /\ r.val # NoRows /\ r = Row(r.key, r.val)
  BY EntryOpt
<1>4. ASSUME NEW i \in 1..n
      PROVE  keys[i] = ops[i].path /\ keys[i] \in Paths /\ news[i] = Entry(new, keys[i])
  <2>1. ops[i].path \in Paths /\ ApplyPath(Entry(old, ops[i].path), ops[i]) = Entry(new, ops[i].path)
    BY DEF PathPlanRight
  <2>2. Opt(S, ops[i].path) = Entry(old, ops[i].path)
    BY <2>1, EntryOpt
  <2>3. keys[i] = ops[i].path /\ news[i] = ApplyPath(Opt(S, ops[i].path), ops[i])
    BY <1>1, PathEntries
  <2> QED
    BY <2>1, <2>2, <2>3
<1>5. \A p \in Paths : (\A i \in 1..n : keys[i] # p) => old.paths[p] = new.paths[p]
  BY <1>4 DEF PathPlanRight
<1>6. R = {r \in S : \A j \in 1..n : r.key # keys[j]} \cup UNION {Range(news[j]) : j \in 1..n}
  BY DEF EntriesAfter, Replaced
<1>7. \A p \in Paths : new.paths[p] # NoRows => Row(p, new.paths[p]) \in T
  BY DEF EntriesOf, TablePaths
<1>8. \A p \in Paths : old.paths[p] # NoRows => Row(p, old.paths[p]) \in S
  BY DEF EntriesOf, TablePaths
<1>9. ASSUME NEW i \in 1..n
      PROVE  Range(news[i]) = IF new.paths[keys[i]] = NoRows THEN {} ELSE {Row(keys[i], new.paths[keys[i]])}
  BY <1>4, SingleIsSeq, EmptyIsSeq DEF Entry
<1> HIDE DEF S, T, n, keys, news, R
<1>10. ASSUME NEW r \in R PROVE r \in T
  <2>1. CASE r \in S /\ \A j \in 1..n : r.key # keys[j]
    BY <1>2, <1>5, <1>7, <2>1
  <2>2. CASE \E j \in 1..n : r \in Range(news[j])
    <3>1. PICK j \in 1..n : r \in Range(news[j])
      BY <2>2
    <3> DEFINE k == keys[j]
               v == new.paths[k]
    <3>2. k \in Paths /\ Range(news[j]) = IF v = NoRows THEN {} ELSE {Row(k, v)}
      BY <1>4, <1>9
    <3>3. v # NoRows => Row(k, v) \in T
      BY <1>7, <3>2
    <3> HIDE DEF k, v
    <3> QED
      BY <3>1, <3>2, <3>3
  <2> QED
    BY <1>6, <2>1, <2>2
<1>11. ASSUME NEW r \in T PROVE r \in R
  <2>1. r.key \in Paths /\ r.val = new.paths[r.key] /\ r.val # NoRows /\ r = Row(r.key, r.val)
    BY <1>3
  <2>2. CASE \E j \in 1..n : r.key = keys[j]
    <3>1. PICK j \in 1..n : r.key = keys[j]
      BY <2>2
    <3>2. r \in Range(news[j])
      BY <1>9, <2>1, <3>1
    <3> QED
      BY <1>6, <3>2
  <2>3. CASE \A j \in 1..n : r.key # keys[j]
    <3>1. r \in S
      BY <1>5, <1>8, <2>1, <2>3
    <3> QED
      BY <1>6, <2>3, <3>1
  <2> QED
    BY <2>2, <2>3
<1>12. R = T
  BY <1>10, <1>11
<1> QED
  BY <1>12 DEF R, S, T

\* A slot that takes the row o to n: unchanged, removed, or replaced by a row
\* that is there.
SlotRight(slot, o, n, absent) ==
  \/ slot = SlotUnchanged /\ o = n
  \/ slot = SlotRemove /\ n = absent
  \/ slot = SlotReplace(n) /\ n # absent

PathOpRight(op, p, o, n) ==
  /\ op.path = p
  /\ SlotRight(op.source, o.source, n.source, 0)
  /\ SlotRight(op.entities, o.entities, n.entities, <<>>)
  /\ SlotRight(op.file, o.file, n.file, 0)

LEMMA SlotApplied ==
  ASSUME NEW slot, NEW o, NEW n, NEW absent, SlotRight(slot, o, n, absent)
  PROVE  /\ ApplySlot(o, slot, absent) = n
         /\ slot.op \in {"unchanged", "replace", "remove"}
         /\ slot.op = "replace" => slot.row = n /\ n # absent
         /\ slot.op = "remove" => n = absent
         /\ slot.op = "unchanged" => o = n
         /\ slot = SlotUnchanged => o = n
<1>1. CASE slot = SlotUnchanged /\ o = n
  <2>1. slot.op = "unchanged"
    BY <1>1 DEF SlotUnchanged
  <2> QED
    BY <1>1, <2>1 DEF ApplySlot
<1>2. CASE slot = SlotRemove /\ n = absent
  <2>1. slot.op = "remove" /\ slot # SlotUnchanged
    BY <1>2 DEF SlotRemove, SlotUnchanged
  <2> QED
    BY <1>2, <2>1 DEF ApplySlot
<1>3. CASE slot = SlotReplace(n) /\ n # absent
  <2>1. slot.op = "replace" /\ slot.row = n /\ slot # SlotUnchanged
    BY <1>3 DEF SlotReplace, SlotUnchanged
  <2> QED
    BY <1>3, <2>1 DEF ApplySlot
<1> QED
  BY <1>1, <1>2, <1>3 DEF SlotRight

LEMMA DifferenceRight ==
  ASSUME NEW o, NEW n, NEW absent, NEW candidate \in BOOLEAN, ~candidate => o = n
  PROVE  /\ SlotRight(SlotDifference(o, n, absent, candidate), o, n, absent)
         /\ SlotRight(Unconditional(n, absent, candidate), o, n, absent)
         /\ o = absent => SlotDifference(o, n, absent, candidate) # SlotRemove
         /\ candidate => Unconditional(n, absent, candidate) # SlotUnchanged
         /\ o # n => SlotDifference(o, n, absent, candidate) # SlotUnchanged
<1>1. SlotUnchanged # SlotRemove /\ SlotReplace(n) # SlotUnchanged /\ SlotReplace(n) # SlotRemove
  <2>1. SlotUnchanged.op = "unchanged" /\ SlotRemove.op = "remove" /\ SlotReplace(n).op = "replace"
    BY DEF SlotUnchanged, SlotRemove, SlotReplace
  <2> QED
    BY <2>1
<1>2. SlotDifference(o, n, absent, candidate) =
        IF ~candidate \/ o = n THEN SlotUnchanged
        ELSE IF n = absent THEN SlotRemove ELSE SlotReplace(n)
  BY DEF SlotDifference
<1>3. Unconditional(n, absent, candidate) =
        IF ~candidate THEN SlotUnchanged
        ELSE IF n = absent THEN SlotRemove ELSE SlotReplace(n)
  BY DEF Unconditional
<1> QED
  BY <1>1, <1>2, <1>3 DEF SlotRight

LEMMA OpApplied ==
  ASSUME NEW old, NEW new, TableRows(old), TableRows(new), NEW p \in Paths,
         NEW op, PathOpRight(op, p, old.paths[p], new.paths[p])
  PROVE  /\ PathOp(op) /\ op.path = p
         /\ ApplyPath(Entry(old, p), op) = Entry(new, p)
         /\ ~IsChange(op) => old.paths[p] = new.paths[p]
<1> DEFINE o == old.paths[p]
           n == new.paths[p]
           was == IF Entry(old, p) = <<>> THEN NoRows ELSE Entry(old, p)[1].val
<1>1. o \in PathRows /\ n \in PathRows
  BY DEF TableRows
<1>2. /\ o = [source |-> o.source, entities |-> o.entities, file |-> o.file]
      /\ n = [source |-> n.source, entities |-> n.entities, file |-> n.file]
      /\ IsSeq(n.entities)
  BY <1>1, PathRowShape
<1>3. was = o
  <2>1. CASE o = NoRows
    BY <2>1 DEF Entry
  <2>2. CASE o # NoRows
    <3>1. Entry(old, p) = <<Row(p, o)>>
      BY <2>2 DEF Entry
    <3>2. <<Row(p, o)>> # <<>> /\ <<Row(p, o)>>[1] = Row(p, o) /\ Row(p, o).val = o
      BY SingleIsSeq DEF Row
    <3> HIDE DEF o
    <3> QED
      BY <3>1, <3>2
  <2> QED
    BY <2>1, <2>2
<1>4. op.path = p
  BY DEF PathOpRight
<1> HIDE DEF o, n
<1>5. /\ SlotRight(op.source, o.source, n.source, 0)
      /\ SlotRight(op.entities, o.entities, n.entities, <<>>)
      /\ SlotRight(op.file, o.file, n.file, 0)
  BY DEF PathOpRight, o, n
<1>6. /\ ApplySlot(o.source, op.source, 0) = n.source
      /\ op.source = SlotUnchanged => o.source = n.source
  BY <1>5, SlotApplied
<1>7. /\ ApplySlot(o.entities, op.entities, <<>>) = n.entities
      /\ op.entities.op \in {"unchanged", "replace", "remove"}
      /\ op.entities.op = "replace" => op.entities.row = n.entities
      /\ op.entities = SlotUnchanged => o.entities = n.entities
  BY <1>5, SlotApplied
<1>8. /\ ApplySlot(o.file, op.file, 0) = n.file
      /\ op.file = SlotUnchanged => o.file = n.file
  BY <1>5, SlotApplied
<1>9. p \in Nat
  BY KeysAssumption
<1>10. PathOp(op)
  BY <1>2, <1>4, <1>7, <1>9 DEF PathOp
<1>11. ~IsChange(op) => o = n
  BY <1>2, <1>6, <1>7, <1>8 DEF IsChange
<1>12. ApplyPath(Entry(old, p), op) = IF n = NoRows THEN <<>> ELSE <<Row(p, n)>>
  <2> DEFINE made == [source   |-> ApplySlot(was.source, op.source, 0),
                      entities |-> ApplySlot(was.entities, op.entities, <<>>),
                      file     |-> ApplySlot(was.file, op.file, 0)]
  <2>1. ApplyPath(Entry(old, p), op) = IF made = NoRows THEN <<>> ELSE <<Row(op.path, made)>>
    BY DEF ApplyPath
  <2> HIDE DEF was
  <2>2. made = n
    BY <1>2, <1>3, <1>6, <1>7, <1>8
  <2> HIDE DEF made
  <2> QED
    BY <1>4, <2>1, <2>2
<1> QED
  BY <1>4, <1>10, <1>11, <1>12 DEF o, n, Entry

\* The operations f of the paths in C, in order.
IsPlanOf(ops, C, f) == ops = [i \in DOMAIN Ascending(C) |-> f[Ascending(C)[i]]]

\* f has a right operation for each path of C, and C every path that changed.
PlanSource(C, f, old, new) ==
  /\ \A p \in C : PathOpRight(f[p], p, old.paths[p], new.paths[p]) /\ IsChange(f[p])
  /\ \A p \in Paths \ C : old.paths[p] = new.paths[p]

LEMMA PlanFrom ==
  ASSUME NEW old, NEW new, TableRows(old), TableRows(new),
         NEW C \in SUBSET Paths, NEW f, NEW ops, IsPlanOf(ops, C, f), PlanSource(C, f, old, new)
  PROVE  /\ PathOps(ops) /\ PathPlanRight(ops, old, new)
         /\ \A i \in 1..Len(ops) :
              /\ ops[i].path \in C /\ ops[i] = f[ops[i].path] /\ IsChange(ops[i])
              /\ PathOpRight(ops[i], ops[i].path, old.paths[ops[i].path], new.paths[ops[i].path])
<1> DEFINE s == Ascending(C)
           n == Len(s)
<1>1. C \in SUBSET Nat /\ IsFiniteSet(C)
  BY TableAssumption, KeysAssumption, FS_Subset
<1>2. Enumerates(s, C)
  BY <1>1, AscendingEnumerates
<1>3. n \in Nat /\ DOMAIN s = 1..n /\ (\A i \in 1..n : s[i] \in C)
      /\ (\A i, j \in 1..n : i < j => s[i] < s[j])
      /\ \A p \in C : \E i \in 1..n : s[i] = p
  BY <1>2, SeqFacts DEF Enumerates
<1>4. ops = [i \in 1..n |-> f[s[i]]]
  BY <1>3 DEF IsPlanOf
<1> HIDE DEF s, n
<1>5. IsSeq(ops) /\ Len(ops) = n
  <2>1. ops = [i \in 1..n |-> ops[i]]
    BY <1>4
  <2> QED
    BY <1>3, <2>1, MapIsSeq
<1>6. ASSUME NEW i \in 1..n
      PROVE  /\ ops[i] = f[s[i]] /\ s[i] \in C /\ ops[i].path = s[i]
             /\ IsChange(ops[i]) /\ PathOp(ops[i])
             /\ PathOpRight(ops[i], s[i], old.paths[s[i]], new.paths[s[i]])
             /\ ApplyPath(Entry(old, s[i]), ops[i]) = Entry(new, s[i])
  <2>1. ops[i] = f[s[i]] /\ s[i] \in C /\ s[i] \in Paths
    BY <1>3, <1>4
  <2>2. PathOpRight(ops[i], s[i], old.paths[s[i]], new.paths[s[i]]) /\ IsChange(ops[i])
    BY <2>1 DEF PlanSource
  <2>3. PathOp(ops[i]) /\ ops[i].path = s[i] /\ ApplyPath(Entry(old, s[i]), ops[i]) = Entry(new, s[i])
    BY <2>1, <2>2, OpApplied
  <2> QED
    BY <2>1, <2>2, <2>3
<1>7. PathOps(ops)
  BY <1>3, <1>5, <1>6 DEF PathOps
<1>8. PathPlanRight(ops, old, new)
  <2>1. ASSUME NEW p \in Paths, \A i \in 1..n : ops[i].path # p PROVE old.paths[p] = new.paths[p]
    <3>1. p \notin C
      BY <1>3, <1>6, <2>1
    <3> QED
      BY <3>1 DEF PlanSource
  <2>2. \A i \in 1..n : ops[i].path \in Paths /\ ApplyPath(Entry(old, ops[i].path), ops[i]) = Entry(new, ops[i].path)
    BY <1>6
  <2> QED
    BY <1>5, <2>1, <2>2 DEF PathPlanRight
<1> QED
  BY <1>5, <1>6, <1>7, <1>8

\* What every path planner guarantees.
PathPlanOk(ops, old, new) ==
  /\ PathOps(ops) /\ PathPlanRight(ops, old, new)
  /\ \A i \in 1..Len(ops) :
       /\ ops[i].path \in Paths /\ IsChange(ops[i])
       /\ PathOpRight(ops[i], ops[i].path, old.paths[ops[i].path], new.paths[ops[i].path])

\* The difference operations of the paths in S, with the paths whose source,
\* entities and file may have changed.
Differences(S, old, new, sources, entities, files) ==
  [p \in S |-> PathRowsDifference(p, old.paths[p], new.paths[p],
                                  p \in sources, p \in entities, p \in files)]

LEMMA RowsEqual ==
  ASSUME NEW o \in PathRows, NEW n \in PathRows,
         o.source = n.source, o.entities = n.entities, o.file = n.file
  PROVE  o = n
<1>1. /\ o = [source |-> o.source, entities |-> o.entities, file |-> o.file]
      /\ n = [source |-> n.source, entities |-> n.entities, file |-> n.file]
  BY PathRowShape
<1> QED
  BY <1>1, Zenon

\* Paths, and the parts of their rows, among which every change is.
Covers(S, old, new, sources, entities, files) ==
  /\ \A p \in Paths : p \in S \/ old.paths[p] = new.paths[p]
  /\ \A p \in S : /\ p \notin sources => old.paths[p].source = new.paths[p].source
                  /\ p \notin entities => old.paths[p].entities = new.paths[p].entities
                  /\ p \notin files => old.paths[p].file = new.paths[p].file

ChangeOps(S, f) == {p \in S : IsChange(f[p])}

LEMMA DifferencesRight ==
  ASSUME NEW old, NEW new, NEW S, NEW sources, NEW entities, NEW files,
         Covers(S, old, new, sources, entities, files), NEW p \in S
  PROVE  PathOpRight(Differences(S, old, new, sources, entities, files)[p], p,
                     old.paths[p], new.paths[p])
<1> DEFINE o == old.paths[p]
           n == new.paths[p]
           a == p \in sources
           b == p \in entities
           c == p \in files
           op == Differences(S, old, new, sources, entities, files)[p]
<1>1. op = [path     |-> p,
            source   |-> SlotDifference(o.source, n.source, 0, a),
            entities |-> SlotDifference(o.entities, n.entities, <<>>, b),
            file     |-> SlotDifference(o.file, n.file, 0, c)]
  BY Zenon DEF Differences, PathRowsDifference
<1>2. (~a => o.source = n.source) /\ (~b => o.entities = n.entities) /\ (~c => o.file = n.file)
  BY Zenon DEF Covers
<1>3. a \in BOOLEAN /\ b \in BOOLEAN /\ c \in BOOLEAN
  OBVIOUS
<1> HIDE DEF a, b, c, o, n, op
<1>4. /\ SlotRight(SlotDifference(o.source, n.source, 0, a), o.source, n.source, 0)
      /\ SlotRight(SlotDifference(o.entities, n.entities, <<>>, b), o.entities, n.entities, <<>>)
      /\ SlotRight(SlotDifference(o.file, n.file, 0, c), o.file, n.file, 0)
  BY <1>2, <1>3, DifferenceRight
<1>5. PathOpRight(op, p, o, n)
  BY <1>1, <1>4 DEF PathOpRight
<1> QED
  BY <1>5 DEF o, n, op

LEMMA DifferencePlan ==
  ASSUME NEW old, NEW new, TableRows(old), TableRows(new),
         NEW S \in SUBSET Paths, NEW sources, NEW entities, NEW files,
         Covers(S, old, new, sources, entities, files), NEW ops,
         IsPlanOf(ops, ChangeOps(S, Differences(S, old, new, sources, entities, files)),
                  Differences(S, old, new, sources, entities, files))
  PROVE  /\ PathPlanOk(ops, old, new)
         /\ \A i \in 1..Len(ops) :
              /\ ops[i].path \in S
              /\ ops[i] = Differences(S, old, new, sources, entities, files)[ops[i].path]
<1> DEFINE f == Differences(S, old, new, sources, entities, files)
           C == ChangeOps(S, f)
<1>1. \A p \in S : PathOpRight(f[p], p, old.paths[p], new.paths[p])
  BY DifferencesRight
<1>2. IsPlanOf(ops, C, f)
  OBVIOUS
<1> HIDE DEF f
<1>3. C \in SUBSET Paths /\ C \subseteq S /\ \A p \in S : p \in C <=> IsChange(f[p])
  BY DEF ChangeOps
<1> HIDE DEF C
<1>4. ASSUME NEW p \in Paths \ C PROVE old.paths[p] = new.paths[p]
  BY <1>1, <1>3, OpApplied DEF Covers
<1>5. PlanSource(C, f, old, new)
  BY <1>1, <1>3, <1>4 DEF PlanSource
<1>6. /\ PathOps(ops) /\ PathPlanRight(ops, old, new)
      /\ \A i \in 1..Len(ops) :
           /\ ops[i].path \in C /\ ops[i] = f[ops[i].path] /\ IsChange(ops[i])
           /\ PathOpRight(ops[i], ops[i].path, old.paths[ops[i].path], new.paths[ops[i].path])
  BY <1>2, <1>3, <1>5, PlanFrom
<1>7. PathPlanOk(ops, old, new)
  BY <1>3, <1>6 DEF PathPlanOk
<1> QED
  BY <1>3, <1>6, <1>7 DEF f

LEMMA AscendingPaths ==
  ASSUME NEW C \in SUBSET Paths
  PROVE  \A i \in DOMAIN Ascending(C) : Ascending(C)[i] \in C
<1>1. C \in SUBSET Nat /\ IsFiniteSet(C)
  BY TableAssumption, KeysAssumption, FS_Subset
<1>2. Enumerates(Ascending(C), C)
  BY <1>1, AscendingEnumerates
<1> QED
  BY <1>2, SeqFacts DEF Enumerates

\* A manifest that names every row that changed.
ManifestNames(m, old, new) ==
  /\ ManifestPaths(m) \subseteq Paths /\ m.symbolIDs \subseteq SymbolIDs
  /\ \A p \in Paths :
       /\ p \notin m.sourcePaths => old.paths[p].source = new.paths[p].source
       /\ p \notin m.entityPaths => old.paths[p].entities = new.paths[p].entities
       /\ p \notin m.filePaths => old.paths[p].file = new.paths[p].file
  /\ ChangedSymbols(old, new) \subseteq m.symbolIDs

LEMMA ExactPathPlan ==
  ASSUME NEW old, NEW new, TableRows(old), TableRows(new), NEW m, ManifestNames(m, old, new)
  PROVE  PathPlanOk(PlanExactPathDelta(old, new, m), old, new)
<1> DEFINE S == ManifestPaths(m)
           f == Differences(S, old, new, m.sourcePaths, m.entityPaths, m.filePaths)
           C == ChangeOps(S, f)
           ops == PlanExactPathDelta(old, new, m)
           Op(p) == PathRowsDifference(p, old.paths[p], new.paths[p],
                      p \in m.sourcePaths, p \in m.entityPaths, p \in m.filePaths)
           D == {p \in S : IsChange(Op(p))}
<1>1. S \in SUBSET Paths
  BY DEF ManifestNames
<1>2. ASSUME NEW p \in Paths PROVE p \in S \/ old.paths[p] = new.paths[p]
  <2>1. SUFFICES ASSUME p \notin S PROVE old.paths[p] = new.paths[p]
    OBVIOUS
  <2>2. /\ old.paths[p].source = new.paths[p].source
        /\ old.paths[p].entities = new.paths[p].entities
        /\ old.paths[p].file = new.paths[p].file
    BY <2>1 DEF ManifestNames, ManifestPaths
  <2>3. old.paths[p] \in PathRows /\ new.paths[p] \in PathRows
    BY DEF TableRows
  <2> QED
    BY <2>2, <2>3, RowsEqual
<1>3. Covers(S, old, new, m.sourcePaths, m.entityPaths, m.filePaths)
  BY <1>1, <1>2 DEF ManifestNames, Covers
<1>4. \A p \in S : f[p] = Op(p)
  BY DEF Differences
<1>5. ops = [i \in DOMAIN Ascending(D) |-> Op(Ascending(D)[i])]
  BY DEF PlanExactPathDelta, PathPlan
<1> HIDE DEF f, S
<1>6. D = C
  BY <1>4 DEF ChangeOps
<1>7. C \in SUBSET Paths /\ C \subseteq S
  BY <1>1 DEF ChangeOps
<1> HIDE DEF ops, C, D
<1>8. IsPlanOf(ops, C, f)
  <2>1. ops = [i \in DOMAIN Ascending(C) |-> Op(Ascending(C)[i])]
    BY <1>5, <1>6, Zenon
  <2>2. \A i \in DOMAIN Ascending(C) : f[Ascending(C)[i]] = Op(Ascending(C)[i])
    BY <1>4, <1>7, AscendingPaths
  <2> HIDE DEF Op
  <2> QED
    BY <2>1, <2>2 DEF IsPlanOf
<1>9. PathPlanOk(ops, old, new)
  BY <1>1, <1>3, <1>8, DifferencePlan DEF C, f
<1> QED
  BY <1>9 DEF ops

\* Difference operations in which every part of a row is compared.
LEMMA WholeDifferences ==
  ASSUME NEW old, NEW new, TableRows(old), TableRows(new),
         NEW S \in SUBSET Paths, \A p \in Paths : p \in S \/ old.paths[p] = new.paths[p],
         NEW f, NEW ops, IsPlanOf(ops, ChangeOps(S, f), f),
         f = Differences(S, old, new, Paths, Paths, Paths)
  PROVE  /\ PathPlanOk(ops, old, new)
         /\ \A i \in 1..Len(ops) : ops[i].path \in S /\ ops[i] = f[ops[i].path]
<1>1. Covers(S, old, new, Paths, Paths, Paths)
  BY DEF Covers
<1> QED
  BY <1>1, DifferencePlan

LEMMA FallbackPathPlan ==
  ASSUME NEW old, NEW new, TableRows(old), TableRows(new)
  PROVE  PathPlanOk(PlanFallbackPathDelta(old, new), old, new)
<1> DEFINE S == TablePaths(old) \cup TablePaths(new)
           f == Differences(S, old, new, Paths, Paths, Paths)
           C == ChangeOps(S, f)
           ops == PlanFallbackPathDelta(old, new)
           Op(p) == PathRowsDifference(p, old.paths[p], new.paths[p], TRUE, TRUE, TRUE)
           D == {p \in S : IsChange(Op(p))}
<1>1. S \in SUBSET Paths /\ \A p \in Paths : p \in S \/ old.paths[p] = new.paths[p]
  BY DEF TablePaths
<1>2. ASSUME NEW p \in S PROVE f[p] = Op(p)
  <2>1. f[p] = PathRowsDifference(p, old.paths[p], new.paths[p], p \in Paths, p \in Paths, p \in Paths)
    BY DEF Differences
  <2>2. (p \in Paths) = TRUE
    BY <1>1
  <2> QED
    BY <2>1, <2>2 DEF PathRowsDifference, SlotDifference
<1>3. ops = [i \in DOMAIN Ascending(D) |-> Op(Ascending(D)[i])]
  BY DEF PlanFallbackPathDelta, PathPlan
<1> HIDE DEF f, S
<1>4. D = C
  BY <1>2 DEF ChangeOps
<1>5. C \in SUBSET Paths /\ C \subseteq S
  BY <1>1 DEF ChangeOps
<1> HIDE DEF ops, C, D
<1>6. IsPlanOf(ops, C, f)
  <2>1. ops = [i \in DOMAIN Ascending(C) |-> Op(Ascending(C)[i])]
    BY <1>3, <1>4, Zenon
  <2>2. \A i \in DOMAIN Ascending(C) : f[Ascending(C)[i]] = Op(Ascending(C)[i])
    BY <1>2, <1>5, AscendingPaths
  <2> HIDE DEF Op
  <2> QED
    BY <2>1, <2>2 DEF IsPlanOf
<1>7. PathPlanOk(ops, old, new)
  BY <1>1, <1>6, WholeDifferences DEF C, f
<1> QED
  BY <1>7 DEF ops

\* A full table is planned against no rows, and removes none.
LEMMA FullPathPlan ==
  ASSUME NEW old, NEW new, TableRows(old), TableRows(new), \A p \in Paths : old.paths[p] = NoRows
  PROVE  /\ PathPlanOk(PlanFull(new), old, new)
         /\ \A i \in 1..Len(PlanFull(new)) :
              SlotRemove \notin {PlanFull(new)[i].source, PlanFull(new)[i].entities, PlanFull(new)[i].file}
<1> DEFINE S == TablePaths(new)
           f == Differences(S, old, new, Paths, Paths, Paths)
           C == ChangeOps(S, f)
           ops == PlanFull(new)
           Op(p) == PathRowsDifference(p, NoRows, new.paths[p], TRUE, TRUE, TRUE)
           D == {p \in S : IsChange(Op(p))}
<1>1. S \in SUBSET Paths /\ \A p \in Paths : p \in S \/ old.paths[p] = new.paths[p]
  BY DEF TablePaths
<1>2. ASSUME NEW p \in S
      PROVE  f[p] = Op(p) /\ SlotRemove \notin {f[p].source, f[p].entities, f[p].file}
  <2> DEFINE n == new.paths[p]
  <2>1. f[p] = PathRowsDifference(p, old.paths[p], new.paths[p], p \in Paths, p \in Paths, p \in Paths)
    BY DEF Differences
  <2>2. (p \in Paths) = TRUE /\ old.paths[p] = NoRows
    BY <1>1
  <2>3. f[p] = Op(p)
    BY <2>1, <2>2 DEF PathRowsDifference, SlotDifference
  <2>4. f[p] = [path     |-> p,
                source   |-> SlotDifference(0, n.source, 0, TRUE),
                entities |-> SlotDifference(<<>>, n.entities, <<>>, TRUE),
                file     |-> SlotDifference(0, n.file, 0, TRUE)]
    <3>1. NoRows.source = 0 /\ NoRows.entities = <<>> /\ NoRows.file = 0
      BY DEF NoRows
    <3> QED
      BY <2>3, <3>1 DEF PathRowsDifference
  <2> HIDE DEF n
  <2>5. /\ SlotDifference(0, n.source, 0, TRUE) # SlotRemove
        /\ SlotDifference(<<>>, n.entities, <<>>, TRUE) # SlotRemove
        /\ SlotDifference(0, n.file, 0, TRUE) # SlotRemove
    BY DifferenceRight
  <2> HIDE DEF f
  <2>6. SlotRemove \notin {f[p].source, f[p].entities, f[p].file}
    <3> DEFINE r == f[p]
               a == SlotDifference(0, n.source, 0, TRUE)
               b == SlotDifference(<<>>, n.entities, <<>>, TRUE)
               c == SlotDifference(0, n.file, 0, TRUE)
    <3>1. /\ r = [path |-> p, source |-> a, entities |-> b, file |-> c]
          /\ a # SlotRemove /\ b # SlotRemove /\ c # SlotRemove
      BY <2>4, <2>5
    <3> HIDE DEF r, a, b, c
    <3>2. r.source = a /\ r.entities = b /\ r.file = c
      BY <3>1
    <3> QED
      BY <3>1, <3>2, Zenon DEF r
  <2> QED
    BY <2>3, <2>6
<1>3. ops = [i \in DOMAIN Ascending(D) |-> Op(Ascending(D)[i])]
  BY DEF PlanFull, PathPlan
<1> HIDE DEF f, S
<1>4. D = C
  BY <1>2 DEF ChangeOps
<1>5. C \in SUBSET Paths /\ C \subseteq S
  BY <1>1 DEF ChangeOps
<1> HIDE DEF ops, C, D
<1>6. IsPlanOf(ops, C, f)
  <2>1. ops = [i \in DOMAIN Ascending(C) |-> Op(Ascending(C)[i])]
    BY <1>3, <1>4, Zenon
  <2>2. \A i \in DOMAIN Ascending(C) : f[Ascending(C)[i]] = Op(Ascending(C)[i])
    BY <1>2, <1>5, AscendingPaths
  <2> HIDE DEF Op
  <2> QED
    BY <2>1, <2>2 DEF IsPlanOf
<1>7. PathPlanOk(ops, old, new) /\ \A i \in 1..Len(ops) : ops[i].path \in S /\ ops[i] = f[ops[i].path]
  BY <1>1, <1>6, WholeDifferences DEF C, f
<1>8. \A i \in 1..Len(ops) : SlotRemove \notin {ops[i].source, ops[i].entities, ops[i].file}
  BY <1>2, <1>7
<1> QED
  BY <1>7, <1>8 DEF ops

\* A sparse plan is right without a look at the rows of the base.
LEMMA SparsePathPlan ==
  ASSUME NEW old, NEW new, TableRows(old), TableRows(new), NEW m, ManifestNames(m, old, new)
  PROVE  PathPlanOk(PlanSparsePathDelta(new, m), old, new)
<1> DEFINE S == ManifestPaths(m)
           ops == PlanSparsePathDelta(new, m)
           op(p) == [path     |-> p,
                source   |-> Unconditional(new.paths[p].source, 0, p \in m.sourcePaths),
                entities |-> Unconditional(new.paths[p].entities, <<>>, p \in m.entityPaths),
                file     |-> Unconditional(new.paths[p].file, 0, p \in m.filePaths)]
           f == [p \in S |-> op(p)]
<1>1. S \in SUBSET Paths
  BY DEF ManifestNames
<1>2. ASSUME NEW p \in Paths \ S PROVE old.paths[p] = new.paths[p]
  <2>1. /\ old.paths[p].source = new.paths[p].source
        /\ old.paths[p].entities = new.paths[p].entities
        /\ old.paths[p].file = new.paths[p].file
    BY DEF ManifestNames, ManifestPaths
  <2>2. old.paths[p] \in PathRows /\ new.paths[p] \in PathRows
    BY DEF TableRows
  <2> QED
    BY <2>1, <2>2, RowsEqual
<1>3. ASSUME NEW p \in S
      PROVE  PathOpRight(f[p], p, old.paths[p], new.paths[p]) /\ IsChange(f[p])
  <2> DEFINE o == old.paths[p]
             n == new.paths[p]
             a == p \in m.sourcePaths
             b == p \in m.entityPaths
             c == p \in m.filePaths
  <2>1. f[p] = [path     |-> p,
                source   |-> Unconditional(n.source, 0, a),
                entities |-> Unconditional(n.entities, <<>>, b),
                file     |-> Unconditional(n.file, 0, c)]
    OBVIOUS
  <2>2. (~a => o.source = n.source) /\ (~b => o.entities = n.entities) /\ (~c => o.file = n.file)
    BY <1>1 DEF ManifestNames
  <2>3. a \in BOOLEAN /\ b \in BOOLEAN /\ c \in BOOLEAN
    OBVIOUS
  <2>4. a \/ b \/ c
    BY DEF ManifestPaths
  <2> HIDE DEF a, b, c, o, n, f
  <2>5. /\ SlotRight(Unconditional(n.source, 0, a), o.source, n.source, 0)
        /\ SlotRight(Unconditional(n.entities, <<>>, b), o.entities, n.entities, <<>>)
        /\ SlotRight(Unconditional(n.file, 0, c), o.file, n.file, 0)
        /\ a => Unconditional(n.source, 0, a) # SlotUnchanged
        /\ b => Unconditional(n.entities, <<>>, b) # SlotUnchanged
        /\ c => Unconditional(n.file, 0, c) # SlotUnchanged
    BY <2>2, <2>3, DifferenceRight
  <2>6. PathOpRight(f[p], p, o, n) /\ IsChange(f[p])
    BY <2>1, <2>4, <2>5 DEF PathOpRight, IsChange
  <2> QED
    BY <2>6 DEF o, n
<1>4. ops = [i \in DOMAIN Ascending(S) |-> op(Ascending(S)[i])]
  BY DEF PlanSparsePathDelta
<1>5. \A i \in DOMAIN Ascending(S) : f[Ascending(S)[i]] = op(Ascending(S)[i])
  BY <1>1, AscendingPaths
<1> HIDE DEF op, f, S, ops
<1>6. IsPlanOf(ops, S, f)
  BY <1>4, <1>5 DEF IsPlanOf
<1>7. PlanSource(S, f, old, new)
  BY <1>2, <1>3 DEF PlanSource
<1>8. /\ PathOps(ops) /\ PathPlanRight(ops, old, new)
      /\ \A i \in 1..Len(ops) :
           /\ ops[i].path \in S /\ ops[i] = f[ops[i].path] /\ IsChange(ops[i])
           /\ PathOpRight(ops[i], ops[i].path, old.paths[ops[i].path], new.paths[ops[i].path])
  BY <1>1, <1>6, <1>7, PlanFrom
<1>9. PathPlanOk(ops, old, new)
  BY <1>1, <1>8 DEF PathPlanOk
<1> QED
  BY <1>9 DEF ops

\* Optional rows of ascending keys, put one after the other.
LEMMA FlattenOpts ==
  ASSUME NEW seqs, IsSeq(seqs), NEW keys,
         \A i \in 1..Len(seqs) : keys[i] \in Nat /\ IsOpt(seqs[i], keys[i]),
         \A i, j \in 1..Len(seqs) : i < j => keys[i] < keys[j]
  PROVE  /\ Sorted(FlattenSeq(seqs))
         /\ Range(FlattenSeq(seqs)) = UNION {Range(seqs[i]) : i \in 1..Len(seqs)}
<1> DEFINE flat == FlattenSeq(seqs)
           m == Len(seqs)
<1>1. m \in Nat
  BY SeqFacts
<1>2. ASSUME NEW i \in 1..m
      PROVE  /\ IsSeq(seqs[i]) /\ Len(seqs[i]) \in {0, 1} /\ \A r \in Range(seqs[i]) : r.key = keys[i]
             /\ \A j \in 1..Len(seqs[i]) : seqs[i][j] \in Range(seqs[i])
             /\ \A r \in Range(seqs[i]) : \E j \in 1..Len(seqs[i]) : r = seqs[i][j]
  <2> DEFINE s == seqs[i]
  <2>1. Sorted(s) /\ Len(s) \in {0, 1} /\ \A r \in Range(s) : r.key = keys[i]
    BY SortedOpt
  <2> HIDE DEF s
  <2>2. IsSeq(s) /\ Range(s) = {s[j] : j \in 1..Len(s)}
    BY <2>1, SortedLen
  <2>3. /\ \A j \in 1..Len(s) : s[j] \in Range(s)
        /\ \A r \in Range(s) : \E j \in 1..Len(s) : r = s[j]
    BY <2>2
  <2> QED
    BY <2>1, <2>2, <2>3 DEF s
<1>3. PICK at, pos : Layout(flat, seqs, m, at, pos)
  BY <1>2, FlattenLayout
<1> HIDE DEF flat, m
<1>4. /\ IsSeq(flat) /\ Len(flat) \in Nat
      /\ Range(flat) = {flat[n] : n \in 1..Len(flat)}
  BY <1>3, SeqFacts, RangeSeq DEF Layout
<1>5. ASSUME NEW n \in 1..Len(flat)
      PROVE  /\ at[n] \in 1..m /\ pos[n] = 1 /\ flat[n] \in Range(seqs[at[n]])
             /\ flat[n].key = keys[at[n]]
  <2>1. at[n] \in 1..m /\ pos[n] \in 1..Len(seqs[at[n]]) /\ flat[n] = seqs[at[n]][pos[n]]
    BY <1>3 DEF Layout
  <2>2. flat[n] \in Range(seqs[at[n]])
    BY <1>2, <2>1
  <2>3. Len(seqs[at[n]]) \in {0, 1}
    BY <1>2, <2>1
  <2>4. pos[n] = 1
    BY <2>1, <2>3
  <2> QED
    BY <1>2, <2>1, <2>2, <2>4
<1>6. ASSUME NEW x \in 1..Len(flat), NEW y \in 1..Len(flat), x < y
      PROVE  flat[x].key < flat[y].key
  <2>1. at[x] < at[y] \/ (at[x] = at[y] /\ pos[x] < pos[y])
    BY <1>3, <1>6 DEF Layout
  <2>2. at[x] < at[y]
    BY <1>5, <2>1
  <2> QED
    BY <1>5, <2>2 DEF m
<1>7. Sorted(flat)
  BY <1>4, <1>5, <1>6 DEF Sorted, m
<1>8. ASSUME NEW i \in 1..m, NEW r \in Range(seqs[i]) PROVE r \in Range(flat)
  <2>1. PICK j \in 1..Len(seqs[i]) : r = seqs[i][j]
    BY <1>2
  <2>2. PICK n \in 1..Len(flat) : at[n] = i /\ pos[n] = j
    BY <1>3, <2>1 DEF Layout
  <2>3. flat[n] = r
    BY <1>3, <2>1, <2>2 DEF Layout
  <2> QED
    BY <1>4, <2>3
<1>9. Range(flat) = UNION {Range(seqs[i]) : i \in 1..m}
  BY <1>4, <1>5, <1>8
<1> QED
  BY <1>7, <1>9 DEF flat, m

\* The path rows of a full table.
LEMMA FullPaths ==
  ASSUME NEW old, NEW new, TableRows(old), TableRows(new), \A p \in Paths : old.paths[p] = NoRows,
         NEW ops, PathPlanOk(ops, old, new), NEW entries,
         entries = FlattenSeq([i \in DOMAIN ops |-> ApplyPath(<<>>, ops[i])])
  PROVE  Well(FromSorted(entries)) /\ Content(FromSorted(entries)) = EntriesOf(new)
<1> DEFINE n == Len(ops)
           seqs == [i \in DOMAIN ops |-> ApplyPath(<<>>, ops[i])]
           keys == OpPaths(ops)
           news == OpEntries({}, ops)
<1>1. PathOps(ops) /\ PathPlanRight(ops, old, new) /\ \A i \in 1..n : ops[i].path \in Paths
  BY DEF PathPlanOk
<1>2. EntriesOf(old) = {}
  BY DEF EntriesOf, TablePaths
<1>3. Keyed({}) /\ EntryRows({})
  BY DEF Keyed, EntryRows
<1>4. /\ n \in Nat /\ DOMAIN ops = 1..n
      /\ \A i \in 1..n : /\ keys[i] = ops[i].path /\ keys[i] \in Nat
                         /\ news[i] = ApplyPath(Opt({}, ops[i].path), ops[i])
                         /\ IsOpt(news[i], keys[i])
      /\ \A i, j \in 1..n : i < j => keys[i] < keys[j]
  BY <1>1, <1>3, PathEntries
<1>5. \A p : Opt({}, p) = <<>>
  BY DEF Opt
<1>6. \A i \in 1..n : seqs[i] = news[i]
  BY <1>4, <1>5
<1>7. IsSeq(seqs) /\ Len(seqs) = n
  <2>1. seqs = [i \in 1..n |-> seqs[i]]
    BY <1>4
  <2> QED
    BY <1>4, <2>1, MapIsSeq
<1>8. EntriesAfter({}, ops) = EntriesOf(new)
  BY <1>1, <1>2, PlanContent
<1>9. EntriesAfter({}, ops) = UNION {Range(news[j]) : j \in 1..n}
  BY DEF EntriesAfter, Replaced
<1>10. entries = FlattenSeq(seqs)
  OBVIOUS
<1> HIDE DEF seqs, keys, news, n
<1>11. Sorted(entries) /\ Range(entries) = UNION {Range(seqs[i]) : i \in 1..n}
  <2>1. \A i \in 1..Len(seqs) : keys[i] \in Nat /\ IsOpt(seqs[i], keys[i])
    BY <1>4, <1>6, <1>7
  <2>2. \A i, j \in 1..Len(seqs) : i < j => keys[i] < keys[j]
    BY <1>4, <1>7
  <2>3. Sorted(FlattenSeq(seqs)) /\ Range(FlattenSeq(seqs)) = UNION {Range(seqs[i]) : i \in 1..Len(seqs)}
    BY <1>7, <2>1, <2>2, FlattenOpts
  <2> QED
    BY <1>7, <1>10, <2>3
<1>12. Range(entries) = EntriesOf(new)
  BY <1>6, <1>8, <1>9, <1>11
<1> QED
  BY <1>11, <1>12, FromSortedWell

-----------------------------------------------------------------------------
(* Runs of references. *)

\* References in the order of their paths.
RefSeq(refs) ==
  /\ IsSeq(refs)
  /\ \A i \in 1..Len(refs) : refs[i].path \in Nat
  /\ \A i, j \in 1..Len(refs) : i < j => refs[i].path <= refs[j].path

LEMMA FactShape ==
  ASSUME NEW f \in SymbolFacts
  PROVE  /\ f = [alias |-> f.alias, decl |-> f.decl, refs |-> f.refs]
         /\ RefSeq(f.refs) /\ CanonicalLocations(f.refs)
         /\ f.alias # 0 => f.refs = <<>>
<1> DEFINE refs == f.refs
           n == Len(refs)
<1>1. /\ f = [alias |-> f.alias, decl |-> f.decl, refs |-> f.refs]
      /\ refs \in Seq([path : Nat, at : Nat]) /\ CanonicalLocations(refs)
      /\ f.alias # 0 => refs = <<>>
  BY TableAssumption
<1> HIDE DEF refs
<1>2. IsSeq(refs) /\ n \in Nat /\ \A i \in 1..n : refs[i].path \in Nat
  <2> DEFINE L == [path : Nat, at : Nat]
  <2>1. refs \in Seq(L) /\ \A l \in L : l.path \in Nat
    BY <1>1
  <2> HIDE DEF L
  <2>2. IsSeq(refs)
    BY <2>1, Zenon DEF IsSeq
  <2>3. \A i \in 1..n : refs[i] \in L
    BY <2>1
  <2> QED
    BY <2>1, <2>2, <2>3, SeqFacts
<1>3. \A i \in 1..(n - 1) : refs[i].path <= refs[i + 1].path
  <2> SUFFICES ASSUME NEW i \in 1..(n - 1) PROVE refs[i].path <= refs[i + 1].path
    OBVIOUS
  <2>1. refs[i].path < refs[i + 1].path \/ refs[i].path = refs[i + 1].path
    BY <1>1 DEF CanonicalLocations
  <2>2. i \in 1..n /\ i + 1 \in 1..n
    BY <1>2
  <2> QED
    BY <1>2, <2>1, <2>2
<1> DEFINE K == {d \in Nat : \A i \in 1..n : i + d <= n => refs[i].path <= refs[i + d].path}
<1>4. 0 \in K
  BY <1>2
<1>5. ASSUME NEW d \in Nat, d \in K PROVE d + 1 \in K
  <2> SUFFICES ASSUME NEW i \in 1..n, i + (d + 1) <= n PROVE refs[i].path <= refs[i + (d + 1)].path
    OBVIOUS
  <2> DEFINE j == i + d
  <2>1. j \in 1..(n - 1) /\ j <= n /\ i + (d + 1) = j + 1 /\ j \in 1..n /\ j + 1 \in 1..n
    BY <1>2
  <2>2. refs[i].path <= refs[j].path
    BY <1>5, <2>1
  <2> HIDE DEF j
  <2>3. refs[j].path <= refs[j + 1].path
    BY <1>3, <2>1
  <2> QED
    BY <1>2, <2>1, <2>2, <2>3
<1> HIDE DEF K
<1>6. Nat \subseteq K
  BY <1>4, <1>5, SetInduction
<1>7. ASSUME NEW i \in 1..n, NEW j \in 1..n, i < j PROVE refs[i].path <= refs[j].path
  <2>1. j - i \in Nat /\ i + (j - i) = j /\ j <= n
    BY <1>2, <1>7
  <2> DEFINE d == j - i
  <2>2. d \in K
    BY <1>6, <2>1
  <2>3. i + d = j
    BY <2>1
  <2> HIDE DEF d
  <2> QED
    BY <2>1, <2>2, <2>3 DEF K
<1>8. RefSeq(refs)
  BY <1>2, <1>7 DEF RefSeq
<1> QED
  BY <1>1, <1>8 DEF refs

RefsBefore(refs, p) == Cardinality({i \in DOMAIN refs : refs[i].path < p})
RefsOn(refs, p)     == Cardinality({i \in DOMAIN refs : refs[i].path = p})

\* The references of a path are contiguous.
LEMMA RunPlace ==
  ASSUME NEW refs, RefSeq(refs), NEW p \in Nat
  PROVE  /\ RefsBefore(refs, p) \in Nat /\ RefsOn(refs, p) \in Nat
         /\ RefsBefore(refs, p) + RefsOn(refs, p) <= Len(refs)
         /\ \A i \in 1..Len(refs) :
              /\ (refs[i].path < p) <=> (i <= RefsBefore(refs, p))
              /\ (refs[i].path = p) <=>
                   (RefsBefore(refs, p) < i /\ i <= RefsBefore(refs, p) + RefsOn(refs, p))
<1> DEFINE n == Len(refs)
           D == {i \in 1..n : refs[i].path < p}
           E == {i \in 1..n : refs[i].path = p}
           F == {i \in 1..n : refs[i].path <= p}
           b == Cardinality(D)
           c == Cardinality(E)
           e == Cardinality(F)
<1>1. /\ n \in Nat /\ DOMAIN refs = 1..n
      /\ \A i \in 1..n : refs[i].path \in Nat
      /\ \A i, j \in 1..n : i < j => refs[i].path <= refs[j].path
  BY SeqFacts DEF RefSeq
<1>2. RefsBefore(refs, p) = b /\ RefsOn(refs, p) = c
  BY <1>1 DEF RefsBefore, RefsOn
<1> HIDE DEF n
<1>3. /\ D \in SUBSET (1..n) /\ E \in SUBSET (1..n) /\ F \in SUBSET (1..n)
      /\ D \cup E = F /\ D \cap E = {}
  BY <1>1
<1>4. \A i \in D, j \in 1..n : j < i => j \in D
  BY <1>1
<1>5. \A i \in F, j \in 1..n : j < i => j \in F
  BY <1>1
<1>6. \A i \in 1..n : /\ i \in D <=> refs[i].path < p
                      /\ i \in E <=> refs[i].path = p
                      /\ i \in F <=> (i \in D \/ i \in E)
                      /\ ~(i \in D /\ i \in E)
  BY <1>1
<1> HIDE DEF D, E, F
<1>7. /\ IsFiniteSet(D) /\ Cardinality(D) \in 0..n
      /\ \A i \in 1..n : (i \in D) <=> (i <= Cardinality(D))
  BY <1>1, <1>3, <1>4, InitialSegment
<1>8. /\ IsFiniteSet(F) /\ Cardinality(F) \in 0..n
      /\ \A i \in 1..n : (i \in F) <=> (i <= Cardinality(F))
  BY <1>1, <1>3, <1>5, InitialSegment
<1>9. IsFiniteSet(E) /\ Cardinality(E) \in Nat
  <2>1. IsFiniteSet(1..n)
    BY <1>1, FS_Interval
  <2> QED
    BY <1>3, <2>1, FS_Subset, FS_CardinalityType
<1>10. e = b + c
  <2>1. Cardinality(D \cup E) = Cardinality(D) + Cardinality(E) - Cardinality(D \cap E)
    BY <1>7, <1>9, FS_Union
  <2>2. Cardinality(D \cap E) = 0
    BY <1>3, FS_EmptySet
  <2>3. Cardinality(D) \in Nat
    BY <1>7
  <2>4. Cardinality(F) = Cardinality(D) + Cardinality(E) - 0
    BY <1>3, <2>1, <2>2
  <2> HIDE DEF b, c, e
  <2> QED
    BY <1>9, <2>3, <2>4 DEF b, c, e
<1>11. /\ b \in Nat /\ c \in Nat /\ e \in Nat /\ e <= n /\ e = b + c
       /\ \A i \in 1..n : (i \in D <=> i <= b) /\ (i \in F <=> i <= e)
  BY <1>1, <1>7, <1>8, <1>9, <1>10
<1> HIDE DEF b, c, e
<1>12. ASSUME NEW i \in 1..n
       PROVE  (refs[i].path < p <=> i <= b) /\ (refs[i].path = p <=> (b < i /\ i <= b + c))
  <2>1. (i \in D <=> i <= b) /\ (i \in F <=> i <= b + c)
    BY <1>11
  <2>2. (i \in E) <=> (i \in F /\ ~(i \in D))
    BY <1>6
  <2>3. i <= b \/ b < i
    BY <1>11
  <2>4. ~(i <= b /\ b < i)
    BY <1>11
  <2> QED
    BY <1>6, <2>1, <2>2, <2>3, <2>4
<1> QED
  BY <1>2, <1>11, <1>12 DEF n

LEMMA RunShape ==
  ASSUME NEW refs, RefSeq(refs), NEW p \in Nat
  PROVE  /\ IsSeq(RunOf(refs, p)) /\ Len(RunOf(refs, p)) = RefsOn(refs, p)
         /\ \A j \in 1..RefsOn(refs, p) :
              /\ RefsBefore(refs, p) + j \in 1..Len(refs)
              /\ RunOf(refs, p)[j] = refs[RefsBefore(refs, p) + j]
              /\ RunOf(refs, p)[j].path = p
         /\ (RunOf(refs, p) = <<>>) <=> (p \notin RefPaths(refs))
<1> DEFINE b == RefsBefore(refs, p)
           c == RefsOn(refs, p)
           n == Len(refs)
           u == RunOf(refs, p)
<1>1. /\ IsSeq(refs) /\ n \in Nat /\ DOMAIN refs = 1..n
  BY SeqFacts DEF RefSeq
<1>2. /\ b \in Nat /\ c \in Nat /\ b + c <= n
      /\ \A i \in 1..n : (refs[i].path = p) <=> (b < i /\ i <= b + c)
  BY RunPlace
<1>3. u = SubSeq(refs, b + 1, b + c)
  BY DEF RunOf, RefsBefore, RefsOn
<1> HIDE DEF b, c, u, n
<1> DEFINE lo == b + 1
           hi == b + c
<1>4. lo \in 1..(n + 1) /\ hi \in (lo - 1)..n /\ hi - lo + 1 = c
  BY <1>1, <1>2
<1>5. u = SubSeq(refs, lo, hi)
  BY <1>3
<1>6. \A j \in Nat : lo + j - 1 = b + j
  BY <1>2
<1> HIDE DEF lo, hi
<1>7. /\ IsSeq(u) /\ Len(u) = c
      /\ \A j \in 1..c : u[j] = refs[lo + j - 1]
  BY <1>1, <1>4, <1>5, SubIsSeq DEF n
<1>8. ASSUME NEW j \in 1..c PROVE b + j \in 1..n /\ u[j] = refs[b + j] /\ u[j].path = p
  <2>1. b + j \in 1..n /\ b < b + j /\ b + j <= b + c /\ j \in Nat
    BY <1>1, <1>2
  <2>2. u[j] = refs[b + j]
    BY <1>6, <1>7, <2>1
  <2> QED
    BY <1>2, <2>1, <2>2
<1>9. (u = <<>>) <=> (c = 0)
  BY <1>7, RangeSeq
<1>10. p \in RefPaths(refs) <=> \E i \in 1..n : refs[i].path = p
  BY <1>1 DEF RefPaths
<1>11. (c = 0) <=> (p \notin RefPaths(refs))
  <2>1. ASSUME c = 0 PROVE ~(\E i \in 1..n : refs[i].path = p)
    BY <1>2, <2>1
  <2>2. ASSUME c # 0 PROVE \E i \in 1..n : refs[i].path = p
    <3>1. 1 \in 1..c
      BY <1>2, <2>2
    <3> QED
      BY <1>8, <3>1
  <2> QED
    BY <1>10, <2>1, <2>2
<1> QED
  BY <1>7, <1>8, <1>9, <1>11 DEF b, c, u, n

\* Runs by path, as the rows of an index.
RunRows(run) == {Row(p, run[p]) : p \in {q \in Nat : run[q] # <<>>}}
RunLens(run) == [r \in RunRows(run) |-> Len(r.val)]
RunSize(run) == Cardinality(Cells(RunRows(run), RunLens(run)))

Runs(run) == run = [p \in Nat |-> run[p]] /\ \A p \in Nat : IsSeq(run[p])

RunsOf(refs) == [p \in Nat |-> RunOf(refs, p)]

LEMMA RunRowsKeyed ==
  ASSUME NEW run, Runs(run)
  PROVE  /\ Keyed(RunRows(run))
         /\ \A r \in RunRows(run) : /\ r.key \in Nat /\ r.val = run[r.key] /\ r.val # <<>>
                                    /\ r = Row(r.key, r.val) /\ RunLens(run)[r] = Len(r.val)
                                    /\ RunLens(run)[r] \in Nat
         /\ \A p \in Nat : run[p] # <<>> => Row(p, run[p]) \in RunRows(run)
<1>1. \A r \in RunRows(run) : /\ r.key \in Nat /\ r.val = run[r.key] /\ r.val # <<>>
                              /\ r = Row(r.key, r.val)
  BY DEF RunRows, Row
<1>2. Keyed(RunRows(run))
  BY <1>1, Zenon DEF Keyed
<1>3. \A r \in RunRows(run) : RunLens(run)[r] = Len(r.val)
  BY DEF RunLens
<1>4. \A r \in RunRows(run) : Len(r.val) \in Nat
  BY <1>1, SeqFacts DEF Runs
<1>5. \A p \in Nat : run[p] # <<>> => Row(p, run[p]) \in RunRows(run)
  BY DEF RunRows
<1> QED
  BY <1>1, <1>2, <1>3, <1>4, <1>5

LEMMA RunsOfRuns ==
  ASSUME NEW refs, RefSeq(refs)
  PROVE  Runs(RunsOf(refs)) /\ \A p \in Nat : RunsOf(refs)[p] = RunOf(refs, p)
<1>1. \A p \in Nat : RunsOf(refs)[p] = RunOf(refs, p)
  BY DEF RunsOf
<1>2. \A p \in Nat : IsSeq(RunsOf(refs)[p])
  BY <1>1, RunShape
<1>3. RunsOf(refs) = [p \in Nat |-> RunsOf(refs)[p]]
  BY DEF RunsOf
<1> QED
  BY <1>1, <1>2, <1>3 DEF Runs

\* The runs of a sequence of references hold as many as it does.
LEMMA RunsOfSize ==
  ASSUME NEW refs, RefSeq(refs)
  PROVE  RunSize(RunsOf(refs)) = Len(refs)
<1> DEFINE run == RunsOf(refs)
           n == Len(refs)
           S == RunRows(run)
           f == RunLens(run)
           C == Cells(S, f)
           b(p) == RefsBefore(refs, p)
           g == [i \in 1..n |-> <<refs[i].path, i - b(refs[i].path)>>]
<1>1. Runs(run) /\ \A p \in Nat : run[p] = RunOf(refs, p)
  BY RunsOfRuns
<1>2. n \in Nat /\ \A i \in 1..n : refs[i].path \in Nat
  BY SeqFacts DEF RefSeq
<1>3. ASSUME NEW p \in Nat
      PROVE  /\ b(p) \in Nat /\ RefsOn(refs, p) \in Nat /\ b(p) + RefsOn(refs, p) <= n
             /\ \A i \in 1..n : (refs[i].path = p) <=> (b(p) < i /\ i <= b(p) + RefsOn(refs, p))
             /\ Len(RunOf(refs, p)) = RefsOn(refs, p)
  BY RunPlace, RunShape
<1>4. /\ \A r \in S : /\ r.key \in Nat /\ r.val = run[r.key] /\ r = Row(r.key, r.val)
                      /\ f[r] = Len(r.val)
      /\ \A p \in Nat : run[p] # <<>> => Row(p, run[p]) \in S
  BY <1>1, RunRowsKeyed
<1>5. \A c : c \in C <=> \E r \in S : c \in {r.key} \X (1..f[r])
  BY DEF Cells
<1> HIDE DEF S, f, C, run, n, b
<1>6. ASSUME NEW p \in Nat, NEW j \in 1..RefsOn(refs, p) PROVE <<p, j>> \in C
  <2> DEFINE r == Row(p, run[p])
  <2>1. Len(run[p]) = RefsOn(refs, p) /\ RefsOn(refs, p) \in Nat
    BY <1>1, <1>3
  <2>2. run[p] # <<>>
    BY <2>1, EmptyIsSeq
  <2>3. r \in S /\ r.key = p /\ r.val = run[p]
    BY <1>4, <2>2 DEF Row
  <2> HIDE DEF r
  <2>4. f[r] = RefsOn(refs, p)
    BY <1>4, <2>1, <2>3
  <2>5. <<p, j>> \in {r.key} \X (1..f[r])
    BY <2>3, <2>4
  <2> QED
    BY <1>5, <2>3, <2>5
<1>7. ASSUME NEW c \in C
      PROVE  \E p \in Nat : \E j \in 1..RefsOn(refs, p) : c = <<p, j>>
  <2>1. PICK r \in S : c \in {r.key} \X (1..f[r])
    BY <1>5
  <2>2. r.key \in Nat /\ f[r] = RefsOn(refs, r.key)
    <3>1. r.key \in Nat /\ f[r] = Len(run[r.key])
      BY <1>4
    <3>2. run[r.key] = RunOf(refs, r.key) /\ Len(RunOf(refs, r.key)) = RefsOn(refs, r.key)
      BY <1>1, <1>3, <3>1
    <3> QED
      BY <3>1, <3>2
  <2>3. c = <<r.key, c[2]>> /\ c[2] \in 1..f[r]
    BY <2>1
  <2> QED
    BY <2>2, <2>3
<1>8. ASSUME NEW i \in 1..n
      PROVE  g[i] = <<refs[i].path, i - b(refs[i].path)>> /\ g[i] \in C
  <2> DEFINE p == refs[i].path
  <2>1. p \in Nat
    BY <1>2
  <2>2. b(p) \in Nat /\ RefsOn(refs, p) \in Nat /\ b(p) < i /\ i <= b(p) + RefsOn(refs, p)
    BY <1>3, <2>1
  <2>3. i - b(p) \in 1..RefsOn(refs, p)
    BY <1>2, <2>2
  <2>4. <<p, i - b(p)>> \in C
    BY <1>6, <2>1, <2>3
  <2> QED
    BY <2>4
<1> HIDE DEF g
<1>9. \A i, j \in 1..n : g[i] = g[j] => i = j
  <2> SUFFICES ASSUME NEW i \in 1..n, NEW j \in 1..n, g[i] = g[j] PROVE i = j
    OBVIOUS
  <2> DEFINE p == refs[i].path
             q == refs[j].path
  <2>1. <<p, i - b(p)>> = <<q, j - b(q)>>
    BY <1>8
  <2>2. p = q /\ i - b(p) = j - b(q)
    BY <2>1
  <2>3. p \in Nat /\ b(p) \in Nat
    BY <1>2, <1>3
  <2>4. i - b(p) = j - b(p)
    BY <2>2
  <2> HIDE DEF p, q
  <2> QED
    BY <1>2, <2>3, <2>4
<1>10. \A c \in C : \E i \in 1..n : g[i] = c
  <2> SUFFICES ASSUME NEW c \in C PROVE \E i \in 1..n : g[i] = c
    OBVIOUS
  <2>1. PICK p \in Nat : \E j \in 1..RefsOn(refs, p) : c = <<p, j>>
    BY <1>7
  <2>2. PICK j \in 1..RefsOn(refs, p) : c = <<p, j>>
    BY <2>1
  <2> DEFINE i == b(p) + j
  <2>3. i \in 1..n /\ refs[i].path = p /\ i - b(p) = j
    <3>1. /\ b(p) \in Nat /\ RefsOn(refs, p) \in Nat /\ b(p) + RefsOn(refs, p) <= n
          /\ \A k \in 1..n : (refs[k].path = p) <=> (b(p) < k /\ k <= b(p) + RefsOn(refs, p))
      BY <1>3
    <3>2. i \in 1..n /\ b(p) < i /\ i <= b(p) + RefsOn(refs, p) /\ i - b(p) = j
      BY <1>2, <3>1
    <3> QED
      BY <3>1, <3>2
  <2>4. g[i] = <<p, j>>
    BY <1>8, <2>3
  <2> QED
    BY <2>2, <2>3, <2>4
<1>11. g \in Bijection(1..n, C)
  <2>1. g \in [1..n -> C]
    <3>1. g = [i \in 1..n |-> g[i]]
      BY DEF g
    <3> QED
      BY <1>8, <3>1
  <2> QED
    BY <1>9, <1>10, <2>1 DEF Bijection, Injection, Surjection, IsInjective
<1>12. Cardinality(C) = n
  <2>1. ExistsBijection(1..n, C)
    BY <1>11, Zenon DEF ExistsBijection
  <2> QED
    BY <1>2, <2>1, FS_CountingElements
<1> QED
  BY <1>12 DEF C, S, f, run, n, RunSize

\* An increasing map of 1..a onto 1..b.
Increasing(g, a, b) ==
  /\ \A i \in 1..a : g[i] \in 1..b
  /\ \A i, j \in 1..a : i < j => g[i] < g[j]
  /\ \A k \in 1..b : \E i \in 1..a : g[i] = k

\* It leaves every number where it is.
LEMMA IncreasingOnto ==
  ASSUME NEW a \in Nat, NEW b \in Nat, NEW g, Increasing(g, a, b)
  PROVE  a = b /\ \A i \in 1..a : g[i] = i
<1> USE DEF Increasing
<1> DEFINE T == {i \in 1..a : g[i] # i}
<1>1. ASSUME T # {} PROVE FALSE
  <2>1. T \in SUBSET Nat
    OBVIOUS
  <2>2. PICK m \in T : \A k \in T : m <= k
    BY <1>1, <2>1, LeastNumber
  <2>3. m \in 1..a /\ g[m] # m /\ g[m] \in 1..b
    BY <2>2
  <2>4. ASSUME NEW j \in 1..a, j < m PROVE g[j] = j
    BY <2>2, <2>3, <2>4
  <2>5. g[m] > m
    <3>1. CASE m = 1
      BY <2>3, <3>1
    <3>2. CASE m # 1
      <4>1. m - 1 \in 1..a /\ m - 1 < m
        BY <2>3, <3>2
      <4>2. g[m - 1] = m - 1 /\ g[m - 1] < g[m]
        BY <2>3, <2>4, <4>1
      <4> QED
        BY <2>3, <4>2
    <3> QED
      BY <3>1, <3>2
  <2>6. m \in 1..b
    BY <2>3, <2>5
  <2>7. PICK x \in 1..a : g[x] = m
    BY <2>6
  <2>8. ~(x < m)
    BY <2>4, <2>7
  <2>9. x = m \/ m < x
    BY <2>3, <2>8
  <2>10. g[x] >= g[m]
    BY <2>3, <2>9
  <2> QED
    BY <2>3, <2>5, <2>7, <2>10
<1>2. \A i \in 1..a : g[i] = i
  BY <1>1
<1>3. a <= b
  <2>1. CASE a = 0
    BY <2>1
  <2>2. CASE a # 0
    <3>1. a \in 1..a
      BY <2>2
    <3> QED
      BY <1>2, <3>1
  <2> QED
    BY <2>1, <2>2
<1>4. b <= a
  <2>1. CASE b = 0
    BY <2>1
  <2>2. CASE b # 0
    <3>1. b \in 1..b
      BY <2>2
    <3>2. PICK i \in 1..a : g[i] = b
      BY <3>1
    <3> QED
      BY <1>2, <3>2
  <2> QED
    BY <2>1, <2>2
<1> QED
  BY <1>2, <1>3, <1>4

\* A stored symbol: its runs by path are run.
SymIs(v, alias, decl, run) ==
  /\ v = [alias |-> alias, decl |-> decl, references |-> v.references, referenceCount |-> RunSize(run)]
  /\ Well(v.references) /\ Content(v.references) = RunRows(run)

IsVals(seqs, rows) == seqs = [i \in DOMAIN rows |-> rows[i].val]

\* The symbol index reads back as the fact it was made from.
LEMMA ToFactRefs ==
  ASSUME NEW refs, RefSeq(refs), NEW index, Well(index), Content(index) = RunRows(RunsOf(refs)),
         NEW seqs, IsVals(seqs, Rows(index))
  PROVE  FlattenSeq(seqs) = refs
<1> DEFINE rows == Rows(index)
           run == RunsOf(refs)
           m == Len(rows)
           n == Len(refs)
           flat == FlattenSeq(seqs)
           b(p) == RefsBefore(refs, p)
           c(p) == RefsOn(refs, p)
<1>1. Sorted(rows) /\ Range(rows) = RunRows(run)
  BY RowsSorted
<1>2. /\ m \in Nat /\ DOMAIN rows = 1..m /\ Range(rows) = {rows[i] : i \in 1..m}
      /\ \A i \in 1..m : rows[i].key \in Nat
      /\ \A i, j \in 1..m : i < j => rows[i].key < rows[j].key
  BY <1>1, SortedLen DEF Sorted
<1>3. Runs(run) /\ \A p \in Nat : run[p] = RunOf(refs, p)
  BY RunsOfRuns
<1>4. IsSeq(refs) /\ n \in Nat /\ \A i \in 1..n : refs[i].path \in Nat
  BY SeqFacts DEF RefSeq
<1> HIDE DEF rows, run, m
<1>5. ASSUME NEW i \in 1..m
      PROVE  rows[i].val = RunOf(refs, rows[i].key) /\ rows[i].key \in Nat
  <2>1. rows[i] \in RunRows(run)
    BY <1>1, <1>2
  <2> QED
    BY <1>3, <2>1, RunRowsKeyed
<1>6. ASSUME NEW p \in Nat, RunOf(refs, p) # <<>> PROVE \E i \in 1..m : rows[i].key = p
  <2> DEFINE r == Row(p, run[p])
  <2>1. r \in RunRows(run)
    BY <1>3, <1>6, RunRowsKeyed
  <2>2. r.key = p
    BY DEF Row
  <2> HIDE DEF r
  <2>3. PICK i \in 1..m : rows[i] = r
    BY <1>1, <1>2, <2>1
  <2> QED
    BY <2>2, <2>3
<1>7. /\ IsSeq(seqs) /\ Len(seqs) = m
      /\ \A i \in 1..m : seqs[i] = RunOf(refs, rows[i].key)
  <2>1. seqs = [i \in 1..m |-> rows[i].val]
    BY <1>2 DEF rows, IsVals
  <2>2. seqs = [i \in 1..m |-> seqs[i]]
    BY <2>1
  <2> QED
    BY <1>2, <1>5, <2>1, <2>2, MapIsSeq
<1>8. ASSUME NEW p \in Nat
      PROVE  /\ IsSeq(RunOf(refs, p)) /\ Len(RunOf(refs, p)) = c(p)
             /\ b(p) \in Nat /\ c(p) \in Nat
             /\ \A j \in 1..c(p) : /\ b(p) + j \in 1..n
                                   /\ RunOf(refs, p)[j] = refs[b(p) + j]
                                   /\ refs[b(p) + j].path = p
             /\ \A i \in 1..n : /\ (refs[i].path < p) <=> (i <= b(p))
                                /\ (refs[i].path = p) <=> (b(p) < i /\ i <= b(p) + c(p))
             /\ (RunOf(refs, p) = <<>>) <=> (p \notin RefPaths(refs))
  <2>1. /\ IsSeq(RunOf(refs, p)) /\ Len(RunOf(refs, p)) = c(p)
        /\ \A j \in 1..c(p) : /\ b(p) + j \in 1..n
                              /\ RunOf(refs, p)[j] = refs[b(p) + j]
                              /\ RunOf(refs, p)[j].path = p
        /\ (RunOf(refs, p) = <<>>) <=> (p \notin RefPaths(refs))
    BY RunShape
  <2>2. /\ b(p) \in Nat /\ c(p) \in Nat
        /\ \A i \in 1..n : /\ (refs[i].path < p) <=> (i <= b(p))
                           /\ (refs[i].path = p) <=> (b(p) < i /\ i <= b(p) + c(p))
    BY RunPlace
  <2> QED
    BY <2>1, <2>2
<1>9. PICK at, pos : Layout(flat, seqs, m, at, pos)
  <2>1. ASSUME NEW i \in 1..Len(seqs) PROVE IsSeq(seqs[i])
    <3>1. i \in 1..m /\ seqs[i] = RunOf(refs, rows[i].key)
      BY <1>7
    <3> QED
      BY <1>5, <1>8, <3>1
  <2> QED
    BY <1>7, <2>1, FlattenLayout
<1> HIDE DEF flat, n, b, c
<1> DEFINE a == Len(flat)
           key(x) == rows[at[x]].key
           g == [x \in 1..a |-> b(key(x)) + pos[x]]
<1>10. IsSeq(flat) /\ a \in Nat
  BY <1>9, SeqFacts DEF Layout
<1>11. ASSUME NEW x \in 1..a
       PROVE  /\ at[x] \in 1..m /\ key(x) \in Nat /\ pos[x] \in 1..c(key(x))
              /\ g[x] = b(key(x)) + pos[x] /\ g[x] \in 1..n
              /\ flat[x] = refs[g[x]] /\ refs[g[x]].path = key(x)
  <2>1. at[x] \in 1..m /\ pos[x] \in 1..Len(seqs[at[x]]) /\ flat[x] = seqs[at[x]][pos[x]]
    BY <1>9 DEF Layout
  <2>2. seqs[at[x]] = RunOf(refs, key(x)) /\ key(x) \in Nat
    BY <1>5, <1>7, <2>1
  <2>3. Len(RunOf(refs, key(x))) = c(key(x))
    BY <1>8, <2>2
  <2>4. pos[x] \in 1..c(key(x)) /\ flat[x] = RunOf(refs, key(x))[pos[x]]
    BY <2>1, <2>2, <2>3
  <2>5. g[x] = b(key(x)) + pos[x]
    OBVIOUS
  <2> HIDE DEF g
  <2> DEFINE k == key(x)
             j == pos[x]
  <2>6. k \in Nat /\ j \in 1..c(k)
    BY <2>2, <2>4
  <2> HIDE DEF k, j
  <2>7. b(k) + j \in 1..n /\ RunOf(refs, k)[j] = refs[b(k) + j] /\ refs[b(k) + j].path = k
    BY <1>8, <2>6
  <2> QED
    BY <2>1, <2>2, <2>4, <2>5, <2>7 DEF k, j
<1> HIDE DEF g, a
<1>12. ASSUME NEW x \in 1..a, NEW y \in 1..a, x < y PROVE g[x] < g[y]
  <2>1. at[x] < at[y] \/ (at[x] = at[y] /\ pos[x] < pos[y])
    BY <1>9, <1>12 DEF Layout, a
  <2>2. CASE at[x] < at[y]
    <3>1. key(x) < key(y)
      BY <1>2, <1>11, <2>2
    <3>2. refs[g[x]].path < key(y) /\ refs[g[y]].path = key(y) /\ key(y) \in Nat /\ g[x] \in 1..n /\ g[y] \in 1..n
      BY <1>11, <3>1
    <3> DEFINE k == key(y)
    <3>3. k \in Nat /\ refs[g[x]].path < k /\ refs[g[y]].path = k
      BY <3>2
    <3> HIDE DEF k
    <3>4. b(k) \in Nat /\ g[x] <= b(k) /\ b(k) < g[y]
      BY <1>8, <3>2, <3>3
    <3> QED
      BY <1>4, <3>2, <3>4
  <2>3. CASE at[x] = at[y] /\ pos[x] < pos[y]
    <3> DEFINE k == key(x)
    <3>1. /\ k \in Nat /\ g[x] = b(k) + pos[x] /\ g[y] = b(k) + pos[y]
          /\ pos[x] \in 1..c(k) /\ pos[y] \in 1..c(k)
      BY <1>11, <2>3
    <3> HIDE DEF k
    <3>2. b(k) \in Nat /\ c(k) \in Nat
      BY <1>8, <3>1
    <3> QED
      BY <2>3, <3>1, <3>2
  <2> QED
    BY <2>1, <2>2, <2>3
<1>13. ASSUME NEW i \in 1..n PROVE \E x \in 1..a : g[x] = i
  <2> DEFINE p == refs[i].path
  <2>1. p \in Nat /\ p \in RefPaths(refs)
    BY <1>4, SeqFacts DEF RefPaths, n
  <2>2. /\ RunOf(refs, p) # <<>> /\ b(p) \in Nat /\ c(p) \in Nat /\ b(p) < i /\ i <= b(p) + c(p)
        /\ Len(RunOf(refs, p)) = c(p)
    BY <1>8, <2>1
  <2>3. PICK w \in 1..m : rows[w].key = p
    BY <1>6, <2>1, <2>2
  <2> DEFINE j == i - b(p)
  <2>4. j \in 1..c(p) /\ b(p) + j = i
    BY <1>4, <2>2
  <2>5. seqs[w] = RunOf(refs, p)
    BY <1>7, <2>3
  <2> HIDE DEF p, j
  <2>6. PICK x \in 1..a : at[x] = w /\ pos[x] = j
    BY <1>9, <2>2, <2>4, <2>5 DEF Layout, a
  <2>7. g[x] = b(p) + j
    BY <1>11, <2>3, <2>6
  <2> QED
    BY <2>4, <2>7
<1>14. a = n /\ \A x \in 1..a : g[x] = x
  <2>1. \A x \in 1..a : g[x] \in 1..n
    BY <1>11
  <2>2. \A x, y \in 1..a : x < y => g[x] < g[y]
    BY <1>12
  <2>3. \A i \in 1..n : \E x \in 1..a : g[x] = i
    BY <1>13
  <2>4. Increasing(g, a, n)
    BY <2>1, <2>2, <2>3 DEF Increasing
  <2> QED
    BY <1>4, <1>10, <2>4, IncreasingOnto
<1>15. \A x \in 1..a : flat[x] = refs[x]
  BY <1>11, <1>14
<1>16. flat = refs
  BY <1>4, <1>10, <1>14, <1>15, SameSeq DEF a, n
<1> QED
  BY <1>16 DEF flat

-----------------------------------------------------------------------------
(* Stored symbols. *)

LEMMA SymToFact ==
  ASSUME NEW f \in SymbolFacts, NEW v, SymIs(v, f.alias, f.decl, RunsOf(f.refs))
  PROVE  /\ ToFact(v) = f /\ v.referenceCount = Len(f.refs) /\ Canonical(v.references)
         /\ v.alias = f.alias
<1> DEFINE index == v.references
           rows == Rows(index)
           seqs == [i \in DOMAIN rows |-> rows[i].val]
<1>1. /\ f = [alias |-> f.alias, decl |-> f.decl, refs |-> f.refs] /\ RefSeq(f.refs)
  BY FactShape
<1>2. Well(index) /\ Content(index) = RunRows(RunsOf(f.refs))
  BY DEF SymIs
<1>3. v.alias = f.alias /\ v.decl = f.decl /\ v.referenceCount = RunSize(RunsOf(f.refs))
  BY DEF SymIs
<1>4. ToFact(v) = [alias |-> v.alias, decl |-> v.decl, refs |-> FlattenSeq(seqs)]
  BY DEF ToFact
<1>5. IsVals(seqs, rows)
  BY DEF IsVals
<1> HIDE DEF seqs
<1>6. FlattenSeq(seqs) = f.refs
  BY <1>1, <1>2, <1>5, ToFactRefs
<1>7. v.referenceCount = Len(f.refs)
  BY <1>1, <1>3, RunsOfSize
<1>8. ToFact(v) = f
  BY <1>1, <1>3, <1>4, <1>6, Zenon
<1> QED
  BY <1>2, <1>3, <1>7, <1>8, WellCanonical

LEMMA RefPathsFinite ==
  ASSUME NEW refs, RefSeq(refs)
  PROVE  RefPaths(refs) \in SUBSET Nat /\ IsFiniteSet(RefPaths(refs))
<1> DEFINE n == Len(refs)
           P == RefPaths(refs)
           g == [i \in 1..n |-> refs[i].path]
<1>1. n \in Nat /\ DOMAIN refs = 1..n /\ \A i \in 1..n : refs[i].path \in Nat
  BY SeqFacts DEF RefSeq
<1>2. P = {refs[i].path : i \in 1..n}
  BY <1>1 DEF RefPaths
<1> HIDE DEF P, n
<1>3. g \in Surjection(1..n, P)
  BY <1>2 DEF Surjection
<1>4. IsFiniteSet(1..n)
  BY <1>1, FS_Interval
<1> HIDE DEF g
<1>5. IsFiniteSet(P)
  BY <1>3, <1>4, FS_Surjection
<1>6. P \in SUBSET Nat
  BY <1>1, <1>2
<1> QED
  BY <1>5, <1>6 DEF P

LEMMA FromFactIs ==
  ASSUME NEW f \in SymbolFacts
  PROVE  SymIs(FromFact(f), f.alias, f.decl, RunsOf(f.refs))
<1> DEFINE refs == f.refs
           P == RefPaths(refs)
           s == Ascending(P)
           n == Len(s)
           run == RunsOf(refs)
           rows == [i \in DOMAIN s |-> Row(s[i], RunOf(refs, s[i]))]
           v == FromFact(f)
<1>1. RefSeq(refs)
  BY FactShape
<1>2. P \in SUBSET Nat /\ IsFiniteSet(P)
  BY <1>1, RefPathsFinite
<1>3. Enumerates(s, P)
  BY <1>2, AscendingEnumerates
<1>4. /\ n \in Nat /\ DOMAIN s = 1..n /\ \A i \in 1..n : s[i] \in P /\ s[i] \in Nat
      /\ \A i, j \in 1..n : i < j => s[i] < s[j]
      /\ \A p \in P : \E i \in 1..n : s[i] = p
  BY <1>2, <1>3, SeqFacts DEF Enumerates
<1>5. Runs(run) /\ \A p \in Nat : run[p] = RunOf(refs, p)
  BY <1>1, RunsOfRuns
<1>6. v = [alias |-> f.alias, decl |-> f.decl, references |-> FromSorted(rows), referenceCount |-> Len(refs)]
  BY DEF FromFact
<1>7. \A p \in Nat : (RunOf(refs, p) = <<>>) <=> (p \notin P)
  BY <1>1, RunShape
<1>8. RunSize(run) = Len(refs)
  BY <1>1, RunsOfSize
<1> HIDE DEF refs, P, s, n, run, v
<1>9. \A i \in 1..n : rows[i] = Row(s[i], run[s[i]]) /\ rows[i].key = s[i]
  BY <1>4, <1>5 DEF Row
<1>10. IsSeq(rows) /\ Len(rows) = n
  <2>1. rows = [i \in 1..n |-> rows[i]]
    BY <1>4
  <2> QED
    BY <1>4, <2>1, MapIsSeq
<1> HIDE DEF rows
<1>11. Sorted(rows)
  BY <1>4, <1>9, <1>10 DEF Sorted
<1>12. Range(rows) = RunRows(run)
  <2>1. Range(rows) = {rows[i] : i \in 1..n}
    BY <1>10, RangeSeq
  <2>2. ASSUME NEW i \in 1..n PROVE rows[i] \in RunRows(run)
    <3>1. s[i] \in Nat /\ run[s[i]] # <<>>
      BY <1>4, <1>5, <1>7
    <3> QED
      BY <1>5, <1>9, <3>1, RunRowsKeyed
  <2>3. ASSUME NEW r \in RunRows(run) PROVE r \in Range(rows)
    <3>1. r.key \in Nat /\ r.val = run[r.key] /\ r.val # <<>> /\ r = Row(r.key, r.val)
      BY <1>5, RunRowsKeyed
    <3>2. r.key \in P
      BY <1>5, <1>7, <3>1
    <3>3. PICK i \in 1..n : s[i] = r.key
      BY <1>4, <3>2
    <3>4. rows[i] = r
      BY <1>9, <3>1, <3>3
    <3> QED
      BY <2>1, <3>4
  <2> QED
    BY <2>1, <2>2, <2>3
<1> DEFINE index == FromSorted(rows)
<1>13. Well(index) /\ Content(index) = RunRows(run)
  BY <1>11, <1>12, FromSortedWell
<1> HIDE DEF index
<1>14. v = [alias |-> f.alias, decl |-> f.decl, references |-> index, referenceCount |-> RunSize(run)]
  BY <1>6, <1>8 DEF index
<1>15. v.references = index
  BY <1>14
<1>16. SymIs(v, f.alias, f.decl, run)
  BY <1>13, <1>14, <1>15 DEF SymIs
<1> QED
  BY <1>16 DEF v, run, refs

\* A run of references, as an optional row.
RunRow(p, new) == IF new = <<>> THEN <<>> ELSE <<Row(p, new)>>

RunReplaced(run, p, new) == [run EXCEPT ![p] = new]

LEMMA RunReplacedRows ==
  ASSUME NEW run, Runs(run), NEW p \in Nat, NEW new, IsSeq(new)
  PROVE  /\ Runs(RunReplaced(run, p, new))
         /\ RunRows(RunReplaced(run, p, new)) = Without(RunRows(run), p) \cup Range(RunRow(p, new))
         /\ IsOpt(RunRow(p, new), p)
<1> DEFINE r2 == RunReplaced(run, p, new)
           o == RunRow(p, new)
           row == Row(p, new)
<1>1. Runs(r2) /\ (\A q \in Nat : r2[q] = IF q = p THEN new ELSE run[q])
  <2>1. run = [q \in Nat |-> run[q]]
    BY DEF Runs
  <2>2. \A q \in Nat : r2[q] = IF q = p THEN new ELSE run[q]
    BY <2>1 DEF RunReplaced
  <2>3. r2 = [q \in Nat |-> r2[q]]
    BY <2>1 DEF RunReplaced
  <2> QED
    BY <2>2, <2>3 DEF Runs
<1>2. row.key = p /\ row.val = new
  BY DEF Row
<1>3. o = (IF new = <<>> THEN <<>> ELSE <<row>>) /\ IsOpt(o, p)
  BY <1>2 DEF RunRow, IsOpt
<1>4. Range(o) = IF new = <<>> THEN {} ELSE {row}
  BY <1>3, SingleIsSeq, EmptyIsSeq
<1> HIDE DEF r2, o
<1>5. ASSUME NEW r \in RunRows(r2) PROVE r \in Without(RunRows(run), p) \cup Range(o)
  <2>1. r.key \in Nat /\ r.val = r2[r.key] /\ r.val # <<>> /\ r = Row(r.key, r.val)
    BY <1>1, RunRowsKeyed
  <2>2. CASE r.key = p
    <3>1. r.val = new /\ r = row
      BY <1>1, <2>1, <2>2
    <3> QED
      BY <1>4, <2>1, <3>1
  <2>3. CASE r.key # p
    <3>1. r.val = run[r.key]
      BY <1>1, <2>1, <2>3
    <3>2. r \in RunRows(run)
      BY <2>1, <3>1, RunRowsKeyed
    <3> QED
      BY <2>3, <3>2 DEF Without
  <2> QED
    BY <2>2, <2>3
<1>6. ASSUME NEW r \in Without(RunRows(run), p) PROVE r \in RunRows(r2)
  <2>1. r \in RunRows(run) /\ r.key # p
    BY DEF Without
  <2>2. r.key \in Nat /\ r.val = run[r.key] /\ r.val # <<>> /\ r = Row(r.key, r.val)
    BY <2>1, RunRowsKeyed
  <2>3. r2[r.key] = r.val
    BY <1>1, <2>1, <2>2
  <2> QED
    BY <1>1, <2>2, <2>3, RunRowsKeyed
<1>7. ASSUME NEW r \in Range(o) PROVE r \in RunRows(r2)
  <2>1. new # <<>> /\ r = row
    BY <1>4
  <2>2. r2[p] = new
    BY <1>1
  <2> QED
    BY <1>1, <2>1, <2>2, RunRowsKeyed
<1>8. RunRows(r2) = Without(RunRows(run), p) \cup Range(o)
  BY <1>5, <1>6, <1>7
<1> QED
  BY <1>1, <1>3, <1>8 DEF r2, o

LEMMA CellsSame ==
  ASSUME NEW S, NEW f, NEW g, \A r \in S : f[r] = g[r]
  PROVE  Cells(S, f) = Cells(S, g)
  BY DEF Cells

\* Replacing the run of a path keeps the number of references exact.
LEMMA ReplaceRunIs ==
  ASSUME NEW run, Runs(run), NEW alias, NEW decl, NEW v, SymIs(v, alias, decl, run),
         NEW p \in Nat, NEW new, IsSeq(new)
  PROVE  SymIs(ReplaceReferenceRun(v, p, new), alias, decl, RunReplaced(run, p, new))
<1> DEFINE S == RunRows(run)
           r2 == RunReplaced(run, p, new)
           o == RunRow(p, new)
           old == Opt(S, p)
           T == Without(S, p) \cup Range(o)
           U == S \cup Range(o)
           f == [r \in U |-> Len(r.val)]
           index == v.references
           x == ReplaceReferenceRun(v, p, new)
           u == Updated(index, p, o)
           was == IF old = <<>> THEN 0 ELSE Len(old[1].val)
<1>1. /\ v = [alias |-> alias, decl |-> decl, references |-> index, referenceCount |-> RunSize(run)]
      /\ Well(index) /\ Content(index) = S
  BY DEF SymIs
<1>2. Runs(r2) /\ RunRows(r2) = T /\ IsOpt(o, p)
  BY RunReplacedRows
<1>3. Keyed(S) /\ (\A r \in S : RunLens(run)[r] = Len(r.val) /\ Len(r.val) \in Nat)
  BY RunRowsKeyed
<1>4. \A r \in T : RunLens(r2)[r] = Len(r.val) /\ Len(r.val) \in Nat
  BY <1>2, RunRowsKeyed
<1>5. IsFiniteSet(S)
  BY <1>1, WellFinite
<1>6. Well(u) /\ Content(u) = T
  BY <1>1, <1>2, UpdatedWell
<1>7. Lookup(index, p) = old
  BY <1>1, LookupOpt
<1>8. x = [[v EXCEPT !.references = u] EXCEPT !.referenceCount = v.referenceCount - was + Len(new)]
  BY <1>7 DEF ReplaceReferenceRun, RunRow
<1>9. Len(new) \in Nat
  BY SeqFacts
<1>10. \A r \in U : f[r] = Len(r.val) /\ f[r] \in Nat
  BY <1>3, <1>4
<1>11. Range(old) \subseteq S /\ IsOpt(old, p)
  BY <1>3, OptRange, OptIsOpt
<1>12. SizeOf(old, f) = was
  <2>1. old # <<>> => old[1] \in S
    BY <1>11, SingleIsSeq DEF IsOpt
  <2> HIDE DEF f, old
  <2> QED
    BY <1>10, <2>1 DEF SizeOf
<1>13. SizeOf(o, f) = Len(new)
  <2>1. CASE new = <<>>
    BY <2>1, EmptyIsSeq DEF RunRow, SizeOf
  <2>2. CASE new # <<>>
    <3> DEFINE row == Row(p, new)
    <3>1. o = <<row>> /\ row.val = new
      BY <2>2 DEF RunRow, Row
    <3> HIDE DEF row, f, o
    <3>2. o # <<>> /\ o[1] = row /\ row \in Range(o)
      BY <3>1, SingleIsSeq
    <3>3. f[row] = Len(new)
      BY <1>10, <3>1, <3>2
    <3> QED
      BY <3>2, <3>3 DEF SizeOf
  <2> QED
    BY <2>1, <2>2
<1>14. Cells(S, f) = Cells(S, RunLens(run)) /\ Cells(T, f) = Cells(T, RunLens(r2))
  <2>1. \A r \in S : f[r] = RunLens(run)[r]
    BY <1>3, <1>10
  <2>2. \A r \in T : f[r] = RunLens(r2)[r]
    BY <1>4, <1>10 DEF Without
  <2> HIDE DEF f, S, T
  <2> QED
    BY <2>1, <2>2, CellsSame
<1> HIDE DEF f, x, was
<1>15. Cardinality(Cells(T, f)) = Cardinality(Cells(S, f)) - SizeOf(old, f) + SizeOf(o, f)
  BY <1>2, <1>3, <1>5, <1>10, CellsReplaced
<1>16. RunSize(r2) = RunSize(run) - was + Len(new)
  <2>1. RunSize(r2) = Cardinality(Cells(T, f)) /\ RunSize(run) = Cardinality(Cells(S, f))
    BY <1>2, <1>14 DEF RunSize
  <2> QED
    BY <1>12, <1>13, <1>15, <2>1
<1>17. x = [alias |-> alias, decl |-> decl, references |-> u, referenceCount |-> RunSize(r2)]
  <2> HIDE DEF index, u, r2, S
  <2>1. v.referenceCount = RunSize(run)
    BY <1>1
  <2> DEFINE n == RunSize(r2)
             k == RunSize(run)
  <2>2. x = [[v EXCEPT !.references = u] EXCEPT !.referenceCount = n]
    BY <1>8, <1>16, <2>1
  <2>3. v = [alias |-> alias, decl |-> decl, references |-> index, referenceCount |-> k]
    BY <1>1
  <2> HIDE DEF n, k
  <2>4. x = [alias |-> alias, decl |-> decl, references |-> u, referenceCount |-> n]
    BY <2>2, <2>3
  <2> QED
    BY <2>4 DEF n
<1> HIDE DEF u, r2, T
<1>18. x.references = u
  BY <1>17
<1>19. SymIs(x, alias, decl, r2)
  BY <1>2, <1>6, <1>17, <1>18 DEF SymIs
<1> QED
  BY <1>19 DEF x, r2

-----------------------------------------------------------------------------
(* Symbol operations. *)

\* The state of a symbol with a fact, and of a symbol of a table, as a
\* sequence of at most one.
SymState(f) == [alias |-> f.alias, decl |-> f.decl, run |-> RunsOf(f.refs)]
StateOf(table, id) == IF id \in DOMAIN table.symbols THEN <<SymState(table.symbols[id])>> ELSE <<>>

\* An optional symbol row holds the state a.
OptIs(o, id, a) ==
  \/ o = <<>> /\ a = <<>>
  \/ \E r, s : /\ o = <<r>> /\ a = <<s>> /\ r.key = id
               /\ Runs(s.run) /\ SymIs(r.val, s.alias, s.decl, s.run)

\* What one operation does to the state of its symbol.
StateAfter(a, op) ==
  IF op.tag = 0 THEN <<SymState(op.fact)>>
  ELSE IF op.tag = 1 THEN <<>>
  ELSE <<[alias |-> a[1].alias, decl |-> a[1].decl, run |-> RunReplaced(a[1].run, op.path, op.refs)]>>

SymOp(op) ==
  /\ op.id \in SymbolIDs /\ op.tag \in {0, 1, 2}
  /\ op.tag = 0 => op.fact \in SymbolFacts
  /\ op.tag = 2 => op.path \in Nat /\ IsSeq(op.refs)

LEMMA StateOfFact ==
  ASSUME NEW f \in SymbolFacts, NEW v, NEW id, SymIs(v, f.alias, f.decl, RunsOf(f.refs))
  PROVE  OptIs(<<Row(id, v)>>, id, <<SymState(f)>>)
<1> DEFINE r == Row(id, v)
           s == SymState(f)
<1>1. r.key = id /\ r.val = v
  BY DEF Row
<1>2. s.alias = f.alias /\ s.decl = f.decl /\ s.run = RunsOf(f.refs)
  BY DEF SymState
<1>3. Runs(s.run)
  BY <1>2, FactShape, RunsOfRuns
<1> HIDE DEF r, s
<1>4. OptIs(<<r>>, id, <<s>>)
  BY <1>1, <1>2, <1>3 DEF OptIs
<1> QED
  BY <1>4 DEF r, s

LEMMA ApplyOneIs ==
  ASSUME NEW op, SymOp(op), NEW o, NEW a, OptIs(o, op.id, a), op.tag = 2 => a # <<>>
  PROVE  OptIs(ApplyOneSymbol(o, op), op.id, StateAfter(a, op))
<1>1. CASE op.tag = 0
  <2>1. op.fact \in SymbolFacts
    BY <1>1 DEF SymOp
  <2>2. ApplyOneSymbol(o, op) = <<Row(op.id, FromFact(op.fact))>>
    BY <1>1 DEF ApplyOneSymbol
  <2>3. StateAfter(a, op) = <<SymState(op.fact)>>
    BY <1>1 DEF StateAfter
  <2> QED
    BY <2>1, <2>2, <2>3, FromFactIs, StateOfFact
<1>2. CASE op.tag = 1
  <2>1. ApplyOneSymbol(o, op) = <<>> /\ StateAfter(a, op) = <<>>
    BY <1>2 DEF ApplyOneSymbol, StateAfter
  <2> QED
    BY <2>1 DEF OptIs
<1>3. CASE op.tag = 2
  <2>1. PICK r, s : /\ o = <<r>> /\ a = <<s>> /\ r.key = op.id
                    /\ Runs(s.run) /\ SymIs(r.val, s.alias, s.decl, s.run)
    BY <1>3 DEF OptIs
  <2>2. op.path \in Nat /\ IsSeq(op.refs)
    BY <1>3 DEF SymOp
  <2> DEFINE v == ReplaceReferenceRun(r.val, op.path, op.refs)
             run == RunReplaced(s.run, op.path, op.refs)
             row == Row(op.id, v)
             t == [alias |-> s.alias, decl |-> s.decl, run |-> run]
  <2>3. o[1] = r /\ a[1] = s
    BY <2>1
  <2>4. ApplyOneSymbol(o, op) = <<row>>
    BY <1>3, <2>3 DEF ApplyOneSymbol
  <2>5. StateAfter(a, op) = <<t>>
    BY <1>3, <2>3 DEF StateAfter
  <2>6. Runs(run) /\ SymIs(v, s.alias, s.decl, run)
    BY <2>1, <2>2, RunReplacedRows, ReplaceRunIs
  <2> HIDE DEF v, run
  <2>7. row.key = op.id /\ row.val = v /\ t.alias = s.alias /\ t.decl = s.decl /\ t.run = run
    BY DEF Row
  <2> HIDE DEF row, t
  <2>8. OptIs(<<row>>, op.id, <<t>>)
    BY <2>6, <2>7 DEF OptIs
  <2> QED
    BY <2>4, <2>5, <2>8
<1> QED
  BY <1>1, <1>2, <1>3 DEF SymOp

LEMMA OptIsOptional ==
  ASSUME NEW o, NEW id, NEW a, OptIs(o, id, a)
  PROVE  IsOpt(o, id)
  BY DEF OptIs, IsOpt

LEMMA OptReplaced ==
  ASSUME NEW S, Keyed(S), NEW k, NEW o, IsOpt(o, k)
  PROVE  /\ Opt(Without(S, k) \cup Range(o), k) = o
         /\ \A j : j # k => Opt(Without(S, k) \cup Range(o), j) = Opt(S, j)
<1> DEFINE R == Without(S, k) \cup Range(o)
<1>1. \A r \in Range(o) : r.key = k
  BY OptKeys
<1>2. \A r \in R : (r.key = k => r \in Range(o)) /\ (r.key # k => r \in S)
  BY <1>1 DEF Without
<1>3. \A r \in S : r.key # k => r \in R
  BY DEF Without
<1>4. Range(o) \subseteq R
  OBVIOUS
<1> HIDE DEF R
<1>5. Opt(R, k) = o
  <2>1. CASE o = <<>>
    <3>1. ~(\E r \in R : r.key = k)
      BY <1>2, <2>1, EmptyIsSeq
    <3> QED
      BY <2>1, <3>1 DEF Opt
  <2>2. CASE \E r : o = <<r>> /\ r.key = k
    <3>1. PICK r : o = <<r>> /\ r.key = k
      BY <2>2
    <3>2. Range(o) = {r}
      BY <3>1, SingleIsSeq
    <3>3. r \in R /\ \A q \in R : q.key = k => q = r
      BY <1>2, <1>4, <3>2
    <3>4. (CHOOSE q \in R : q.key = k) = r
      BY <3>1, <3>3
    <3> QED
      BY <3>1, <3>3, <3>4 DEF Opt
  <2> QED
    BY <2>1, <2>2 DEF IsOpt
<1>6. ASSUME NEW j, j # k PROVE Opt(R, j) = Opt(S, j)
  <2>1. \A r \in S : r.key = j => r \in R
    BY <1>3, <1>6
  <2>2. \A r \in R : r.key = j => r \in S
    BY <1>2, <1>6
  <2> QED
    BY <2>1, <2>2, OptSame
<1> QED
  BY <1>5, <1>6 DEF R

\* A symbol index holds the states A.
SymbolsAre(index, A) ==
  /\ Well(index) /\ (\A r \in Content(index) : r.key \in SymbolIDs)
  /\ \A id \in SymbolIDs : OptIs(Opt(Content(index), id), id, A[id])

\* One operation takes the states A to B.
StatesStep(A, B, op) ==
  /\ SymOp(op) /\ (op.tag = 2 => A[op.id] # <<>>)
  /\ B[op.id] = StateAfter(A[op.id], op)
  /\ \A id \in SymbolIDs : id # op.id => B[id] = A[id]

SymbolStep(index, op) == Updated(index, op.id, ApplyOneSymbol(Lookup(index, op.id), op))

LEMMA SymbolStepIs ==
  ASSUME NEW index, NEW A, NEW B, NEW op, SymbolsAre(index, A), StatesStep(A, B, op)
  PROVE  SymbolsAre(SymbolStep(index, op), B)
<1> DEFINE S == Content(index)
           k == op.id
           o == ApplyOneSymbol(Opt(S, k), op)
           u == Updated(index, k, o)
<1>1. /\ Well(index) /\ (\A r \in S : r.key \in SymbolIDs)
      /\ \A id \in SymbolIDs : OptIs(Opt(S, id), id, A[id])
  BY DEF SymbolsAre
<1>2. /\ SymOp(op) /\ (op.tag = 2 => A[k] # <<>>) /\ B[k] = StateAfter(A[k], op)
      /\ \A id \in SymbolIDs : id # k => B[id] = A[id]
  BY DEF StatesStep
<1>3. k \in SymbolIDs /\ k \in Nat
  BY <1>2, KeysAssumption DEF SymOp
<1>4. SymbolStep(index, op) = u
  BY <1>1, <1>3, LookupOpt DEF SymbolStep
<1>5. Keyed(S)
  BY <1>1, ContentKeys
<1>6. OptIs(o, k, B[k])
  BY <1>1, <1>2, <1>3, ApplyOneIs
<1>7. IsOpt(o, k)
  BY <1>6, OptIsOptional
<1> HIDE DEF o, S
<1>8. Well(u) /\ Content(u) = Without(S, k) \cup Range(o)
  BY <1>1, <1>3, <1>7, UpdatedWell DEF S
<1>9. \A r \in Content(u) : r.key \in SymbolIDs
  BY <1>1, <1>3, <1>7, <1>8, OptKeys DEF Without
<1>10. ASSUME NEW id \in SymbolIDs PROVE OptIs(Opt(Content(u), id), id, B[id])
  <2>1. CASE id = k
    BY <1>5, <1>6, <1>7, <1>8, <2>1, OptReplaced
  <2>2. CASE id # k
    <3>1. Opt(Content(u), id) = Opt(S, id)
      BY <1>5, <1>7, <1>8, <2>2, OptReplaced
    <3> QED
      BY <1>1, <1>2, <2>2, <3>1
  <2> QED
    BY <2>1, <2>2
<1> HIDE DEF u
<1> QED
  BY <1>4, <1>8, <1>9, <1>10 DEF SymbolsAre

\* The chain of indexes that the sparse application goes through.
SymbolChain(g, index, ops, n) ==
  /\ g[0] = index
  /\ \A i \in 1..n : g[i] = SymbolStep(g[i - 1], ops[i])
  /\ ApplySymbolOperationsSparse(index, ops) = g[n]

LEMMA SymbolSparseChain ==
  ASSUME NEW index, NEW ops, NEW n \in Nat, Len(ops) = n
  PROVE  \E g : SymbolChain(g, index, ops, n)
<1> DEFINE Eq(h, i) == IF i = 0 THEN index ELSE SymbolStep(h[i - 1], ops[i])
           Right(h, k) == \A i \in 0..n : i <= k => h[i] = Eq(h, i)
           K == {k \in Nat : \E h : Right(h, k)}
<1>1. 0 \in K
  <2> DEFINE h == [i \in 0..n |-> index]
  <2>1. Right(h, 0)
    OBVIOUS
  <2> HIDE DEF Right, h
  <2> QED
    BY <2>1
<1>2. ASSUME NEW k \in Nat, k \in K PROVE k + 1 \in K
  <2>1. PICK h : Right(h, k)
    BY <1>2
  <2> DEFINE f == [i \in 0..n |-> Eq(h, i)]
  <2>2. \A i \in 0..n : i <= k => f[i] = h[i]
    BY <2>1
  <2>3. ASSUME NEW i \in 0..n, i <= k + 1 PROVE f[i] = Eq(f, i)
    <3>1. f[i] = Eq(h, i)
      OBVIOUS
    <3>2. CASE i = 0
      BY <3>1, <3>2
    <3>3. CASE i # 0
      <4>1. i - 1 \in 0..n /\ i - 1 <= k
        BY <2>3, <3>3
      <4>2. f[i - 1] = h[i - 1]
        BY <2>2, <4>1
      <4> HIDE DEF f
      <4> QED
        BY <3>1, <3>3, <4>2
    <3> QED
      BY <3>2, <3>3
  <2>4. Right(f, k + 1)
    BY <2>3
  <2> HIDE DEF Right, f
  <2> QED
    BY <2>4
<1> HIDE DEF K
<1>3. n \in K
  BY <1>1, <1>2, SetInduction
<1>4. PICK h : Right(h, n)
  BY <1>3 DEF K
<1> DEFINE f == [i \in 0..n |-> h[i]]
<1>5. ASSUME NEW i \in 0..n PROVE f[i] = Eq(f, i)
  <2>1. h[i] = Eq(h, i)
    BY <1>4
  <2>2. i = 0 \/ i - 1 \in 0..n
    OBVIOUS
  <2> QED
    BY <2>1, <2>2
<1>6. f = [i \in 0..n |-> Eq(f, i)]
  BY <1>5
<1> HIDE DEF f
<1> DEFINE g == CHOOSE e : e = [i \in 0..n |-> Eq(e, i)]
<1>7. g = [i \in 0..n |-> Eq(g, i)]
  BY <1>6, Zenon
<1>8. ApplySymbolOperationsSparse(index, ops) = g[n]
  BY DEF ApplySymbolOperationsSparse, SymbolStep
<1> HIDE DEF g
<1>9. g[0] = index /\ \A i \in 1..n : g[i] = SymbolStep(g[i - 1], ops[i])
  <2>1. \A i \in 0..n : g[i] = Eq(g, i)
    BY <1>7, Zenon
  <2>2. 0 \in 0..n /\ \A i \in 1..n : i \in 0..n /\ i # 0
    OBVIOUS
  <2> QED
    BY <2>1, <2>2, Zenon
<1>10. SymbolChain(g, index, ops, n)
  BY <1>8, <1>9 DEF SymbolChain
<1> QED
  BY <1>10

\* The operations take the states A[0] to A[n], one after the other.
StatesRun(A, ops, n) == \A i \in 1..n : StatesStep(A[i - 1], A[i], ops[i])

\* Symbol operations applied one by one.
LEMMA SymbolSparse ==
  ASSUME NEW index, NEW A, NEW ops, NEW n \in Nat, Len(ops) = n,
         SymbolsAre(index, A[0]), StatesRun(A, ops, n)
  PROVE  SymbolsAre(ApplySymbolOperationsSparse(index, ops), A[n])
<1>0. PICK g : SymbolChain(g, index, ops, n)
  BY SymbolSparseChain
<1>1. /\ g[0] = index
      /\ \A i \in 1..n : g[i] = SymbolStep(g[i - 1], ops[i])
      /\ ApplySymbolOperationsSparse(index, ops) = g[n]
  BY <1>0 DEF SymbolChain
<1> DEFINE Good(i) == SymbolsAre(g[i], A[i])
           K == {i \in Nat : i <= n => Good(i)}
<1>2. 0 \in K
  BY <1>1
<1>3. ASSUME NEW i \in Nat, i \in K PROVE i + 1 \in K
  <2> SUFFICES ASSUME i + 1 <= n PROVE Good(i + 1)
    OBVIOUS
  <2>1. SymbolsAre(g[i], A[i])
    BY <1>3
  <2>2. i + 1 \in 1..n /\ (i + 1) - 1 = i
    OBVIOUS
  <2>3. StatesStep(A[i], A[i + 1], ops[i + 1]) /\ g[i + 1] = SymbolStep(g[i], ops[i + 1])
    BY <1>1, <2>2 DEF StatesRun
  <2> QED
    BY <2>1, <2>3, SymbolStepIs
<1> HIDE DEF K, Good
<1>4. n \in K
  BY <1>2, <1>3, SetInduction
<1>5. Good(n)
  BY <1>4 DEF K
<1> QED
  BY <1>1, <1>5 DEF Good

\* One step of the operations of one symbol.
OwnStep(ops, id, o, i) == IF ops[i].id = id THEN ApplyOneSymbol(o, ops[i]) ELSE o

LEMMA OwnChain ==
  ASSUME NEW ops, NEW id, NEW o, NEW n \in Nat, Len(ops) = n
  PROVE  \E g : /\ g[0] = o
                /\ \A i \in 1..n : g[i] = OwnStep(ops, id, g[i - 1], i)
                /\ ApplyOwn(ops, id, o) = g[n]
<1> DEFINE Eq(h, i) == IF i = 0 THEN o ELSE OwnStep(ops, id, h[i - 1], i)
           Right(h, k) == \A i \in 0..n : i <= k => h[i] = Eq(h, i)
           K == {k \in Nat : \E h : Right(h, k)}
<1>1. 0 \in K
  <2> DEFINE h == [i \in 0..n |-> o]
  <2>1. Right(h, 0)
    OBVIOUS
  <2> HIDE DEF Right, h
  <2> QED
    BY <2>1
<1>2. ASSUME NEW k \in Nat, k \in K PROVE k + 1 \in K
  <2>1. PICK h : Right(h, k)
    BY <1>2
  <2> DEFINE f == [i \in 0..n |-> Eq(h, i)]
  <2>2. \A i \in 0..n : i <= k => f[i] = h[i]
    BY <2>1
  <2>3. ASSUME NEW i \in 0..n, i <= k + 1 PROVE f[i] = Eq(f, i)
    <3>1. f[i] = Eq(h, i)
      OBVIOUS
    <3>2. CASE i = 0
      BY <3>1, <3>2
    <3>3. CASE i # 0
      <4>1. i - 1 \in 0..n /\ i - 1 <= k
        BY <2>3, <3>3
      <4>2. f[i - 1] = h[i - 1]
        BY <2>2, <4>1
      <4> HIDE DEF f
      <4> QED
        BY <3>1, <3>3, <4>2
    <3> QED
      BY <3>2, <3>3
  <2>4. Right(f, k + 1)
    BY <2>3
  <2> HIDE DEF Right, f
  <2> QED
    BY <2>4
<1> HIDE DEF K
<1>3. n \in K
  BY <1>1, <1>2, SetInduction
<1>4. PICK h : Right(h, n)
  BY <1>3 DEF K
<1> DEFINE f == [i \in 0..n |-> h[i]]
<1>5. ASSUME NEW i \in 0..n PROVE f[i] = Eq(f, i)
  <2>1. h[i] = Eq(h, i)
    BY <1>4
  <2>2. i = 0 \/ i - 1 \in 0..n
    OBVIOUS
  <2> QED
    BY <2>1, <2>2
<1>6. f = [i \in 0..n |-> Eq(f, i)]
  BY <1>5
<1> HIDE DEF f
<1> DEFINE g == CHOOSE e : e = [i \in 0..n |-> Eq(e, i)]
<1>7. g = [i \in 0..n |-> Eq(g, i)]
  BY <1>6, Zenon
<1>8. ApplyOwn(ops, id, o) = g[n]
  BY DEF ApplyOwn, OwnStep
<1> HIDE DEF g
<1>9. g[0] = o /\ \A i \in 1..n : g[i] = OwnStep(ops, id, g[i - 1], i)
  <2>1. \A i \in 0..n : g[i] = Eq(g, i)
    BY <1>7, Zenon
  <2>2. 0 \in 0..n /\ \A i \in 1..n : i \in 0..n /\ i # 0
    OBVIOUS
  <2> QED
    BY <2>1, <2>2, Zenon
<1> QED
  BY <1>8, <1>9

\* The operations of one symbol take its state from A[0] to A[n].
LEMMA ApplyOwnIs ==
  ASSUME NEW A, NEW ops, NEW n \in Nat, Len(ops) = n, StatesRun(A, ops, n),
         NEW id \in SymbolIDs, NEW o, OptIs(o, id, A[0][id])
  PROVE  OptIs(ApplyOwn(ops, id, o), id, A[n][id])
<1>1. PICK g : /\ g[0] = o
               /\ \A i \in 1..n : g[i] = OwnStep(ops, id, g[i - 1], i)
               /\ ApplyOwn(ops, id, o) = g[n]
  BY OwnChain
<1> DEFINE Good(i) == OptIs(g[i], id, A[i][id])
           K == {i \in Nat : i <= n => Good(i)}
<1>2. 0 \in K
  BY <1>1
<1>3. ASSUME NEW i \in Nat, i \in K PROVE i + 1 \in K
  <2> SUFFICES ASSUME i + 1 <= n PROVE Good(i + 1)
    OBVIOUS
  <2> DEFINE op == ops[i + 1]
  <2>1. OptIs(g[i], id, A[i][id])
    BY <1>3
  <2>2. i + 1 \in 1..n /\ (i + 1) - 1 = i
    OBVIOUS
  <2>3. g[i + 1] = OwnStep(ops, id, g[i], i + 1)
    BY <1>1, <2>2
  <2>4. StatesStep(A[i], A[i + 1], op)
    BY <2>2 DEF StatesRun
  <2>5. CASE op.id = id
    <3>1. /\ SymOp(op) /\ (op.tag = 2 => A[i][op.id] # <<>>)
          /\ A[i + 1][op.id] = StateAfter(A[i][op.id], op)
      BY <2>4 DEF StatesStep
    <3>2. g[i + 1] = ApplyOneSymbol(g[i], op)
      BY <2>3, <2>5 DEF OwnStep
    <3>3. OptIs(g[i], op.id, A[i][op.id]) /\ op.tag = 2 => A[i][op.id] # <<>>
      BY <2>1, <2>5, <3>1
    <3> HIDE DEF op
    <3>4. OptIs(ApplyOneSymbol(g[i], op), op.id, StateAfter(A[i][op.id], op))
      BY <2>1, <2>5, <3>1, <3>3, ApplyOneIs
    <3> QED
      BY <2>5, <3>1, <3>2, <3>4
  <2>6. CASE op.id # id
    <3>1. A[i + 1][id] = A[i][id]
      BY <2>4, <2>6 DEF StatesStep
    <3>2. g[i + 1] = g[i]
      BY <2>3, <2>6 DEF OwnStep
    <3> QED
      BY <2>1, <3>1, <3>2
  <2> QED
    BY <2>5, <2>6
<1> HIDE DEF K, Good
<1>4. n \in K
  BY <1>2, <1>3, SetInduction
<1>5. Good(n)
  BY <1>4 DEF K
<1> QED
  BY <1>1, <1>5 DEF Good

\* A symbol that no operation names keeps its state.
LEMMA UntouchedState ==
  ASSUME NEW A, NEW ops, NEW n \in Nat, StatesRun(A, ops, n),
         NEW id \in SymbolIDs, \A i \in 1..n : ops[i].id # id
  PROVE  A[n][id] = A[0][id]
<1> DEFINE K == {i \in Nat : i <= n => A[i][id] = A[0][id]}
<1>1. 0 \in K
  OBVIOUS
<1>2. ASSUME NEW i \in Nat, i \in K PROVE i + 1 \in K
  <2> SUFFICES ASSUME i + 1 <= n PROVE A[i + 1][id] = A[0][id]
    OBVIOUS
  <2>1. i + 1 \in 1..n /\ (i + 1) - 1 = i /\ A[i][id] = A[0][id]
    BY <1>2
  <2>2. StatesStep(A[i], A[i + 1], ops[i + 1]) /\ ops[i + 1].id # id
    BY <2>1 DEF StatesRun
  <2> QED
    BY <2>1, <2>2 DEF StatesStep
<1> HIDE DEF K
<1>3. n \in K
  BY <1>1, <1>2, SetInduction
<1> QED
  BY <1>3 DEF K

OwnMergeStep(m, k, ops) == MergeOne(m, k, ApplyOwn(ops, k, Hit(m.rest, k)))

OpIds(ops) == {ops[i].id : i \in DOMAIN ops}

\* The merge states that the linear application goes through.
OwnMergeChain(g, index, ops, keys, n) ==
  /\ g[0] = [merged |-> <<>>, rest |-> Rows(index)]
  /\ \A i \in 1..n : g[i] = OwnMergeStep(g[i - 1], keys[i], ops)
  /\ ApplySymbolOperationsLinear(index, ops) = FromSorted(g[n].merged \o g[n].rest)

LEMMA SymbolLinearChain ==
  ASSUME NEW index, NEW ops, NEW n \in Nat, NEW keys, Len(keys) = n,
         keys = Ascending({ops[i].id : i \in DOMAIN ops})
  PROVE  \E g : OwnMergeChain(g, index, ops, keys, n)
<1> DEFINE first == [merged |-> <<>>, rest |-> Rows(index)]
           Eq(h, i) == IF i = 0 THEN first ELSE OwnMergeStep(h[i - 1], keys[i], ops)
           Right(h, k) == \A i \in 0..n : i <= k => h[i] = Eq(h, i)
           K == {k \in Nat : \E h : Right(h, k)}
<1>1. 0 \in K
  <2> DEFINE h == [i \in 0..n |-> first]
  <2>1. Right(h, 0)
    OBVIOUS
  <2> HIDE DEF Right, h
  <2> QED
    BY <2>1
<1>2. ASSUME NEW k \in Nat, k \in K PROVE k + 1 \in K
  <2>1. PICK h : Right(h, k)
    BY <1>2
  <2> DEFINE f == [i \in 0..n |-> Eq(h, i)]
  <2>2. \A i \in 0..n : i <= k => f[i] = h[i]
    BY <2>1
  <2>3. ASSUME NEW i \in 0..n, i <= k + 1 PROVE f[i] = Eq(f, i)
    <3>1. f[i] = Eq(h, i)
      OBVIOUS
    <3>2. CASE i = 0
      BY <3>1, <3>2
    <3>3. CASE i # 0
      <4>1. i - 1 \in 0..n /\ i - 1 <= k
        BY <2>3, <3>3
      <4>2. f[i - 1] = h[i - 1]
        BY <2>2, <4>1
      <4> HIDE DEF f
      <4> QED
        BY <3>1, <3>3, <4>2
    <3> QED
      BY <3>2, <3>3
  <2>4. Right(f, k + 1)
    BY <2>3
  <2> HIDE DEF Right, f
  <2> QED
    BY <2>4
<1> HIDE DEF K
<1>3. n \in K
  BY <1>1, <1>2, SetInduction
<1>4. PICK h : Right(h, n)
  BY <1>3 DEF K
<1> DEFINE f == [i \in 0..n |-> h[i]]
<1>5. ASSUME NEW i \in 0..n PROVE f[i] = Eq(f, i)
  <2>1. h[i] = Eq(h, i)
    BY <1>4
  <2>2. i = 0 \/ i - 1 \in 0..n
    OBVIOUS
  <2> QED
    BY <2>1, <2>2
<1>6. f = [i \in 0..n |-> Eq(f, i)]
  BY <1>5
<1> HIDE DEF f
<1> DEFINE g == CHOOSE e : e = [i \in 0..n |-> Eq(e, i)]
<1>7. g = [i \in 0..n |-> Eq(g, i)]
  BY <1>6, Zenon
<1>8. ApplySymbolOperationsLinear(index, ops) = FromSorted(g[n].merged \o g[n].rest)
  BY DEF ApplySymbolOperationsLinear, MergeLinear, OwnMergeStep
<1> HIDE DEF g
<1>9. g[0] = first /\ \A i \in 1..n : g[i] = OwnMergeStep(g[i - 1], keys[i], ops)
  <2>1. \A i \in 0..n : g[i] = Eq(g, i)
    BY <1>7, Zenon
  <2>2. 0 \in 0..n /\ \A i \in 1..n : i \in 0..n /\ i # 0
    OBVIOUS
  <2> QED
    BY <2>1, <2>2, Zenon
<1>10. OwnMergeChain(g, index, ops, keys, n)
  BY <1>8, <1>9 DEF OwnMergeChain
<1> QED
  BY <1>10

\* The optional rows of a set after those of some keys were replaced.
LEMMA OptAfterReplaced ==
  ASSUME NEW S, Keyed(S), NEW n \in Nat, NEW keys, NEW news,
         \A i \in 1..n : IsOpt(news[i], keys[i]),
         \A i, j \in 1..n : keys[i] = keys[j] => i = j
  PROVE  /\ \A i \in 1..n : Opt(Replaced(S, keys, news, n), keys[i]) = news[i]
         /\ \A k : (\A i \in 1..n : keys[i] # k) => Opt(Replaced(S, keys, news, n), k) = Opt(S, k)
<1> DEFINE R == Replaced(S, keys, news, n)
<1>1. \A i \in 1..n : \A r \in Range(news[i]) : r.key = keys[i]
  BY OptKeys
<1>2. R = {r \in S : \A j \in 1..n : r.key # keys[j]} \cup UNION {Range(news[j]) : j \in 1..n}
  BY DEF Replaced
<1> HIDE DEF R
<1>3. ASSUME NEW i \in 1..n PROVE Opt(R, keys[i]) = news[i]
  <2> DEFINE o == news[i]
             k == keys[i]
             T == Without({}, k) \cup Range(o)
  <2>1. IsOpt(o, k)
    OBVIOUS
  <2>2. T = Range(o)
    BY DEF Without
  <2>3. \A r \in R : r.key = k => r \in T
    BY <1>1, <1>2, <2>2
  <2>4. \A r \in T : r.key = k => r \in R
    BY <1>2, <2>2
  <2>5. Keyed({})
    BY DEF Keyed
  <2>6. Keyed(T)
    <3>1. CASE o = <<>>
      BY <2>2, <3>1, EmptyIsSeq DEF Keyed
    <3>2. CASE \E r : o = <<r>> /\ r.key = k
      BY <2>2, <3>2, SingleIsSeq DEF Keyed
    <3> QED
      BY <2>1, <3>1, <3>2 DEF IsOpt
  <2> HIDE DEF o, k
  <2>7. Opt(T, k) = o
    BY <2>1, <2>5, OptReplaced
  <2> HIDE DEF T
  <2>8. Opt(R, k) = Opt(T, k)
    BY <2>3, <2>4, <2>6, OptSame
  <2> QED
    BY <2>7, <2>8 DEF o, k
<1>4. ASSUME NEW k, \A i \in 1..n : keys[i] # k PROVE Opt(R, k) = Opt(S, k)
  <2>1. \A r \in S : r.key = k => r \in R
    BY <1>2, <1>4
  <2>2. \A r \in R : r.key = k => r \in S
    BY <1>1, <1>2, <1>4
  <2> QED
    BY <2>1, <2>2, OptSame
<1> QED
  BY <1>3, <1>4 DEF R

\* Symbol operations applied in one pass.
LEMMA SymbolLinear ==
  ASSUME NEW index, NEW A, NEW ops, IsSeq(ops), NEW n \in Nat, Len(ops) = n,
         SymbolsAre(index, A[0]), StatesRun(A, ops, n)
  PROVE  SymbolsAre(ApplySymbolOperationsLinear(index, ops), A[n])
<1> DEFINE S == Content(index)
           I == {ops[i].id : i \in DOMAIN ops}
           keys == Ascending(I)
           q == Len(keys)
           rows == Rows(index)
           u == ApplySymbolOperationsLinear(index, ops)
<1>1. /\ Well(index) /\ (\A r \in S : r.key \in SymbolIDs)
      /\ \A id \in SymbolIDs : OptIs(Opt(S, id), id, A[0][id])
  BY DEF SymbolsAre
<1>2. DOMAIN ops = 1..n
  BY SeqFacts
<1>3. \A i \in 1..n : ops[i].id \in SymbolIDs
  BY DEF StatesRun, StatesStep, SymOp
<1>4. I \subseteq SymbolIDs /\ I \in SUBSET Nat /\ IsFiniteSet(I)
  <2>1. I \subseteq SymbolIDs
    BY <1>2, <1>3
  <2>2. IsFiniteSet(SymbolIDs)
    BY TableAssumption
  <2> HIDE DEF I
  <2> QED
    BY <2>1, <2>2, KeysAssumption, FS_Subset
<1>5. \A id \in I : \E i \in 1..n : ops[i].id = id
  BY <1>2
<1>6. \A i \in 1..n : ops[i].id \in I
  BY <1>2
<1>7. Enumerates(keys, I)
  BY <1>4, AscendingEnumerates
<1>8. q \in Nat
  BY <1>7, SeqFacts DEF Enumerates
<1>9. PICK m : OwnMergeChain(m, index, ops, keys, q)
  <2>1. keys = Ascending({ops[i].id : i \in DOMAIN ops}) /\ Len(keys) = q
    OBVIOUS
  <2> HIDE DEF keys, q
  <2> QED
    BY <1>8, <2>1, SymbolLinearChain
<1>10. Keyed(S) /\ Sorted(rows) /\ Range(rows) = S
  BY <1>1, ContentKeys, RowsSorted
<1> HIDE DEF I, keys, q, u, S
<1>11. \A i \in 1..q : keys[i] \in I /\ keys[i] \in SymbolIDs /\ keys[i] \in Nat
  BY <1>4, <1>7 DEF Enumerates, q
<1>12. \A i, j \in 1..q : i < j => keys[i] < keys[j]
  BY <1>7 DEF Enumerates, q
<1>13. \A id \in I : \E i \in 1..q : keys[i] = id
  BY <1>7 DEF Enumerates, q
<1> DEFINE got == [i \in 1..q |-> ApplyOwn(ops, keys[i], Hit(m[i - 1].rest, keys[i]))]
<1>14. Merging(m, rows, keys, got, q)
  BY <1>9 DEF Merging, OwnMergeChain, OwnMergeStep
<1>15. ASSUME NEW i \in 1..q, Hit(m[i - 1].rest, keys[i]) = Opt(Range(rows), keys[i])
       PROVE  OptIs(got[i], keys[i], A[n][keys[i]])
  <2> DEFINE id == keys[i]
             o == Opt(S, id)
  <2>1. id \in SymbolIDs /\ OptIs(o, id, A[0][id])
    BY <1>1, <1>11
  <2>2. got[i] = ApplyOwn(ops, id, o)
    BY <1>10, <1>15
  <2> HIDE DEF id, o, got
  <2>3. OptIs(ApplyOwn(ops, id, o), id, A[n][id])
    BY <2>1, ApplyOwnIs
  <2> QED
    BY <2>2, <2>3 DEF id
<1> HIDE DEF got, rows
<1>16. /\ \A i \in 1..q : Hit(m[i - 1].rest, keys[i]) = Opt(Range(rows), keys[i])
       /\ Sorted(m[q].merged \o m[q].rest)
       /\ Range(m[q].merged \o m[q].rest) = Replaced(Range(rows), keys, got, q)
  <2>1. \A i \in 1..q : Hit(m[i - 1].rest, keys[i]) = Opt(Range(rows), keys[i])
                           => IsOpt(got[i], keys[i])
    BY <1>15, OptIsOptional
  <2>2. \A i \in 1..q : keys[i] \in Nat
    BY <1>11
  <2> QED
    BY <1>8, <1>10, <1>12, <1>14, <2>1, <2>2, MergeRun
<1>17. \A i \in 1..q : OptIs(got[i], keys[i], A[n][keys[i]]) /\ IsOpt(got[i], keys[i])
  BY <1>15, <1>16, OptIsOptional
<1> DEFINE R == Replaced(S, keys, got, q)
<1>18. Well(u) /\ Content(u) = R
  <2>1. u = FromSorted(m[q].merged \o m[q].rest)
    BY <1>9 DEF OwnMergeChain, u
  <2> QED
    BY <1>10, <1>16, <2>1, FromSortedWell
<1>19. \A i, j \in 1..q : keys[i] = keys[j] => i = j
  <2> SUFFICES ASSUME NEW i \in 1..q, NEW j \in 1..q, keys[i] = keys[j] PROVE i = j
    OBVIOUS
  <2>1. keys[i] \in Nat /\ keys[j] \in Nat /\ ~(i < j) /\ ~(j < i)
    BY <1>11, <1>12
  <2> QED
    BY <1>8, <2>1
<1>20. /\ \A i \in 1..q : Opt(R, keys[i]) = got[i]
       /\ \A k : (\A i \in 1..q : keys[i] # k) => Opt(R, k) = Opt(S, k)
  BY <1>8, <1>10, <1>17, <1>19, OptAfterReplaced
<1>21. \A r \in R : r.key \in SymbolIDs
  BY <1>1, <1>11, <1>17, OptKeys DEF Replaced
<1> HIDE DEF R
<1>22. ASSUME NEW id \in SymbolIDs PROVE OptIs(Opt(R, id), id, A[n][id])
  <2>1. CASE id \in I
    <3>1. PICK i \in 1..q : keys[i] = id
      BY <1>13, <2>1
    <3> QED
      BY <1>17, <1>20, <3>1
  <2>2. CASE id \notin I
    <3>1. Opt(R, id) = Opt(S, id)
      BY <1>11, <1>20, <2>2
    <3>2. \A i \in 1..n : ops[i].id # id
      BY <1>6, <2>2
    <3>3. A[n][id] = A[0][id]
      BY <3>2, UntouchedState
    <3> QED
      BY <1>1, <3>1, <3>3
  <2> QED
    BY <2>1, <2>2
<1>23. SymbolsAre(u, A[n])
  BY <1>18, <1>21, <1>22 DEF SymbolsAre
<1> QED
  BY <1>23 DEF u

-----------------------------------------------------------------------------
(* Symbol plans: the operations from one table to another. *)

SameHead(o, f) == o.alias = f.alias /\ o.decl = f.decl

\* One operation of a plan: it says what new has.
SymOpRight(op, old, new) ==
  /\ SymOp(op)
  /\ op.tag = 0 => op.id \in DOMAIN new.symbols /\ op.fact = new.symbols[op.id]
  /\ op.tag = 1 => op.id \notin DOMAIN new.symbols
  /\ op.tag = 2 => /\ op.id \in DOMAIN old.symbols /\ op.id \in DOMAIN new.symbols
                   /\ SameHead(old.symbols[op.id], new.symbols[op.id])
                   /\ old.symbols[op.id].alias = 0
                   /\ op.refs = RunOf(new.symbols[op.id].refs, op.path)

\* An operation that is not on references is the only one on its symbol.
SymOpsAlone(ops) ==
  \A i, j \in 1..Len(ops) : ops[i].id = ops[j].id /\ i # j => ops[i].tag = 2 /\ ops[j].tag = 2

\* What the operations leave out has not changed.
SymOpsCover(ops, old, new) ==
  /\ \A id \in SymbolIDs : (\A i \in 1..Len(ops) : ops[i].id # id) => StateOf(old, id) = StateOf(new, id)
  /\ \A i \in 1..Len(ops) : ops[i].tag = 2 =>
       \A p \in Nat : (\A j \in 1..Len(ops) : ops[j].id = ops[i].id => ops[j].path # p) =>
         RunOf(old.symbols[ops[i].id].refs, p) = RunOf(new.symbols[ops[i].id].refs, p)

SymPlanRight(ops, old, new) ==
  /\ IsSeq(ops)
  /\ \A i \in 1..Len(ops) : SymOpRight(ops[i], old, new)
  /\ SymOpsAlone(ops)
  /\ SymOpsCover(ops, old, new)

\* A symbol on its way from the fact o to the fact f, the references of the
\* paths in D replaced.
MixedRun(o, f, D) == [p \in Nat |-> IF p \in D THEN RunOf(f.refs, p) ELSE RunOf(o.refs, p)]

Mixed(o, f, D) == <<[alias |-> f.alias, decl |-> f.decl, run |-> MixedRun(o, f, D)]>>

LEMMA MixedNone ==
  ASSUME NEW o, NEW f, SameHead(o, f)
  PROVE  Mixed(o, f, {}) = <<SymState(o)>>
<1>1. MixedRun(o, f, {}) = RunsOf(o.refs)
  BY DEF MixedRun, RunsOf
<1> QED
  BY <1>1 DEF Mixed, SymState, SameHead

LEMMA MixedStep ==
  ASSUME NEW o, NEW f, NEW D, NEW p \in Nat
  PROVE  RunReplaced(MixedRun(o, f, D), p, RunOf(f.refs, p)) = MixedRun(o, f, D \cup {p})
  BY DEF RunReplaced, MixedRun

LEMMA MixedAll ==
  ASSUME NEW o, NEW f, NEW D, \A p \in Nat : p \notin D => RunOf(o.refs, p) = RunOf(f.refs, p)
  PROVE  Mixed(o, f, D) = <<SymState(f)>>
<1>1. MixedRun(o, f, D) = RunsOf(f.refs)
  BY DEF MixedRun, RunsOf
<1> QED
  BY <1>1 DEF Mixed, SymState

\* The state of a symbol after the first i operations.
SettledBy(ops, i, id) == \E j \in 1..i : ops[j].id = id /\ ops[j].tag # 2

PathsBy(ops, i, id) == {ops[j].path : j \in {k \in 1..i : ops[k].id = id /\ ops[k].tag = 2}}

Stays(old, new, id) ==
  id \in DOMAIN old.symbols /\ id \in DOMAIN new.symbols /\ SameHead(old.symbols[id], new.symbols[id])

StateAt(ops, old, new, i, id) ==
  IF SettledBy(ops, i, id) THEN StateOf(new, id)
  ELSE IF Stays(old, new, id) THEN Mixed(old.symbols[id], new.symbols[id], PathsBy(ops, i, id))
  ELSE StateOf(old, id)

PlanStates(ops, old, new) ==
  [i \in 0..Len(ops) |-> [id \in SymbolIDs |-> StateAt(ops, old, new, i, id)]]

\* Before the operations a symbol has the state of the old table.
LEMMA StateFirst ==
  ASSUME NEW ops, NEW old, NEW new, NEW i \in Nat, NEW id, \A j \in 1..i : ops[j].id # id
  PROVE  StateAt(ops, old, new, i, id) = StateOf(old, id)
<1>1. ~SettledBy(ops, i, id) /\ PathsBy(ops, i, id) = {}
  BY DEF SettledBy, PathsBy
<1>2. CASE Stays(old, new, id)
  <2>1. StateOf(old, id) = <<SymState(old.symbols[id])>>
    BY <1>2 DEF Stays, StateOf
  <2>2. Mixed(old.symbols[id], new.symbols[id], {}) = <<SymState(old.symbols[id])>>
    BY <1>2, MixedNone DEF Stays
  <2> QED
    BY <1>1, <1>2, <2>1, <2>2 DEF StateAt
<1>3. CASE ~Stays(old, new, id)
  BY <1>1, <1>3 DEF StateAt
<1> QED
  BY <1>2, <1>3

\* After the operations it has the state of the new one.
LEMMA StateLast ==
  ASSUME NEW ops, NEW old, NEW new, SymPlanRight(ops, old, new), NEW id \in SymbolIDs
  PROVE  StateAt(ops, old, new, Len(ops), id) = StateOf(new, id)
<1> DEFINE n == Len(ops)
<1>1. n \in Nat
  BY SeqFacts DEF SymPlanRight
<1>2. CASE \A j \in 1..n : ops[j].id # id
  <2>1. StateAt(ops, old, new, n, id) = StateOf(old, id)
    BY <1>1, <1>2, StateFirst
  <2> QED
    BY <1>2, <2>1 DEF SymPlanRight, SymOpsCover
<1>3. CASE SettledBy(ops, n, id)
  BY <1>3 DEF StateAt
<1>4. CASE ~SettledBy(ops, n, id) /\ \E j \in 1..n : ops[j].id = id
  <2>1. PICK j \in 1..n : ops[j].id = id
    BY <1>4
  <2>2. ops[j].tag = 2
    BY <1>4, <2>1 DEF SettledBy
  <2>3. SymOpRight(ops[j], old, new)
    BY DEF SymPlanRight
  <2>4. Stays(old, new, id)
    BY <2>1, <2>2, <2>3 DEF SymOpRight, Stays
  <2>5. \A k \in 1..n : ops[k].id = id => ops[k].tag = 2
    BY <1>4 DEF SettledBy
  <2> DEFINE D == PathsBy(ops, n, id)
  <2>6. \A k \in 1..n : ops[k].id = id => ops[k].path \in D
    BY <2>5 DEF PathsBy
  <2> HIDE DEF D
  <2>7. \A p \in Nat : p \notin D => RunOf(old.symbols[id].refs, p) = RunOf(new.symbols[id].refs, p)
    <3> SUFFICES ASSUME NEW p \in Nat, p \notin D
                 PROVE  RunOf(old.symbols[id].refs, p) = RunOf(new.symbols[id].refs, p)
      OBVIOUS
    <3>1. \A k \in 1..n : ops[k].id = ops[j].id => ops[k].path # p
      BY <2>1, <2>6
    <3>2. SymOpsCover(ops, old, new)
      BY DEF SymPlanRight
    <3> QED
      BY <2>1, <2>2, <3>1, <3>2 DEF SymOpsCover
  <2>8. Mixed(old.symbols[id], new.symbols[id], D) = <<SymState(new.symbols[id])>>
    BY <2>7, MixedAll
  <2>9. StateOf(new, id) = <<SymState(new.symbols[id])>>
    BY <2>4 DEF Stays, StateOf
  <2> QED
    BY <1>4, <2>4, <2>8, <2>9 DEF StateAt, D
<1> QED
  BY <1>2, <1>3, <1>4

\* Each operation takes the states before it to the states after it.
LEMMA PlanStep ==
  ASSUME NEW ops, NEW old, NEW new, SymPlanRight(ops, old, new), NEW i \in 1..Len(ops),
         NEW A, NEW B,
         \A id \in SymbolIDs : A[id] = StateAt(ops, old, new, i - 1, id),
         \A id \in SymbolIDs : B[id] = StateAt(ops, old, new, i, id)
  PROVE  StatesStep(A, B, ops[i])
<1> DEFINE op == ops[i]
           n == Len(ops)
           k == op.id
<1>1. n \in Nat /\ i - 1 \in Nat
  BY SeqFacts DEF SymPlanRight
<1>2. SymOpRight(op, old, new) /\ SymOpsAlone(ops)
  BY DEF SymPlanRight
<1>3. SymOp(op) /\ k \in SymbolIDs
  BY <1>2 DEF SymOpRight, SymOp
<1>4. \A j \in 1..i : j \in 1..(i - 1) \/ j = i
  BY <1>1
<1>5. \A j \in 1..(i - 1) : j \in 1..i /\ j \in 1..n /\ j # i
  BY <1>1
<1>6. i \in 1..i
  BY <1>1
<1>7. ASSUME NEW id \in SymbolIDs, id # k PROVE B[id] = A[id]
  <2>1. SettledBy(ops, i, id) = SettledBy(ops, i - 1, id)
    BY <1>4, <1>5, <1>7 DEF SettledBy
  <2>2. {j \in 1..i : ops[j].id = id /\ ops[j].tag = 2} = {j \in 1..(i - 1) : ops[j].id = id /\ ops[j].tag = 2}
    BY <1>4, <1>5, <1>7
  <2>3. PathsBy(ops, i, id) = PathsBy(ops, i - 1, id)
    BY <2>2 DEF PathsBy
  <2> QED
    BY <2>1, <2>3 DEF StateAt
<1>8. CASE op.tag # 2
  <2>1. SettledBy(ops, i, k)
    BY <1>6, <1>8 DEF SettledBy
  <2>2. B[k] = StateOf(new, k)
    BY <1>3, <2>1 DEF StateAt
  <2>3. StateAfter(A[k], op) = StateOf(new, k)
    <3>1. CASE op.tag = 0
      BY <1>2, <3>1 DEF SymOpRight, StateAfter, StateOf
    <3>2. CASE op.tag = 1
      BY <1>2, <3>2 DEF SymOpRight, StateAfter, StateOf
    <3> QED
      BY <1>3, <1>8, <3>1, <3>2 DEF SymOp
  <2> QED
    BY <1>3, <1>7, <1>8, <2>2, <2>3 DEF StatesStep
<1>9. CASE op.tag = 2
  <2> DEFINE o == old.symbols[k]
             f == new.symbols[k]
             D == PathsBy(ops, i - 1, k)
             p == op.path
  <2>1. \A j \in 1..n : ops[j].id = k => ops[j].tag = 2
    BY <1>2, <1>9 DEF SymOpsAlone
  <2>2. ~SettledBy(ops, i, k) /\ ~SettledBy(ops, i - 1, k)
    BY <1>4, <1>5, <2>1 DEF SettledBy
  <2>3. Stays(old, new, k) /\ op.refs = RunOf(f.refs, p) /\ p \in Nat
    BY <1>2, <1>9 DEF SymOpRight, Stays, SymOp
  <2>4. PathsBy(ops, i, k) = D \cup {p}
    <3>1. \A x \in PathsBy(ops, i, k) : x \in D \cup {p}
      BY <1>4 DEF PathsBy
    <3>2. \A x \in D : x \in PathsBy(ops, i, k)
      BY <1>5 DEF PathsBy
    <3>3. p \in PathsBy(ops, i, k)
      BY <1>6, <1>9 DEF PathsBy
    <3> QED
      BY <3>1, <3>2, <3>3
  <2>5. A[k] = Mixed(o, f, D) /\ B[k] = Mixed(o, f, D \cup {p})
    BY <1>3, <2>2, <2>3, <2>4 DEF StateAt
  <2> HIDE DEF o, f, D, p
  <2>6. A[k] # <<>> /\ A[k][1].alias = f.alias /\ A[k][1].decl = f.decl /\ A[k][1].run = MixedRun(o, f, D)
    BY <2>5 DEF Mixed
  <2>7. RunReplaced(MixedRun(o, f, D), p, RunOf(f.refs, p)) = MixedRun(o, f, D \cup {p})
    BY <2>3, MixedStep
  <2>8. StateAfter(A[k], op) = <<[alias |-> A[k][1].alias, decl |-> A[k][1].decl,
                                  run |-> RunReplaced(A[k][1].run, p, op.refs)]>>
    BY <1>9 DEF StateAfter, p
  <2>9. StateAfter(A[k], op) = B[k]
    BY <2>3, <2>5, <2>6, <2>7, <2>8 DEF Mixed
  <2> QED
    BY <1>3, <1>7, <2>6, <2>9 DEF StatesStep
<1> QED
  BY <1>8, <1>9

\* A right plan takes the symbols of one table to those of the other, however
\* it is applied.
LEMMA SymPlanApplied ==
  ASSUME NEW ops, NEW old, NEW new, SymPlanRight(ops, old, new),
         NEW index, SymbolsAre(index, [id \in SymbolIDs |-> StateOf(old, id)])
  PROVE  /\ SymbolsAre(ApplySymbolOperationsSparse(index, ops), [id \in SymbolIDs |-> StateOf(new, id)])
         /\ SymbolsAre(ApplySymbolOperationsLinear(index, ops), [id \in SymbolIDs |-> StateOf(new, id)])
<1> DEFINE A == PlanStates(ops, old, new)
           n == Len(ops)
<1>1. IsSeq(ops) /\ n \in Nat
  BY SeqFacts DEF SymPlanRight
<1>2. \A i \in 0..n : \A id \in SymbolIDs : A[i][id] = StateAt(ops, old, new, i, id)
  BY DEF PlanStates
<1>3. A[0] = [id \in SymbolIDs |-> StateOf(old, id)]
  <2>1. A[0] = [id \in SymbolIDs |-> StateAt(ops, old, new, 0, id)]
    BY <1>1 DEF PlanStates
  <2>2. \A id \in SymbolIDs : StateAt(ops, old, new, 0, id) = StateOf(old, id)
    BY StateFirst
  <2> QED
    BY <2>1, <2>2
<1>4. A[n] = [id \in SymbolIDs |-> StateOf(new, id)]
  <2>1. A[n] = [id \in SymbolIDs |-> StateAt(ops, old, new, n, id)]
    BY <1>1 DEF PlanStates
  <2>2. \A id \in SymbolIDs : StateAt(ops, old, new, n, id) = StateOf(new, id)
    BY StateLast
  <2> QED
    BY <2>1, <2>2
<1> HIDE DEF A
<1>5. StatesRun(A, ops, n)
  <2>1. ASSUME NEW i \in 1..n PROVE StatesStep(A[i - 1], A[i], ops[i])
    <3>1. i \in 0..n /\ i - 1 \in 0..n
      BY <1>1
    <3> QED
      BY <1>2, <3>1, PlanStep
  <2> QED
    BY <2>1 DEF StatesRun
<1>6. SymbolsAre(index, A[0])
  BY <1>3
<1> HIDE DEF n
<1>7. SymbolsAre(ApplySymbolOperationsSparse(index, ops), A[n])
  BY <1>1, <1>5, <1>6, SymbolSparse DEF n
<1>8. SymbolsAre(ApplySymbolOperationsLinear(index, ops), A[n])
  BY <1>1, <1>5, <1>6, SymbolLinear DEF n
<1> QED
  BY <1>4, <1>7, <1>8

\* The client finds the symbol of every reference operation, and no alias.
LEMMA SymPlanValid ==
  ASSUME NEW frame, NEW old, NEW new, SymPlanRight(frame.symbols, old, new),
         NEW t, SymbolsAre(t.symbols, [id \in SymbolIDs |-> StateOf(old, id)])
  PROVE  ValidateDelta(t, frame)
<1> DEFINE ops == frame.symbols
           n == Len(ops)
<1>1. n \in Nat /\ DOMAIN ops = 1..n
  BY SeqFacts DEF SymPlanRight
<1>2. ASSUME NEW i \in 1..n, ops[i].tag = 2
      PROVE  /\ {j \in 1..(i - 1) : ops[j].id = ops[i].id /\ ops[j].tag # 2} = {}
             /\ Lookup(t.symbols, ops[i].id) # <<>>
             /\ Lookup(t.symbols, ops[i].id)[1].val.alias = 0
  <2> DEFINE k == ops[i].id
             o == Lookup(t.symbols, k)
  <2>1. SymOpRight(ops[i], old, new) /\ SymOpsAlone(ops)
    BY DEF SymPlanRight
  <2>2. \A j \in 1..(i - 1) : j \in 1..n /\ j # i
    BY <1>1
  <2>3. {j \in 1..(i - 1) : ops[j].id = ops[i].id /\ ops[j].tag # 2} = {}
    BY <2>1, <2>2 DEF SymOpsAlone
  <2>4. k \in SymbolIDs /\ k \in Nat /\ k \in DOMAIN old.symbols /\ old.symbols[k].alias = 0
    BY <1>2, <2>1, KeysAssumption DEF SymOpRight, SymOp
  <2>5. OptIs(o, k, StateOf(old, k))
    BY <2>4, LookupOpt DEF SymbolsAre
  <2>6. StateOf(old, k) = <<SymState(old.symbols[k])>> /\ SymState(old.symbols[k]).alias = 0
    BY <2>4 DEF StateOf, SymState
  <2> HIDE DEF o, k
  <2>7. PICK r, s : o = <<r>> /\ StateOf(old, k) = <<s>> /\ SymIs(r.val, s.alias, s.decl, s.run)
    BY <2>5, <2>6 DEF OptIs
  <2>8. s = SymState(old.symbols[k]) /\ s.alias = 0
    BY <2>6, <2>7
  <2>9. r.val.alias = 0
    BY <2>7, <2>8 DEF SymIs
  <2> QED
    BY <2>3, <2>7, <2>9 DEF o, k
<1> QED
  BY <1>1, <1>2 DEF ValidateDelta

\* The references of one path are in order and all of that path.
LEMMA RunDecodes ==
  ASSUME NEW f \in SymbolFacts, NEW p \in Nat
  PROVE  /\ IsSeq(RunOf(f.refs, p)) /\ CanonicalLocations(RunOf(f.refs, p))
         /\ RefPaths(RunOf(f.refs, p)) \subseteq {p}
<1> DEFINE refs == f.refs
           u == RunOf(refs, p)
           b == RefsBefore(refs, p)
           c == RefsOn(refs, p)
           n == Len(refs)
<1>1. RefSeq(refs) /\ CanonicalLocations(refs)
  BY FactShape
<1> HIDE DEF refs
<1>2. b \in Nat /\ c \in Nat /\ b + c <= n /\ n \in Nat
  BY <1>1, RunPlace, SeqFacts DEF RefSeq
<1>3. /\ IsSeq(RunOf(refs, p)) /\ Len(RunOf(refs, p)) = RefsOn(refs, p)
      /\ \A j \in 1..RefsOn(refs, p) :
              /\ RefsBefore(refs, p) + j \in 1..Len(refs)
              /\ RunOf(refs, p)[j] = refs[RefsBefore(refs, p) + j]
              /\ RunOf(refs, p)[j].path = p
  BY <1>1, RunShape, Zenon
<1> HIDE DEF u, b, c, n
<1>31. /\ IsSeq(u) /\ Len(u) = c
       /\ \A j \in 1..c : u[j] = refs[b + j] /\ u[j].path = p
  BY <1>3, Zenon DEF u, b, c
<1>4. CanonicalLocations(u)
  <2> SUFFICES ASSUME NEW i \in 1..(c - 1)
               PROVE  \/ u[i].path < u[i + 1].path
                      \/ u[i].path = u[i + 1].path /\ u[i].at <= u[i + 1].at
    BY <1>31 DEF CanonicalLocations
  <2> DEFINE k == b + i
  <2>1. i \in 1..c /\ i + 1 \in 1..c /\ k \in 1..(n - 1) /\ b + (i + 1) = k + 1
    BY <1>2
  <2>2. u[i] = refs[k] /\ u[i + 1] = refs[b + (i + 1)]
    BY <1>31, <2>1
  <2>3. u[i + 1] = refs[k + 1]
    BY <2>1, <2>2
  <2> HIDE DEF k
  <2> QED
    BY <1>1, <2>1, <2>2, <2>3 DEF CanonicalLocations, n
<1>5. RefPaths(u) \subseteq {p}
  <2>1. DOMAIN u = 1..c
    BY <1>31, SeqFacts
  <2> QED
    BY <1>31, <2>1 DEF RefPaths
<1> QED
  BY <1>31, <1>4, <1>5 DEF u, refs

\* What every symbol planner guarantees.
SymPlanOk(ops, old, new) ==
  /\ SymPlanRight(ops, old, new)
  /\ \A i \in 1..Len(ops) : DecodesSymbol("delta", ops[i])
  /\ \A i \in 1..(Len(ops) - 1) : SymbolKeyBefore(ops[i], ops[i + 1])

\* The operation that sends a whole symbol, or that it is gone.
WholeOp(op, id, new) ==
  IF id \in DOMAIN new.symbols THEN op = ReplaceSymbol(id, new.symbols[id]) ELSE op = RemoveSymbol(id)

LEMMA WholeOpDecodes ==
  ASSUME NEW new, TableRows(new), NEW id \in SymbolIDs, NEW op, WholeOp(op, id, new)
  PROVE  /\ SymOp(op) /\ op.id = id /\ op.tag # 2
         /\ op.tag = 0 => op.id \in DOMAIN new.symbols /\ op.fact = new.symbols[op.id]
         /\ op.tag = 1 => op.id \notin DOMAIN new.symbols
         /\ DecodesSymbol("delta", op)
         /\ id \in DOMAIN new.symbols => DecodesSymbol("full", op) /\ op.fact = new.symbols[id]
<1>1. CASE id \in DOMAIN new.symbols
  <2> DEFINE f == new.symbols[id]
  <2>1. f \in SymbolFacts
    BY <1>1 DEF TableRows
  <2>2. op = [id |-> id, tag |-> 0, fact |-> f, path |-> 0]
    BY <1>1 DEF WholeOp, ReplaceSymbol
  <2> HIDE DEF f
  <2>3. op.id = id /\ op.tag = 0 /\ op.fact = f
    BY <2>2
  <2>4. CanonicalLocations(f.refs) /\ (f.alias # 0 => f.refs = <<>>)
    BY <2>1, FactShape
  <2>5. DecodesSymbol("delta", op) /\ DecodesSymbol("full", op)
    BY <2>3, <2>4 DEF DecodesSymbol
  <2>6. SymOp(op)
    BY <2>1, <2>3 DEF SymOp
  <2> QED
    BY <1>1, <2>3, <2>5, <2>6 DEF f
<1>2. CASE id \notin DOMAIN new.symbols
  <2>1. op.id = id /\ op.tag = 1
    BY <1>2 DEF WholeOp, RemoveSymbol
  <2>2. DecodesSymbol("delta", op)
    BY <2>1 DEF DecodesSymbol
  <2>3. SymOp(op)
    BY <2>1 DEF SymOp
  <2> QED
    BY <1>2, <2>1, <2>2, <2>3
<1> QED
  BY <1>1, <1>2

\* A symbol that did not change has one state.
LEMMA UnchangedState ==
  ASSUME NEW old, NEW new, TableRows(old), TableRows(new), NEW id, id \notin ChangedSymbols(old, new)
  PROVE  StateOf(old, id) = StateOf(new, id)
  BY DEF ChangedSymbols, StateOf

LEMMA AscendingIds ==
  ASSUME NEW C \in SUBSET SymbolIDs
  PROVE  Enumerates(Ascending(C), C)
<1>1. C \in SUBSET Nat /\ IsFiniteSet(C)
  BY TableAssumption, KeysAssumption, FS_Subset
<1> QED
  BY <1>1, AscendingEnumerates

\* Whole operations on all the symbols that changed.
LEMMA WholePlan ==
  ASSUME NEW old, NEW new, TableRows(old), TableRows(new),
         NEW C \in SUBSET SymbolIDs, ChangedSymbols(old, new) \subseteq C,
         NEW s, Enumerates(s, C), NEW ops, IsSeq(ops), Len(ops) = Len(s),
         \A i \in 1..Len(s) : WholeOp(ops[i], s[i], new)
  PROVE  SymPlanOk(ops, old, new)
<1> DEFINE n == Len(s)
<1>1. /\ n \in Nat /\ (\A i \in 1..n : s[i] \in C /\ s[i] \in SymbolIDs /\ s[i] \in Nat)
      /\ (\A i, j \in 1..n : i < j => s[i] < s[j])
      /\ \A id \in C : \E i \in 1..n : s[i] = id
  BY SeqFacts, KeysAssumption DEF Enumerates
<1>2. \A i \in 1..n : SymOpRight(ops[i], old, new) /\ ops[i].id = s[i] /\ ops[i].tag # 2
                      /\ DecodesSymbol("delta", ops[i])
  <2> SUFFICES ASSUME NEW i \in 1..n
               PROVE  /\ SymOpRight(ops[i], old, new) /\ ops[i].id = s[i] /\ ops[i].tag # 2
                      /\ DecodesSymbol("delta", ops[i])
    OBVIOUS
  <2> DEFINE op == ops[i]
             id == s[i]
  <2>1. id \in SymbolIDs /\ WholeOp(op, id, new)
    BY <1>1
  <2> HIDE DEF op, id
  <2>2. /\ SymOp(op) /\ op.id = id /\ op.tag # 2
        /\ op.tag = 0 => op.id \in DOMAIN new.symbols /\ op.fact = new.symbols[op.id]
        /\ op.tag = 1 => op.id \notin DOMAIN new.symbols
        /\ DecodesSymbol("delta", op)
    BY <2>1, WholeOpDecodes
  <2>3. SymOpRight(op, old, new)
    BY <2>2 DEF SymOpRight
  <2> QED
    BY <2>2, <2>3 DEF op, id
<1> HIDE DEF n
<1>3. SymOpsAlone(ops)
  <2> SUFFICES ASSUME NEW i \in 1..n, NEW j \in 1..n, ops[i].id = ops[j].id, i # j PROVE FALSE
    BY DEF SymOpsAlone, n
  <2>1. s[i] = s[j] /\ s[i] \in Nat
    BY <1>1, <1>2
  <2>2. i < j \/ j < i
    BY <1>1
  <2> QED
    BY <1>1, <2>1, <2>2
<1>4. SymOpsCover(ops, old, new)
  <2>1. ASSUME NEW id \in SymbolIDs, \A i \in 1..n : ops[i].id # id
        PROVE  StateOf(old, id) = StateOf(new, id)
    <3>1. id \notin C
      BY <1>1, <1>2, <2>1
    <3> QED
      BY <3>1, UnchangedState
  <2> QED
    BY <1>2, <2>1 DEF SymOpsCover, n
<1>5. ASSUME NEW i \in 1..(n - 1) PROVE SymbolKeyBefore(ops[i], ops[i + 1])
  <2>1. i \in 1..n /\ i + 1 \in 1..n /\ i < i + 1
    BY <1>1
  <2> QED
    BY <1>1, <1>2, <2>1 DEF SymbolKeyBefore
<1> QED
  BY <1>2, <1>3, <1>4, <1>5 DEF SymPlanOk, SymPlanRight, n

\* The plan of a delta without a manifest.
LEMMA FallbackSymPlan ==
  ASSUME NEW old, NEW new, TableRows(old), TableRows(new)
  PROVE  SymPlanOk(PlanFallbackSymbolDelta(old, new), old, new)
<1> DEFINE C == ChangedSymbols(old, new)
           s == Ascending(C)
           n == Len(s)
           ops == PlanFallbackSymbolDelta(old, new)
<1>1. C \in SUBSET SymbolIDs
  BY DEF ChangedSymbols, TableRows
<1>2. Enumerates(s, C)
  BY <1>1, AscendingIds
<1>3. n \in Nat /\ DOMAIN s = 1..n
  BY <1>2, SeqFacts DEF Enumerates
<1>4. ops = [i \in DOMAIN s |-> IF s[i] \in DOMAIN new.symbols
                                THEN ReplaceSymbol(s[i], new.symbols[s[i]])
                                ELSE RemoveSymbol(s[i])]
  BY DEF PlanFallbackSymbolDelta, ChangedSymbols
<1> HIDE DEF C, s, n, ops
<1>5. \A i \in 1..n : WholeOp(ops[i], s[i], new)
  BY <1>3, <1>4 DEF WholeOp
<1>6. IsSeq(ops) /\ Len(ops) = n
  <2>1. ops = [i \in 1..n |-> ops[i]]
    BY <1>3, <1>4
  <2> QED
    BY <1>3, <2>1, MapIsSeq
<1>7. SymPlanOk(ops, old, new)
  BY <1>1, <1>2, <1>5, <1>6, WholePlan DEF C, n
<1> QED
  BY <1>7 DEF ops

\* The symbol rows of a full table.
IsFullRows(rows, ops) == rows = [i \in DOMAIN ops |-> Row(ops[i].id, FromFact(ops[i].fact))]

LEMMA FullSymbols ==
  ASSUME NEW new, TableRows(new), NEW ops, ops = FullSymbolOps(new), NEW rows, IsFullRows(rows, ops)
  PROVE  /\ SymbolsAre(FromSorted(rows), [id \in SymbolIDs |-> StateOf(new, id)])
         /\ IsSeq(ops)
         /\ \A i \in 1..Len(ops) : DecodesSymbol("full", ops[i])
         /\ \A i \in 1..(Len(ops) - 1) : SymbolKeyBefore(ops[i], ops[i + 1])
<1> DEFINE C == DOMAIN new.symbols
           s == Ascending(C)
           n == Len(s)
<1>1. C \in SUBSET SymbolIDs
  BY DEF TableRows
<1>2. Enumerates(s, C)
  BY <1>1, AscendingIds
<1>3. /\ n \in Nat /\ DOMAIN s = 1..n /\ (\A i \in 1..n : s[i] \in C /\ s[i] \in SymbolIDs /\ s[i] \in Nat)
      /\ (\A i, j \in 1..n : i < j => s[i] < s[j])
      /\ \A id \in C : \E i \in 1..n : s[i] = id
  BY <1>1, <1>2, SeqFacts, KeysAssumption DEF Enumerates
<1>4. ops = [i \in DOMAIN s |-> ReplaceSymbol(s[i], new.symbols[s[i]])]
  BY DEF FullSymbolOps
<1> HIDE DEF C, s, n
<1>5. \A i \in 1..n : WholeOp(ops[i], s[i], new)
  BY <1>3, <1>4 DEF WholeOp, C
<1>6. IsSeq(ops) /\ Len(ops) = n /\ DOMAIN ops = 1..n
  <2>1. ops = [i \in 1..n |-> ops[i]]
    BY <1>3, <1>4
  <2> QED
    BY <1>3, <2>1, MapIsSeq, SeqFacts
<1>7. \A i \in 1..n : ops[i].id = s[i] /\ ops[i].fact = new.symbols[s[i]] /\ DecodesSymbol("full", ops[i])
  <2>1. ASSUME NEW i \in 1..n
        PROVE  ops[i].id = s[i] /\ ops[i].fact = new.symbols[s[i]] /\ DecodesSymbol("full", ops[i])
    <3>1. s[i] \in SymbolIDs /\ s[i] \in DOMAIN new.symbols /\ WholeOp(ops[i], s[i], new)
      BY <1>3, <1>5 DEF C
    <3> DEFINE op == ops[i]
               id == s[i]
    <3> HIDE DEF op, id
    <3>2. id \in SymbolIDs /\ id \in DOMAIN new.symbols /\ WholeOp(op, id, new)
      BY <3>1 DEF op, id
    <3>3. op.id = id /\ op.fact = new.symbols[id] /\ DecodesSymbol("full", op)
      BY <3>2, WholeOpDecodes
    <3> QED
      BY <3>3 DEF op, id
  <2> QED
    BY <2>1
<1>8. ASSUME NEW i \in 1..(n - 1) PROVE SymbolKeyBefore(ops[i], ops[i + 1])
  <2>1. i \in 1..n /\ i + 1 \in 1..n /\ i < i + 1
    BY <1>3
  <2> QED
    BY <1>3, <1>7, <2>1 DEF SymbolKeyBefore
<1>9. ASSUME NEW i \in 1..n
      PROVE  rows[i] = Row(s[i], FromFact(new.symbols[s[i]])) /\ rows[i].key = s[i]
  <2>1. rows[i] = Row(ops[i].id, FromFact(ops[i].fact))
    BY <1>6 DEF IsFullRows
  <2> QED
    BY <1>7, <2>1 DEF Row
<1>10. IsSeq(rows) /\ Len(rows) = n
  <2>1. rows = [i \in 1..n |-> rows[i]]
    BY <1>6 DEF IsFullRows
  <2> QED
    BY <1>3, <2>1, MapIsSeq
<1> DEFINE index == FromSorted(rows)
           S == Range(rows)
<1>11. Sorted(rows)
  BY <1>3, <1>9, <1>10 DEF Sorted
<1>12. Well(index) /\ Content(index) = S
  BY <1>11, FromSortedWell
<1>13. S = {rows[i] : i \in 1..n}
  BY <1>10, RangeSeq
<1>14. Keyed(S)
  BY <1>11, SortedKeyed
<1> HIDE DEF S, index
<1>15. \A r \in S : r.key \in SymbolIDs /\ r.key \in C
  BY <1>3, <1>9, <1>13
<1>16. ASSUME NEW id \in SymbolIDs PROVE OptIs(Opt(S, id), id, StateOf(new, id))
  <2>1. CASE id \in C
    <3>1. PICK i \in 1..n : s[i] = id
      BY <1>3, <2>1
    <3> DEFINE f == new.symbols[id]
               r == Row(id, FromFact(f))
    <3>2. r \in S /\ r.key = id
      BY <1>9, <1>13, <3>1
    <3>3. f \in SymbolFacts /\ StateOf(new, id) = <<SymState(f)>>
      BY <2>1 DEF TableRows, StateOf, C
    <3>4. OptIs(<<r>>, id, <<SymState(f)>>)
      BY <3>3, FromFactIs, StateOfFact
    <3> HIDE DEF r, f
    <3>5. Opt(S, id) = <<r>>
      BY <1>14, <3>2, OptFound
    <3> QED
      BY <3>3, <3>4, <3>5
  <2>2. CASE id \notin C
    <3>1. Opt(S, id) = <<>>
      BY <1>15, <2>2 DEF Opt
    <3>2. StateOf(new, id) = <<>>
      BY <2>2 DEF StateOf, C
    <3> QED
      BY <3>1, <3>2 DEF OptIs
  <2> QED
    BY <2>1, <2>2
<1> DEFINE A == [id \in SymbolIDs |-> StateOf(new, id)]
<1>17. \A id \in SymbolIDs : A[id] = StateOf(new, id)
  OBVIOUS
<1> HIDE DEF A
<1>18. SymbolsAre(index, A)
  BY <1>12, <1>15, <1>16, <1>17 DEF SymbolsAre
<1> QED
  BY <1>6, <1>7, <1>8, <1>18 DEF index, A

\* The operations of one symbol in an exact plan.
OwnOps(os, id, old, new) ==
  /\ IsSeq(os)
  /\ \A j \in 1..Len(os) : os[j].id = id /\ SymOpRight(os[j], old, new) /\ DecodesSymbol("delta", os[j])
  /\ \A j, k \in 1..Len(os) : j < k => os[j].tag = 2 /\ os[k].tag = 2 /\ os[j].path < os[k].path
  /\ Len(os) = 0 => StateOf(old, id) = StateOf(new, id)
  /\ \A j \in 1..Len(os) : os[j].tag = 2 =>
       \A p \in Nat : (\A k \in 1..Len(os) : os[k].path # p) =>
         RunOf(old.symbols[id].refs, p) = RunOf(new.symbols[id].refs, p)

\* A symbol sent whole.
LEMMA WholeOwn ==
  ASSUME NEW old, NEW new, TableRows(new), NEW id \in SymbolIDs, NEW op, WholeOp(op, id, new)
  PROVE  OwnOps(<<op>>, id, old, new)
<1> DEFINE os == <<op>>
<1>1. /\ SymOp(op) /\ op.id = id /\ op.tag # 2
      /\ op.tag = 0 => op.id \in DOMAIN new.symbols /\ op.fact = new.symbols[op.id]
      /\ op.tag = 1 => op.id \notin DOMAIN new.symbols
      /\ DecodesSymbol("delta", op)
  BY WholeOpDecodes
<1>2. SymOpRight(op, old, new)
  BY <1>1 DEF SymOpRight
<1>3. IsSeq(os) /\ Len(os) = 1 /\ os[1] = op
  BY SingleIsSeq
<1> HIDE DEF os
<1>4. \A j \in 1..Len(os) : j = 1
  BY <1>3
<1>5. OwnOps(os, id, old, new)
  BY <1>1, <1>2, <1>3, <1>4 DEF OwnOps
<1> QED
  BY <1>5 DEF os

\* The paths whose references differ.
MovedRuns(o, f) == {p \in RefPaths(o.refs) \cup RefPaths(f.refs) : RunOf(o.refs, p) # RunOf(f.refs, p)}

LEMMA MovedFacts ==
  ASSUME NEW o \in SymbolFacts, NEW f \in SymbolFacts, SameHead(o, f)
  PROVE  /\ MovedRuns(o, f) \in SUBSET Nat /\ IsFiniteSet(MovedRuns(o, f))
         /\ \A p \in Nat : p \notin MovedRuns(o, f) => RunOf(o.refs, p) = RunOf(f.refs, p)
         /\ \A p \in MovedRuns(o, f) : o.alias = 0
<1> DEFINE M == MovedRuns(o, f)
           P == RefPaths(o.refs)
           Q == RefPaths(f.refs)
<1>1. RefSeq(o.refs) /\ RefSeq(f.refs) /\ (o.alias # 0 => o.refs = <<>>) /\ (f.alias # 0 => f.refs = <<>>)
  BY FactShape
<1>2. P \in SUBSET Nat /\ IsFiniteSet(P) /\ Q \in SUBSET Nat /\ IsFiniteSet(Q)
  BY <1>1, RefPathsFinite
<1>3. \A p \in Nat : /\ (RunOf(o.refs, p) = <<>>) <=> (p \notin P)
                     /\ (RunOf(f.refs, p) = <<>>) <=> (p \notin Q)
  <2> SUFFICES ASSUME NEW p \in Nat
               PROVE  /\ (RunOf(o.refs, p) = <<>>) <=> (p \notin P)
                      /\ (RunOf(f.refs, p) = <<>>) <=> (p \notin Q)
    OBVIOUS
  <2> QED
    BY <1>1, RunShape
<1>4. \A p : p \in M <=> (p \in P \cup Q /\ RunOf(o.refs, p) # RunOf(f.refs, p))
  BY DEF MovedRuns
<1>5. o.alias # 0 => P = {} /\ Q = {}
  <2>1. o.alias = f.alias
    BY DEF SameHead
  <2>2. RefPaths(<<>>) = {}
    BY DEF RefPaths
  <2> QED
    BY <1>1, <2>1, <2>2
<1> HIDE DEF M, P, Q
<1>6. IsFiniteSet(P \cup Q)
  BY <1>2, FS_Union
<1>7. M \subseteq P \cup Q
  BY <1>4
<1>8. IsFiniteSet(M)
  BY <1>6, <1>7, FS_Subset
<1>9. M \in SUBSET Nat
  BY <1>2, <1>7
<1>10. \A p \in Nat : p \notin M => RunOf(o.refs, p) = RunOf(f.refs, p)
  BY <1>3, <1>4
<1>11. \A p \in M : o.alias = 0
  BY <1>5, <1>7
<1> QED
  BY <1>8, <1>9, <1>10, <1>11 DEF M

\* The operations on the references of a symbol that stays.
LEMMA ReferenceOwn ==
  ASSUME NEW old, NEW new, TableRows(old), TableRows(new),
         NEW id \in SymbolIDs, Stays(old, new, id)
  PROVE  OwnOps(PlanExactReferenceDelta(id, old.symbols[id].refs, new.symbols[id].refs), id, old, new)
<1> DEFINE o == old.symbols[id]
           f == new.symbols[id]
           M == MovedRuns(o, f)
           s == Ascending(M)
           n == Len(s)
           os == PlanExactReferenceDelta(id, o.refs, f.refs)
<1>1. /\ id \in DOMAIN old.symbols /\ id \in DOMAIN new.symbols /\ SameHead(o, f)
      /\ o \in SymbolFacts /\ f \in SymbolFacts
  BY DEF Stays, TableRows
<1>2. os = [i \in DOMAIN s |-> ReplaceReferencePath(id, s[i], RunOf(f.refs, s[i]))]
  BY DEF PlanExactReferenceDelta, MovedRuns
<1>3. StateOf(old, id) = <<SymState(o)>> /\ StateOf(new, id) = <<SymState(f)>>
  BY <1>1 DEF StateOf
<1>4. \A op : op.tag = 2 /\ op.id = id /\ op.path \in Nat /\ IsSeq(op.refs) /\ o.alias = 0
                /\ op.refs = RunOf(f.refs, op.path) => SymOpRight(op, old, new)
  BY <1>1 DEF SymOpRight, SymOp
<1> HIDE DEF o, f, os
<1>5. /\ M \in SUBSET Nat /\ IsFiniteSet(M)
      /\ \A p \in Nat : p \notin M => RunOf(o.refs, p) = RunOf(f.refs, p)
      /\ \A p \in M : o.alias = 0
  BY <1>1, MovedFacts
<1> HIDE DEF M
<1>6. Enumerates(s, M)
  BY <1>5, AscendingEnumerates
<1> HIDE DEF s
<1>7. /\ n \in Nat /\ DOMAIN s = 1..n /\ (\A i \in 1..n : s[i] \in M /\ s[i] \in Nat)
      /\ (\A i, j \in 1..n : i < j => s[i] < s[j])
      /\ \A p \in M : \E i \in 1..n : s[i] = p
  BY <1>5, <1>6, SeqFacts DEF Enumerates
<1> HIDE DEF n
<1>8. IsSeq(os) /\ Len(os) = n
  <2>1. os = [i \in 1..n |-> os[i]]
    BY <1>2, <1>7
  <2> QED
    BY <1>7, <2>1, MapIsSeq
<1>9. ASSUME NEW i \in 1..n
      PROVE  /\ os[i].id = id /\ os[i].tag = 2 /\ os[i].path = s[i]
             /\ os[i].refs = RunOf(f.refs, s[i])
  BY <1>2, <1>7 DEF ReplaceReferencePath
<1>10. ASSUME NEW i \in 1..n
       PROVE  SymOpRight(os[i], old, new) /\ DecodesSymbol("delta", os[i])
  <2> DEFINE op == os[i]
             p == s[i]
  <2>1. op.id = id /\ op.tag = 2 /\ op.path = p /\ op.refs = RunOf(f.refs, p)
    BY <1>9
  <2>2. p \in Nat /\ p \in M /\ o.alias = 0
    BY <1>5, <1>7
  <2> HIDE DEF op, p
  <2>3. /\ IsSeq(RunOf(f.refs, p)) /\ CanonicalLocations(RunOf(f.refs, p))
        /\ RefPaths(RunOf(f.refs, p)) \subseteq {p}
    BY <1>1, <2>2, RunDecodes
  <2>4. DecodesSymbol("delta", op)
    BY <2>1, <2>3 DEF DecodesSymbol
  <2>5. SymOpRight(op, old, new)
    BY <1>4, <2>1, <2>2, <2>3
  <2> QED
    BY <2>4, <2>5 DEF op
<1>11. \A j, k \in 1..n : j < k => os[j].tag = 2 /\ os[k].tag = 2 /\ os[j].path < os[k].path
  BY <1>7, <1>9
<1>12. \A p \in Nat : (\A k \in 1..n : os[k].path # p) => RunOf(o.refs, p) = RunOf(f.refs, p)
  BY <1>5, <1>7, <1>9
<1>13. n = 0 => StateOf(old, id) = StateOf(new, id)
  <2> SUFFICES ASSUME n = 0 PROVE SymState(o) = SymState(f)
    BY <1>3
  <2>1. \A p \in Nat : RunOf(o.refs, p) = RunOf(f.refs, p)
    BY <1>12
  <2>2. RunsOf(o.refs) = RunsOf(f.refs)
    BY <2>1 DEF RunsOf
  <2> QED
    BY <1>1, <2>2 DEF SymState, SameHead
<1>14. OwnOps(os, id, old, new)
  BY <1>8, <1>9, <1>10, <1>11, <1>12, <1>13 DEF OwnOps, o, f
<1> QED
  BY <1>14 DEF os, o, f

\* The operations of an exact plan on one symbol.
LEMMA ExactOwn ==
  ASSUME NEW old, NEW new, TableRows(old), TableRows(new), NEW id \in SymbolIDs
  PROVE  OwnOps(ExactSymbolOps(id, old.symbols, new.symbols), id, old, new)
<1> DEFINE os == ExactSymbolOps(id, old.symbols, new.symbols)
           o == old.symbols[id]
           f == new.symbols[id]
<1>1. CASE id \in DOMAIN old.symbols /\ id \notin DOMAIN new.symbols
  <2>1. os = <<RemoveSymbol(id)>>
    BY <1>1 DEF ExactSymbolOps
  <2>2. WholeOp(RemoveSymbol(id), id, new)
    BY <1>1 DEF WholeOp
  <2> QED
    BY <2>1, <2>2, WholeOwn
<1>2. CASE id \in DOMAIN new.symbols /\ id \notin DOMAIN old.symbols
  <2>1. os = <<ReplaceSymbol(id, f)>>
    BY <1>2 DEF ExactSymbolOps
  <2>2. WholeOp(ReplaceSymbol(id, f), id, new)
    BY <1>2 DEF WholeOp
  <2> QED
    BY <2>1, <2>2, WholeOwn
<1>3. CASE id \notin DOMAIN new.symbols /\ id \notin DOMAIN old.symbols
  <2>1. os = <<>>
    BY <1>3 DEF ExactSymbolOps
  <2>2. StateOf(old, id) = StateOf(new, id)
    BY <1>3 DEF StateOf
  <2>3. OwnOps(<<>>, id, old, new)
    BY <2>2, EmptyIsSeq DEF OwnOps
  <2> QED
    BY <2>1, <2>3
<1>4. CASE id \in DOMAIN old.symbols /\ id \in DOMAIN new.symbols /\ ~SameHead(o, f)
  <2>1. os = <<ReplaceSymbol(id, f)>>
    BY <1>4 DEF ExactSymbolOps, SameHead
  <2>2. WholeOp(ReplaceSymbol(id, f), id, new)
    BY <1>4 DEF WholeOp
  <2> QED
    BY <2>1, <2>2, WholeOwn
<1>5. CASE id \in DOMAIN old.symbols /\ id \in DOMAIN new.symbols /\ SameHead(o, f)
  <2>1. os = PlanExactReferenceDelta(id, o.refs, f.refs)
    BY <1>5 DEF ExactSymbolOps, SameHead
  <2>2. Stays(old, new, id)
    BY <1>5 DEF Stays
  <2> QED
    BY <2>1, <2>2, ReferenceOwn
<1> QED
  BY <1>1, <1>2, <1>3, <1>4, <1>5

\* The plan of a delta with a manifest, and of a sparse one.
LEMMA ExactSymPlan ==
  ASSUME NEW old, NEW new, TableRows(old), TableRows(new), NEW m, ManifestNames(m, old, new)
  PROVE  SymPlanOk(PlanExactSymbolDelta(old, new, m), old, new)
<1> DEFINE C == m.symbolIDs
           s == Ascending(C)
           n == Len(s)
           seqs == [i \in DOMAIN s |-> ExactSymbolOps(s[i], old.symbols, new.symbols)]
           ops == FlattenSeq(seqs)
<1>1. C \in SUBSET SymbolIDs /\ ChangedSymbols(old, new) \subseteq C
  BY DEF ManifestNames
<1>2. Enumerates(s, C)
  BY <1>1, AscendingIds
<1>3. /\ n \in Nat /\ DOMAIN s = 1..n /\ (\A i \in 1..n : s[i] \in C /\ s[i] \in SymbolIDs /\ s[i] \in Nat)
      /\ (\A i, j \in 1..n : i < j => s[i] < s[j])
      /\ \A id \in C : \E i \in 1..n : s[i] = id
  BY <1>1, <1>2, SeqFacts, KeysAssumption DEF Enumerates
<1>4. PlanExactSymbolDelta(old, new, m) = ops
  BY DEF PlanExactSymbolDelta
<1> HIDE DEF C, s, n
<1>5. \A i \in 1..n : OwnOps(seqs[i], s[i], old, new)
  BY <1>3, ExactOwn
<1>6. IsSeq(seqs) /\ Len(seqs) = n
  <2>1. seqs = [i \in 1..n |-> seqs[i]]
    BY <1>3
  <2> QED
    BY <1>3, <2>1, MapIsSeq
<1> HIDE DEF seqs
<1>7. \A i \in 1..n : IsSeq(seqs[i]) /\ Len(seqs[i]) \in Nat
  BY <1>5, SeqFacts DEF OwnOps
<1>8. PICK at, pos : Layout(ops, seqs, n, at, pos)
  BY <1>6, <1>7, FlattenLayout
<1> HIDE DEF ops
<1> DEFINE q == Len(ops)
<1>9. IsSeq(ops) /\ q \in Nat
  BY <1>8, SeqFacts DEF Layout
<1>10. \A x \in 1..q : at[x] \in 1..n /\ pos[x] \in 1..Len(seqs[at[x]]) /\ ops[x] = seqs[at[x]][pos[x]]
  BY <1>8 DEF Layout
<1>11. \A x, y \in 1..q : x < y => at[x] < at[y] \/ (at[x] = at[y] /\ pos[x] < pos[y])
  BY <1>8 DEF Layout
<1>12. \A i \in 1..n : \A j \in 1..Len(seqs[i]) : \E x \in 1..q : at[x] = i /\ pos[x] = j
  BY <1>8 DEF Layout
<1>13. ASSUME NEW x \in 1..q
       PROVE  ops[x].id = s[at[x]] /\ SymOpRight(ops[x], old, new) /\ DecodesSymbol("delta", ops[x])
  <2>1. OwnOps(seqs[at[x]], s[at[x]], old, new)
    BY <1>5, <1>10
  <2> QED
    BY <1>10, <2>1 DEF OwnOps
<1> HIDE DEF q
<1>14. ASSUME NEW x \in 1..q, NEW y \in 1..q, x < y
       PROVE  \/ ops[x].id < ops[y].id
              \/ ops[x].id = ops[y].id /\ ops[x].tag = 2 /\ ops[y].tag = 2 /\ ops[x].path < ops[y].path
  <2>1. CASE at[x] < at[y]
    BY <1>3, <1>10, <1>13, <2>1
  <2>2. CASE at[x] = at[y] /\ pos[x] < pos[y]
    <3> DEFINE i == at[x]
               os == seqs[i]
               j == pos[x]
               k == pos[y]
    <3>1. i \in 1..n /\ j \in 1..Len(os) /\ k \in 1..Len(os) /\ j < k /\ ops[x] = os[j] /\ ops[y] = os[k]
      BY <1>10, <2>2
    <3>2. ops[x].id = ops[y].id
      BY <1>13, <2>2
    <3>3. OwnOps(os, s[i], old, new)
      BY <1>5, <3>1
    <3> HIDE DEF i, os, j, k
    <3>4. os[j].tag = 2 /\ os[k].tag = 2 /\ os[j].path < os[k].path
      BY <3>1, <3>3 DEF OwnOps
    <3> QED
      BY <3>1, <3>2, <3>4
  <2> QED
    BY <1>11, <1>14, <2>1, <2>2
<1>15. \A x \in 1..q : ops[x].id \in Nat
  BY <1>3, <1>10, <1>13
<1>16. SymOpsAlone(ops)
  <2> SUFFICES ASSUME NEW x \in 1..q, NEW y \in 1..q, ops[x].id = ops[y].id, x # y
               PROVE  ops[x].tag = 2 /\ ops[y].tag = 2
    BY DEF SymOpsAlone, q
  <2>1. x < y \/ y < x
    BY <1>9
  <2>2. ~(ops[x].id < ops[y].id) /\ ~(ops[y].id < ops[x].id)
    BY <1>15
  <2> QED
    BY <1>14, <2>1, <2>2
<1>17. ASSUME NEW i \in 1..n, NEW j \in 1..Len(seqs[i])
       PROVE  \E x \in 1..q : ops[x] = seqs[i][j] /\ at[x] = i
  <2>1. PICK x \in 1..q : at[x] = i /\ pos[x] = j
    BY <1>12
  <2> QED
    BY <1>10, <2>1
<1>18. ASSUME NEW id \in SymbolIDs, \A x \in 1..q : ops[x].id # id
       PROVE  StateOf(old, id) = StateOf(new, id)
  <2>1. CASE id \in C
    <3>1. PICK i \in 1..n : s[i] = id
      BY <1>3, <2>1
    <3>2. Len(seqs[i]) = 0
      <4> SUFFICES ASSUME Len(seqs[i]) # 0 PROVE FALSE
        OBVIOUS
      <4>1. 1 \in 1..Len(seqs[i])
        BY <1>7
      <4>2. PICK x \in 1..q : ops[x] = seqs[i][1] /\ at[x] = i
        BY <1>17, <4>1
      <4> QED
        BY <1>13, <1>18, <3>1, <4>2 DEF q
    <3>3. OwnOps(seqs[i], s[i], old, new)
      BY <1>5
    <3> QED
      BY <3>1, <3>2, <3>3 DEF OwnOps
  <2>2. CASE id \notin C
    BY <1>1, <2>2, UnchangedState
  <2> QED
    BY <2>1, <2>2
<1>19. ASSUME NEW x \in 1..q, ops[x].tag = 2, NEW p \in Nat,
              \A y \in 1..q : ops[y].id = ops[x].id => ops[y].path # p
       PROVE  RunOf(old.symbols[ops[x].id].refs, p) = RunOf(new.symbols[ops[x].id].refs, p)
  <2> DEFINE i == at[x]
             os == seqs[i]
             j == pos[x]
  <2>1. i \in 1..n /\ j \in 1..Len(os) /\ ops[x] = os[j] /\ ops[x].id = s[i]
    BY <1>10, <1>13 DEF q
  <2>2. OwnOps(os, s[i], old, new)
    BY <1>5, <2>1
  <2>3. ASSUME NEW k \in 1..Len(os) PROVE os[k].path # p
    <3>1. PICK y \in 1..q : ops[y] = os[k] /\ at[y] = i
      BY <1>17, <2>1
    <3>2. ops[y].id = ops[x].id
      BY <1>13, <3>1 DEF q
    <3> QED
      BY <1>19, <3>1, <3>2
  <2> HIDE DEF i, os, j
  <2>4. os[j].tag = 2
    BY <1>19, <2>1
  <2>5. RunOf(old.symbols[s[i]].refs, p) = RunOf(new.symbols[s[i]].refs, p)
    BY <2>1, <2>2, <2>3, <2>4 DEF OwnOps
  <2> QED
    BY <2>1, <2>5
<1>20. SymOpsCover(ops, old, new)
  BY <1>18, <1>19 DEF SymOpsCover, q
<1>21. ASSUME NEW x \in 1..(q - 1) PROVE SymbolKeyBefore(ops[x], ops[x + 1])
  <2>1. x \in 1..q /\ x + 1 \in 1..q /\ x < x + 1
    BY <1>9 DEF q
  <2> QED
    BY <1>14, <2>1 DEF SymbolKeyBefore
<1>22. SymPlanOk(ops, old, new)
  BY <1>9, <1>13, <1>16, <1>20, <1>21 DEF SymPlanOk, SymPlanRight, q
<1> QED
  BY <1>4, <1>22

-----------------------------------------------------------------------------
(* Whole tables. *)

GoodTable(table) ==
  /\ table = [gen |-> table.gen, id |-> table.id, paths |-> table.paths,
              symbols |-> table.symbols, manifest |-> table.manifest]
  /\ TableRows(table) /\ table.gen \in Nat \ {0}
  /\ table.symbols = [id \in DOMAIN table.symbols |-> table.symbols[id]]

\* The states of the symbols of a table.
StatesOf(table) == [id \in SymbolIDs |-> StateOf(table, id)]

\* The client's table t holds the producer's table.
Represents(t, table) ==
  /\ PathState(t, table.gen, t.symbols, EntriesOf(table))
  /\ SymbolsAre(t.symbols, StatesOf(table))

\* A symbol row of the client.
LEMMA SymbolRow ==
  ASSUME NEW table, GoodTable(table), NEW t, Represents(t, table), NEW r \in Content(t.symbols)
  PROVE  /\ r.key \in DOMAIN table.symbols
         /\ ToFact(r.val) = table.symbols[r.key]
         /\ r.val.referenceCount = Len(table.symbols[r.key].refs) /\ Canonical(r.val.references)
<1> DEFINE S == Content(t.symbols)
           id == r.key
           f == table.symbols[id]
<1>1. Well(t.symbols) /\ id \in SymbolIDs /\ OptIs(Opt(S, id), id, StatesOf(table)[id])
  BY DEF Represents, SymbolsAre
<1>2. StatesOf(table)[id] = StateOf(table, id)
  BY <1>1 DEF StatesOf
<1>3. Keyed(S)
  BY <1>1, ContentKeys
<1>4. Opt(S, id) = <<r>>
  BY <1>3, OptFound
<1> HIDE DEF S
<1>5. PICK q, s : /\ <<r>> = <<q>> /\ StateOf(table, id) = <<s>>
                  /\ SymIs(q.val, s.alias, s.decl, s.run)
  BY <1>1, <1>2, <1>4 DEF OptIs
<1>6. id \in DOMAIN table.symbols /\ s = SymState(f) /\ q = r
  BY <1>5 DEF StateOf
<1>7. f \in SymbolFacts
  BY <1>6 DEF GoodTable, TableRows
<1> HIDE DEF f, id
<1>8. SymIs(r.val, f.alias, f.decl, RunsOf(f.refs))
  BY <1>5, <1>6 DEF SymState
<1>9. /\ ToFact(r.val) = f /\ r.val.referenceCount = Len(f.refs) /\ Canonical(r.val.references)
  BY <1>7, <1>8, SymToFact
<1> QED
  BY <1>6, <1>9 DEF f, id

\* A reader of the client's table finds the producer's rows.
LEMMA RepresentsReads ==
  ASSUME NEW table, GoodTable(table), NEW t, Represents(t, table)
  PROVE  /\ t.gen = table.gen
         /\ \A p \in Paths : RowsAt(t, p) = table.paths[p]
         /\ SymbolsOf(t) = table.symbols
<1>1. /\ t = [gen |-> table.gen, paths |-> t.paths, symbols |-> t.symbols, counts |-> CountsOf(EntriesOf(table))]
      /\ Well(t.paths) /\ Content(t.paths) = EntriesOf(table)
  BY DEF Represents, PathState
<1>2. t.gen = table.gen
  BY <1>1
<1>3. ASSUME NEW p \in Paths PROVE RowsAt(t, p) = table.paths[p]
  <2>1. p \in Nat
    BY KeysAssumption
  <2>2. Lookup(t.paths, p) = Entry(table, p)
    BY <1>1, <2>1, LookupOpt, EntryOpt DEF GoodTable
  <2> DEFINE v == table.paths[p]
             row == Row(p, v)
  <2>3. Entry(table, p) = (IF v = NoRows THEN <<>> ELSE <<row>>) /\ row.val = v
    BY DEF Entry, Row
  <2> HIDE DEF v, row
  <2>4. RowsAt(t, p) = IF Entry(table, p) = <<>> THEN NoRows ELSE Entry(table, p)[1].val
    BY <2>2 DEF RowsAt
  <2>5. RowsAt(t, p) = v
    BY <2>3, <2>4
  <2> QED
    BY <2>5 DEF v
<1> DEFINE S == Content(t.symbols)
<1>4. /\ Well(t.symbols) /\ \A id \in SymbolIDs : OptIs(Opt(S, id), id, StateOf(table, id))
  BY DEF Represents, SymbolsAre, StatesOf
<1>5. \A id \in SymbolIDs : Lookup(t.symbols, id) = Opt(S, id)
  BY <1>4, KeysAssumption, LookupOpt
<1>6. Keyed(S)
  BY <1>4, ContentKeys
<1> HIDE DEF S
<1>7. ASSUME NEW id \in SymbolIDs
      PROVE  /\ (Lookup(t.symbols, id) # <<>>) <=> (id \in DOMAIN table.symbols)
             /\ id \in DOMAIN table.symbols => ToFact(Lookup(t.symbols, id)[1].val) = table.symbols[id]
  <2>1. OptIs(Lookup(t.symbols, id), id, StateOf(table, id))
    BY <1>4, <1>5
  <2>2. (Lookup(t.symbols, id) # <<>>) <=> (id \in DOMAIN table.symbols)
    <3> DEFINE held == Lookup(t.symbols, id)
               state == StateOf(table, id)
    <3>1. state # <<>> <=> id \in DOMAIN table.symbols
      BY DEF StateOf
    <3> HIDE DEF held, state
    <3>2. held # <<>> <=> state # <<>>
      <4>1. OptIs(held, id, state)
        BY <2>1 DEF held, state
      <4>2. \A x : <<x>> # <<>>
        OBVIOUS
      <4> QED
        BY <4>1, <4>2, Zenon DEF OptIs
    <3> QED
      BY <3>1, <3>2 DEF held
  <2>3. ASSUME id \in DOMAIN table.symbols
        PROVE  ToFact(Lookup(t.symbols, id)[1].val) = table.symbols[id]
    <3>1. Opt(S, id) # <<>>
      BY <1>5, <2>2, <2>3
    <3>2. PICK r \in S : r.key = id
      BY <3>1 DEF Opt
    <3>3. Lookup(t.symbols, id) = <<r>>
      BY <1>5, <1>6, <3>2, OptFound
    <3>4. Lookup(t.symbols, id)[1] = r
      BY <3>3
    <3>5. ToFact(r.val) = table.symbols[r.key]
      BY SymbolRow DEF S
    <3> QED
      BY <3>2, <3>4, <3>5
  <2> QED
    BY <2>2, <2>3
<1> DEFINE D == DOMAIN table.symbols
<1>8. D \subseteq SymbolIDs /\ table.symbols = [id \in D |-> table.symbols[id]]
  BY DEF GoodTable, TableRows
<1>9. {i \in SymbolIDs : Lookup(t.symbols, i) # <<>>} = D
  BY <1>7, <1>8
<1>10. SymbolsOf(t) = [id \in D |-> ToFact(Lookup(t.symbols, id)[1].val)]
  BY <1>9 DEF SymbolsOf
<1>11. \A id \in D : ToFact(Lookup(t.symbols, id)[1].val) = table.symbols[id]
  BY <1>7, <1>8
<1> HIDE DEF D
<1>12. [id \in D |-> ToFact(Lookup(t.symbols, id)[1].val)] = [id \in D |-> table.symbols[id]]
  BY <1>11
<1>13. SymbolsOf(t) = table.symbols
  BY <1>8, <1>10, <1>12, Zenon
<1> QED
  BY <1>2, <1>3, <1>13

\* The client's table is in the shape its lookups and counts rely on.
LEMMA RepresentsCanonical ==
  ASSUME NEW table, GoodTable(table), NEW t, Represents(t, table)
  PROVE  /\ Canonical(t.paths) /\ Canonical(t.symbols)
         /\ t.counts = Recounted(t.paths)
         /\ \A i \in DOMAIN Rows(t.symbols) :
              /\ Canonical(Rows(t.symbols)[i].val.references)
              /\ Rows(t.symbols)[i].val.referenceCount = Len(ToFact(Rows(t.symbols)[i].val).refs)
<1> DEFINE S == EntriesOf(table)
           C == CountsOf(S)
<1>1. /\ t = [gen |-> table.gen, paths |-> t.paths, symbols |-> t.symbols, counts |-> C]
      /\ Well(t.paths) /\ Content(t.paths) = S
  BY DEF Represents, PathState
<1>2. Well(t.symbols)
  BY DEF Represents, SymbolsAre
<1>3. Canonical(t.paths) /\ Canonical(t.symbols)
  BY <1>1, <1>2, WellCanonical
<1>4. Recounted(t.paths) = C
  BY <1>1, RecountedContent
<1> HIDE DEF C
<1>5. t.counts = C
  BY <1>1
<1> DEFINE rows == Rows(t.symbols)
<1>6. Sorted(rows) /\ Range(rows) = Content(t.symbols)
  BY <1>2, RowsSorted
<1> HIDE DEF rows
<1>7. ASSUME NEW i \in DOMAIN rows
      PROVE  /\ Canonical(rows[i].val.references)
             /\ rows[i].val.referenceCount = Len(ToFact(rows[i].val).refs)
  <2> DEFINE r == rows[i]
  <2>1. r \in Content(t.symbols)
    BY <1>6 DEF Range
  <2> HIDE DEF r
  <2>2. /\ ToFact(r.val) = table.symbols[r.key]
        /\ r.val.referenceCount = Len(table.symbols[r.key].refs) /\ Canonical(r.val.references)
    BY <2>1, SymbolRow
  <2> QED
    BY <2>2 DEF r
<1> QED
  BY <1>3, <1>4, <1>5, <1>7 DEF rows

\* A plan of path operations decodes.
LEMMA PathsDecode ==
  ASSUME NEW ops, NEW old, NEW new, PathPlanOk(ops, old, new)
  PROVE  /\ IsSeq(ops) /\ DOMAIN ops = 1..Len(ops) /\ Len(ops) \in Nat
         /\ \A i \in DOMAIN ops : DecodesPath("delta", ops[i])
         /\ \A i \in 1..(Len(ops) - 1) : ops[i].path < ops[i + 1].path
<1> DEFINE n == Len(ops)
<1>1. IsSeq(ops) /\ n \in Nat /\ DOMAIN ops = 1..n /\ \A i, j \in 1..n : i < j => ops[i].path < ops[j].path
  BY SeqFacts DEF PathPlanOk, PathOps
<1>2. ASSUME NEW i \in 1..n PROVE DecodesPath("delta", ops[i])
  <2> DEFINE slot == ops[i].entities
             row == new.paths[ops[i].path].entities
  <2>1. IsChange(ops[i]) /\ SlotRight(slot, old.paths[ops[i].path].entities, row, <<>>)
    BY DEF PathPlanOk, PathOpRight
  <2>2. slot.op = "replace" => slot.row # <<>>
    <3> HIDE DEF slot, row
    <3> QED
      BY <2>1 DEF SlotRight, SlotUnchanged, SlotRemove, SlotReplace
  <2> QED
    BY <2>1, <2>2 DEF DecodesPath
<1>3. ASSUME NEW i \in 1..(n - 1) PROVE ops[i].path < ops[i + 1].path
  <2>1. i \in 1..n /\ i + 1 \in 1..n /\ i < i + 1
    BY <1>1
  <2> QED
    BY <1>1, <2>1
<1> QED
  BY <1>1, <1>2, <1>3

\* A table without rows.
NoTable == [paths |-> [p \in Paths |-> NoRows], symbols |-> [i \in {} |-> 0]]

LEMMA NoTableRows == TableRows(NoTable) /\ \A p \in Paths : NoTable.paths[p] = NoRows
<1>1. NoRows \in PathRows
  BY TableAssumption
<1> QED
  BY <1>1 DEF NoTable, TableRows

\* A full response decodes, and makes the producer's table.
LEMMA FullRight ==
  ASSUME NEW new, GoodTable(new), NEW frame, frame = FullFrame(new)
  PROVE  /\ frame.mode = "full" /\ Decodes(frame)
         /\ Represents(MaterializeFull(frame), new)
<1> DEFINE P == PlanFull(new)
           S == FullSymbolOps(new)
           gen == new.gen
           entries == FlattenSeq([i \in DOMAIN P |-> ApplyPath(<<>>, P[i])])
           rows == [i \in DOMAIN S |-> Row(S[i].id, FromFact(S[i].fact))]
           index == FromSorted(entries)
           symbols == FromSorted(rows)
           t == MaterializeFull(frame)
<1>1. TableRows(new) /\ gen \in Nat \ {0}
  BY DEF GoodTable
<1>2. frame = [mode |-> "full", baseGeneration |-> 0, targetGeneration |-> gen, paths |-> P, symbols |-> S]
  BY DEF FullFrame, Frame
<1>3. /\ PathPlanOk(P, NoTable, new)
      /\ \A i \in 1..Len(P) : SlotRemove \notin {P[i].source, P[i].entities, P[i].file}
  BY <1>1, NoTableRows, FullPathPlan
<1>4. Well(index) /\ Content(index) = EntriesOf(new)
  BY <1>1, <1>3, NoTableRows, FullPaths
<1>5. /\ SymbolsAre(symbols, StatesOf(new))
      /\ IsSeq(S)
      /\ \A i \in 1..Len(S) : DecodesSymbol("full", S[i])
      /\ \A i \in 1..(Len(S) - 1) : SymbolKeyBefore(S[i], S[i + 1])
  <2>1. IsFullRows(rows, S)
    BY DEF IsFullRows
  <2> HIDE DEF rows
  <2> QED
    BY <1>1, <2>1, FullSymbols DEF StatesOf
<1>6. EntryRows(EntriesOf(new))
  BY <1>1, EntryOpt
<1>7. Recounted(index) = CountsOf(EntriesOf(new))
  BY <1>4, RecountedContent
<1> HIDE DEF P, S, gen
<1>8. /\ frame.mode = "full" /\ frame.baseGeneration = 0 /\ frame.targetGeneration = gen
      /\ frame.paths = P /\ frame.symbols = S
  BY <1>2
<1>9. t = [gen |-> gen, paths |-> index, symbols |-> symbols, counts |-> Recounted(index)]
  BY <1>8 DEF MaterializeFull
<1> DEFINE C == CountsOf(EntriesOf(new))
<1> HIDE DEF index, symbols, t, C
<1>10. t = [gen |-> gen, paths |-> index, symbols |-> symbols, counts |-> C]
  BY <1>7, <1>9 DEF C
<1>11. t.paths = index /\ t.symbols = symbols
  BY <1>10
<1>12. PathState(t, gen, t.symbols, EntriesOf(new))
  BY <1>4, <1>6, <1>10, <1>11 DEF PathState, C
<1>13. Represents(t, new)
  BY <1>5, <1>11, <1>12 DEF Represents, gen
<1>14. /\ IsSeq(P) /\ DOMAIN P = 1..Len(P) /\ Len(P) \in Nat
       /\ \A i \in DOMAIN P : DecodesPath("delta", P[i])
       /\ \A i \in 1..(Len(P) - 1) : P[i].path < P[i + 1].path
  BY <1>3, PathsDecode
<1>15. \A i \in DOMAIN P : DecodesPath("full", P[i])
  BY <1>3, <1>14 DEF DecodesPath
<1>16. DOMAIN S = 1..Len(S)
  BY <1>5, SeqFacts
<1>17. Decodes(frame)
  BY <1>1, <1>5, <1>8, <1>14, <1>15, <1>16 DEF Decodes, gen
<1> QED
  BY <1>8, <1>13, <1>17 DEF t

\* What a delta in flight guarantees the client that holds t.
DeltaRight(frame, t, new) ==
  /\ frame.mode = "delta" /\ Decodes(frame)
  /\ t.gen = frame.baseGeneration /\ ValidateDelta(t, frame)
  /\ Represents(ApplyDelta(t, frame), new)
  /\ \E old : GoodTable(old) /\ Represents(t, old) /\ PathPlanOk(frame.paths, old, new)

\* A delta from old to new.
IsDelta(frame, old, new) ==
  /\ frame = [mode |-> "delta", baseGeneration |-> old.gen, targetGeneration |-> new.gen,
              paths |-> frame.paths, symbols |-> frame.symbols]
  /\ PathPlanOk(frame.paths, old, new) /\ SymPlanOk(frame.symbols, old, new)

\* Both ways to apply the path operations, whatever the size of the delta.
LEMMA PathsApplied ==
  ASSUME NEW old, NEW new, GoodTable(old), GoodTable(new), NEW t, Represents(t, old),
         NEW ops, PathPlanOk(ops, old, new), NEW u, u = [t EXCEPT !.gen = new.gen]
  PROVE  /\ PathState(ApplyPathOperationsLinear(u, ops), new.gen, t.symbols, EntriesOf(new))
         /\ PathState(ApplyPathOperationsSparse(u, ops), new.gen, t.symbols, EntriesOf(new))
<1> DEFINE S == EntriesOf(old)
           C == CountsOf(S)
           gen == new.gen
           symbols == t.symbols
           index == t.paths
<1>1. /\ t = [gen |-> old.gen, paths |-> index, symbols |-> symbols, counts |-> C]
      /\ Well(index) /\ Content(index) = S /\ EntryRows(S)
  BY DEF Represents, PathState
<1>2. u = [t EXCEPT !.gen = gen]
  OBVIOUS
<1> HIDE DEF C, gen, symbols, index
<1>3. u = [gen |-> gen, paths |-> index, symbols |-> symbols, counts |-> C]
  BY <1>1, <1>2
<1>4. u.paths = index
  BY <1>3
<1>5. PathState(u, gen, symbols, S)
  BY <1>1, <1>3, <1>4 DEF PathState, C
<1>6. PathOps(ops) /\ PathPlanRight(ops, old, new)
  BY DEF PathPlanOk
<1>7. EntriesAfter(S, ops) = EntriesOf(new)
  BY <1>6, PlanContent DEF GoodTable
<1> HIDE DEF S
<1>8. PathState(ApplyPathOperationsLinear(u, ops), gen, symbols, EntriesAfter(S, ops))
  BY <1>5, <1>6, PathLinear
<1>9. PathState(ApplyPathOperationsSparse(u, ops), gen, symbols, EntriesAfter(S, ops))
  BY <1>5, <1>6, PathSparse
<1> QED
  BY <1>7, <1>8, <1>9 DEF gen, symbols

LEMMA DeltaApplied ==
  ASSUME NEW old, NEW new, GoodTable(old), GoodTable(new), old.gen <= new.gen,
         NEW t, Represents(t, old), NEW frame, IsDelta(frame, old, new)
  PROVE  DeltaRight(frame, t, new)
<1> DEFINE P == frame.paths
           S == frame.symbols
           u == [t EXCEPT !.gen = new.gen]
           linear == ApplyPathOperationsLinear(u, P)
           sparse == ApplyPathOperationsSparse(u, P)
           x == IF Len(P) >= LINEAR_REBUILD_MIN_OPERATIONS THEN linear ELSE sparse
           y == IF Len(S) >= LINEAR_REBUILD_MIN_OPERATIONS
                THEN ApplySymbolOperationsLinear(t.symbols, S)
                ELSE ApplySymbolOperationsSparse(t.symbols, S)
           z == ApplyDelta(t, frame)
<1>1. PathPlanOk(P, old, new) /\ SymPlanOk(S, old, new) /\ SymPlanRight(S, old, new)
  BY DEF IsDelta, SymPlanOk
<1>2. frame.mode = "delta" /\ frame.baseGeneration = old.gen /\ frame.targetGeneration = new.gen
  BY DEF IsDelta
<1>3. old.gen \in Nat \ {0} /\ new.gen \in Nat \ {0}
  BY DEF GoodTable
<1>4. Decodes(frame)
  <2>1. /\ \A i \in DOMAIN P : DecodesPath("delta", P[i])
        /\ \A i \in 1..(Len(P) - 1) : P[i].path < P[i + 1].path
    BY <1>1, PathsDecode
  <2>2. DOMAIN S = 1..Len(S)
    BY <1>1, SeqFacts DEF SymPlanRight
  <2>3. /\ \A i \in DOMAIN S : DecodesSymbol("delta", S[i])
        /\ \A i \in 1..(Len(S) - 1) : SymbolKeyBefore(S[i], S[i + 1])
    BY <1>1, <2>2 DEF SymPlanOk
  <2> QED
    BY <1>2, <1>3, <2>1, <2>3 DEF Decodes
<1>5. t.gen = old.gen
  BY RepresentsReads
<1>6. SymbolsAre(t.symbols, [id \in SymbolIDs |-> StateOf(old, id)])
  BY DEF Represents, StatesOf
<1>7. ValidateDelta(t, frame)
  BY <1>1, <1>6, SymPlanValid
<1>8. /\ PathState(linear, new.gen, t.symbols, EntriesOf(new))
      /\ PathState(sparse, new.gen, t.symbols, EntriesOf(new))
  BY <1>1, PathsApplied
<1>9. PathState(x, new.gen, t.symbols, EntriesOf(new))
  BY <1>8
<1>10. x.symbols = t.symbols
  <2> HIDE DEF x
  <2> QED
    BY <1>9 DEF PathState
<1>11. z = [x EXCEPT !.symbols = y]
  <2>1. z = [x EXCEPT !.symbols = IF Len(S) >= LINEAR_REBUILD_MIN_OPERATIONS
                     THEN ApplySymbolOperationsLinear(x.symbols, S)
                     ELSE ApplySymbolOperationsSparse(x.symbols, S)]
    BY <1>2 DEF ApplyDelta
  <2> HIDE DEF x, z
  <2> QED
    BY <1>10, <2>1, Zenon
<1>12. SymbolsAre(y, StatesOf(new))
  <2>1. /\ SymbolsAre(ApplySymbolOperationsSparse(t.symbols, S), [id \in SymbolIDs |-> StateOf(new, id)])
        /\ SymbolsAre(ApplySymbolOperationsLinear(t.symbols, S), [id \in SymbolIDs |-> StateOf(new, id)])
    BY <1>1, <1>6, SymPlanApplied
  <2> QED
    BY <2>1 DEF StatesOf
<1> HIDE DEF x, y, z
<1>13. Represents(z, new)
  <2> DEFINE C == CountsOf(EntriesOf(new))
             q == x.paths
             gen == new.gen
             old_symbols == t.symbols
  <2>1. /\ x = [gen |-> gen, paths |-> q, symbols |-> old_symbols, counts |-> C]
        /\ Well(q) /\ Content(q) = EntriesOf(new) /\ EntryRows(EntriesOf(new))
    BY <1>9 DEF PathState
  <2> HIDE DEF C, q, gen, old_symbols
  <2>2. z = [gen |-> gen, paths |-> q, symbols |-> y, counts |-> C]
    BY <1>11, <2>1
  <2>3. z.paths = q /\ z.symbols = y
    BY <2>2
  <2>4. PathState(z, gen, z.symbols, EntriesOf(new))
    BY <2>1, <2>2, <2>3 DEF PathState, C
  <2> QED
    BY <1>12, <2>3, <2>4 DEF Represents, gen
<1> QED
  BY <1>1, <1>2, <1>4, <1>5, <1>7, <1>13 DEF DeltaRight, z

\* A delta that says nothing leaves the client with the new table.
LEMMA ReuseRight ==
  ASSUME NEW old, NEW new, GoodTable(old), GoodTable(new),
         NEW t, Represents(t, old), NEW frame, IsDelta(frame, old, new), IsReuse(frame)
  PROVE  Represents(t, new)
<1> DEFINE P == frame.paths
           S == frame.symbols
<1>1. frame.baseGeneration = old.gen /\ frame.targetGeneration = new.gen
  BY DEF IsDelta
<1>2. old.gen = new.gen /\ P = <<>> /\ S = <<>>
  BY <1>1 DEF IsReuse
<1>3. PathPlanRight(P, old, new) /\ SymOpsCover(S, old, new)
  BY DEF IsDelta, PathPlanOk, SymPlanOk, SymPlanRight
<1>4. Len(<<>>) = 0 /\ \A i \in 1..0 : FALSE
  BY EmptyIsSeq
<1>5. \A p \in Paths : old.paths[p] = new.paths[p]
  BY <1>2, <1>3, <1>4 DEF PathPlanRight
<1>6. \A id \in SymbolIDs : StateOf(old, id) = StateOf(new, id)
  BY <1>2, <1>3, <1>4 DEF SymOpsCover
<1>7. StatesOf(old) = StatesOf(new)
  BY <1>6 DEF StatesOf
<1>8. TablePaths(old) = TablePaths(new)
  BY <1>5 DEF TablePaths
<1>9. EntriesOf(old) = EntriesOf(new)
  <2>1. \A p \in TablePaths(new) : old.paths[p] = new.paths[p]
    BY <1>5 DEF TablePaths
  <2> QED
    BY <1>8, <2>1 DEF EntriesOf
<1> QED
  BY <1>2, <1>7, <1>9 DEF Represents

-----------------------------------------------------------------------------
(* The producer's next table. *)

GoodSymbols(S) ==
  /\ DOMAIN S \subseteq SymbolIDs /\ S = [id \in DOMAIN S |-> S[id]]
  /\ \A id \in DOMAIN S : S[id] \in SymbolFacts

\* An edit changes the rows of paths or the facts of symbols.
IsEdit(table, old) ==
  \E P \in [Paths -> PathRows] : \E S :
    /\ GoodSymbols(S)
    /\ table = [gen |-> old.gen, id |-> old.id, paths |-> P, symbols |-> S, manifest |-> old.manifest]

LEMMA EditSteps ==
  ASSUME NEW old, NEW table, IsEdit(table, old)
  PROVE  /\ \A p \in Paths, r \in PathRows : IsEdit(WithRows(table, p, r), old)
         /\ \A k \in SymbolIDs, f \in SymbolFacts : IsEdit(WithSymbol(table, k, f), old)
         /\ \A k \in SymbolIDs : IsEdit(WithoutSymbol(table, k), old)
<1> DEFINE gen == old.gen
           id == old.id
           m == old.manifest
<1>1. PICK P \in [Paths -> PathRows] : \E S :
        /\ GoodSymbols(S)
        /\ table = [gen |-> gen, id |-> id, paths |-> P, symbols |-> S, manifest |-> m]
  BY DEF IsEdit
<1>2. PICK S : /\ GoodSymbols(S)
               /\ table = [gen |-> gen, id |-> id, paths |-> P, symbols |-> S, manifest |-> m]
  BY <1>1
<1> HIDE DEF gen, id, m
<1>3. table.paths = P /\ table.symbols = S
  BY <1>2
<1>4. ASSUME NEW p \in Paths, NEW r \in PathRows PROVE IsEdit(WithRows(table, p, r), old)
  <2> DEFINE Q == [P EXCEPT ![p] = r]
             x == WithRows(table, p, r)
  <2>1. Q \in [Paths -> PathRows]
    OBVIOUS
  <2>2. x = [table EXCEPT !.paths = Q]
    BY <1>3 DEF WithRows
  <2> HIDE DEF Q, x
  <2>3. x = [gen |-> gen, id |-> id, paths |-> Q, symbols |-> S, manifest |-> m]
    BY <1>2, <2>2
  <2>4. IsEdit(x, old)
    BY <1>2, <2>1, <2>3 DEF IsEdit, gen, id, m
  <2> QED
    BY <2>4 DEF x
<1>5. ASSUME NEW k \in SymbolIDs, NEW f \in SymbolFacts PROVE IsEdit(WithSymbol(table, k, f), old)
  <2> DEFINE T == [i \in DOMAIN S \cup {k} |-> IF i = k THEN f ELSE S[i]]
             x == WithSymbol(table, k, f)
  <2>1. GoodSymbols(T)
    BY <1>2 DEF GoodSymbols
  <2>2. x = [table EXCEPT !.symbols = T]
    BY <1>3 DEF WithSymbol
  <2> HIDE DEF T, x
  <2>3. x = [gen |-> gen, id |-> id, paths |-> P, symbols |-> T, manifest |-> m]
    BY <1>2, <2>2
  <2>4. IsEdit(x, old)
    BY <2>1, <2>3 DEF IsEdit, gen, id, m
  <2> QED
    BY <2>4 DEF x
<1>6. ASSUME NEW k \in SymbolIDs PROVE IsEdit(WithoutSymbol(table, k), old)
  <2> DEFINE T == [i \in DOMAIN S \ {k} |-> S[i]]
             x == WithoutSymbol(table, k)
  <2>1. GoodSymbols(T)
    BY <1>2 DEF GoodSymbols
  <2>2. x = [table EXCEPT !.symbols = T]
    BY <1>3 DEF WithoutSymbol
  <2> HIDE DEF T, x
  <2>3. x = [gen |-> gen, id |-> id, paths |-> P, symbols |-> T, manifest |-> m]
    BY <1>2, <2>2
  <2>4. IsEdit(x, old)
    BY <2>1, <2>3 DEF IsEdit, gen, id, m
  <2> QED
    BY <2>4 DEF x
<1> QED
  BY <1>4, <1>5, <1>6

LEMMA EditShape ==
  ASSUME NEW old, GoodTable(old), NEW table \in Edits(old)
  PROVE  IsEdit(table, old)
<1>1. IsEdit(old, old)
  <2> DEFINE S == old.symbols
             P == old.paths
  <2>1. old = [gen |-> old.gen, id |-> old.id, paths |-> P, symbols |-> S, manifest |-> old.manifest]
    BY DEF GoodTable
  <2>2. P \in [Paths -> PathRows] /\ GoodSymbols(S)
    BY DEF GoodTable, TableRows, GoodSymbols
  <2> HIDE DEF S, P
  <2> QED
    BY <2>1, <2>2 DEF IsEdit
<1>2. NoRows \in PathRows
  BY TableAssumption
<1>3. /\ \A p \in Paths, r \in PathRows : IsEdit(WithRows(old, p, r), old)
      /\ \A k \in SymbolIDs, f \in SymbolFacts : IsEdit(WithSymbol(old, k, f), old)
      /\ \A k \in SymbolIDs : IsEdit(WithoutSymbol(old, k), old)
  BY <1>1, EditSteps
<1>4. \A q \in Paths : IsEdit(WithRows(old, q, NoRows), old)
  BY <1>2, <1>3
<1>5. ASSUME NEW q \in Paths, NEW p \in Paths, NEW r \in PathRows
      PROVE  IsEdit(WithRows(WithRows(old, q, NoRows), p, r), old)
  <2>1. IsEdit(WithRows(old, q, NoRows), old)
    BY <1>4
  <2> QED
    BY <2>1, EditSteps
<1>6. \/ \E p \in Paths, r \in PathRows : table = WithRows(old, p, r)
      \/ \E p \in Paths, q \in Paths, r \in PathRows : table = WithRows(WithRows(old, q, NoRows), p, r)
      \/ \E k \in SymbolIDs, f \in SymbolFacts : table = WithSymbol(old, k, f)
      \/ \E k \in SymbolIDs : table = WithoutSymbol(old, k)
  BY DEF Edits
<1> QED
  BY <1>3, <1>5, <1>6

\* The table that an analysis publishes, and the one it retains.
IsTarget(target, table, gen, m) == target = [table EXCEPT !.gen = gen, !.id = 1, !.manifest = m]

IsRetained(last, target) == last = [target EXCEPT !.manifest = <<>>]

LEMMA TargetGood ==
  ASSUME NEW old, GoodTable(old), NEW table \in Edits(old), NEW gen \in Nat \ {0}, NEW m,
         NEW target, IsTarget(target, table, gen, m), NEW last, IsRetained(last, target)
  PROVE  /\ GoodTable(target) /\ target.gen = gen /\ target.manifest = m
         /\ target.paths = table.paths /\ target.symbols = table.symbols
         /\ GoodTable(last) /\ last.gen = gen
         /\ last.paths = table.paths /\ last.symbols = table.symbols
<1>1. IsEdit(table, old)
  BY EditShape
<1>0. PICK P \in [Paths -> PathRows] : \E S :
        /\ GoodSymbols(S)
        /\ table = [gen |-> old.gen, id |-> old.id, paths |-> P, symbols |-> S, manifest |-> old.manifest]
  BY <1>1 DEF IsEdit
<1>2. PICK S :
        /\ GoodSymbols(S)
        /\ table = [gen |-> old.gen, id |-> old.id, paths |-> P, symbols |-> S, manifest |-> old.manifest]
  BY <1>0
<1>3. table.paths = P /\ table.symbols = S
  BY <1>2
<1>4. target = [gen |-> gen, id |-> 1, paths |-> P, symbols |-> S, manifest |-> m]
  <2> DEFINE a == old.gen
             b == old.id
             c == old.manifest
  <2>1. target = [[[table EXCEPT !.gen = gen] EXCEPT !.id = 1] EXCEPT !.manifest = m]
    BY DEF IsTarget
  <2>2. table = [gen |-> a, id |-> b, paths |-> P, symbols |-> S, manifest |-> c]
    BY <1>2
  <2> HIDE DEF a, b, c
  <2> QED
    BY <2>1, <2>2
<1>5. last = [gen |-> gen, id |-> 1, paths |-> P, symbols |-> S, manifest |-> <<>>]
  BY <1>4 DEF IsRetained
<1>6. target.gen = gen /\ target.id = 1 /\ target.paths = P /\ target.symbols = S /\ target.manifest = m
  BY <1>4
<1>7. last.gen = gen /\ last.id = 1 /\ last.paths = P /\ last.symbols = S /\ last.manifest = <<>>
  BY <1>5
<1>8. GoodTable(target)
  BY <1>2, <1>4, <1>6 DEF GoodTable, TableRows, GoodSymbols
<1>9. GoodTable(last)
  BY <1>2, <1>5, <1>7 DEF GoodTable, TableRows, GoodSymbols
<1> QED
  BY <1>3, <1>6, <1>7, <1>8, <1>9

LEMMA EmptyTableGood == GoodTable(EmptyTable) /\ EmptyTable.gen = 1
<1> DEFINE P == [p \in Paths |-> NoRows]
           S == [i \in {} |-> 0]
<1>1. EmptyTable = [gen |-> 1, id |-> 0, paths |-> P, symbols |-> S, manifest |-> <<>>]
  BY DEF EmptyTable
<1>2. P \in [Paths -> PathRows]
  BY TableAssumption
<1>3. DOMAIN S = {} /\ S = [i \in DOMAIN S |-> S[i]]
  OBVIOUS
<1> HIDE DEF P, S
<1>4. /\ EmptyTable.gen = 1 /\ EmptyTable.id = 0 /\ EmptyTable.paths = P /\ EmptyTable.symbols = S
      /\ EmptyTable.manifest = <<>>
  BY <1>1
<1> QED
  BY <1>1, <1>2, <1>3, <1>4 DEF GoodTable, TableRows

\* A manifest is absent or names every row that changed.
GoodManifest(manifest, old, new) ==
  manifest = <<>> \/ \E m : manifest = <<m>> /\ ManifestNames(m, old, new)

LEMMA ManifestGood ==
  ASSUME NEW old, NEW table, NEW new, GoodTable(old), GoodTable(new),
         new.paths = table.paths, new.symbols = table.symbols,
         NEW manifest \in Manifests(old, table)
  PROVE  GoodManifest(manifest, old, new)
<1>1. ChangedPaths(old, table) = ChangedPaths(old, new) /\ ChangedSymbols(old, table) = ChangedSymbols(old, new)
  BY DEF ChangedPaths, ChangedSymbols
<1>2. ChangedSymbols(old, new) \subseteq SymbolIDs
  BY DEF ChangedSymbols, GoodTable, TableRows
<1>3. ASSUME NEW paths \in SUBSET Paths, NEW symbols \in SUBSET SymbolIDs,
             ChangedPaths(old, new) \subseteq paths, ChangedSymbols(old, new) \subseteq symbols,
             manifest = <<TransportManifest(old, paths, symbols)>>
      PROVE  GoodManifest(manifest, old, new)
  <2> DEFINE m == TransportManifest(old, paths, symbols)
  <2>1. m.sourcePaths = paths /\ m.entityPaths = paths /\ m.filePaths = paths /\ m.symbolIDs = symbols
    BY DEF TransportManifest
  <2>2. \A p \in Paths : p \notin paths => old.paths[p] = new.paths[p]
    BY <1>3 DEF ChangedPaths
  <2>3. manifest = <<m>>
    BY <1>3
  <2> HIDE DEF m
  <2>4. ManifestPaths(m) = paths
    BY <2>1 DEF ManifestPaths
  <2>5. ManifestNames(m, old, new)
    BY <1>3, <2>1, <2>2, <2>4 DEF ManifestNames
  <2> QED
    BY <2>3, <2>5 DEF GoodManifest
<1>4. CASE manifest = <<>>
  BY <1>4 DEF GoodManifest
<1>5. CASE manifest = <<TransportManifest(old, ChangedPaths(old, table), ChangedSymbols(old, table))>>
  <2> DEFINE paths == ChangedPaths(old, new)
             symbols == ChangedSymbols(old, new)
  <2>1. paths \in SUBSET Paths /\ symbols \in SUBSET SymbolIDs
    BY <1>2 DEF ChangedPaths
  <2>2. manifest = <<TransportManifest(old, paths, symbols)>>
    BY <1>1, <1>5
  <2> HIDE DEF paths, symbols
  <2> QED
    BY <1>3, <2>1, <2>2 DEF paths, symbols
<1>6. CASE manifest = <<TransportManifest(old, Paths, SymbolIDs)>>
  <2>1. ChangedPaths(old, new) \subseteq Paths
    BY DEF ChangedPaths
  <2> QED
    BY <1>2, <1>3, <1>6, <2>1
<1> QED
  BY <1>4, <1>5, <1>6 DEF Manifests

\* A delta that the producer plans is right, in each of its three forms.
LEMMA DeltaPlanned ==
  ASSUME NEW old, NEW new, GoodTable(old), GoodTable(new), GoodManifest(new.manifest, old, new),
         NEW sparse \in BOOLEAN, sparse => new.manifest # <<>>
  PROVE  IsDelta(DeltaFrame(old, new, sparse), old, new)
<1> DEFINE m == new.manifest[1]
           frame == DeltaFrame(old, new, sparse)
<1>1. new.manifest # <<>> => ManifestNames(m, old, new)
  BY DEF GoodManifest
<1>2. TableRows(old) /\ TableRows(new)
  BY DEF GoodTable
<1> HIDE DEF m
<1>3. ASSUME NEW P, NEW S, PathPlanOk(P, old, new), SymPlanOk(S, old, new),
             frame = Frame("delta", old.gen, new, P, S)
      PROVE  IsDelta(frame, old, new)
  <2> DEFINE a == old.gen
             b == new.gen
  <2>1. frame = [mode |-> "delta", baseGeneration |-> a, targetGeneration |-> b, paths |-> P, symbols |-> S]
    BY <1>3 DEF Frame
  <2> HIDE DEF a, b, frame
  <2>2. frame.paths = P /\ frame.symbols = S
    BY <2>1
  <2> QED
    BY <1>3, <2>1, <2>2 DEF IsDelta, a, b
<1>4. CASE sparse
  <2>1. frame = Frame("delta", old.gen, new, PlanSparsePathDelta(new, m), PlanExactSymbolDelta(old, new, m))
    BY <1>4 DEF DeltaFrame, m
  <2>2. PathPlanOk(PlanSparsePathDelta(new, m), old, new)
    BY <1>1, <1>2, <1>4, SparsePathPlan
  <2>3. SymPlanOk(PlanExactSymbolDelta(old, new, m), old, new)
    BY <1>1, <1>2, <1>4, ExactSymPlan
  <2> QED
    BY <1>3, <2>1, <2>2, <2>3
<1>5. CASE ~sparse /\ ManifestMatches(old, new)
  <2>1. frame = Frame("delta", old.gen, new, PlanExactPathDelta(old, new, m), PlanExactSymbolDelta(old, new, m))
    BY <1>5 DEF DeltaFrame, m
  <2>2. new.manifest # <<>>
    BY <1>5 DEF ManifestMatches
  <2>3. PathPlanOk(PlanExactPathDelta(old, new, m), old, new)
    BY <1>1, <1>2, <2>2, ExactPathPlan
  <2>4. SymPlanOk(PlanExactSymbolDelta(old, new, m), old, new)
    BY <1>1, <1>2, <2>2, ExactSymPlan
  <2> QED
    BY <1>3, <2>1, <2>3, <2>4
<1>6. CASE ~sparse /\ ~ManifestMatches(old, new)
  <2>1. frame = Frame("delta", old.gen, new, PlanFallbackPathDelta(old, new), PlanFallbackSymbolDelta(old, new))
    BY <1>6 DEF DeltaFrame
  <2>2. PathPlanOk(PlanFallbackPathDelta(old, new), old, new) /\ SymPlanOk(PlanFallbackSymbolDelta(old, new), old, new)
    BY <1>2, FallbackPathPlan, FallbackSymPlan
  <2> QED
    BY <1>3, <2>1, <2>2
<1> QED
  BY <1>4, <1>5, <1>6

\* What a table means for its reader does not depend on its manifest.
SameRows(a, b) == a.gen = b.gen /\ a.paths = b.paths /\ a.symbols = b.symbols

LEMMA SameRepresents ==
  ASSUME NEW a, NEW b, SameRows(a, b), NEW t, Represents(t, a)
  PROVE  Represents(t, b)
<1>1. EntriesOf(a) = EntriesOf(b)
  BY DEF SameRows, EntriesOf, TablePaths
<1>2. StatesOf(a) = StatesOf(b)
  BY DEF SameRows, StatesOf, StateOf
<1> QED
  BY <1>1, <1>2 DEF Represents, SameRows

LEMMA SameDelta ==
  ASSUME NEW a, NEW b, SameRows(a, b), NEW frame, NEW t, DeltaRight(frame, t, a)
  PROVE  DeltaRight(frame, t, b)
<1>1. Represents(ApplyDelta(t, frame), b)
  BY SameRepresents DEF DeltaRight
<1>2. PICK old : GoodTable(old) /\ Represents(t, old) /\ PathPlanOk(frame.paths, old, a)
  BY DEF DeltaRight
<1>3. \A p : Entry(a, p) = Entry(b, p)
  BY DEF Entry, SameRows
<1>4. PathPlanOk(frame.paths, old, b)
  BY <1>2, <1>3 DEF PathPlanOk, PathPlanRight, SameRows
<1> QED
  BY <1>1, <1>2, <1>4 DEF DeltaRight

-----------------------------------------------------------------------------
(* The inductive invariant. *)

\* What a response in flight means to the client that holds held: it keeps,
\* makes anew or reaches the published table.
Answers(frame, held, table) ==
  \/ frame = [mode |-> "reuse"] /\ held # <<>> /\ Represents(held[1], table)
  \/ frame.mode = "full" /\ Decodes(frame) /\ Represents(MaterializeFull(frame), table)
  \/ held # <<>> /\ DeltaRight(frame, held[1], table)

\* The producer retains a table, once it has answered.
BaseRight == base = <<>> \/ (base = <<base[1]>> /\ GoodTable(base[1]))

\* The client's table is one that the producer published.
ClientRight ==
  client # <<>> =>
    /\ client = <<client[1]>> /\ base # <<>>
    /\ \E old : GoodTable(old) /\ Represents(client[1], old)

\* Between two analyses it is the last one.
IdleRight == wire = <<>> /\ client # <<>> => Represents(client[1], base[1])

WireRight == wire # <<>> => base # <<>> /\ Answers(wire[1], client, base[1])

TableInv == BaseRight /\ ClientRight /\ IdleRight /\ WireRight

\* Every response that the producer encodes is a right one.
LEMMA EncodeAnswers ==
  ASSUME NEW old, GoodTable(old), NEW target, GoodTable(target), NEW last, SameRows(target, last),
         old.gen <= target.gen, GoodManifest(target.manifest, old, target),
         NEW held, NEW retained, retained = <<>> \/ (retained = <<old>> /\ held # <<>> /\ Represents(held[1], old)),
         NEW sparse \in BOOLEAN, NEW frame, frame = Encode(retained, target, sparse)
  PROVE  Answers(IF IsReuse(frame) THEN [mode |-> "reuse"] ELSE frame, held, last)
<1>1. CASE retained = <<>> \/ SparseUnavailable(retained, target, sparse)
  <2>1. frame = FullFrame(target)
    BY <1>1 DEF Encode
  <2>2. frame.mode = "full" /\ Decodes(frame) /\ Represents(MaterializeFull(frame), target)
    BY <2>1, FullRight
  <2>3. ~IsReuse(frame)
    BY <2>2 DEF IsReuse
  <2>4. Represents(MaterializeFull(frame), last)
    BY <2>2, SameRepresents
  <2> QED
    BY <2>2, <2>3, <2>4 DEF Answers
<1>2. CASE ~(retained = <<>> \/ SparseUnavailable(retained, target, sparse))
  <2>1. retained = <<old>> /\ held # <<>> /\ Represents(held[1], old)
    BY <1>2
  <2>2. frame = DeltaFrame(old, target, sparse)
    BY <1>2, <2>1 DEF Encode
  <2>3. sparse => target.manifest # <<>>
    BY <1>2 DEF SparseUnavailable
  <2>4. IsDelta(frame, old, target)
    BY <2>2, <2>3, DeltaPlanned
  <2>5. CASE IsReuse(frame)
    <3>1. Represents(held[1], target)
      BY <2>1, <2>4, <2>5, ReuseRight
    <3>2. Represents(held[1], last)
      BY <3>1, SameRepresents
    <3> QED
      BY <2>1, <2>5, <3>2 DEF Answers
  <2>6. CASE ~IsReuse(frame)
    <3>1. DeltaRight(frame, held[1], target)
      BY <2>1, <2>4, DeltaApplied
    <3>2. DeltaRight(frame, held[1], last)
      BY <3>1, SameDelta
    <3> QED
      BY <2>1, <2>6, <3>2 DEF Answers
  <2> QED
    BY <2>5, <2>6
<1> QED
  BY <1>1, <1>2

LEMMA PublishedGood ==
  ASSUME BaseRight
  PROVE  GoodTable(Published)
  BY EmptyTableGood DEF BaseRight, Published

LEMMA AnalyzeRight ==
  ASSUME TableInv, Analyze
  PROVE  TableInv'
<1> DEFINE old == Published
<1>1. GoodTable(old) /\ old.gen \in Nat \ {0}
  BY PublishedGood DEF TableInv, GoodTable
<1>2a. PICK table \in Edits(old), gen \in {old.gen, old.gen + 1}, sparse \in BOOLEAN :
         \E manifest \in Manifests(old, table) :
           LET target == [table EXCEPT !.gen = gen, !.id = 1, !.manifest = manifest]
               frame  == Encode(IF ResetState THEN <<>> ELSE base, target, sparse)
           IN  /\ gen <= MaxGeneration
               /\ base' = <<[target EXCEPT !.manifest = <<>>]>>
               /\ wire' = <<IF IsReuse(frame) THEN [mode |-> "reuse"] ELSE frame>>
  BY Zenon DEF Analyze
<1>2. PICK manifest \in Manifests(old, table) :
        LET target == [table EXCEPT !.gen = gen, !.id = 1, !.manifest = manifest]
            frame  == Encode(IF ResetState THEN <<>> ELSE base, target, sparse)
        IN  /\ gen <= MaxGeneration
            /\ base' = <<[target EXCEPT !.manifest = <<>>]>>
            /\ wire' = <<IF IsReuse(frame) THEN [mode |-> "reuse"] ELSE frame>>
  BY <1>2a, Zenon
<1>3. wire = <<>> /\ client' = client
  BY DEF Analyze
<1> DEFINE target == [table EXCEPT !.gen = gen, !.id = 1, !.manifest = manifest]
           retained == IF ResetState THEN <<>> ELSE base
           frame == Encode(retained, target, sparse)
           last == [target EXCEPT !.manifest = <<>>]
           sent == IF IsReuse(frame) THEN [mode |-> "reuse"] ELSE frame
<1>4. base' = <<last>> /\ wire' = <<sent>>
  BY <1>2
<1>5. IsTarget(target, table, gen, manifest) /\ IsRetained(last, target)
  BY DEF IsTarget, IsRetained
<1>6. gen \in Nat \ {0} /\ old.gen <= gen
  BY <1>1
<1>7. frame = Encode(retained, target, sparse)
  OBVIOUS
<1>8. retained = <<>> \/ (retained = <<old>> /\ client # <<>> /\ Represents(client[1], old))
  <2>1. CASE client = <<>>
    BY <2>1 DEF ResetState
  <2>2. CASE client # <<>>
    <3>1. base # <<>> /\ base = <<base[1]>> /\ Represents(client[1], base[1])
      BY <1>3, <2>2 DEF TableInv, ClientRight, BaseRight, IdleRight
    <3>2. old = base[1]
      BY <3>1 DEF Published
    <3>3. retained = base
      BY <2>2 DEF ResetState
    <3> QED
      BY <2>2, <3>1, <3>2, <3>3
  <2> QED
    BY <2>1, <2>2
<1> HIDE DEF old, target, retained, frame, last
<1>9. /\ GoodTable(target) /\ target.gen = gen /\ target.manifest = manifest
      /\ target.paths = table.paths /\ target.symbols = table.symbols
      /\ GoodTable(last) /\ last.gen = gen
      /\ last.paths = table.paths /\ last.symbols = table.symbols
  BY <1>1, <1>5, <1>6, TargetGood
<1>10. SameRows(target, last)
  BY <1>9 DEF SameRows
<1>11. GoodManifest(target.manifest, old, target)
  BY <1>1, <1>9, ManifestGood
<1>12. Answers(sent, client, last)
  BY <1>1, <1>6, <1>7, <1>8, <1>9, <1>10, <1>11, EncodeAnswers
<1> HIDE DEF sent
<1>13. base'[1] = last /\ wire'[1] = sent /\ base' # <<>> /\ wire' # <<>> /\ base' = <<base'[1]>>
  BY <1>4
<1>14. BaseRight'
  BY <1>9, <1>13 DEF BaseRight
<1>15. ClientRight'
  BY <1>3, <1>13 DEF TableInv, ClientRight
<1>16. IdleRight'
  BY <1>13 DEF IdleRight
<1>17. WireRight'
  BY <1>3, <1>12, <1>13 DEF WireRight
<1> QED
  BY <1>14, <1>15, <1>16, <1>17 DEF TableInv

LEMMA AcceptRight ==
  ASSUME TableInv, Accept
  PROVE  TableInv'
<1> DEFINE frame == wire[1]
<1>1. wire # <<>> /\ wire' = <<>> /\ base' = base
  BY DEF Accept
<1>2. client' = CASE frame.mode = "reuse" -> client
                  [] frame.mode = "full"  -> <<MaterializeFull(frame)>>
                  [] frame.mode = "delta" -> <<ApplyDelta(client[1], frame)>>
  BY DEF Accept
<1>3. base # <<>> /\ GoodTable(base[1]) /\ base = <<base[1]>> /\ Answers(frame, client, base[1])
  BY <1>1 DEF TableInv, WireRight, BaseRight
<1> HIDE DEF frame
<1>4. client' # <<>> => client' = <<client'[1]>> /\ Represents(client'[1], base[1])
  <2>1. CASE frame = [mode |-> "reuse"] /\ client # <<>> /\ Represents(client[1], base[1])
    <3>1. client' = client
      BY <1>2, <2>1
    <3> QED
      BY <2>1, <3>1 DEF TableInv, ClientRight
  <2>2. CASE frame.mode = "full" /\ Decodes(frame) /\ Represents(MaterializeFull(frame), base[1])
    <3>1. client' = <<MaterializeFull(frame)>>
      BY <1>2, <2>2
    <3> QED
      BY <2>2, <3>1
  <2>3. CASE client # <<>> /\ DeltaRight(frame, client[1], base[1])
    <3>1. frame.mode = "delta" /\ Represents(ApplyDelta(client[1], frame), base[1])
      BY <2>3 DEF DeltaRight
    <3>2. client' = <<ApplyDelta(client[1], frame)>>
      BY <1>2, <3>1
    <3> QED
      BY <3>1, <3>2
  <2> QED
    BY <1>3, <2>1, <2>2, <2>3 DEF Answers
<1>5. BaseRight' /\ ClientRight' /\ IdleRight' /\ WireRight'
  BY <1>1, <1>3, <1>4 DEF BaseRight, ClientRight, IdleRight, WireRight
<1> QED
  BY <1>5 DEF TableInv

LEMMA DiscardRight ==
  ASSUME TableInv, Discard
  PROVE  TableInv'
  BY DEF TableInv, BaseRight, ClientRight, IdleRight, WireRight, Discard

LEMMA TableStep == TableInv /\ [Next]_vars => TableInv'
<1> SUFFICES ASSUME TableInv, [Next]_vars PROVE TableInv'
  OBVIOUS
<1>1. CASE Analyze
  BY <1>1, AnalyzeRight
<1>2. CASE Accept
  BY <1>2, AcceptRight
<1>3. CASE Discard
  BY <1>3, DiscardRight
<1>4. CASE UNCHANGED vars
  BY <1>4 DEF vars, TableInv, BaseRight, ClientRight, IdleRight, WireRight
<1> QED
  BY <1>1, <1>2, <1>3, <1>4 DEF Next

LEMMA TableStart == Init => TableInv
  BY DEF Init, TableInv, BaseRight, ClientRight, IdleRight, WireRight

LEMMA InvHolds == TableInv => ClientHoldsTarget
<1> SUFFICES ASSUME TableInv, wire = <<>>, client # <<>>
             PROVE  /\ client[1].gen = base[1].gen
                    /\ \A p \in Paths : RowsAt(client[1], p) = base[1].paths[p]
                    /\ SymbolsOf(client[1]) = base[1].symbols
  BY DEF ClientHoldsTarget
<1>1. Represents(client[1], base[1]) /\ GoodTable(base[1])
  BY DEF TableInv, IdleRight, ClientRight, BaseRight
<1> QED
  BY <1>1, RepresentsReads

LEMMA InvAccepts == TableInv => ResponsesAccepted
<1> SUFFICES ASSUME TableInv, wire # <<>> PROVE ~Refused(wire[1])
  BY DEF ResponsesAccepted
<1> DEFINE frame == wire[1]
           table == base[1]
<1>1. GoodTable(table) /\ Answers(frame, client, table)
  BY DEF TableInv, WireRight, BaseRight
<1> HIDE DEF frame
<1>2. CASE frame = [mode |-> "reuse"] /\ client # <<>> /\ Represents(client[1], table)
  <2>1. client[1].gen = table.gen
    BY <1>1, <1>2, RepresentsReads
  <2> QED
    BY <1>2, <2>1 DEF Refused, frame
<1>3. CASE frame.mode = "full" /\ Decodes(frame) /\ Represents(MaterializeFull(frame), table)
  BY <1>3 DEF Refused, frame
<1>4. CASE client # <<>> /\ DeltaRight(frame, client[1], table)
  <2>1. /\ frame.mode = "delta" /\ Decodes(frame)
        /\ client[1].gen = frame.baseGeneration /\ ValidateDelta(client[1], frame)
    BY <1>4 DEF DeltaRight
  <2> QED
    BY <1>4, <2>1 DEF Refused, frame
<1> QED
  BY <1>1, <1>2, <1>3, <1>4 DEF Answers

LEMMA InvCanonical == TableInv => IndexesCanonical
<1> SUFFICES ASSUME TableInv, client # <<>>
             PROVE  /\ Canonical(client[1].paths) /\ Canonical(client[1].symbols)
                    /\ client[1].counts = Recounted(client[1].paths)
                    /\ \A i \in DOMAIN Rows(client[1].symbols) :
                         /\ Canonical(Rows(client[1].symbols)[i].val.references)
                         /\ Rows(client[1].symbols)[i].val.referenceCount
                              = Len(ToFact(Rows(client[1].symbols)[i].val).refs)
  BY DEF IndexesCanonical
<1>1. PICK old : GoodTable(old) /\ Represents(client[1], old)
  BY DEF TableInv, ClientRight
<1> QED
  BY <1>1, RepresentsCanonical

-----------------------------------------------------------------------------
(* The theorems. *)

\* After any sequence of full, sparse, exact and fallback transitions, applied
\* one by one or in one pass, with lost responses in between, the client's
\* table is the one the producer published, row by row.
THEOREM ClientIsExact == Spec => []ClientHoldsTarget
<1>1. Spec => []TableInv
  BY TableStart, TableStep, PTL DEF Spec
<1> QED
  BY <1>1, InvHolds, PTL

\* Every response the producer plans decodes in strict order, and its
\* reference operations find their symbols in the table the client holds: the
\* client refuses none.
THEOREM NoResponseRefused == Spec => []ResponsesAccepted
<1>1. Spec => []TableInv
  BY TableStart, TableStep, PTL DEF Spec
<1> QED
  BY <1>1, InvAccepts, PTL

\* The client's packed indexes keep non-empty leaves within their bound and
\* ascending keys, and its counts are those of its rows.
THEOREM IndexesStayCanonical == Spec => []IndexesCanonical
<1>1. Spec => []TableInv
  BY TableStart, TableStep, PTL DEF Spec
<1> QED
  BY <1>1, InvCanonical, PTL

-----------------------------------------------------------------------------
(* What a delta reports as changed. *)

\* A right slot moves the row exactly when the rows differ.
LEMMA SlotMoves ==
  ASSUME NEW slot, NEW o, NEW n, NEW absent, SlotRight(slot, o, n, absent)
  PROVE  Moves("delta", slot, o, absent) <=> o # n
<1>1. /\ slot.op \in {"unchanged", "replace", "remove"}
      /\ slot.op = "replace" => slot.row = n
      /\ slot.op = "remove" => n = absent
      /\ slot.op = "unchanged" => o = n
  BY SlotApplied
<1> QED
  BY <1>1 DEF Moves

\* The reported paths are those whose rows differ.
LEMMA ReportRight ==
  ASSUME NEW old, GoodTable(old), NEW new, GoodTable(new), NEW before, Represents(before, old),
         NEW after, Represents(after, new),
         NEW frame, frame.mode = "delta", PathPlanOk(frame.paths, old, new)
  PROVE  /\ TableChanges(before, frame).entityPaths = MovedEntities(before, after)
         /\ TableChanges(before, frame).filePaths = MovedFiles(before, after)
<1> DEFINE ops == frame.paths
           W == Range(ops)
           EM(o) == Moves(frame.mode, o.entities, RowsAt(before, o.path).entities, <<>>)
           FM(o) == Moves(frame.mode, o.file, RowsAt(before, o.path).file, 0)
           entities == {op.path : op \in {o \in W : EM(o)}}
           files == {op.path : op \in {o \in W : FM(o)}}
<1>1. TableChanges(before, frame).entityPaths = entities /\ TableChanges(before, frame).filePaths = files
  BY DEF TableChanges
<1>2. \A p \in Paths : RowsAt(before, p) = old.paths[p] /\ RowsAt(after, p) = new.paths[p]
  BY RepresentsReads
<1>3. W = {ops[i] : i \in 1..Len(ops)}
  BY RangeSeq DEF PathPlanOk, PathOps
<1>4. ASSUME NEW o \in W
      PROVE  /\ o.path \in Paths
             /\ EM(o) <=> old.paths[o.path].entities # new.paths[o.path].entities
             /\ FM(o) <=> old.paths[o.path].file # new.paths[o.path].file
  <2>1. /\ o.path \in Paths
        /\ PathOpRight(o, o.path, old.paths[o.path], new.paths[o.path])
    BY <1>3 DEF PathPlanOk
  <2> DEFINE oe == old.paths[o.path].entities
             ne == new.paths[o.path].entities
             of == old.paths[o.path].file
             nf == new.paths[o.path].file
  <2>2. SlotRight(o.entities, oe, ne, <<>>) /\ SlotRight(o.file, of, nf, 0)
    BY <2>1 DEF PathOpRight
  <2>3. RowsAt(before, o.path).entities = oe /\ RowsAt(before, o.path).file = of
    BY <1>2, <2>1
  <2> HIDE DEF oe, ne, of, nf
  <2>4. Moves("delta", o.entities, oe, <<>>) <=> oe # ne
    BY <2>2, SlotMoves
  <2>5. Moves("delta", o.file, of, 0) <=> of # nf
    BY <2>2, SlotMoves
  <2>6. (EM(o) <=> oe # ne) /\ (FM(o) <=> of # nf)
    BY <2>3, <2>4, <2>5
  <2> QED
    BY <2>1, <2>6 DEF oe, ne, of, nf
<1>5. ASSUME NEW p \in Paths, old.paths[p] # new.paths[p] PROVE \E o \in W : o.path = p
  BY <1>3, <1>5 DEF PathPlanOk, PathPlanRight
<1> HIDE DEF W, EM, FM
<1>6. entities = MovedEntities(before, after)
  <2>1. ASSUME NEW p \in entities PROVE p \in MovedEntities(before, after)
    BY <1>2, <1>4 DEF MovedEntities
  <2>2. ASSUME NEW p \in MovedEntities(before, after) PROVE p \in entities
    <3>1. p \in Paths /\ old.paths[p].entities # new.paths[p].entities
      BY <1>2 DEF MovedEntities
    <3>2. PICK o \in W : o.path = p
      BY <1>5, <3>1
    <3> QED
      BY <1>4, <3>1, <3>2
  <2> QED
    BY <2>1, <2>2
<1>7. files = MovedFiles(before, after)
  <2>1. ASSUME NEW p \in files PROVE p \in MovedFiles(before, after)
    BY <1>2, <1>4 DEF MovedFiles
  <2>2. ASSUME NEW p \in MovedFiles(before, after) PROVE p \in files
    <3>1. p \in Paths /\ old.paths[p].file # new.paths[p].file
      BY <1>2 DEF MovedFiles
    <3>2. PICK o \in W : o.path = p
      BY <1>5, <3>1
    <3> QED
      BY <1>4, <3>1, <3>2
  <2> QED
    BY <2>1, <2>2
<1> QED
  BY <1>1, <1>6, <1>7

\* A step that takes a delta is the client's, and the delta was planned
\* between the two tables it reads.
LEMMA DeltaReported ==
  ASSUME TableInv, Next, wire # <<>>, wire' = <<>>, client' # <<>>, wire[1].mode = "delta"
  PROVE  /\ TableChanges(client[1], wire[1]).entityPaths = MovedEntities(client[1], client'[1])
         /\ TableChanges(client[1], wire[1]).filePaths = MovedFiles(client[1], client'[1])
<1> DEFINE frame == wire[1]
           new == base[1]
<1>1. Accept
  BY DEF Next, Analyze, Discard
<1>2. client' = <<ApplyDelta(client[1], frame)>>
  BY <1>1 DEF Accept
<1>3. GoodTable(new) /\ Answers(frame, client, new)
  BY DEF TableInv, WireRight, BaseRight
<1> HIDE DEF frame, new
<1>4. frame.mode = "delta"
  BY DEF frame
<1>5. DeltaRight(frame, client[1], new)
  BY <1>3, <1>4 DEF Answers
<1>6. PICK old : GoodTable(old) /\ Represents(client[1], old) /\ PathPlanOk(frame.paths, old, new)
  BY <1>5 DEF DeltaRight
<1>7. Represents(client'[1], new)
  BY <1>2, <1>5 DEF DeltaRight
<1>8. /\ TableChanges(client[1], frame).entityPaths = MovedEntities(client[1], client'[1])
      /\ TableChanges(client[1], frame).filePaths = MovedFiles(client[1], client'[1])
  BY <1>3, <1>4, <1>6, <1>7, ReportRight
<1> QED
  BY <1>8 DEF frame

\* A consumer that follows a delta's report of changed entities and file rows
\* sees every change and nothing else, although a sparse delta resends rows
\* that did not change and a removal may find nothing to remove.
THEOREM DeltasReportExactly == Spec => ChangesExact
<1>1. Spec => []TableInv
  BY TableStart, TableStep, PTL DEF Spec
<1> DEFINE A == wire # <<>> /\ wire' = <<>> /\ client' # <<>> /\ wire[1].mode = "delta" =>
                  LET changes == TableChanges(client[1], wire[1])
                  IN  /\ changes.entityPaths = MovedEntities(client[1], client'[1])
                      /\ changes.filePaths   = MovedFiles(client[1], client'[1])
<1>2. TableInv /\ [Next]_vars => [A]_vars
  BY DeltaReported
<1> QED
  BY <1>1, <1>2, PTL DEF Spec, ChangesExact

=============================================================================
