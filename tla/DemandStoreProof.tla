-------------------------- MODULE DemandStoreProof --------------------------
(* Proofs about DemandStore for any paths, runs and requests.  Rolling back *)
(* restores the store because every edit is undone in the store it was made *)
(* in: the history variable trail holds the store before each entry of the  *)
(* undo log, and undoing an entry leads from one to the one before.  The    *)
(* store implements DemandSet because each edit does to its path what the   *)
(* request says and nothing to any other.                                   *)
EXTENDS DemandStore, SequenceTheorems, WellFoundedInduction, TLAPS

-----------------------------------------------------------------------------
(* Editing sequences.                                                      *)

\* What InsertAt holds where.
LEMMA InsertAtProperties ==
  ASSUME NEW S, NEW s \in Seq(S), NEW i \in 1 .. Len(s) + 1, NEW e \in S
  PROVE  /\ InsertAt(s, i, e) \in Seq(S)
         /\ Len(InsertAt(s, i, e)) = Len(s) + 1
         /\ \A j \in 1 .. i - 1 : InsertAt(s, i, e)[j] = s[j]
         /\ InsertAt(s, i, e)[i] = e
         /\ \A j \in i + 1 .. Len(s) + 1 : InsertAt(s, i, e)[j] = s[j - 1]
<1> DEFINE front == SubSeq(s, 1, i - 1)
           back  == SubSeq(s, i, Len(s))
<1>1. Len(s) \in Nat /\ i \in Int /\ \A j \in 1 .. Len(s) : s[j] \in S
  BY LenProperties
<1>2. /\ front \in Seq(S) /\ Len(front) = i - 1
      /\ \A j \in 1 .. i - 1 : front[j] = s[j]
  <2>1. \A j \in 1 .. i - 1 : s[j] \in S
    BY <1>1
  <2> QED
    BY <1>1, <2>1, SubSeqProperties
<1>3. /\ back \in Seq(S) /\ Len(back) = Len(s) - i + 1
      /\ \A j \in 1 .. Len(s) - i + 1 : back[j] = s[i + j - 1]
  <2>1. \A j \in i .. Len(s) : s[j] \in S
    BY <1>1
  <2> QED
    BY <1>1, <2>1, SubSeqProperties
<1>4. <<e>> \in Seq(S) /\ Len(<<e>>) = 1 /\ <<e>>[1] = e
  OBVIOUS
<1> HIDE DEF front, back
<1>5. /\ front \o <<e>> \in Seq(S) /\ Len(front \o <<e>>) = i
      /\ \A j \in 1 .. i : (front \o <<e>>)[j] = IF j < i THEN s[j] ELSE e
  BY <1>1, <1>2, <1>4, ConcatProperties
<1> DEFINE t == front \o <<e>> \o back
<1>6. /\ t \in Seq(S) /\ Len(t) = Len(s) + 1
      /\ \A j \in 1 .. Len(s) + 1 :
           t[j] = IF j <= i THEN (front \o <<e>>)[j] ELSE back[j - i]
  BY <1>1, <1>3, <1>5, ConcatProperties
<1>7. InsertAt(s, i, e) = t
  BY DEF InsertAt, front, back
<1> HIDE DEF t
<1>8. \A j \in 1 .. i - 1 : t[j] = s[j]
  <2> SUFFICES ASSUME NEW j \in 1 .. i - 1 PROVE t[j] = s[j]
    OBVIOUS
  <2>1. j \in 1 .. i /\ j \in 1 .. Len(s) + 1 /\ j < i /\ j <= i
    BY <1>1
  <2> QED
    BY <1>5, <1>6, <2>1
<1>9. t[i] = e
  BY <1>1, <1>5, <1>6
<1>10. \A j \in i + 1 .. Len(s) + 1 : t[j] = s[j - 1]
  <2> SUFFICES ASSUME NEW j \in i + 1 .. Len(s) + 1 PROVE t[j] = s[j - 1]
    OBVIOUS
  <2>1. t[j] = back[j - i] /\ j - i \in 1 .. Len(s) - i + 1
    BY <1>1, <1>6
  <2>2. back[j - i] = s[i + (j - i) - 1]
    BY <1>3, <2>1
  <2> QED
    BY <1>1, <2>1, <2>2
<1> QED
  BY <1>6, <1>7, <1>8, <1>9, <1>10

\* What RemoveAt holds where.
LEMMA RemoveAtProperties ==
  ASSUME NEW S, NEW s \in Seq(S), NEW i \in 1 .. Len(s)
  PROVE  /\ RemoveAt(s, i) \in Seq(S)
         /\ Len(RemoveAt(s, i)) = Len(s) - 1
         /\ \A j \in 1 .. i - 1 : RemoveAt(s, i)[j] = s[j]
         /\ \A j \in i .. Len(s) - 1 : RemoveAt(s, i)[j] = s[j + 1]
<1> DEFINE front == SubSeq(s, 1, i - 1)
           back  == SubSeq(s, i + 1, Len(s))
<1>1. Len(s) \in Nat /\ i \in Int /\ \A j \in 1 .. Len(s) : s[j] \in S
  BY LenProperties
<1>2. /\ front \in Seq(S) /\ Len(front) = i - 1
      /\ \A j \in 1 .. i - 1 : front[j] = s[j]
  <2>1. \A j \in 1 .. i - 1 : s[j] \in S
    BY <1>1
  <2> QED
    BY <1>1, <2>1, SubSeqProperties
<1>3. /\ back \in Seq(S) /\ Len(back) = Len(s) - i
      /\ \A j \in 1 .. Len(s) - i : back[j] = s[i + j]
  <2>1. \A j \in i + 1 .. Len(s) : s[j] \in S
    BY <1>1
  <2> QED
    BY <1>1, <2>1, SubSeqProperties
<1> HIDE DEF front, back
<1> DEFINE t == front \o back
<1>4. /\ t \in Seq(S) /\ Len(t) = Len(s) - 1
      /\ \A j \in 1 .. Len(s) - 1 :
           t[j] = IF j <= i - 1 THEN front[j] ELSE back[j - (i - 1)]
  <2>1. Len(front) + Len(back) = Len(s) - 1
    BY <1>1, <1>2, <1>3
  <2>2. /\ t \in Seq(S) /\ Len(t) = Len(front) + Len(back)
        /\ \A j \in 1 .. Len(front) + Len(back) :
             t[j] = IF j <= Len(front) THEN front[j] ELSE back[j - Len(front)]
    BY <1>2, <1>3, ConcatProperties
  <2> QED
    BY <1>2, <2>1, <2>2
<1>5. RemoveAt(s, i) = t
  BY DEF RemoveAt, front, back
<1> HIDE DEF t
<1>6. \A j \in 1 .. i - 1 : t[j] = s[j]
  <2> SUFFICES ASSUME NEW j \in 1 .. i - 1 PROVE t[j] = s[j]
    OBVIOUS
  <2>1. j \in 1 .. Len(s) - 1 /\ j <= i - 1
    BY <1>1
  <2> QED
    BY <1>2, <1>4, <2>1
<1>7. \A j \in i .. Len(s) - 1 : t[j] = s[j + 1]
  <2> SUFFICES ASSUME NEW j \in i .. Len(s) - 1 PROVE t[j] = s[j + 1]
    OBVIOUS
  <2>1. j \in 1 .. Len(s) - 1 /\ ~ (j <= i - 1) /\ j - (i - 1) \in 1 .. Len(s) - i
    BY <1>1
  <2>2. t[j] = s[i + (j - (i - 1))]
    BY <1>3, <1>4, <2>1
  <2> QED
    BY <1>1, <2>2
<1> QED
  BY <1>4, <1>5, <1>6, <1>7

\* Removing what was inserted, inserting what was removed and overwriting what
\* was overwritten leave the sequence as it was.
LEMMA RemoveInserted ==
  ASSUME NEW S, NEW s \in Seq(S), NEW i \in 1 .. Len(s) + 1, NEW e \in S
  PROVE  RemoveAt(InsertAt(s, i, e), i) = s
<1> DEFINE t == InsertAt(s, i, e)
<1>1. Len(s) \in Nat
  BY LenProperties
<1>2. /\ t \in Seq(S) /\ Len(t) = Len(s) + 1
      /\ \A j \in 1 .. i - 1 : t[j] = s[j]
      /\ \A j \in i + 1 .. Len(s) + 1 : t[j] = s[j - 1]
  BY InsertAtProperties
<1> HIDE DEF t
<1>3. /\ RemoveAt(t, i) \in Seq(S) /\ Len(RemoveAt(t, i)) = Len(s)
      /\ \A j \in 1 .. i - 1 : RemoveAt(t, i)[j] = t[j]
      /\ \A j \in i .. Len(s) : RemoveAt(t, i)[j] = t[j + 1]
  <2>1. i \in 1 .. Len(t) /\ Len(t) - 1 = Len(s)
    BY <1>1, <1>2
  <2> QED
    BY <1>2, <2>1, RemoveAtProperties
<1>4. \A j \in 1 .. Len(s) : RemoveAt(t, i)[j] = s[j]
  <2> SUFFICES ASSUME NEW j \in 1 .. Len(s) PROVE RemoveAt(t, i)[j] = s[j]
    OBVIOUS
  <2>1. CASE j \in 1 .. i - 1
    BY <1>2, <1>3, <2>1
  <2>2. CASE j \in i .. Len(s)
    <3>1. j + 1 \in i + 1 .. Len(s) + 1 /\ (j + 1) - 1 = j
      BY <1>1, <2>2
    <3> QED
      BY <1>2, <1>3, <2>2, <3>1
  <2> QED
    BY <1>1, <2>1, <2>2
<1> QED
  BY <1>3, <1>4, SeqEqual DEF t

\* Inserting what was removed restores the sequence.
LEMMA InsertRemoved ==
  ASSUME NEW S, NEW s \in Seq(S), NEW i \in 1 .. Len(s)
  PROVE  InsertAt(RemoveAt(s, i), i, s[i]) = s
<1> DEFINE t == RemoveAt(s, i)
<1>1. Len(s) \in Nat /\ s[i] \in S
  BY LenProperties
<1>2. /\ t \in Seq(S) /\ Len(t) = Len(s) - 1
      /\ \A j \in 1 .. i - 1 : t[j] = s[j]
      /\ \A j \in i .. Len(s) - 1 : t[j] = s[j + 1]
  BY RemoveAtProperties
<1> HIDE DEF t
<1>3. /\ InsertAt(t, i, s[i]) \in Seq(S) /\ Len(InsertAt(t, i, s[i])) = Len(s)
      /\ \A j \in 1 .. i - 1 : InsertAt(t, i, s[i])[j] = t[j]
      /\ InsertAt(t, i, s[i])[i] = s[i]
      /\ \A j \in i + 1 .. Len(s) : InsertAt(t, i, s[i])[j] = t[j - 1]
  <2>1. i \in 1 .. Len(t) + 1 /\ Len(t) + 1 = Len(s)
    BY <1>1, <1>2
  <2> DEFINE e == s[i]
  <2>2. e \in S
    BY <1>1
  <2> HIDE DEF e
  <2>3. /\ InsertAt(t, i, e) \in Seq(S) /\ Len(InsertAt(t, i, e)) = Len(t) + 1
        /\ \A j \in 1 .. i - 1 : InsertAt(t, i, e)[j] = t[j]
        /\ InsertAt(t, i, e)[i] = e
        /\ \A j \in i + 1 .. Len(t) + 1 : InsertAt(t, i, e)[j] = t[j - 1]
    BY <1>2, <2>1, <2>2, InsertAtProperties
  <2> QED
    BY <2>1, <2>3 DEF e
<1>4. \A j \in 1 .. Len(s) : InsertAt(t, i, s[i])[j] = s[j]
  <2> SUFFICES ASSUME NEW j \in 1 .. Len(s) PROVE InsertAt(t, i, s[i])[j] = s[j]
    OBVIOUS
  <2>1. CASE j \in 1 .. i - 1
    BY <1>2, <1>3, <2>1
  <2>2. CASE j = i
    BY <1>3, <2>2
  <2>3. CASE j \in i + 1 .. Len(s)
    <3>1. j - 1 \in i .. Len(s) - 1 /\ (j - 1) + 1 = j
      BY <1>1, <2>3
    <3> QED
      BY <1>2, <1>3, <2>3, <3>1
  <2> QED
    BY <1>1, <2>1, <2>2, <2>3
<1> QED
  BY <1>3, <1>4, SeqEqual DEF t

\* A replacement changes one place and is undone by the element that was there.
LEMMA ReplaceReplaced ==
  ASSUME NEW S, NEW s \in Seq(S), NEW i \in 1 .. Len(s), NEW e \in S
  PROVE  /\ ReplaceAt(s, i, e) \in Seq(S)
         /\ Len(ReplaceAt(s, i, e)) = Len(s)
         /\ \A j \in 1 .. Len(s) : ReplaceAt(s, i, e)[j] = IF j = i THEN e ELSE s[j]
         /\ ReplaceAt(ReplaceAt(s, i, e), i, s[i]) = s
<1>1. Len(s) \in Nat /\ s[i] \in S
  BY LenProperties
<1>2. /\ ReplaceAt(s, i, e) \in Seq(S)
      /\ Len(ReplaceAt(s, i, e)) = Len(s)
      /\ \A j \in 1 .. Len(s) : ReplaceAt(s, i, e)[j] = IF j = i THEN e ELSE s[j]
  BY ExceptSeq DEF ReplaceAt
<1> DEFINE t == ReplaceAt(s, i, e)
<1>3. ReplaceAt(t, i, s[i]) = s
  <2> HIDE DEF t
  <2>1. /\ t \in Seq(S) /\ Len(t) = Len(s)
        /\ \A j \in 1 .. Len(s) : t[j] = IF j = i THEN e ELSE s[j]
    BY <1>2 DEF t
  <2>2. /\ ReplaceAt(t, i, s[i]) \in Seq(S)
        /\ Len(ReplaceAt(t, i, s[i])) = Len(s)
        /\ \A j \in 1 .. Len(s) :
             ReplaceAt(t, i, s[i])[j] = IF j = i THEN s[i] ELSE t[j]
    BY <1>1, <2>1, ExceptSeq DEF ReplaceAt
  <2>3. \A j \in 1 .. Len(s) : ReplaceAt(t, i, s[i])[j] = s[j]
    BY <2>1, <2>2
  <2> QED
    BY <2>2, <2>3, SeqEqual
<1> QED
  BY <1>2, <1>3

-----------------------------------------------------------------------------
(* sort.Search on groups in path order.                                    *)

\* In a store in path order there is exactly one place for a path: before it
\* all paths are smaller, from it on none is.
LEMMA SearchFinds ==
  ASSUME NEW gs \in Seq(Group), Sorted(gs), NEW p \in Paths
  PROVE  /\ Search(gs, p) \in 1 .. Len(gs) + 1
         /\ \A j \in 1 .. Search(gs, p) - 1 : gs[j].path < p
         /\ \A j \in Search(gs, p) .. Len(gs) : gs[j].path >= p
<1>1. Len(gs) \in Nat /\ \A j \in 1 .. Len(gs) : gs[j] \in Group
  BY LenProperties
<1>2. p \in Nat /\ \A j \in 1 .. Len(gs) : gs[j].path \in Nat
  BY <1>1, DemandStoreAssumption DEF Group
<1> DEFINE T == {j \in 1 .. Len(gs) + 1 : j <= Len(gs) => gs[j].path >= p}
           R == OpToRel(<, Nat)
<1>least. \E i \in T : \A j \in T : ~ (<<j, i>> \in R)
  <2>1. T \subseteq Nat /\ T # {}
    <3>1. Len(gs) + 1 \in T
      BY <1>1
    <3> QED
      BY <1>1, <3>1
  <2> HIDE DEF T, R
  <2>2. IsWellFoundedOn(R, Nat)
    BY NatLessThanWellFounded DEF R
  <2> QED
    BY <2>1, <2>2, WFMin
<1>3. PICK i \in T : \A j \in T : ~ (<<j, i>> \in R)
  BY <1>least
<1>place. i \in 1 .. Len(gs) + 1 /\ (i <= Len(gs) => gs[i].path >= p)
  OBVIOUS
<1>4. \A j \in T : ~ (j < i)
  <2> SUFFICES ASSUME NEW j \in T, j < i PROVE FALSE
    OBVIOUS
  <2>1. <<j, i>> \in Nat \X Nat
    BY <1>1
  <2>2. <<j, i>> \in R
    BY <2>1 DEF OpToRel
  <2> QED
    BY <1>3, <2>2
<1>5. \A j \in 1 .. i - 1 : gs[j].path < p
  <2> SUFFICES ASSUME NEW j \in 1 .. i - 1 PROVE gs[j].path < p
    OBVIOUS
  <2>1. j < i /\ j \in 1 .. Len(gs)
    BY <1>1, <1>place
  <2>2. j \notin T
    BY <1>4, <2>1
  <2> QED
    BY <1>1, <1>2, <2>1, <2>2
<1>6. \A j \in i .. Len(gs) : gs[j].path >= p
  <2> SUFFICES ASSUME NEW j \in i .. Len(gs) PROVE gs[j].path >= p
    OBVIOUS
  <2>1. i \in 1 .. Len(gs) /\ j \in 1 .. Len(gs) /\ (i = j \/ i < j)
    BY <1>1, <1>place
  <2>2. gs[i].path >= p /\ (i < j => gs[i].path < gs[j].path)
    BY <1>place, <2>1 DEF Sorted
  <2> QED
    BY <1>2, <2>1, <2>2
<1>7. \E k \in 1 .. Len(gs) + 1 :
        /\ \A j \in 1 .. k - 1 : gs[j].path < p
        /\ \A j \in k .. Len(gs) : gs[j].path >= p
  BY <1>3, <1>5, <1>6
<1> QED
  BY <1>7 DEF Search

\* The three edits keep the path order, and their undo entries lead back.
LEMMA ReplaceKeepsOrder ==
  ASSUME NEW gs \in Seq(Group), Sorted(gs), NEW group \in Group, Holds(gs, group.path)
  PROVE  LET i == Search(gs, group.path)
             t == ReplaceAt(gs, i, group)
         IN  /\ i \in Nat \ {0} /\ gs[i] \in Group
             /\ t \in Seq(Group) /\ Sorted(t)
             /\ Undone(t, [kind |-> "replace", index |-> i, previous |-> gs[i]]) = gs
<1> DEFINE i == Search(gs, group.path)
           t == ReplaceAt(gs, i, group)
<1>1. Len(gs) \in Nat /\ group.path \in Paths
  BY LenProperties DEF Group
<1>2. i \in 1 .. Len(gs) /\ gs[i].path = group.path
  BY <1>1, SearchFinds DEF Holds
<1> HIDE DEF i
<1>3. /\ t \in Seq(Group) /\ Len(t) = Len(gs)
      /\ \A j \in 1 .. Len(gs) : t[j] = IF j = i THEN group ELSE gs[j]
      /\ ReplaceAt(t, i, gs[i]) = gs
  BY <1>2, ReplaceReplaced
<1> HIDE DEF t
<1>4. \A j \in 1 .. Len(gs) : t[j].path = gs[j].path
  BY <1>2, <1>3
<1>5. Sorted(t)
  BY <1>3, <1>4 DEF Sorted
<1>6. Undone(t, [kind |-> "replace", index |-> i, previous |-> gs[i]]) = gs
  BY <1>3 DEF Undone
<1>7. i \in Nat \ {0} /\ gs[i] \in Group
  BY <1>1, <1>2, ElementOfSeq
<1> QED
  BY <1>3, <1>5, <1>6, <1>7 DEF i, t

\* A new group goes where the search ends, and its undo entry takes it out again.
LEMMA InsertKeepsOrder ==
  ASSUME NEW gs \in Seq(Group), Sorted(gs), NEW group \in Group, ~Holds(gs, group.path)
  PROVE  LET i == Search(gs, group.path)
             t == InsertAt(gs, i, group)
         IN  /\ i \in Nat \ {0}
             /\ t \in Seq(Group) /\ Sorted(t)
             /\ Undone(t, [kind |-> "insert", index |-> i, previous |-> group]) = gs
<1> DEFINE i == Search(gs, group.path)
           t == InsertAt(gs, i, group)
<1>1. /\ Len(gs) \in Nat /\ group.path \in Paths /\ group.path \in Nat
      /\ \A j \in 1 .. Len(gs) : gs[j].path \in Nat
  <2>1. Len(gs) \in Nat /\ \A j \in 1 .. Len(gs) : gs[j] \in Group
    BY LenProperties, ElementOfSeq
  <2>2. group.path \in Paths /\ Paths \subseteq Nat
    BY DemandStoreAssumption DEF Group
  <2> QED
    BY <2>1, <2>2 DEF Group
<1>2. /\ i \in 1 .. Len(gs) + 1
      /\ \A j \in 1 .. i - 1 : gs[j].path < group.path
      /\ \A j \in i .. Len(gs) : gs[j].path >= group.path
  BY <1>1, SearchFinds
<1>3. i <= Len(gs) => gs[i].path # group.path
  BY DEF Holds
<1> HIDE DEF i
<1>4. /\ t \in Seq(Group) /\ Len(t) = Len(gs) + 1
      /\ \A j \in 1 .. i - 1 : t[j] = gs[j]
      /\ t[i] = group
      /\ \A j \in i + 1 .. Len(gs) + 1 : t[j] = gs[j - 1]
      /\ RemoveAt(t, i) = gs
  <2>1. RemoveAt(t, i) = gs
    BY <1>2, RemoveInserted
  <2>2. /\ t \in Seq(Group) /\ Len(t) = Len(gs) + 1
        /\ \A j \in 1 .. i - 1 : t[j] = gs[j]
        /\ t[i] = group
        /\ \A j \in i + 1 .. Len(gs) + 1 : t[j] = gs[j - 1]
    BY <1>2, InsertAtProperties
  <2> QED
    BY <2>1, <2>2
<1> HIDE DEF t
<1>5. \A j \in i .. Len(gs) : gs[j].path > group.path
  <2> SUFFICES ASSUME NEW j \in i .. Len(gs) PROVE gs[j].path > group.path
    OBVIOUS
  <2>1. i \in 1 .. Len(gs) /\ j \in 1 .. Len(gs) /\ (i = j \/ i < j)
    BY <1>1, <1>2
  <2>2. gs[i].path >= group.path /\ (i < j => gs[i].path < gs[j].path)
    BY <1>1, <1>2, <2>1 DEF Sorted
  <2> QED
    BY <1>1, <1>3, <2>1, <2>2
<1>6. Sorted(t)
  <2> SUFFICES ASSUME NEW j \in 1 .. Len(gs) + 1, NEW k \in 1 .. Len(gs) + 1, j < k
               PROVE  t[j].path < t[k].path
    BY <1>4 DEF Sorted
  <2>1. CASE j \in 1 .. i - 1 /\ k \in 1 .. i - 1
    <3>1. j \in 1 .. Len(gs) /\ k \in 1 .. Len(gs)
      BY <1>1, <1>2, <2>1
    <3> QED
      BY <1>4, <2>1, <3>1 DEF Sorted
  <2>2. CASE j \in 1 .. i - 1 /\ k = i
    BY <1>2, <1>4, <2>2
  <2>3. CASE j \in 1 .. i - 1 /\ k \in i + 1 .. Len(gs) + 1
    <3>1. j \in 1 .. Len(gs) /\ k - 1 \in 1 .. Len(gs) /\ j < k - 1
      BY <1>1, <1>2, <2>3
    <3> QED
      BY <1>4, <2>3, <3>1 DEF Sorted
  <2>4. CASE j = i /\ k \in i + 1 .. Len(gs) + 1
    <3>1. k - 1 \in i .. Len(gs)
      BY <1>1, <1>2, <2>4
    <3>2. gs[k - 1].path > group.path /\ t[k] = gs[k - 1] /\ t[j] = group
      BY <1>4, <1>5, <2>4, <3>1
    <3>3. gs[k - 1].path \in Nat
      BY <1>1, <1>2, <3>1
    <3> QED
      BY <1>1, <3>2, <3>3
  <2>5. CASE j \in i + 1 .. Len(gs) + 1 /\ k \in i + 1 .. Len(gs) + 1
    <3>1. j - 1 \in 1 .. Len(gs) /\ k - 1 \in 1 .. Len(gs) /\ j - 1 < k - 1
      BY <1>1, <1>2, <2>5
    <3> QED
      BY <1>4, <2>5, <3>1 DEF Sorted
  <2> QED
    BY <1>1, <1>2, <2>1, <2>2, <2>3, <2>4, <2>5
<1>7. Undone(t, [kind |-> "insert", index |-> i, previous |-> group]) = gs
  BY <1>4 DEF Undone
<1>8. i \in Nat \ {0}
  BY <1>1, <1>2
<1> QED
  BY <1>4, <1>6, <1>7, <1>8 DEF i, t

\* A removed group leaves the order, and its undo entry puts it back.
LEMMA RemoveKeepsOrder ==
  ASSUME NEW gs \in Seq(Group), Sorted(gs), NEW p \in Paths, Holds(gs, p)
  PROVE  LET i == Search(gs, p)
             t == RemoveAt(gs, i)
         IN  /\ i \in Nat \ {0} /\ gs[i] \in Group
             /\ t \in Seq(Group) /\ Sorted(t)
             /\ Undone(t, [kind |-> "remove", index |-> i, previous |-> gs[i]]) = gs
<1> DEFINE i == Search(gs, p)
           t == RemoveAt(gs, i)
<1>1. Len(gs) \in Nat
  BY LenProperties
<1>2. i \in 1 .. Len(gs)
  BY <1>1, SearchFinds DEF Holds
<1> HIDE DEF i
<1>3. /\ t \in Seq(Group) /\ Len(t) = Len(gs) - 1
      /\ \A j \in 1 .. i - 1 : t[j] = gs[j]
      /\ \A j \in i .. Len(gs) - 1 : t[j] = gs[j + 1]
      /\ InsertAt(t, i, gs[i]) = gs
  BY <1>2, RemoveAtProperties, InsertRemoved
<1> HIDE DEF t
<1>4. Sorted(t)
  <2> SUFFICES ASSUME NEW j \in 1 .. Len(gs) - 1, NEW k \in 1 .. Len(gs) - 1, j < k
               PROVE  t[j].path < t[k].path
    BY <1>3 DEF Sorted
  <2>1. CASE j \in 1 .. i - 1 /\ k \in 1 .. i - 1
    BY <1>1, <1>2, <1>3, <2>1 DEF Sorted
  <2>2. CASE j \in 1 .. i - 1 /\ k \in i .. Len(gs) - 1
    <3>1. j \in 1 .. Len(gs) /\ k + 1 \in 1 .. Len(gs) /\ j < k + 1
      BY <1>1, <1>2, <2>2
    <3> QED
      BY <1>3, <2>2, <3>1 DEF Sorted
  <2>3. CASE j \in i .. Len(gs) - 1 /\ k \in i .. Len(gs) - 1
    <3>1. j + 1 \in 1 .. Len(gs) /\ k + 1 \in 1 .. Len(gs) /\ j + 1 < k + 1
      BY <1>1, <1>2, <2>3
    <3> QED
      BY <1>3, <2>3, <3>1 DEF Sorted
  <2> QED
    BY <1>1, <1>2, <2>1, <2>2, <2>3
<1>5. Undone(t, [kind |-> "remove", index |-> i, previous |-> gs[i]]) = gs
  BY <1>3 DEF Undone
<1>6. i \in Nat \ {0} /\ gs[i] \in Group
  BY <1>1, <1>2, ElementOfSeq
<1> QED
  BY <1>3, <1>4, <1>5, <1>6 DEF i, t

-----------------------------------------------------------------------------
(* The invariant.                                                          *)

Inv == TypeOK /\ StoreInvariant

\* The invariant holds in the beginning.
LEMMA InitInv == Init => Inv
<1> SUFFICES ASSUME Init PROVE Inv
  OBVIOUS
<1>1. /\ << >> \in Seq(Group) /\ << >> \in Seq(Entry) /\ Len(<< >>) = 0
      /\ trail \in Seq(Seq(Group)) /\ Len(trail) = 1 /\ trail[1] = << >>
  BY DEF Init
<1>2. TypeOK
  BY <1>1 DEF Init, TypeOK, NoRequest
<1>3. Sorted(<< >>)
  BY <1>1 DEF Sorted
<1>4. StoreInvariant
  BY <1>1, <1>3 DEF Init, StoreInvariant
<1> QED
  BY <1>2, <1>4 DEF Inv

\* A transaction that logs an edit: the log grows by the entry that leads back.
LEMMA Logged ==
  ASSUME Inv, NEW t \in Seq(Group), NEW entry \in Entry,
         phase = "editing", phase' = phase, request' = request,
         resetOld' = resetOld, committed' = committed,
         Sorted(t), Undone(t, entry) = groups,
         groups' = t, undo' = Append(undo, entry), trail' = Append(trail, t)
  PROVE  /\ undo' \in Seq(Entry) /\ trail' \in Seq(Seq(Group))
         /\ StoreInvariant'
<1>1. /\ undo \in Seq(Entry) /\ trail \in Seq(Seq(Group))
      /\ Len(undo) \in Nat /\ Len(trail) = Len(undo) + 1
      /\ groups = trail[Len(undo) + 1]
  BY LenProperties DEF Inv, TypeOK, StoreInvariant
<1>2. /\ undo' \in Seq(Entry) /\ Len(undo') = Len(undo) + 1
      /\ \A i \in 1 .. Len(undo) : undo'[i] = undo[i]
      /\ undo'[Len(undo) + 1] = entry
  BY <1>1, AppendProperties
<1>3. /\ trail' \in Seq(Seq(Group)) /\ Len(trail') = Len(undo) + 2
      /\ \A i \in 1 .. Len(undo) + 1 : trail'[i] = trail[i]
      /\ trail'[Len(undo) + 2] = t
  <2>1. /\ trail' \in Seq(Seq(Group)) /\ Len(trail') = Len(trail) + 1
        /\ \A i \in 1 .. Len(trail) : trail'[i] = trail[i]
        /\ trail'[Len(trail) + 1] = t
    BY <1>1, AppendProperties
  <2> QED
    BY <1>1, <2>1
<1>4. \A i \in 1 .. Len(trail') : Sorted(trail'[i])
  <2> SUFFICES ASSUME NEW i \in 1 .. Len(trail') PROVE Sorted(trail'[i])
    OBVIOUS
  <2>1. CASE i \in 1 .. Len(undo) + 1
    BY <1>1, <1>3, <2>1 DEF Inv, StoreInvariant
  <2>2. CASE i = Len(undo) + 2
    BY <1>3, <2>2
  <2> QED
    BY <1>1, <1>3, <2>1, <2>2
<1>5. \A i \in 1 .. Len(undo') : trail'[i] = Undone(trail'[i + 1], undo'[i])
  <2> SUFFICES ASSUME NEW i \in 1 .. Len(undo')
               PROVE  trail'[i] = Undone(trail'[i + 1], undo'[i])
    OBVIOUS
  <2>1. CASE i \in 1 .. Len(undo)
    <3>1. i \in 1 .. Len(undo) + 1 /\ i + 1 \in 1 .. Len(undo) + 1
      BY <1>1, <2>1
    <3>2. trail[i] = Undone(trail[i + 1], undo[i])
      BY <2>1 DEF Inv, StoreInvariant
    <3> QED
      BY <1>2, <1>3, <2>1, <3>1, <3>2
  <2>2. CASE i = Len(undo) + 1
    <3>1. i \in 1 .. Len(undo) + 1 /\ i + 1 = Len(undo) + 2
      BY <1>1, <2>2
    <3>2. trail'[i] = groups /\ trail'[i + 1] = t /\ undo'[i] = entry
      BY <1>1, <1>2, <1>3, <2>2, <3>1
    <3> QED
      BY <3>2
  <2> QED
    BY <1>1, <1>2, <2>1, <2>2
<1>6. trail'[1] = trail[1]
  BY <1>1, <1>3
<1>7. Len(trail') = Len(undo') + 1 /\ groups' = trail'[Len(trail')]
  BY <1>1, <1>2, <1>3
<1>8. /\ Sorted(committed)
      /\ IF request.reset THEN resetOld = committed ELSE trail[1] = committed
  BY DEF Inv, StoreInvariant
<1> QED
  BY <1>2, <1>3, <1>4, <1>5, <1>6, <1>7, <1>8 DEF StoreInvariant

\* A transaction that ends: the log is empty again.
LEMMA Finished ==
  ASSUME Inv, Finish, groups' \in Seq(Group), committed' = groups', Sorted(groups')
  PROVE  Inv'
<1>1. /\ undo' = << >> /\ resetOld' = << >> /\ Len(<< >>) = 0
      /\ << >> \in Seq(Group) /\ << >> \in Seq(Entry)
      /\ trail' \in Seq(Seq(Group)) /\ Len(trail') = 1 /\ trail'[1] = groups'
  BY DEF Finish
<1>2. TypeOK'
  BY <1>1 DEF Inv, TypeOK, Finish, NoRequest
<1>3. StoreInvariant'
  BY <1>1 DEF StoreInvariant, Finish
<1> QED
  BY <1>2, <1>3 DEF Inv

\* Every step of the transaction keeps the invariant.
LEMMA NextInv == Inv /\ [Next]_vars => Inv'
<1> SUFFICES ASSUME Inv, [Next]_vars PROVE Inv'
  OBVIOUS
<1> USE DEF Inv
<1>0. /\ groups \in Seq(Group) /\ Sorted(groups)
      /\ Len(undo) \in Nat /\ Len(trail) = Len(undo) + 1
  <2>1. Len(undo) \in Nat /\ Len(trail) = Len(undo) + 1
    BY LenProperties DEF TypeOK, StoreInvariant
  <2>2. Len(trail) \in 1 .. Len(trail)
    BY <2>1
  <2> QED
    BY <2>1, <2>2 DEF TypeOK, StoreInvariant
<1>1. ASSUME NEW r \in Requests, BeginRuns(r) PROVE Inv'
  <2>1. /\ r.runs \in Seq(Group) /\ r.removed \in SUBSET Paths /\ r.reset \in BOOLEAN
    BY DemandStoreAssumption
  <2>2. /\ groups' \in Seq(Group) /\ resetOld' \in Seq(Group) /\ Sorted(groups')
        /\ << >> \in Seq(Entry) /\ Len(<< >>) = 0
    BY <1>0, <1>1 DEF BeginRuns, Sorted
  <2>3. /\ trail' \in Seq(Seq(Group)) /\ Len(trail') = 1 /\ trail'[1] = groups'
    BY <1>1, <2>2 DEF BeginRuns
  <2>4. changedPaths' \in SUBSET Paths
    <3>1. \A k \in DOMAIN r.runs : r.runs[k] \in Group
      BY <2>1, LenProperties, ElementOfSeq
    <3> QED
      BY <1>1, <2>1, <3>1 DEF BeginRuns, Group
  <2>5. TypeOK'
    BY <1>1, <2>1, <2>2, <2>3, <2>4 DEF TypeOK, BeginRuns
  <2>6. groups = committed
    BY <1>1 DEF BeginRuns, StoreInvariant
  <2>7. StoreInvariant'
    BY <1>1, <2>2, <2>3, <2>6 DEF BeginRuns, StoreInvariant
  <2> QED
    BY <2>5, <2>7
<1>2. CASE ReplaceRun
  <2> DEFINE group == Head(runs)
             index == Search(groups, group.path)
  <2>1. group \in Group /\ runs' \in Seq(Group)
    BY <1>2, HeadTailProperties DEF ReplaceRun, TypeOK
  <2>2. CASE Holds(groups, group.path)
    <3> DEFINE t == ReplaceAt(groups, index, group)
               entry == [kind |-> "replace", index |-> index, previous |-> groups[index]]
    <3>1. /\ groups' = t /\ undo' = Append(undo, entry) /\ trail' = Append(trail, t)
      BY <1>2, <2>2 DEF ReplaceRun
    <3>2. /\ index \in Nat \ {0} /\ groups[index] \in Group
          /\ t \in Seq(Group) /\ Sorted(t) /\ Undone(t, entry) = groups
      BY <1>0, <2>1, <2>2, ReplaceKeepsOrder
    <3> HIDE DEF group, index, t
    <3>3. entry \in Entry
      BY <3>2 DEF Entry, Kinds
    <3> HIDE DEF entry
    <3>4. undo' \in Seq(Entry) /\ trail' \in Seq(Seq(Group)) /\ StoreInvariant'
      BY <1>2, <3>1, <3>2, <3>3, Logged DEF ReplaceRun
    <3>5. TypeOK'
      BY <1>2, <2>1, <3>1, <3>2, <3>4 DEF TypeOK, ReplaceRun
    <3> QED
      BY <3>4, <3>5
  <2>3. CASE ~Holds(groups, group.path)
    <3> DEFINE t == InsertAt(groups, index, group)
               entry == [kind |-> "insert", index |-> index, previous |-> group]
    <3>1. /\ groups' = t /\ undo' = Append(undo, entry) /\ trail' = Append(trail, t)
      BY <1>2, <2>3 DEF ReplaceRun
    <3>2. /\ index \in Nat \ {0}
          /\ t \in Seq(Group) /\ Sorted(t) /\ Undone(t, entry) = groups
      BY <1>0, <2>1, <2>3, InsertKeepsOrder
    <3> HIDE DEF group, index, t
    <3>3. entry \in Entry
      BY <2>1, <3>2 DEF Entry, Kinds
    <3> HIDE DEF entry
    <3>4. undo' \in Seq(Entry) /\ trail' \in Seq(Seq(Group)) /\ StoreInvariant'
      BY <1>2, <3>1, <3>2, <3>3, Logged DEF ReplaceRun
    <3>5. TypeOK'
      BY <1>2, <2>1, <3>1, <3>2, <3>4 DEF TypeOK, ReplaceRun
    <3> QED
      BY <3>4, <3>5
  <2> QED
    BY <2>2, <2>3
<1>3. ASSUME NEW p \in removals, RemoveRun(p) PROVE Inv'
  <2> DEFINE index == Search(groups, p)
  <2>1. p \in Paths
    BY DEF TypeOK
  <2>2. CASE Holds(groups, p)
    <3> DEFINE t == RemoveAt(groups, index)
               entry == [kind |-> "remove", index |-> index, previous |-> groups[index]]
    <3>1. /\ groups' = t /\ undo' = Append(undo, entry) /\ trail' = Append(trail, t)
      BY <1>3, <2>2 DEF RemoveRun
    <3>2. /\ index \in Nat \ {0} /\ groups[index] \in Group
          /\ t \in Seq(Group) /\ Sorted(t) /\ Undone(t, entry) = groups
      BY <1>0, <2>1, <2>2, RemoveKeepsOrder
    <3> HIDE DEF index, t
    <3>3. entry \in Entry
      BY <3>2 DEF Entry, Kinds
    <3> HIDE DEF entry
    <3>4. undo' \in Seq(Entry) /\ trail' \in Seq(Seq(Group)) /\ StoreInvariant'
      BY <1>3, <3>1, <3>2, <3>3, Logged DEF RemoveRun
    <3>5. TypeOK'
      BY <1>3, <3>1, <3>2, <3>4 DEF TypeOK, RemoveRun
    <3> QED
      BY <3>4, <3>5
  <2>3. CASE ~Holds(groups, p)
    <3>1. TypeOK'
      BY <1>3, <2>3 DEF TypeOK, RemoveRun
    <3>2. StoreInvariant'
      BY <1>3, <2>3 DEF StoreInvariant, RemoveRun
    <3> QED
      BY <3>1, <3>2
  <2> QED
    BY <2>2, <2>3
<1>4. CASE Begun
  BY <1>4 DEF Begun, TypeOK, StoreInvariant
<1>5. CASE Commit
  BY <1>0, <1>5, Finished DEF Commit
<1>6. CASE RollbackReset
  <2>1. resetOld = committed /\ Sorted(committed) /\ committed \in Seq(Group)
    BY <1>6 DEF RollbackReset, StoreInvariant, TypeOK
  <2> QED
    BY <1>6, <2>1, Finished DEF RollbackReset
<1>7. CASE RollbackBegins
  BY <1>7 DEF RollbackBegins, TypeOK, StoreInvariant
<1>8. CASE UndoLast
  <2> DEFINE n == Len(undo)
  <2>1. n \in Nat /\ n >= 1 /\ undo \in Seq(Entry) /\ trail \in Seq(Seq(Group))
    BY <1>0, <1>8, LenProperties, EmptySeq DEF UndoLast, TypeOK
  <2>2. /\ undo' \in Seq(Entry) /\ Len(undo') = n - 1
        /\ \A i \in 1 .. n - 1 : undo'[i] = undo[i]
    <3>1. \A i \in 1 .. n - 1 : undo[i] \in Entry
      BY <2>1, LenProperties
    <3>2. undo' = SubSeq(undo, 1, n - 1)
      BY <1>8 DEF UndoLast, Front
    <3> HIDE DEF n
    <3> DEFINE k == n - 1
    <3>3. k \in Nat /\ \A i \in 1 .. k : undo[i] \in Entry
      BY <2>1, <3>1
    <3> HIDE DEF k
    <3>4. /\ SubSeq(undo, 1, k) \in Seq(Entry)
          /\ Len(SubSeq(undo, 1, k)) = k
          /\ \A i \in 1 .. k : SubSeq(undo, 1, k)[i] = undo[i]
      BY <2>1, <3>3, SubSeqProperties
    <3> QED
      BY <3>2, <3>4 DEF k
  <2>3. /\ trail' \in Seq(Seq(Group)) /\ Len(trail') = n
        /\ \A i \in 1 .. n : trail'[i] = trail[i]
    <3>1. \A i \in 1 .. n : trail[i] \in Seq(Group)
      BY <1>0, <2>1, LenProperties
    <3>2. trail' = SubSeq(trail, 1, n)
      BY <1>0, <1>8, <2>1 DEF UndoLast, Front
    <3> QED
      BY <2>1, <3>1, <3>2, SubSeqProperties
  <2>4. groups' = trail[n]
    <3>1. groups' = Undone(trail[n + 1], undo[n])
      BY <1>0, <1>8 DEF UndoLast, Last, StoreInvariant
    <3>2. n \in 1 .. n
      BY <2>1
    <3> QED
      BY <3>1, <3>2 DEF StoreInvariant
  <2>5. trail[n] \in Seq(Group)
    BY <1>0, <2>1, LenProperties
  <2>6. TypeOK'
    BY <1>8, <2>2, <2>3, <2>4, <2>5 DEF UndoLast, TypeOK
  <2>7. \A i \in 1 .. Len(trail') : Sorted(trail'[i])
    BY <1>0, <2>1, <2>3 DEF StoreInvariant
  <2>8. \A i \in 1 .. Len(undo') : trail'[i] = Undone(trail'[i + 1], undo'[i])
    <3> SUFFICES ASSUME NEW i \in 1 .. n - 1
                 PROVE  trail'[i] = Undone(trail'[i + 1], undo'[i])
      BY <2>2
    <3>1. i \in 1 .. n /\ i + 1 \in 1 .. n
      BY <2>1
    <3>2. trail[i] = Undone(trail[i + 1], undo[i])
      BY <3>1 DEF StoreInvariant
    <3> QED
      BY <2>2, <2>3, <3>1, <3>2
  <2>9. trail'[1] = committed' /\ Sorted(committed') /\ ~request'.reset
    BY <1>8, <2>1, <2>3 DEF UndoLast, StoreInvariant
  <2>10. Len(trail') = Len(undo') + 1 /\ groups' = trail'[Len(trail')]
    BY <2>1, <2>2, <2>3, <2>4
  <2>11. phase' = "undoing"
    BY <1>8 DEF UndoLast
  <2>12. StoreInvariant'
    BY <2>7, <2>8, <2>9, <2>10, <2>11 DEF StoreInvariant
  <2> QED
    BY <2>6, <2>12
<1>9. CASE RolledBack
  <2>1. Len(undo) = 0 /\ Len(trail) = 1
    BY <1>0, <1>9 DEF RolledBack
  <2>2. groups = committed
    BY <1>9, <2>1 DEF RolledBack, StoreInvariant
  <2> QED
    BY <1>0, <1>9, <2>2, Finished DEF RolledBack
<1>10. CASE UNCHANGED vars
  BY <1>10 DEF vars, TypeOK, StoreInvariant
<1> QED
  BY <1>1, <1>2, <1>3, <1>4, <1>5, <1>6, <1>7, <1>8, <1>9, <1>10 DEF Next

\* TypeOK and StoreInvariant hold in every state of the demand store.
THEOREM StoreInvariantHolds == Spec => [](TypeOK /\ StoreInvariant)
<1>1. Init => Inv
  BY InitInv
<1>2. Inv /\ [Next]_vars => Inv'
  BY NextInv
<1> QED
  BY <1>1, <1>2, PTL DEF Spec, Inv

\* The groups are in path order in every state, so every binary search of the
\* store finds its group.
THEOREM PathOrderHolds == Spec => []PathOrder
<1>1. Inv => PathOrder
  <2> SUFFICES ASSUME Inv PROVE PathOrder
    OBVIOUS
  <2>1. Len(undo) \in Nat /\ Len(trail) = Len(undo) + 1
    BY LenProperties DEF Inv, TypeOK, StoreInvariant
  <2>2. Len(trail) \in 1 .. Len(trail)
    BY <2>1
  <2> QED
    BY <2>2 DEF Inv, StoreInvariant, PathOrder
<1>2. Spec => []Inv
  BY InitInv, NextInv, PTL DEF Spec
<1> QED
  BY <1>1, <1>2, PTL

\* Between transactions the store is the published one: rollback restores it
\* exactly, whatever replacements, insertions and removals it takes back.
THEOREM RollbackIsExact == Spec => []RollbackRestores
<1>1. Inv => RollbackRestores
  BY DEF Inv, StoreInvariant, RollbackRestores
<1>2. Spec => []Inv
  BY InitInv, NextInv, PTL DEF Spec
<1> QED
  BY <1>1, <1>2, PTL

-----------------------------------------------------------------------------
(* What the closure is told.                                               *)

\* at finds the run of a path that has a group, and none for another.
LEMMA AtFinds ==
  ASSUME NEW gs \in Seq(Group), Sorted(gs), NEW p \in Paths
  PROVE  /\ \A i \in 1 .. Len(gs) : gs[i].path = p => At(gs, p) = <<gs[i].run>>
         /\ (\A i \in 1 .. Len(gs) : gs[i].path # p) => At(gs, p) = << >>
<1> DEFINE k == Search(gs, p)
<1>1. /\ k \in 1 .. Len(gs) + 1
      /\ \A j \in 1 .. k - 1 : gs[j].path < p
      /\ \A j \in k .. Len(gs) : gs[j].path >= p
  BY SearchFinds
<1>2. /\ Len(gs) \in Nat /\ p \in Nat
      /\ \A j \in 1 .. Len(gs) : gs[j].path \in Nat
  <2>1. Len(gs) \in Nat /\ \A j \in 1 .. Len(gs) : gs[j] \in Group
    BY LenProperties, ElementOfSeq
  <2> QED
    BY <2>1, DemandStoreAssumption DEF Group
<1>3. At(gs, p) = IF k <= Len(gs) /\ gs[k].path = p THEN <<gs[k].run>> ELSE << >>
  BY DEF At, Holds
<1> HIDE DEF k
<1>4. ASSUME NEW i \in 1 .. Len(gs), gs[i].path = p PROVE k = i
  <2>1. ~ (i < k)
    <3>1. i < k => i \in 1 .. k - 1
      BY <1>1, <1>2
    <3> QED
      BY <1>1, <1>2, <1>4, <3>1
  <2>2. ~ (k < i)
    <3>1. k < i => k \in 1 .. Len(gs) /\ k \in k .. Len(gs)
      BY <1>1, <1>2
    <3>2. k < i => gs[k].path < gs[i].path /\ gs[k].path >= p /\ gs[k].path \in Nat
      BY <1>1, <1>2, <3>1 DEF Sorted
    <3> QED
      BY <1>2, <1>4, <3>2
  <2> QED
    BY <1>1, <1>2, <2>1, <2>2
<1>5. \A i \in 1 .. Len(gs) : gs[i].path = p => At(gs, p) = <<gs[i].run>>
  BY <1>2, <1>3, <1>4
<1>6. k <= Len(gs) => k \in 1 .. Len(gs)
  BY <1>1, <1>2
<1> QED
  BY <1>3, <1>5, <1>6

\* Two stores with the same groups of a path answer the same for it.
LEMMA AtAgrees ==
  ASSUME NEW gs \in Seq(Group), Sorted(gs), NEW t \in Seq(Group), Sorted(t),
         NEW p \in Paths,
         \A i \in 1 .. Len(gs) : gs[i].path = p => \E j \in 1 .. Len(t) : t[j] = gs[i],
         \A j \in 1 .. Len(t) : t[j].path = p => \E i \in 1 .. Len(gs) : gs[i] = t[j]
  PROVE  At(t, p) = At(gs, p)
<1>1. CASE \E i \in 1 .. Len(gs) : gs[i].path = p
  <2>1. PICK i \in 1 .. Len(gs) : gs[i].path = p
    BY <1>1
  <2>2. PICK j \in 1 .. Len(t) : t[j] = gs[i]
    BY <2>1
  <2>3. At(gs, p) = <<gs[i].run>> /\ At(t, p) = <<t[j].run>>
    BY <2>1, <2>2, AtFinds
  <2> QED
    BY <2>2, <2>3
<1>2. CASE \A i \in 1 .. Len(gs) : gs[i].path # p
  <2>1. \A j \in 1 .. Len(t) : t[j].path # p
    BY <1>2
  <2>2. At(gs, p) = << >> /\ At(t, p) = << >>
    BY <1>2, <2>1, AtFinds
  <2> QED
    BY <2>2
<1> QED
  BY <1>1, <1>2

\* An edit of one path leaves what at answers for every other.
LEMMA ReplaceElsewhere ==
  ASSUME NEW gs \in Seq(Group), Sorted(gs), NEW group \in Group, Holds(gs, group.path),
         NEW p \in Paths, p # group.path
  PROVE  At(ReplaceAt(gs, Search(gs, group.path), group), p) = At(gs, p)
<1> DEFINE i == Search(gs, group.path)
           t == ReplaceAt(gs, i, group)
<1>1. t \in Seq(Group) /\ Sorted(t)
  BY ReplaceKeepsOrder
<1>2. Len(gs) \in Nat /\ group.path \in Paths
  BY LenProperties DEF Group
<1>3. i \in 1 .. Len(gs) /\ gs[i].path = group.path
  BY <1>2, SearchFinds DEF Holds
<1> HIDE DEF i
<1>4. /\ Len(t) = Len(gs)
      /\ \A j \in 1 .. Len(gs) : t[j] = IF j = i THEN group ELSE gs[j]
  BY <1>3, ReplaceReplaced
<1> HIDE DEF t
<1>5. \A j \in 1 .. Len(gs) : gs[j].path = p => t[j] = gs[j]
  BY <1>3, <1>4
<1>6. \A j \in 1 .. Len(t) : t[j].path = p => j \in 1 .. Len(gs) /\ gs[j] = t[j]
  BY <1>4
<1>7. \A j \in 1 .. Len(gs) : gs[j].path = p => \E k \in 1 .. Len(t) : t[k] = gs[j]
  BY <1>4, <1>5
<1>8. \A j \in 1 .. Len(t) : t[j].path = p => \E k \in 1 .. Len(gs) : gs[k] = t[j]
  BY <1>6
<1>9. At(t, p) = At(gs, p)
  BY <1>1, <1>7, <1>8, AtAgrees
<1> QED
  BY <1>9 DEF i, t

\* Inserting a group changes no other path.
LEMMA InsertElsewhere ==
  ASSUME NEW gs \in Seq(Group), Sorted(gs), NEW group \in Group, ~Holds(gs, group.path),
         NEW p \in Paths, p # group.path
  PROVE  At(InsertAt(gs, Search(gs, group.path), group), p) = At(gs, p)
<1> DEFINE i == Search(gs, group.path)
           t == InsertAt(gs, i, group)
<1>1. t \in Seq(Group) /\ Sorted(t)
  BY InsertKeepsOrder
<1>2. Len(gs) \in Nat /\ group.path \in Paths
  BY LenProperties DEF Group
<1>3. i \in 1 .. Len(gs) + 1
  BY <1>2, SearchFinds
<1> HIDE DEF i
<1>4. /\ Len(t) = Len(gs) + 1
      /\ \A j \in 1 .. i - 1 : t[j] = gs[j]
      /\ t[i] = group
      /\ \A j \in i + 1 .. Len(gs) + 1 : t[j] = gs[j - 1]
  BY <1>3, InsertAtProperties
<1> HIDE DEF t
<1>5. ASSUME NEW j \in 1 .. Len(gs) PROVE \E k \in 1 .. Len(t) : t[k] = gs[j]
  <2>1. CASE j \in 1 .. i - 1
    <3>1. j \in 1 .. Len(t)
      BY <1>2, <1>4
    <3> QED
      BY <1>4, <2>1, <3>1
  <2>2. CASE j >= i
    <3>1. j + 1 \in 1 .. Len(t) /\ j + 1 \in i + 1 .. Len(gs) + 1 /\ (j + 1) - 1 = j
      BY <1>2, <1>3, <1>4, <2>2
    <3> QED
      BY <1>4, <3>1
  <2> QED
    BY <1>3, <2>1, <2>2
<1>6. ASSUME NEW j \in 1 .. Len(t), t[j].path = p PROVE \E k \in 1 .. Len(gs) : gs[k] = t[j]
  <2>1. j # i
    BY <1>4, <1>6
  <2>2. CASE j \in 1 .. i - 1
    <3>1. j \in 1 .. Len(gs)
      BY <1>2, <1>3, <2>2
    <3> QED
      BY <1>4, <2>2, <3>1
  <2>3. CASE j > i
    <3>1. j - 1 \in 1 .. Len(gs) /\ j \in i + 1 .. Len(gs) + 1
      BY <1>2, <1>3, <1>4, <2>3
    <3> QED
      BY <1>4, <3>1
  <2> QED
    BY <1>3, <2>1, <2>2, <2>3
<1>7. At(t, p) = At(gs, p)
  BY <1>1, <1>5, <1>6, AtAgrees
<1> QED
  BY <1>7 DEF i, t

\* Removing a group changes no other path.
LEMMA RemoveElsewhere ==
  ASSUME NEW gs \in Seq(Group), Sorted(gs), NEW q \in Paths, Holds(gs, q),
         NEW p \in Paths, p # q
  PROVE  At(RemoveAt(gs, Search(gs, q)), p) = At(gs, p)
<1> DEFINE i == Search(gs, q)
           t == RemoveAt(gs, i)
<1>1. t \in Seq(Group) /\ Sorted(t)
  BY RemoveKeepsOrder
<1>2. Len(gs) \in Nat
  BY LenProperties
<1>3. i \in 1 .. Len(gs) /\ gs[i].path = q
  BY <1>2, SearchFinds DEF Holds
<1> HIDE DEF i
<1>4. /\ Len(t) = Len(gs) - 1
      /\ \A j \in 1 .. i - 1 : t[j] = gs[j]
      /\ \A j \in i .. Len(gs) - 1 : t[j] = gs[j + 1]
  BY <1>3, RemoveAtProperties
<1> HIDE DEF t
<1>5. ASSUME NEW j \in 1 .. Len(gs), gs[j].path = p PROVE \E k \in 1 .. Len(t) : t[k] = gs[j]
  <2>1. j # i
    BY <1>3, <1>5
  <2>2. CASE j \in 1 .. i - 1
    <3>1. j \in 1 .. Len(t)
      BY <1>2, <1>3, <1>4, <2>2
    <3> QED
      BY <1>4, <2>2, <3>1
  <2>3. CASE j > i
    <3>1. j - 1 \in 1 .. Len(t) /\ j - 1 \in i .. Len(gs) - 1 /\ (j - 1) + 1 = j
      BY <1>2, <1>3, <1>4, <2>3
    <3> QED
      BY <1>4, <3>1
  <2> QED
    BY <1>3, <2>1, <2>2, <2>3
<1>6. ASSUME NEW j \in 1 .. Len(t) PROVE \E k \in 1 .. Len(gs) : gs[k] = t[j]
  <2>1. CASE j \in 1 .. i - 1
    <3>1. j \in 1 .. Len(gs)
      BY <1>2, <1>4
    <3> QED
      BY <1>4, <2>1, <3>1
  <2>2. CASE j >= i
    <3>1. j + 1 \in 1 .. Len(gs) /\ j \in i .. Len(gs) - 1
      BY <1>2, <1>3, <1>4, <2>2
    <3> QED
      BY <1>4, <3>1
  <2> QED
    BY <1>3, <2>1, <2>2
<1>7. At(t, p) = At(gs, p)
  BY <1>1, <1>5, <1>6, AtAgrees
<1> QED
  BY <1>7 DEF i, t

\* What is still to be edited is announced, and nothing else differs from the
\* published store.
Announced ==
  phase \in {"editing", "open"} =>
    /\ \A i \in 1 .. Len(runs) : runs[i].path \in changedPaths
    /\ removals \subseteq changedPaths
    /\ ~request.reset => \A p \in Paths \ changedPaths : At(groups, p) = At(committed, p)

\* An edit is of an announced path and changes no other.
LEMMA AnnouncedStep ==
  ASSUME Inv, Announced, [Next]_vars
  PROVE  Announced'
<1>0. groups \in Seq(Group) /\ Sorted(groups) /\ runs \in Seq(Group)
  <2>1. Len(undo) \in Nat /\ Len(trail) = Len(undo) + 1
    BY LenProperties DEF Inv, TypeOK, StoreInvariant
  <2>2. Len(trail) \in 1 .. Len(trail)
    BY <2>1
  <2> QED
    BY <2>1, <2>2 DEF Inv, TypeOK, StoreInvariant
<1>1. ASSUME NEW r \in Requests, BeginRuns(r) PROVE Announced'
  <2>1. r.runs \in Seq(Group)
    BY DemandStoreAssumption
  <2>2. DOMAIN r.runs = 1 .. Len(r.runs)
    BY <2>1, LenProperties
  <2>3. groups = committed
    BY <1>1 DEF BeginRuns, Inv, StoreInvariant
  <2> QED
    BY <1>1, <2>2, <2>3 DEF BeginRuns, Announced
<1>2. CASE ReplaceRun
  <2> DEFINE group == Head(runs)
  <2>1. /\ group \in Group /\ group = runs[1] /\ Len(runs) \in Nat \ {0}
        /\ runs' = Tail(runs) /\ Len(runs') = Len(runs) - 1
        /\ \A i \in 1 .. Len(runs') : runs'[i] = runs[i + 1]
    BY <1>0, <1>2, HeadTailProperties, EmptySeq DEF ReplaceRun
  <2>2. /\ phase = "editing"
        /\ UNCHANGED <<phase, request, removals, changedPaths, committed>>
        /\ groups' = IF Holds(groups, group.path)
                     THEN ReplaceAt(groups, Search(groups, group.path), group)
                     ELSE InsertAt(groups, Search(groups, group.path), group)
    BY <1>2 DEF ReplaceRun
  <2>3. /\ group.path \in changedPaths /\ removals \subseteq changedPaths
        /\ \A i \in 1 .. Len(runs') : runs'[i].path \in changedPaths
    <3>1. /\ \A i \in 1 .. Len(runs) : runs[i].path \in changedPaths
          /\ removals \subseteq changedPaths
      BY <2>2 DEF Announced
    <3>2. \A i \in 1 .. Len(runs') : i + 1 \in 1 .. Len(runs)
      BY <2>1
    <3> QED
      BY <2>1, <3>1, <3>2
  <2>4. ASSUME NEW p \in Paths \ changedPaths PROVE At(groups', p) = At(groups, p)
    <3> HIDE DEF group
    <3>1. p \in Paths /\ p # group.path
      BY <2>3
    <3>2. CASE Holds(groups, group.path)
      BY <1>0, <2>1, <2>2, <3>1, <3>2, ReplaceElsewhere
    <3>3. CASE ~Holds(groups, group.path)
      BY <1>0, <2>1, <2>2, <3>1, <3>3, InsertElsewhere
    <3> QED
      BY <3>2, <3>3
  <2>5. ~request.reset => \A p \in Paths \ changedPaths : At(groups, p) = At(committed, p)
    BY <2>2 DEF Announced
  <2> QED
    BY <2>2, <2>3, <2>4, <2>5 DEF Announced
<1>3. ASSUME NEW q \in removals, RemoveRun(q) PROVE Announced'
  <2>1. /\ phase = "editing" /\ removals' = removals \ {q}
        /\ UNCHANGED <<phase, request, runs, changedPaths, committed>>
        /\ groups' = IF Holds(groups, q) THEN RemoveAt(groups, Search(groups, q))
                                         ELSE groups
    BY <1>3 DEF RemoveRun
  <2>2. /\ \A i \in 1 .. Len(runs) : runs[i].path \in changedPaths
        /\ removals \subseteq changedPaths
        /\ ~request.reset => \A p \in Paths \ changedPaths : At(groups, p) = At(committed, p)
    BY <2>1 DEF Announced
  <2>3. q \in Paths /\ q \in changedPaths
    BY <2>2 DEF Inv, TypeOK
  <2>4. ASSUME NEW p \in Paths \ changedPaths PROVE At(groups', p) = At(groups, p)
    <3>1. p \in Paths /\ p # q
      BY <2>3
    <3>2. CASE Holds(groups, q)
      BY <1>0, <2>1, <2>3, <3>1, <3>2, RemoveElsewhere
    <3>3. CASE ~Holds(groups, q)
      BY <2>1, <3>3
    <3> QED
      BY <3>2, <3>3
  <2> QED
    BY <2>1, <2>2, <2>4 DEF Announced
<1>4. CASE Begun
  BY <1>4 DEF Begun, Announced
<1>5. CASE Commit \/ RollbackReset \/ RolledBack
  BY <1>5 DEF Commit, RollbackReset, RolledBack, Finish, Announced
<1>6. CASE RollbackBegins \/ UndoLast
  BY <1>6 DEF RollbackBegins, UndoLast, Announced
<1>7. CASE UNCHANGED vars
  BY <1>7 DEF vars, Announced
<1> QED
  BY <1>1, <1>2, <1>3, <1>4, <1>5, <1>6, <1>7 DEF Next

\* While the analysis runs, every path whose run differs from the published one
\* is among those the closure is told of: none is left with a stale hash.
THEOREM ClosureIsTold == Spec => []ChangedPathsComplete
<1>1. Init => Announced
  BY DEF Init, Announced
<1>2. Inv /\ Announced /\ [Next]_vars => Announced'
  BY AnnouncedStep
<1>3. Announced => ChangedPathsComplete
  BY DEF Announced, ChangedPathsComplete
<1>4. Spec => []Inv
  BY InitInv, NextInv, PTL DEF Spec
<1> QED
  BY <1>1, <1>2, <1>3, <1>4, PTL DEF Spec

-----------------------------------------------------------------------------
(* The store implements the abstract demand set.                           *)

\* What at answers for the path an edit is about.
LEMMA ReplaceHere ==
  ASSUME NEW gs \in Seq(Group), Sorted(gs), NEW group \in Group, Holds(gs, group.path)
  PROVE  At(ReplaceAt(gs, Search(gs, group.path), group), group.path) = <<group.run>>
<1> DEFINE i == Search(gs, group.path)
           t == ReplaceAt(gs, i, group)
<1>1. t \in Seq(Group) /\ Sorted(t)
  BY ReplaceKeepsOrder
<1>2. Len(gs) \in Nat /\ group.path \in Paths
  BY LenProperties DEF Group
<1>3. i \in 1 .. Len(gs)
  BY <1>2, SearchFinds DEF Holds
<1> HIDE DEF i
<1>4. /\ Len(t) = Len(gs)
      /\ \A j \in 1 .. Len(gs) : t[j] = IF j = i THEN group ELSE gs[j]
  BY <1>3, ReplaceReplaced
<1> HIDE DEF t
<1>5. At(t, group.path) = <<group.run>>
  BY <1>1, <1>2, <1>3, <1>4, AtFinds
<1> QED
  BY <1>5 DEF i, t

LEMMA InsertHere ==
  ASSUME NEW gs \in Seq(Group), Sorted(gs), NEW group \in Group, ~Holds(gs, group.path)
  PROVE  At(InsertAt(gs, Search(gs, group.path), group), group.path) = <<group.run>>
<1> DEFINE i == Search(gs, group.path)
           t == InsertAt(gs, i, group)
<1>1. t \in Seq(Group) /\ Sorted(t)
  BY InsertKeepsOrder
<1>2. Len(gs) \in Nat /\ group.path \in Paths
  BY LenProperties DEF Group
<1>3. i \in 1 .. Len(gs) + 1
  BY <1>2, SearchFinds
<1> HIDE DEF i
<1>4. Len(t) = Len(gs) + 1 /\ t[i] = group
  BY <1>3, InsertAtProperties
<1> HIDE DEF t
<1>5. At(t, group.path) = <<group.run>>
  BY <1>1, <1>2, <1>3, <1>4, AtFinds
<1> QED
  BY <1>5 DEF i, t

LEMMA RemoveHere ==
  ASSUME NEW gs \in Seq(Group), Sorted(gs), NEW q \in Paths, Holds(gs, q)
  PROVE  At(RemoveAt(gs, Search(gs, q)), q) = << >>
<1> DEFINE i == Search(gs, q)
           t == RemoveAt(gs, i)
<1>1. t \in Seq(Group) /\ Sorted(t)
  BY RemoveKeepsOrder
<1>2. Len(gs) \in Nat /\ q \in Nat /\ \A j \in 1 .. Len(gs) : gs[j].path \in Nat
  <2>1. Len(gs) \in Nat /\ \A j \in 1 .. Len(gs) : gs[j] \in Group
    BY LenProperties, ElementOfSeq
  <2> QED
    BY <2>1, DemandStoreAssumption DEF Group
<1>3. i \in 1 .. Len(gs) /\ gs[i].path = q
  BY <1>2, SearchFinds DEF Holds
<1> HIDE DEF i
<1>4. /\ Len(t) = Len(gs) - 1
      /\ \A j \in 1 .. i - 1 : t[j] = gs[j]
      /\ \A j \in i .. Len(gs) - 1 : t[j] = gs[j + 1]
  BY <1>3, RemoveAtProperties
<1> HIDE DEF t
<1>5. \A j, k \in 1 .. Len(gs) : gs[j].path = gs[k].path => j = k
  BY <1>2 DEF Sorted
<1>6. ASSUME NEW j \in 1 .. Len(t) PROVE t[j].path # q
  <2>1. CASE j \in 1 .. i - 1
    <3>1. j \in 1 .. Len(gs) /\ j # i
      BY <1>2, <1>3, <2>1
    <3> QED
      BY <1>3, <1>4, <1>5, <2>1, <3>1
  <2>2. CASE j >= i
    <3>1. j + 1 \in 1 .. Len(gs) /\ j + 1 # i /\ j \in i .. Len(gs) - 1
      BY <1>2, <1>3, <1>4, <2>2
    <3> QED
      BY <1>3, <1>4, <1>5, <3>1
  <2> QED
    BY <1>3, <2>1, <2>2
<1>7. At(t, q) = << >>
  BY <1>1, <1>6, AtFinds
<1> QED
  BY <1>7 DEF i, t

\* How many of the request's runs are in the store.
Placed == Len(request.runs) - Len(runs)

\* What the store holds of p: nothing if p was removed, else the run placed for
\* it, else what was published unless the request resets.
EditedAt(p) ==
  IF p \in request.removed \ removals THEN At(groups, p) = << >>
  ELSE /\ \A k \in 1 .. Placed : request.runs[k].path = p => At(groups, p) = <<request.runs[k].run>>
       /\ (\A k \in 1 .. Placed : request.runs[k].path # p) =>
            At(groups, p) = IF request.reset THEN << >> ELSE At(committed, p)

\* The runs not yet placed are the last ones of the request, and removals
\* follow the last of them.
Remaining ==
  /\ Placed \in Nat
  /\ \A k \in 1 .. Len(runs) : runs[k] = request.runs[Placed + k]
  /\ removals \subseteq request.removed
  /\ runs # << >> => removals = request.removed

Progress ==
  /\ phase = "idle" => request = NoRequest
  /\ phase # "idle" => request \in Requests /\ request.valid
  /\ phase \in {"editing", "open"} => Remaining /\ \A p \in Paths : EditedAt(p)
  /\ phase = "open" => runs = << >> /\ removals = {}

\* The first run that is left goes into the store.
LEMMA ReplaceProgress ==
  ASSUME Inv, groups \in Seq(Group), Sorted(groups), Progress, RunsMeanRequest, ReplaceRun
  PROVE  Progress'
<1> DEFINE group == Head(runs)
           n == Placed
<1>1. /\ phase = "editing" /\ runs # << >> /\ request \in Requests
      /\ UNCHANGED <<phase, request, removals, committed>>
      /\ groups' = IF Holds(groups, group.path)
                   THEN ReplaceAt(groups, Search(groups, group.path), group)
                   ELSE InsertAt(groups, Search(groups, group.path), group)
  BY DEF ReplaceRun, Progress
<1>2. /\ group \in Group /\ group = runs[1] /\ Len(runs) \in Nat \ {0}
      /\ runs' = Tail(runs) /\ Len(runs') = Len(runs) - 1
      /\ \A i \in 1 .. Len(runs') : runs'[i] = runs[i + 1]
  BY HeadTailProperties, EmptySeq DEF ReplaceRun, Inv, TypeOK
<1>3. /\ Len(request.runs) \in Nat /\ DOMAIN request.runs = 1 .. Len(request.runs)
      /\ request.removed \in SUBSET Paths
  BY <1>1, LenProperties, DemandStoreAssumption
<1>4. /\ n \in Nat /\ \A k \in 1 .. Len(runs) : runs[k] = request.runs[n + k]
      /\ removals = request.removed /\ \A p \in Paths : EditedAt(p)
  BY <1>1 DEF Progress, Remaining
<1>5. Len(request.runs) = n + Len(runs)
  BY <1>2, <1>3 DEF Placed
<1>6. Placed' = n + 1
  BY <1>1, <1>2, <1>3, <1>5 DEF Placed
<1> HIDE DEF n
<1>7. n + 1 \in 1 .. Len(request.runs) /\ request.runs[n + 1] = group
  BY <1>2, <1>4, <1>5
<1>8. Remaining'
  <2>1. ASSUME NEW k \in 1 .. Len(runs') PROVE runs'[k] = request.runs[(n + 1) + k]
    <3>1. k + 1 \in 1 .. Len(runs) /\ n + (k + 1) = (n + 1) + k /\ runs'[k] = runs[k + 1]
      BY <1>2, <1>4
    <3>2. runs[k + 1] = request.runs[n + (k + 1)]
      BY <1>4, <3>1
    <3> QED
      BY <3>1, <3>2
  <2> QED
    BY <1>1, <1>4, <1>6, <2>1 DEF Remaining
<1> HIDE DEF group
<1>9. \A k \in 1 .. n : request.runs[k].path # group.path
  <2>1. \A i, j \in 1 .. Len(request.runs) : request.runs[i].path = request.runs[j].path => i = j
    BY <1>1, <1>3 DEF RunsMeanRequest
  <2>2. \A k \in 1 .. n : k \in 1 .. Len(request.runs) /\ k # n + 1
    BY <1>4, <1>5, <1>7
  <2> QED
    BY <1>7, <2>1, <2>2
<1>10. At(groups', group.path) = <<group.run>>
  BY <1>1, <1>2, ReplaceHere, InsertHere
<1>11. ASSUME NEW p \in Paths, p # group.path PROVE At(groups', p) = At(groups, p)
  BY <1>1, <1>2, <1>11, ReplaceElsewhere, InsertElsewhere
<1>12. 1 .. n + 1 = (1 .. n) \cup {n + 1}
  BY <1>4
<1>13. request.removed \ removals = {}
  BY <1>4
<1>14. ASSUME NEW p \in Paths PROVE EditedAt(p)'
  <2> SUFFICES /\ \A k \in 1 .. n + 1 : request.runs[k].path = p => At(groups', p) = <<request.runs[k].run>>
               /\ (\A k \in 1 .. n + 1 : request.runs[k].path # p) =>
                    At(groups', p) = IF request.reset THEN << >> ELSE At(committed, p)
    BY <1>1, <1>6, <1>13 DEF EditedAt
  <2>1. CASE p = group.path
    BY <1>7, <1>9, <1>10, <1>12, <2>1
  <2>2. CASE p # group.path
    <3>1. /\ \A k \in 1 .. n : request.runs[k].path = p => At(groups, p) = <<request.runs[k].run>>
          /\ (\A k \in 1 .. n : request.runs[k].path # p) =>
               At(groups, p) = IF request.reset THEN << >> ELSE At(committed, p)
      BY <1>4, <1>13 DEF EditedAt, n
    <3>2. At(groups', p) = At(groups, p)
      BY <1>11, <2>2
    <3> QED
      BY <1>7, <1>12, <2>2, <3>1, <3>2
  <2> QED
    BY <2>1, <2>2
<1> QED
  BY <1>1, <1>8, <1>14 DEF Progress

\* A removed path leaves the store.
LEMMA RemoveProgress ==
  ASSUME Inv, groups \in Seq(Group), Sorted(groups), Progress, NEW q \in removals, RemoveRun(q)
  PROVE  Progress'
<1>1. /\ phase = "editing" /\ runs = << >> /\ request \in Requests
      /\ removals' = removals \ {q}
      /\ UNCHANGED <<phase, request, runs, committed>>
      /\ groups' = IF Holds(groups, q) THEN RemoveAt(groups, Search(groups, q)) ELSE groups
  BY DEF RemoveRun, Progress
<1>2. /\ Placed \in Nat /\ removals \subseteq request.removed /\ Remaining
      /\ \A p \in Paths : EditedAt(p)
  BY <1>1 DEF Progress, Remaining
<1>3. q \in Paths /\ q \in request.removed
  BY <1>2 DEF Inv, TypeOK
<1>4. Placed' = Placed
  BY <1>1 DEF Placed
<1>5. Remaining'
  BY <1>1, <1>2, <1>4 DEF Remaining
<1>6. At(groups', q) = << >>
  <2>1. CASE Holds(groups, q)
    BY <1>1, <1>3, <2>1, RemoveHere
  <2>2. CASE ~Holds(groups, q)
    BY <1>1, <2>2 DEF At
  <2> QED
    BY <2>1, <2>2
<1>7. ASSUME NEW p \in Paths, p # q PROVE At(groups', p) = At(groups, p)
  <2>1. CASE Holds(groups, q)
    BY <1>1, <1>3, <1>7, <2>1, RemoveElsewhere
  <2>2. CASE ~Holds(groups, q)
    BY <1>1, <2>2
  <2> QED
    BY <2>1, <2>2
<1>8. ASSUME NEW p \in Paths PROVE EditedAt(p)'
  <2> DEFINE a == At(groups, p)
             b == At(groups', p)
             c == At(committed, p)
  <2>1. EditedAt(p)' <=>
          IF p \in request.removed \ removals' THEN b = << >>
          ELSE /\ \A k \in 1 .. Placed : request.runs[k].path = p => b = <<request.runs[k].run>>
               /\ (\A k \in 1 .. Placed : request.runs[k].path # p) =>
                    b = IF request.reset THEN << >> ELSE c
    BY <1>1, <1>4 DEF EditedAt
  <2>2. CASE p = q
    <3>1. p \in request.removed \ removals'
      BY <1>1, <1>3, <2>2
    <3> QED
      BY <1>6, <2>1, <2>2, <3>1
  <2>3. CASE p # q
    <3>1. b = a
      BY <1>7, <2>3
    <3>2. p \in request.removed \ removals' <=> p \in request.removed \ removals
      BY <1>1, <2>3
    <3>3. EditedAt(p)
      BY <1>2
    <3> QED
      BY <2>1, <3>1, <3>2, <3>3 DEF EditedAt
  <2> QED
    BY <2>2, <2>3
<1> QED
  BY <1>1, <1>5, <1>8 DEF Progress

LEMMA BeginProgress ==
  ASSUME Inv, NEW r \in Requests, BeginRuns(r)
  PROVE  Progress'
<1>1. /\ phase' = "editing" /\ request' = r /\ runs' = r.runs /\ removals' = r.removed
      /\ groups' = (IF r.reset THEN << >> ELSE groups) /\ committed' = committed /\ r.valid
  BY DEF BeginRuns
<1>2. groups = committed
  BY DEF BeginRuns, Inv, StoreInvariant
<1>3. r.runs \in Seq(Group) /\ Len(r.runs) \in Nat
  BY LenProperties, DemandStoreAssumption
<1>4. Placed' = 0
  BY <1>1, <1>3 DEF Placed
<1>5. Remaining'
  BY <1>1, <1>3, <1>4 DEF Remaining
<1>6. ASSUME NEW p \in Paths PROVE EditedAt(p)'
  <2>1. At(<< >>, p) = << >>
    <3>1. << >> \in Seq(Group) /\ Sorted(<< >>) /\ \A i \in 1 .. Len(<< >>) : << >>[i].path # p
      BY DEF Sorted
    <3> QED
      BY <3>1, AtFinds
  <2>2. At(groups, p)' = IF r.reset THEN << >> ELSE At(committed, p)
    BY <1>1, <1>2, <2>1
  <2>3. 1 .. 0 = {}
    OBVIOUS
  <2> QED
    BY <1>1, <1>4, <2>2, <2>3 DEF EditedAt
<1> QED
  BY <1>1, <1>5, <1>6 DEF Progress

LEMMA ProgressStep ==
  ASSUME Inv, Progress, RunsMeanRequest, [Next]_vars
  PROVE  Progress'
<1>0. groups \in Seq(Group) /\ Sorted(groups)
  <2>1. Len(undo) \in Nat /\ Len(trail) = Len(undo) + 1
    BY LenProperties DEF Inv, TypeOK, StoreInvariant
  <2>2. Len(trail) \in 1 .. Len(trail)
    BY <2>1
  <2> QED
    BY <2>1, <2>2 DEF Inv, TypeOK, StoreInvariant
<1>1. ASSUME NEW r \in Requests, BeginRuns(r) PROVE Progress'
  BY <1>1, BeginProgress
<1>2. CASE ReplaceRun
  BY <1>0, <1>2, ReplaceProgress
<1>3. ASSUME NEW q \in removals, RemoveRun(q) PROVE Progress'
  BY <1>0, <1>3, RemoveProgress
<1>4. CASE Begun
  BY <1>4 DEF Begun, Progress, Remaining, EditedAt, Placed
<1>5. CASE Commit \/ RollbackReset \/ RolledBack
  BY <1>5 DEF Commit, RollbackReset, RolledBack, Finish, Progress
<1>6. CASE RollbackBegins \/ UndoLast
  BY <1>6 DEF RollbackBegins, UndoLast, Progress
<1>7. CASE UNCHANGED vars
  BY <1>7 DEF vars, Progress, Remaining, EditedAt, Placed
<1> QED
  BY <1>1, <1>2, <1>3, <1>4, <1>5, <1>6, <1>7 DEF Next

\* A store in path order as a demand set: what at answers, path by path.
LEMMA AsSetReads ==
  ASSUME NEW gs \in Seq(Group), Sorted(gs)
  PROVE  AsSet(gs) = [p \in {q \in Paths : At(gs, q) # << >>} |-> Read(At(gs, p)[1])]
<1>1. /\ Len(gs) \in Nat /\ DOMAIN gs = 1 .. Len(gs)
      /\ \A i \in 1 .. Len(gs) : gs[i].path \in Paths
  <2>1. /\ Len(gs) \in Nat /\ DOMAIN gs = 1 .. Len(gs)
        /\ \A i \in 1 .. Len(gs) : gs[i] \in Group
    BY LenProperties, ElementOfSeq
  <2> QED
    BY <2>1 DEF Group
<1> DEFINE A == {gs[i].path : i \in DOMAIN gs}
           B == {q \in Paths : At(gs, q) # << >>}
<1>2. A = B
  <2>1. ASSUME NEW i \in 1 .. Len(gs) PROVE gs[i].path \in B
    <3>1. At(gs, gs[i].path) = <<gs[i].run>>
      BY <1>1, AtFinds
    <3>2. At(gs, gs[i].path) # << >>
      BY <3>1
    <3> QED
      BY <1>1, <3>2
  <2>2. ASSUME NEW q \in B PROVE \E i \in 1 .. Len(gs) : gs[i].path = q
    BY AtFinds
  <2> QED
    BY <1>1, <2>1, <2>2
<1>3. ASSUME NEW p \in B PROVE At(gs, p)[1] = gs[Search(gs, p)].run
  <2>1. At(gs, p) = <<gs[Search(gs, p)].run>>
    BY DEF At
  <2> QED
    BY <2>1
<1>4. AsSet(gs) = [p \in A |-> Read(gs[Search(gs, p)].run)]
  BY DEF AsSet
<1> HIDE DEF A, B
<1>5. [p \in A |-> Read(gs[Search(gs, p)].run)] = [p \in B |-> Read(At(gs, p)[1])]
  BY <1>2, <1>3
<1> QED
  BY <1>4, <1>5 DEF B

\* When the transaction commits, the store holds the edited demand set.
LEMMA CommitPublishes ==
  ASSUME groups \in Seq(Group), Sorted(groups), committed \in Seq(Group), Sorted(committed),
         Progress, RunsMeanRequest, phase = "open"
  PROVE  AsSet(groups) = Abstract!Edited(request)
<1> DEFINE named == Abstract!Named(request)
           old == AsSet(committed)
           kept == IF request.reset THEN {} ELSE DOMAIN old
           D == (kept \cup named) \ request.removed
           E == {q \in Paths : At(groups, q) # << >>}
           run(k) == request.runs[k].run
           path(k) == request.runs[k].path
           N == 1 .. Len(request.runs)
<1>1. /\ Len(request.runs) \in Nat /\ DOMAIN request.runs = N
      /\ \A k \in N : path(k) \in Paths
  <2>1. request \in Requests
    BY DEF Progress
  <2>2. request.runs \in Seq(Group)
    BY <2>1, DemandStoreAssumption
  <2>3. /\ Len(request.runs) \in Nat /\ DOMAIN request.runs = N
        /\ \A k \in N : request.runs[k] \in Group
    BY <2>2, LenProperties, ElementOfSeq
  <2> QED
    BY <2>3 DEF Group
<1>2. /\ named = {path(k) : k \in N}
      /\ \A k \in N : Read(run(k)) = Abstract!RowsAt(request, path(k))
  BY <1>1 DEF RunsMeanRequest
<1>3. old = [p \in {q \in Paths : At(committed, q) # << >>} |-> Read(At(committed, p)[1])]
  BY AsSetReads
<1>4. AsSet(groups) = [p \in E |-> Read(At(groups, p)[1])]
  BY AsSetReads
<1>5. Placed = Len(request.runs) /\ removals = {}
  <2>1. runs = << >> /\ removals = {}
    BY DEF Progress
  <2> QED
    BY <1>1, <2>1 DEF Placed
<1>6. ASSUME NEW p \in Paths
      PROVE  IF p \in request.removed THEN At(groups, p) = << >>
             ELSE /\ \A k \in N : path(k) = p => At(groups, p) = <<run(k)>>
                  /\ (\A k \in N : path(k) # p) =>
                       At(groups, p) = IF request.reset THEN << >> ELSE At(committed, p)
  <2>1. EditedAt(p)
    BY DEF Progress
  <2> QED
    BY <1>5, <2>1 DEF EditedAt
<1>7. Abstract!Edited(request) =
        [p \in D |-> IF p \in named THEN Abstract!RowsAt(request, p) ELSE old[p]]
  BY DEF Abstract!Edited
<1>8. /\ DOMAIN old = {q \in Paths : At(committed, q) # << >>}
      /\ \A p \in DOMAIN old : old[p] = Read(At(committed, p)[1])
  BY <1>3
<1> HIDE DEF named, old, run, path, N
<1>9. E = D
  <2>1. ASSUME NEW p \in E PROVE p \in D
    BY <1>2, <1>6, <1>8
  <2>2. ASSUME NEW p \in D PROVE p \in E
    <3>1. p \notin request.removed /\ (p \in named \/ (~request.reset /\ p \in DOMAIN old))
      OBVIOUS
    <3>2. p \in Paths
      BY <1>1, <1>2, <1>8, <3>1
    <3>3. CASE p \in named
      <4>1. PICK k \in N : path(k) = p
        BY <1>2, <3>3
      <4>2. At(groups, p) = <<run(k)>>
        BY <1>6, <3>1, <3>2, <4>1
      <4>3. At(groups, p) # << >>
        BY <4>2
      <4> QED
        BY <3>2, <4>3
    <3>4. CASE p \notin named
      <4>1. \A k \in N : path(k) # p
        BY <1>2, <3>4
      <4>2. At(groups, p) = At(committed, p)
        BY <1>6, <3>1, <3>2, <3>4, <4>1
      <4> QED
        BY <1>8, <3>1, <3>2, <3>4, <4>2
    <3> QED
      BY <3>3, <3>4
  <2> QED
    BY <2>1, <2>2
<1>10. ASSUME NEW p \in D
       PROVE  Read(At(groups, p)[1]) = IF p \in named THEN Abstract!RowsAt(request, p) ELSE old[p]
  <2>1. p \notin request.removed /\ (p \in named \/ (~request.reset /\ p \in DOMAIN old)) /\ p \in Paths
    BY <1>9
  <2>2. CASE p \in named
    <3>1. PICK k \in N : path(k) = p
      BY <1>2, <2>2
    <3>2. At(groups, p) = <<run(k)>>
      BY <1>6, <2>1, <3>1
    <3>3. At(groups, p)[1] = run(k)
      BY <3>2
    <3> QED
      BY <1>2, <2>2, <3>1, <3>3
  <2>3. CASE p \notin named
    <3>1. \A k \in N : path(k) # p
      BY <1>2, <2>3
    <3>2. At(groups, p) = At(committed, p)
      BY <1>6, <2>1, <2>3, <3>1
    <3> QED
      BY <1>8, <2>1, <2>3, <3>2
  <2> QED
    BY <2>2, <2>3
<1> HIDE DEF D, E
<1>11. [p \in E |-> Read(At(groups, p)[1])] =
         [p \in D |-> IF p \in named THEN Abstract!RowsAt(request, p) ELSE old[p]]
  BY <1>9, <1>10
<1> QED
  BY <1>4, <1>7, <1>11

\* Every step of the transaction is a step of the abstract demand set, or none.
LEMMA StepRefines ==
  ASSUME Inv, Progress, RunsMeanRequest, [Next]_vars
  PROVE  [Abstract!Ask \/ Abstract!Publish \/ Abstract!Withdraw]_(Abstract!vars)
<1>0. groups \in Seq(Group) /\ Sorted(groups) /\ committed \in Seq(Group) /\ Sorted(committed)
  <2>1. Len(undo) \in Nat /\ Len(trail) = Len(undo) + 1
    BY LenProperties DEF Inv, TypeOK, StoreInvariant
  <2>2. Len(trail) \in 1 .. Len(trail)
    BY <2>1
  <2> QED
    BY <2>1, <2>2 DEF Inv, TypeOK, StoreInvariant
<1>1. ASSUME NEW r \in Requests, BeginRuns(r) PROVE Abstract!Ask
  <2>1. request = NoRequest /\ request' = r /\ committed' = committed /\ r.valid
    BY <1>1 DEF BeginRuns, Progress
  <2>2. r # NoRequest
    BY <2>1 DEF NoRequest
  <2>3. AsSet(committed)' = AsSet(committed)
    BY <2>1
  <2> QED
    BY <2>1, <2>2, <2>3 DEF Abstract!Ask
<1>2. CASE UNCHANGED <<committed, request>>
  BY <1>2 DEF Abstract!vars
<1>3. CASE Commit
  <2>1. phase = "open" /\ committed' = groups /\ request' = NoRequest
    BY <1>3 DEF Commit, Finish
  <2>2. request # NoRequest
    <3>1. request.valid
      BY <2>1 DEF Progress
    <3> QED
      BY <3>1 DEF NoRequest
  <2>3. AsSet(groups) = Abstract!Edited(request)
    BY <1>0, <2>1, CommitPublishes
  <2>4. AsSet(committed)' = AsSet(groups)
    BY <2>1
  <2>5. Abstract!Publish
    BY <2>1, <2>2, <2>3, <2>4 DEF Abstract!Publish
  <2> QED
    BY <2>5
<1>4. CASE RollbackReset \/ RolledBack
  <2>1. committed' = committed /\ request' = NoRequest
    BY <1>4 DEF RollbackReset, RolledBack, Finish
  <2>2. AsSet(committed)' = AsSet(committed)
    BY <2>1
  <2>3. Abstract!Withdraw
    BY <2>1, <2>2 DEF Abstract!Withdraw
  <2> QED
    BY <2>3
<1>5. CASE ReplaceRun \/ (\E p \in removals : RemoveRun(p)) \/ Begun \/ RollbackBegins \/ UndoLast
  <2>1. UNCHANGED <<committed, request>>
    BY <1>5 DEF ReplaceRun, RemoveRun, Begun, RollbackBegins, UndoLast
  <2> QED
    BY <1>2, <2>1
<1>6. CASE UNCHANGED vars
  BY <1>2, <1>6 DEF vars
<1> QED
  BY <1>1, <1>3, <1>4, <1>5, <1>6 DEF Next

LEMMA StartRefines == Init => Progress /\ Abstract!Init
<1> SUFFICES ASSUME Init PROVE Progress /\ Abstract!Init
  OBVIOUS
<1>1. Progress
  BY DEF Init, Progress
<1>2. << >> \in Seq(Group) /\ Sorted(<< >>) /\ \A p \in Paths : At(<< >>, p) = << >>
  <2>1. << >> \in Seq(Group) /\ Sorted(<< >>)
    BY DEF Sorted
  <2>2. \A p \in Paths : \A i \in 1 .. Len(<< >>) : << >>[i].path # p
    OBVIOUS
  <2> QED
    BY <2>1, <2>2, AtFinds
<1>3. AsSet(<< >>) = [p \in {} |-> {}]
  <2>1. AsSet(<< >>) = [p \in {q \in Paths : At(<< >>, q) # << >>} |-> Read(At(<< >>, p)[1])]
    BY <1>2, AsSetReads
  <2>2. {q \in Paths : At(<< >>, q) # << >>} = {}
    BY <1>2
  <2> QED
    BY <2>1, <2>2
<1>4. committed = << >> /\ request = NoRequest
  BY DEF Init
<1> QED
  BY <1>1, <1>3, <1>4 DEF Abstract!Init

\* The store implements the abstract demand set: whatever replacements,
\* removals, resets, failures and undos a transaction goes through, a reader of
\* the published store sees the request applied as a whole or not at all,
\* provided that begin and beginCompact make runs of a request that mean its
\* demands.
THEOREM StoreImplements == Spec /\ []RunsMeanRequest => Implements
<1>1. Init => Inv /\ Progress /\ Abstract!Init
  BY InitInv, StartRefines
<1>2. Inv /\ [Next]_vars => Inv'
  BY NextInv
<1>3. Inv /\ Progress /\ RunsMeanRequest /\ [Next]_vars => Progress'
  BY ProgressStep
<1>4. Inv /\ Progress /\ RunsMeanRequest /\ [Next]_vars =>
        [Abstract!Ask \/ Abstract!Publish \/ Abstract!Withdraw]_(Abstract!vars)
  BY StepRefines
<1> QED
  BY <1>1, <1>2, <1>3, <1>4, PTL DEF Spec, Implements, Abstract!Spec

=============================================================================
