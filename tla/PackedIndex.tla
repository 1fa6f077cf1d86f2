----------------------------- MODULE PackedIndex -----------------------------
(***************************************************************************)
(* The client's ordered immutable index (PackedIndex of retained_table.rs): *)
(* a directory of leaves, each a sorted run of rows.  A row is a record    *)
(* [key, val]; keys are naturals standing for the strings the code orders  *)
(* lexicographically.  An optional row is a sequence of at most one row.   *)
(***************************************************************************)
EXTENDS Naturals, Sequences, FiniteSets, SequencesExt

CONSTANT LEAF_TARGET    \* rows of a leaf built in one go (64 in the code)

ASSUME LeafAssumption == LEAF_TARGET \in Nat \ {0}

LEAF_MAX == LEAF_TARGET * 2

Row(k, v) == [key |-> k, val |-> v]

\* All rows of an index, in order.
Rows(index) == FlattenSeq(index)

FromSorted(rows) ==
  LET leaves == (Len(rows) + LEAF_TARGET - 1) \div LEAF_TARGET
      upTo(i) == IF i * LEAF_TARGET < Len(rows) THEN i * LEAF_TARGET ELSE Len(rows)
  IN  [i \in 1..leaves |-> SubSeq(rows, (i - 1) * LEAF_TARGET + 1, upTo(i))]

\* How many rows of the sorted run rows have a key below k.
Below(rows, k) == Cardinality({i \in DOMAIN rows : rows[i].key < k})

\* The rows of the sorted run rows with key k: none or one.
Hit(rows, k) ==
  LET at == Below(rows, k) + 1
  IN  IF at <= Len(rows) /\ rows[at].key = k THEN <<rows[at]>> ELSE <<>>

\* The leaf that holds k, or would: the first whose last key is not below k,
\* and the last leaf when there is none.
LeafFor(index, k) ==
  LET before == Cardinality({i \in DOMAIN index : Last(index[i]).key < k})
  IN  IF before < Len(index) THEN before + 1 ELSE Len(index)

Lookup(index, k) ==
  IF index = <<>> THEN <<>> ELSE Hit(index[LeafFor(index, k)], k)

Split(leaf) ==
  IF leaf = <<>> THEN <<>>
  ELSE IF Len(leaf) > LEAF_MAX
       THEN << SubSeq(leaf, 1, LEAF_TARGET), SubSeq(leaf, LEAF_TARGET + 1, Len(leaf)) >>
       ELSE << leaf >>

\* The index with the row of k replaced by the optional row replacement.
Updated(index, k, replacement) ==
  IF index = <<>> THEN FromSorted(replacement)
  ELSE LET at    == LeafFor(index, k)
           leaf  == index[at]
           below == Below(leaf, k)
           rest  == below + Len(Hit(leaf, k))
       IN  SubSeq(index, 1, at - 1)
             \o Split(SubSeq(leaf, 1, below) \o replacement
                        \o SubSeq(leaf, rest + 1, Len(leaf)))
             \o SubSeq(index, at + 1, Len(index))

\* The rows before k are kept, the optional row of k is replaced.
MergeOne(m, k, replacement) ==
  LET below == Below(m.rest, k)
  IN  [merged |-> m.merged \o SubSeq(m.rest, 1, below) \o replacement,
       rest   |-> SubSeq(m.rest, below + Len(Hit(m.rest, k)) + 1, Len(m.rest))]

\* One pass over the index and an ascending sequence of keys: the rows
\* between the keys are kept, the optional row of each key goes through Apply.
MergeLinear(index, keys, Apply(_, _)) ==
  LET after[i \in 0..Len(keys)] ==
        IF i = 0 THEN [merged |-> <<>>, rest |-> Rows(index)]
        ELSE MergeOne(after[i - 1], keys[i], Apply(keys[i], Hit(after[i - 1].rest, keys[i])))
      done == after[Len(keys)]
  IN  FromSorted(done.merged \o done.rest)

\* What every lookup relies on: no leaf is empty or too long, keys ascend.
Canonical(index) ==
  /\ \A i \in DOMAIN index : Len(index[i]) \in 1..LEAF_MAX
  /\ LET rows == Rows(index)
     IN  \A i \in 1..(Len(rows) - 1) : rows[i].key < rows[i + 1].key

=============================================================================
