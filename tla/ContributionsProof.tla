-------------------------- MODULE ContributionsProof --------------------------
(***************************************************************************)
(* Proofs about RetainedContributions, for any files, symbols, demand sets  *)
(* and numbers of updates: the reverse indexes mirror the store, and what   *)
(* reuse leaves with the client is, up to the places types are asked for    *)
(* at, what one run over all files would give.                              *)
(***************************************************************************)
EXTENDS RetainedContributions, WellFoundedInduction, TLAPS

-----------------------------------------------------------------------------
(* What a run over all files gives.                                        *)

AccessorsOf(p, want, source) == Accessors[p][want[p]][source[p]]
DescribedOf(p, want, source) == Described[p][want[p]][source[p]]
NamedBy(p, want, source) == AccessorsOf(p, want, source) \cup DescribedOf(p, want, source)

\* The accessors of a set of files.
AccessorsIn(batch, want, source) == UNION {AccessorsOf(p, want, source) : p \in batch}

\* The symbols a file has descriptors for, under a suppression.
Shown(p, want, source, suppressed) == DescribedOf(p, want, source) \ suppressed

\* A descriptor of s: of its declaration as it is now, at some place that asked.
Describes(d, s, source) ==
  /\ d = [decl |-> d.decl, at |-> d.at]
  /\ d.decl = source[Declarer[s]]
  /\ \E p \in Paths, r \in Runs, t \in Texts : d.at = TypeAt[p][r][t][s]

RowsOf(d, p, want, source, suppressed) ==
  /\ d = [s \in Shown(p, want, source, suppressed) |-> d[s]]
  /\ \A s \in Shown(p, want, source, suppressed) : Describes(d[s], s, source)

FreshRows(d, p, want, source) ==
  RowsOf(d, p, want, source, AccessorsIn(DOMAIN want, want, source))

\* A contribution holds what its file asks, with its descriptors under a
\* suppression; one that is retained names no generation-scoped symbol.
Holds(c, p, want, source, suppressed) ==
  /\ c.structural = AccessorsOf(p, want, source)
  /\ c.described = DescribedOf(p, want, source)
  /\ c.deps = {Declarer[s] : s \in NamedBy(p, want, source)} \ {p}
  /\ RowsOf(c.descriptors, p, want, source, suppressed)

Kept(st, want, source, suppressed) ==
  \A p \in DOMAIN st.byPath :
    /\ p \in DOMAIN want
    /\ Holds(st.byPath[p], p, want, source, suppressed)
    /\ NamedBy(p, want, source) \cap Counters = {}

Mirrors(st) ==
  /\ st.dependents = UNION {Keys(p, st.byPath[p]).dependents : p \in DOMAIN st.byPath}
  /\ st.users = UNION {Keys(p, st.byPath[p]).users : p \in DOMAIN st.byPath}

Asked(want) ==
  DOMAIN want \subseteq Paths /\ \A p \in DOMAIN want : want[p] \in Runs

\* The inductive invariant.  While there is a table to compare with, the store
\* holds what its files ask of the sources as they are now, under the
\* suppression of the last materialization, and the client has the same rows.
ContributionsInvariant ==
  /\ src \in [Paths -> Texts] /\ Asked(demands)
  /\ DOMAIN store.byPath \subseteq Paths /\ Mirrors(store)
  /\ base # "none" =>
       /\ last = <<last[1]>>
       /\ Kept(store, demands, src, last[1])
       /\ \A p \in DOMAIN store.byPath : rows[p] = store.byPath[p].descriptors
  /\ base = "table" => \A p \in DOMAIN demands : FreshRows(rows[p], p, demands, src)

-----------------------------------------------------------------------------
(* The store and its reverse indexes.                                      *)

\* What a contribution puts into an index names its path.
LEMMA KeysNamePath ==
  ASSUME NEW p, NEW c
  PROVE  /\ \A x \in Keys(p, c).dependents : x[2] = p
         /\ \A x \in Keys(p, c).users : x[2] = p
         /\ \A d \in c.deps : <<d, p>> \in Keys(p, c).dependents
         /\ \A s : s \in c.described <=> <<s, p>> \in Keys(p, c).users
BY DEF Keys

\* Removing paths takes exactly their entries from the indexes.
LEMMA RemoveMirrors ==
  ASSUME NEW st, DOMAIN st.byPath \subseteq Paths, Mirrors(st), NEW paths
  PROVE  /\ DOMAIN Remove(st, paths).byPath = DOMAIN st.byPath \ paths
         /\ \A p \in DOMAIN st.byPath \ paths :
              Remove(st, paths).byPath[p] = st.byPath[p]
         /\ Mirrors(Remove(st, paths))
<1> DEFINE r == Remove(st, paths)
           D == DOMAIN st.byPath
           Dep(p) == Keys(p, st.byPath[p]).dependents
           Use(p) == Keys(p, st.byPath[p]).users
<1>1. /\ r.byPath = Over(st.byPath, Paths \ paths)
      /\ r.dependents = st.dependents \ UNION {Dep(p) : p \in paths \cap D}
      /\ r.users = st.users \ UNION {Use(p) : p \in paths \cap D}
  BY DEF Remove
<1>2. DOMAIN r.byPath = D \ paths /\ \A p \in D \ paths : r.byPath[p] = st.byPath[p]
  BY <1>1 DEF Over
<1>3. st.dependents = UNION {Dep(p) : p \in D} /\ st.users = UNION {Use(p) : p \in D}
  BY DEF Mirrors
<1>4. \A p : (\A x \in Dep(p) : x[2] = p) /\ (\A x \in Use(p) : x[2] = p)
  BY KeysNamePath
<1>5. /\ {Keys(p, r.byPath[p]).dependents : p \in DOMAIN r.byPath} = {Dep(p) : p \in D \ paths}
      /\ {Keys(p, r.byPath[p]).users : p \in DOMAIN r.byPath} = {Use(p) : p \in D \ paths}
  <2> HIDE DEF r
  <2> QED
    BY <1>2
<1> HIDE DEF Dep, Use, D, r
<1>6. r.dependents = UNION {Dep(p) : p \in D \ paths}
  BY <1>1, <1>3, <1>4
<1>7. r.users = UNION {Use(p) : p \in D \ paths}
  BY <1>1, <1>3, <1>4
<1>8. Mirrors(r)
  BY <1>5, <1>6, <1>7 DEF Mirrors
<1> QED
  BY <1>2, <1>8 DEF r, D

\* Adding contributions puts exactly their entries into the indexes.
LEMMA AddMirrors ==
  ASSUME NEW st, DOMAIN st.byPath \subseteq Paths, Mirrors(st), NEW paths, NEW c
  PROVE  /\ DOMAIN Add(st, paths, c).byPath = DOMAIN st.byPath \cup paths
         /\ \A p \in DOMAIN st.byPath \cup paths :
              Add(st, paths, c).byPath[p] = IF p \in paths THEN c[p] ELSE st.byPath[p]
         /\ Mirrors(Add(st, paths, c))
<1> DEFINE a == Add(st, paths, c)
           r == Remove(st, paths)
           D == DOMAIN st.byPath
           Dep(p) == Keys(p, IF p \in paths THEN c[p] ELSE st.byPath[p]).dependents
           Use(p) == Keys(p, IF p \in paths THEN c[p] ELSE st.byPath[p]).users
<1>1. /\ DOMAIN a.byPath = D \cup paths
      /\ \A p \in D \cup paths : a.byPath[p] = IF p \in paths THEN c[p] ELSE st.byPath[p]
  BY DEF Add
<1>2. /\ a.dependents = r.dependents \cup UNION {Keys(p, c[p]).dependents : p \in paths}
      /\ a.users = r.users \cup UNION {Keys(p, c[p]).users : p \in paths}
  BY DEF Add
<1>3. /\ DOMAIN r.byPath = D \ paths /\ \A p \in D \ paths : r.byPath[p] = st.byPath[p]
      /\ Mirrors(r)
  BY RemoveMirrors
<1> HIDE DEF a, r
<1>4. /\ {Keys(p, r.byPath[p]).dependents : p \in DOMAIN r.byPath} = {Dep(p) : p \in D \ paths}
      /\ {Keys(p, r.byPath[p]).users : p \in DOMAIN r.byPath} = {Use(p) : p \in D \ paths}
  BY <1>3
<1>5. /\ {Keys(p, c[p]).dependents : p \in paths} = {Dep(p) : p \in paths}
      /\ {Keys(p, c[p]).users : p \in paths} = {Use(p) : p \in paths}
  OBVIOUS
<1>6. /\ {Keys(p, a.byPath[p]).dependents : p \in DOMAIN a.byPath} = {Dep(p) : p \in D \cup paths}
      /\ {Keys(p, a.byPath[p]).users : p \in DOMAIN a.byPath} = {Use(p) : p \in D \cup paths}
  BY <1>1
<1> HIDE DEF Dep, Use, D
<1>7. r.dependents = UNION {Dep(p) : p \in D \ paths}
      /\ r.users = UNION {Use(p) : p \in D \ paths}
  BY <1>3, <1>4, Zenon DEF Mirrors
<1>8. /\ UNION {Keys(p, c[p]).dependents : p \in paths} = UNION {Dep(p) : p \in paths}
      /\ UNION {Keys(p, c[p]).users : p \in paths} = UNION {Use(p) : p \in paths}
  BY <1>5, Zenon
<1>9. /\ a.dependents = UNION {Dep(p) : p \in D \cup paths}
      /\ a.users = UNION {Use(p) : p \in D \cup paths}
  <2>1. ASSUME NEW x
        PROVE  (x \in a.dependents) <=> (\E p \in D \cup paths : x \in Dep(p))
    <3>1. (x \in a.dependents) <=>
             (x \in r.dependents \/ x \in UNION {Keys(p, c[p]).dependents : p \in paths})
      BY <1>2
    <3>2. (x \in r.dependents) <=> (\E p \in D \ paths : x \in Dep(p))
      BY <1>7
    <3>3. (x \in UNION {Keys(p, c[p]).dependents : p \in paths}) <=> (\E p \in paths : x \in Dep(p))
      BY <1>8
    <3> QED
      BY <3>1, <3>2, <3>3
  <2>2. ASSUME NEW x
        PROVE  (x \in a.users) <=> (\E p \in D \cup paths : x \in Use(p))
    <3>1. (x \in a.users) <=>
             (x \in r.users \/ x \in UNION {Keys(p, c[p]).users : p \in paths})
      BY <1>2
    <3>2. (x \in r.users) <=> (\E p \in D \ paths : x \in Use(p))
      BY <1>7
    <3>3. (x \in UNION {Keys(p, c[p]).users : p \in paths}) <=> (\E p \in paths : x \in Use(p))
      BY <1>8
    <3> QED
      BY <3>1, <3>2, <3>3
  <2> QED
    BY <2>1, <2>2
<1>10. Mirrors(a)
  BY <1>6, <1>9, Zenon DEF Mirrors
<1> QED
  BY <1>1, <1>10 DEF a, D

\* The empty store has nothing to index.
LEMMA NothingRetained == DOMAIN NoStore.byPath = {} /\ Mirrors(NoStore)
BY DEF NoStore, Mirrors

\* After commit the store holds exactly the durable contributions.
LEMMA CommitHolds ==
  ASSUME NEW st, DOMAIN st.byPath \subseteq Paths, Mirrors(st),
         NEW c, DOMAIN c \subseteq Paths
  PROVE  LET durable == {p \in DOMAIN c : c[p].durable}
         IN  /\ DOMAIN Commit(st, c).byPath = durable
             /\ \A p \in durable : Commit(st, c).byPath[p] = c[p]
             /\ Mirrors(Commit(st, c))
<1> DEFINE durable == {p \in DOMAIN c : c[p].durable}
           kept    == Remove(st, DOMAIN st.byPath \ durable)
           fresh   == {p \in durable : ~ (/\ p \in DOMAIN kept.byPath
                                          /\ kept.byPath[p] = c[p])}
<1>1. /\ DOMAIN kept.byPath = DOMAIN st.byPath \cap durable
      /\ \A p \in DOMAIN kept.byPath : kept.byPath[p] = st.byPath[p]
      /\ Mirrors(kept)
  BY RemoveMirrors
<1>2. durable \subseteq Paths
  OBVIOUS
<1>3. Commit(st, c) = Add(kept, fresh, c)
  BY DEF Commit
<1> HIDE DEF durable, kept
<1>4. /\ DOMAIN Add(kept, fresh, c).byPath = DOMAIN kept.byPath \cup fresh
      /\ \A p \in DOMAIN kept.byPath \cup fresh :
           Add(kept, fresh, c).byPath[p] = IF p \in fresh THEN c[p] ELSE kept.byPath[p]
      /\ Mirrors(Add(kept, fresh, c))
  BY <1>1, <1>2, AddMirrors
<1>5. DOMAIN kept.byPath \cup fresh = durable
  BY <1>1
<1>6. \A p \in durable : p \notin fresh => kept.byPath[p] = c[p]
  OBVIOUS
<1> QED
  BY <1>3, <1>4, <1>5, <1>6 DEF durable

-----------------------------------------------------------------------------
(* One batch of runs.                                                      *)

\* A seed that agrees with the sources.
GoodSeed(seed, source) == \A s \in DOMAIN seed : Describes(seed[s], s, source)

\* A set of files that is not empty has a first.
LEMMA FirstFile ==
  ASSUME NEW C \in SUBSET Nat, C # {}
  PROVE  Min(C) \in C
<1> DEFINE R == OpToRel(<, Nat)
<1>1. IsWellFoundedOn(R, Nat)
  BY NatLessThanWellFounded
<1> HIDE DEF R
<1>2. \E x \in C : \A y \in C : ~ (<<y, x>> \in R)
  BY <1>1, WFMin
<1>3. PICK x \in C : \A y \in C : ~ (<<y, x>> \in R)
  BY <1>2
<1>4. ASSUME NEW y \in C PROVE x =< y
  <2>1. x \in Nat /\ y \in Nat
    OBVIOUS
  <2>2. y < x => <<y, x>> \in R
    BY <2>1 DEF R, OpToRel
  <2> QED
    BY <1>3, <2>1, <2>2
<1> QED
  BY <1>4 DEF Min

\* A batch gives each of its files what it asks, with the descriptors the scope
\* or the first file that describes the symbol provides.
LEMMA BatchHolds ==
  ASSUME NEW source \in [Paths -> Texts], NEW want, Asked(want), NEW batch \in SUBSET DOMAIN want,
         NEW suppression, NEW seed, GoodSeed(seed, source), NEW p \in batch
  PROVE  LET c == SemanticDemandRuns(batch, want, source, suppression, seed)[p]
         IN  /\ Holds(c, p, want, source, suppression \cup AccessorsIn(batch, want, source))
             /\ c.durable <=> (NamedBy(p, want, source) \cap Counters = {})
<1> DEFINE c == SemanticDemandRuns(batch, want, source, suppression, seed)[p]
           all == suppression \cup AccessorsIn(batch, want, source)
           first(s) == Min({q \in batch : s \in DescribedOf(q, want, source)})
           given(s) == IF s \in DOMAIN seed THEN seed[s]
                       ELSE DescriptorOf(s, first(s), want, source)
           shown == Shown(p, want, source, all)
<1>1. c = [ run         |-> want[p],
            structural  |-> AccessorsOf(p, want, source),
            described   |-> DescribedOf(p, want, source),
            descriptors |-> [s \in shown |-> given(s)],
            deps        |-> {Declarer[s] : s \in NamedBy(p, want, source)} \ {p},
            durable     |-> NamedBy(p, want, source) \cap Counters = {} ]
  BY DEF SemanticDemandRuns, AccessorsIn, AccessorsOf, DescribedOf, NamedBy, Shown
<1>6. ASSUME NEW s \in shown PROVE Describes(given(s), s, source)
  <2>1. CASE s \in DOMAIN seed
    BY <2>1 DEF GoodSeed
  <2>2. CASE s \notin DOMAIN seed
    <3> DEFINE C == {q \in batch : s \in DescribedOf(q, want, source)}
               f == first(s)
               d == DescriptorOf(s, f, want, source)
    <3>1. p \in C /\ C \subseteq Nat
      BY ContributionAssumption DEF ContributionAssumption, Shown, Asked
    <3>2. Min(C) \in C
      BY <3>1, FirstFile
    <3>3. f \in batch
      BY <3>2
    <3> HIDE DEF f
    <3>4. f \in Paths /\ want[f] \in Runs /\ source[f] \in Texts
      BY <3>3 DEF Asked
    <3>5. d = [decl |-> source[Declarer[s]], at |-> TypeAt[f][want[f]][source[f]][s]]
      BY DEF DescriptorOf
    <3> HIDE DEF d
    <3>6. d = [decl |-> d.decl, at |-> d.at] /\ d.decl = source[Declarer[s]]
          /\ d.at = TypeAt[f][want[f]][source[f]][s]
      BY <3>5
    <3>7. Describes(d, s, source)
      BY <3>4, <3>6 DEF Describes
    <3> QED
      BY <2>2, <3>7 DEF d, f
  <2> QED
    BY <2>1, <2>2
<1> HIDE DEF c, given, shown
<1>2. /\ c.structural = AccessorsOf(p, want, source)
      /\ c.described = DescribedOf(p, want, source)
      /\ c.deps = {Declarer[s] : s \in NamedBy(p, want, source)} \ {p}
      /\ c.descriptors = [s \in shown |-> given(s)]
  BY <1>1
<1>7. /\ c.descriptors = [s \in shown |-> c.descriptors[s]]
      /\ \A s \in shown : c.descriptors[s] = given(s)
  BY <1>2
<1>3. RowsOf(c.descriptors, p, want, source, all)
  BY <1>6, <1>7 DEF RowsOf, shown
<1>4. c.durable <=> (NamedBy(p, want, source) \cap Counters = {})
  BY <1>1, Zenon
<1>5. Holds(c, p, want, source, all)
  BY <1>2, <1>3 DEF Holds
<1> QED
  BY <1>4, <1>5 DEF c

\* The descriptors of contributions that agree with the sources agree with them
\* too, whichever file provides them.
LEMMA SeedAgrees ==
  ASSUME NEW retained, DOMAIN retained \subseteq Nat, NEW want, NEW source, NEW suppressed,
         \A p \in DOMAIN retained : Holds(retained[p], p, want, source, suppressed)
  PROVE  GoodSeed(DescriptorSeed(retained), source)
<1> DEFINE carriers(s) == {p \in DOMAIN retained : s \in DOMAIN retained[p].descriptors}
           seed == DescriptorSeed(retained)
<1> SUFFICES ASSUME NEW s \in DOMAIN seed
             PROVE  Describes(seed[s], s, source)
  BY DEF GoodSeed
<1>1. s \in Symbols /\ carriers(s) # {} /\ seed[s] = retained[Min(carriers(s))].descriptors[s]
  BY DEF DescriptorSeed
<1>2. Min(carriers(s)) \in carriers(s)
  <2>1. carriers(s) \subseteq Nat /\ carriers(s) # {}
    BY <1>1
  <2> QED
    BY <2>1, FirstFile
<1> DEFINE m == Min(carriers(s))
<1>3. m \in DOMAIN retained /\ s \in DOMAIN retained[m].descriptors
  BY <1>2
<1> HIDE DEF m
<1>4. RowsOf(retained[m].descriptors, m, want, source, suppressed)
  BY <1>3 DEF Holds
<1>5. s \in Shown(m, want, source, suppressed)
  BY <1>3, <1>4 DEF RowsOf
<1>6. Describes(retained[m].descriptors[s], s, source)
  BY <1>4, <1>5 DEF RowsOf
<1> QED
  BY <1>1, <1>6 DEF m

-----------------------------------------------------------------------------
(* Materialization.                                                        *)

\* Two suppressions that agree on what a file describes leave it the same rows.
LEMMA SameRows ==
  ASSUME NEW p, NEW want, NEW source, NEW one, NEW other, NEW d,
         \A s \in DescribedOf(p, want, source) : (s \in one) <=> (s \in other)
  PROVE  RowsOf(d, p, want, source, one) <=> RowsOf(d, p, want, source, other)
<1>1. Shown(p, want, source, one) = Shown(p, want, source, other)
  BY DEF Shown
<1> QED
  BY <1>1 DEF RowsOf

\* A materialization has everything a run over all files gives, and what the
\* manifest does not name is what the store had.
Complete(m, want, source, st) ==
  /\ DOMAIN m.contributions = DOMAIN want
  /\ \A p \in DOMAIN want :
       /\ Holds(m.contributions[p], p, want, source, AccessorsIn(DOMAIN want, want, source))
       /\ m.contributions[p].durable => NamedBy(p, want, source) \cap Counters = {}
       /\ NamedBy(p, want, source) \cap Counters = {} =>
            \A d : RowsOf(d, p, want, source, m.union) <=> FreshRows(d, p, want, source)
       /\ p \notin m.manifest =>
            p \in DOMAIN st.byPath /\ m.contributions[p] = st.byPath[p]

\* What reuse gives is what a run over all files gives, for a store that holds
\* what its files ask under the suppression of the last materialization.
LEMMA MaterializeComplete ==
  ASSUME NEW want, Asked(want), src \in [Paths -> Texts], NEW st, DOMAIN st.byPath \subseteq Paths,
         Mirrors(st), NEW before, NEW suppressed,
         Kept(st, want, src, suppressed),
         before = <<suppressed>> \/ DOMAIN st.byPath = {}
  PROVE  Complete(Materialize(want, st, before), want, src, st)
<1> DEFINE retained  == Over(st.byPath, DOMAIN want)
           stale     == DOMAIN want \ DOMAIN retained
           held      == UNION {retained[p].structural : p \in DOMAIN retained}
           computed  == SemanticDemandRuns(stale, want, src, held, DescriptorSeed(retained))
           union     == held \cup ((UNION {computed[p].structural : p \in stale}) \ Counters)
           flipped   == Flipped(union, before)
           refreshed == {p \in DOMAIN retained : \E s \in flipped : <<s, p>> \in st.users}
           again     == SemanticDemandRuns(refreshed, want, src, union, NoSeed)
           contributions == [p \in DOMAIN want |-> CASE p \in stale     -> computed[p]
                                                     [] p \in refreshed -> again[p]
                                                     [] OTHER           -> retained[p]]
           all == AccessorsIn(DOMAIN want, want, src)
           m   == Materialize(want, st, before)
<1>1. /\ m.union = union
      /\ m.manifest = ManifestPaths(stale, refreshed)
      /\ m.contributions = contributions
  BY DEF Materialize
<1>2. /\ DOMAIN retained = DOMAIN st.byPath
      /\ \A p \in DOMAIN retained : retained[p] = st.byPath[p]
  BY DEF Over, Kept
<1> HIDE DEF m, retained
<1>3. \A p \in DOMAIN retained :
        /\ p \in DOMAIN want
        /\ Holds(retained[p], p, want, src, suppressed)
        /\ NamedBy(p, want, src) \cap Counters = {}
  BY <1>2 DEF Kept
<1>4. held = AccessorsIn(DOMAIN retained, want, src)
  BY <1>3 DEF Holds, AccessorsIn
<1>5. GoodSeed(DescriptorSeed(retained), src)
  <2>1. DOMAIN retained \subseteq Nat
    BY <1>2, ContributionAssumption DEF ContributionAssumption
  <2> QED
    BY <1>3, <2>1, SeedAgrees
<1>6. \A p \in stale :
        /\ Holds(computed[p], p, want, src, held \cup AccessorsIn(stale, want, src))
        /\ computed[p].durable => NamedBy(p, want, src) \cap Counters = {}
  <2>1. stale \in SUBSET DOMAIN want
    OBVIOUS
  <2> HIDE DEF held, stale
  <2> QED
    BY <1>5, <2>1, BatchHolds
<1> HIDE DEF computed
<1>7. held \cup AccessorsIn(stale, want, src) = all
  BY <1>3, <1>4 DEF AccessorsIn
<1>8. union = held \cup (AccessorsIn(stale, want, src) \ Counters)
  <2>1. {computed[p].structural : p \in stale} = {AccessorsOf(p, want, src) : p \in stale}
    BY <1>6 DEF Holds
  <2> HIDE DEF held, stale
  <2> DEFINE found == UNION {computed[p].structural : p \in stale}
  <2>2. found = AccessorsIn(stale, want, src)
    BY <2>1, Zenon DEF AccessorsIn
  <2>3. union = held \cup (found \ Counters)
    BY Zenon
  <2> HIDE DEF found, union
  <2> QED
    BY <2>2, <2>3
<1> HIDE DEF stale, held, union, all
<1>9. \A s : s \notin Counters => ((s \in union) <=> (s \in all))
  BY <1>7, <1>8
<1>10. ASSUME NEW p, NamedBy(p, want, src) \cap Counters = {}
       PROVE  \A d : RowsOf(d, p, want, src, union) <=> RowsOf(d, p, want, src, all)
  <2>1. \A s \in DescribedOf(p, want, src) : s \notin Counters
    BY <1>10 DEF NamedBy
  <2> QED
    BY <1>9, <2>1, SameRows
<1>11. \A p \in refreshed :
         /\ Holds(again[p], p, want, src, union \cup AccessorsIn(refreshed, want, src))
         /\ again[p].durable => NamedBy(p, want, src) \cap Counters = {}
  <2>1. GoodSeed(NoSeed, src)
    BY DEF GoodSeed, NoSeed
  <2>2. refreshed \in SUBSET DOMAIN want
    BY <1>3
  <2> HIDE DEF refreshed
  <2> QED
    BY <2>1, <2>2, BatchHolds
<1> HIDE DEF again
<1>12. \A p \in refreshed : Holds(again[p], p, want, src, all)
  <2>1. refreshed \subseteq DOMAIN retained
    OBVIOUS
  <2>2. union \cup AccessorsIn(refreshed, want, src) = union
    BY <1>4, <1>8, <2>1 DEF AccessorsIn
  <2> HIDE DEF refreshed
  <2> QED
    BY <1>3, <1>10, <1>11, <2>1, <2>2 DEF Holds
<1>13. ASSUME NEW p \in DOMAIN retained, p \notin refreshed
       PROVE  Holds(retained[p], p, want, src, all)
  <2>1. before = <<suppressed>>
    BY <1>2
  <2>2. \A s : <<s, p>> \in st.users <=> s \in DescribedOf(p, want, src)
    <3>1. \A s : <<s, p>> \in Keys(p, st.byPath[p]).users <=> s \in st.byPath[p].described
      BY KeysNamePath
    <3>2. st.users = UNION {Keys(q, st.byPath[q]).users : q \in DOMAIN st.byPath}
      BY DEF Mirrors
    <3>3. \A q, s : <<s, p>> \in Keys(q, st.byPath[q]).users => q = p
      BY KeysNamePath
    <3>4. st.byPath[p].described = DescribedOf(p, want, src)
      BY <1>2, <1>3 DEF Holds
    <3> QED
      BY <1>2, <3>1, <3>2, <3>3, <3>4
  <2>3. \A s \in DescribedOf(p, want, src) : s \notin flipped
    BY <1>13, <2>2
  <2>4. \A s \in DescribedOf(p, want, src) : (s \in suppressed) <=> (s \in union)
    BY <2>1, <2>3 DEF Flipped
  <2>5. \A d : RowsOf(d, p, want, src, suppressed) <=> RowsOf(d, p, want, src, union)
    BY <2>4, SameRows
  <2> QED
    BY <1>3, <1>10, <2>5 DEF Holds
<1>reused. refreshed \cap stale = {}
  BY DEF stale
<1> HIDE DEF refreshed
<1>14. DOMAIN contributions = DOMAIN want
  OBVIOUS
<1>15. ASSUME NEW p \in DOMAIN want
       PROVE  /\ Holds(contributions[p], p, want, src, all)
              /\ contributions[p].durable => NamedBy(p, want, src) \cap Counters = {}
              /\ p \notin ManifestPaths(stale, refreshed) =>
                   p \in DOMAIN st.byPath /\ contributions[p] = st.byPath[p]
  <2>1. p \notin ManifestPaths(stale, refreshed) => p \notin stale /\ p \notin refreshed
    BY DEF ManifestPaths
  <2>2. p \notin stale => p \in DOMAIN retained
    BY DEF stale
  <2>3. CASE p \in stale
    <3>1. contributions[p] = computed[p]
      BY <1>reused, <2>3
    <3> HIDE DEF contributions
    <3> QED
      BY <1>6, <1>7, <2>1, <2>3, <3>1
  <2>4. CASE p \notin stale /\ p \in refreshed
    <3>1. contributions[p] = again[p]
      BY <2>4
    <3> HIDE DEF contributions
    <3> QED
      BY <1>11, <1>12, <2>1, <2>4, <3>1
  <2>5. CASE p \notin stale /\ p \notin refreshed
    <3>1. contributions[p] = retained[p]
      BY <2>5
    <3> HIDE DEF contributions
    <3> QED
      BY <1>2, <1>3, <1>13, <2>2, <2>5, <3>1
  <2> QED
    BY <2>3, <2>4, <2>5
<1> HIDE DEF contributions
<1> QED
  BY <1>1, <1>10, <1>14, <1>15 DEF Complete, FreshRows, all, m

-----------------------------------------------------------------------------
(* The steps.                                                              *)

\* The invariant holds in the beginning.
LEMMA InitHolds == Init => ContributionsInvariant
<1> SUFFICES ASSUME Init PROVE ContributionsInvariant
  OBVIOUS
<1>1. /\ src \in [Paths -> Texts] /\ store = NoStore /\ base = "none"
      /\ demands = [p \in {} |-> 0]
  BY DEF Init
<1>2. Asked(demands)
  BY <1>1 DEF Asked
<1> QED
  BY <1>1, <1>2, NothingRetained DEF ContributionsInvariant

EditedBy(want) ==
  {p \in Paths : ~ (/\ p \in DOMAIN want /\ p \in DOMAIN demands /\ want[p] = demands[p])}

\* The store and the suppression an analysis starts from.
Current(want) == IF base = "none" THEN NoStore ELSE Remove(store, EditedBy(want))
Before == IF base = "none" THEN <<>> ELSE last

Reusable(st, before, want) ==
  /\ DOMAIN st.byPath \subseteq Paths /\ Mirrors(st)
  /\ Kept(st, want, src, last[1])
  /\ before = <<last[1]>> \/ DOMAIN st.byPath = {}
  /\ \A p \in DOMAIN st.byPath : base # "none" /\ rows[p] = st.byPath[p].descriptors

\* What an analysis starts from holds what the files it asks about ask.
LEMMA CurrentReusable ==
  ASSUME ContributionsInvariant, NEW want, Asked(want)
  PROVE  Reusable(Current(want), Before, want)
<1> DEFINE edited == EditedBy(want)
<1>1. CASE base = "none"
  <2>1. DOMAIN NoStore.byPath = {} /\ Mirrors(NoStore)
    BY NothingRetained
  <2>2. Kept(NoStore, want, src, last[1])
    BY <2>1 DEF Kept
  <2> QED
    BY <1>1, <2>1, <2>2 DEF Reusable, Current
<1>2. CASE base # "none"
  <2>1. /\ DOMAIN store.byPath \subseteq Paths /\ Mirrors(store) /\ last = <<last[1]>>
        /\ Kept(store, demands, src, last[1])
        /\ \A p \in DOMAIN store.byPath : rows[p] = store.byPath[p].descriptors
    BY <1>2 DEF ContributionsInvariant
  <2> DEFINE r == Remove(store, edited)
  <2>2. /\ DOMAIN r.byPath = DOMAIN store.byPath \ edited
        /\ \A p \in DOMAIN store.byPath \ edited : r.byPath[p] = store.byPath[p]
        /\ Mirrors(r)
    BY <2>1, RemoveMirrors
  <2> HIDE DEF r
  <2>3. ASSUME NEW p \in DOMAIN r.byPath
        PROVE  /\ p \in DOMAIN want
               /\ Holds(r.byPath[p], p, want, src, last[1])
               /\ NamedBy(p, want, src) \cap Counters = {}
    <3>1. p \in DOMAIN want /\ want[p] = demands[p]
      BY <2>1, <2>2 DEF EditedBy
    <3>2. r.byPath[p] = store.byPath[p] /\ p \in DOMAIN store.byPath
      BY <2>2
    <3>3. Holds(store.byPath[p], p, demands, src, last[1])
          /\ NamedBy(p, demands, src) \cap Counters = {}
      BY <2>1, <3>2 DEF Kept
    <3>4. /\ AccessorsOf(p, want, src) = AccessorsOf(p, demands, src)
          /\ DescribedOf(p, want, src) = DescribedOf(p, demands, src)
      BY <3>1 DEF AccessorsOf, DescribedOf
    <3>5. NamedBy(p, want, src) = NamedBy(p, demands, src)
      BY <3>4 DEF NamedBy
    <3>6. \A d : RowsOf(d, p, want, src, last[1]) <=> RowsOf(d, p, demands, src, last[1])
      BY <3>4 DEF RowsOf, Shown
    <3> QED
      BY <3>1, <3>2, <3>3, <3>4, <3>5, <3>6 DEF Holds
  <2>4. Kept(r, want, src, last[1])
    BY <2>3 DEF Kept
  <2> HIDE DEF edited
  <2>5. \A p \in DOMAIN r.byPath : rows[p] = r.byPath[p].descriptors
    BY <2>1, <2>2
  <2>6. DOMAIN r.byPath \subseteq Paths
    BY <2>1, <2>2
  <2> QED
    BY <1>2, <2>1, <2>2, <2>4, <2>5, <2>6 DEF r, edited, Reusable, Current, Before
<1> QED
  BY <1>1, <1>2

\* An analysis leaves the client with the rows of a run over all files.
LEMMA AnalyzeHolds ==
  ASSUME ContributionsInvariant, NEW want \in DemandSets, Analyze(want)
  PROVE  ContributionsInvariant'
<1> DEFINE current == Current(want)
           result  == Materialize(want, current, Before)
           sent    == IF base = "none" THEN DOMAIN want ELSE result.manifest
           c       == result.contributions
<1>1. /\ store' = Commit(current, c)
      /\ last' = <<result.union>> /\ base' = "table" /\ demands' = want
      /\ rows' = [p \in DOMAIN want |-> IF p \in sent THEN c[p].descriptors ELSE rows[p]]
      /\ src' = src
  BY DEF Analyze, Current, Before, EditedBy
<1>2. Asked(want) /\ src \in [Paths -> Texts]
  BY ContributionAssumption DEF ContributionAssumption, ContributionsInvariant, Asked
<1>3. /\ DOMAIN current.byPath \subseteq Paths /\ Mirrors(current)
      /\ Kept(current, want, src, last[1])
      /\ Before = <<last[1]>> \/ DOMAIN current.byPath = {}
      /\ \A p \in DOMAIN current.byPath : base # "none" /\ rows[p] = current.byPath[p].descriptors
  BY <1>2, CurrentReusable DEF Reusable
<1> HIDE DEF current
<1>4. Complete(result, want, src, current)
  BY <1>2, <1>3, MaterializeComplete
<1> HIDE DEF result
<1>5. /\ DOMAIN c = DOMAIN want
      /\ \A p \in DOMAIN want :
           /\ Holds(c[p], p, want, src, AccessorsIn(DOMAIN want, want, src))
           /\ c[p].durable => NamedBy(p, want, src) \cap Counters = {}
           /\ NamedBy(p, want, src) \cap Counters = {} =>
                \A d : RowsOf(d, p, want, src, result.union) <=> FreshRows(d, p, want, src)
           /\ p \notin result.manifest =>
                p \in DOMAIN current.byPath /\ c[p] = current.byPath[p]
  BY <1>4 DEF Complete
<1> DEFINE durable == {p \in DOMAIN c : c[p].durable}
<1>6. /\ DOMAIN Commit(current, c).byPath = durable
      /\ \A p \in durable : Commit(current, c).byPath[p] = c[p]
      /\ Mirrors(Commit(current, c))
  <2>1. DOMAIN c \subseteq Paths
    BY <1>2, <1>5 DEF Asked
  <2> QED
    BY <1>3, <2>1, CommitHolds
<1> HIDE DEF c, durable
<1>7. /\ DOMAIN store'.byPath = durable /\ \A p \in durable : store'.byPath[p] = c[p]
      /\ Mirrors(store')
  BY <1>1, <1>6
<1>8. durable \subseteq DOMAIN want
      /\ \A p \in durable : NamedBy(p, want, src) \cap Counters = {}
  <2>1. \A p \in durable : p \in DOMAIN c /\ c[p].durable
    BY Zenon DEF durable
  <2> QED
    BY <1>5, <2>1, Zenon
<1>9. \A p \in DOMAIN want : FreshRows(c[p].descriptors, p, want, src)
  BY <1>5 DEF Holds, FreshRows
<1>10. \A p \in DOMAIN want : rows'[p] = c[p].descriptors
  <2> TAKE p \in DOMAIN want
  <2>1. CASE p \in sent
    BY <1>1, <2>1
  <2>2. CASE p \notin sent
    <3>1. p \in DOMAIN current.byPath /\ c[p] = current.byPath[p]
      BY <1>5, <2>2
    <3> QED
      BY <1>1, <1>3, <2>2, <3>1
  <2> QED
    BY <2>1, <2>2
<1>11. Kept(store', want, src, result.union)
  <2> SUFFICES ASSUME NEW p \in durable
               PROVE  Holds(c[p], p, want, src, result.union)
    BY <1>7, <1>8 DEF Kept
  <2>1. RowsOf(c[p].descriptors, p, want, src, result.union)
    BY <1>5, <1>8, <1>9
  <2> QED
    BY <1>5, <1>8, <2>1 DEF Holds
<1>12. /\ src' \in [Paths -> Texts] /\ Asked(demands')
       /\ DOMAIN store'.byPath \subseteq Paths /\ Mirrors(store')
  BY <1>1, <1>2, <1>7, <1>8 DEF Asked
<1>13. /\ last' = <<last'[1]>> /\ Kept(store', demands', src', last'[1])
       /\ \A p \in DOMAIN store'.byPath : rows'[p] = store'.byPath[p].descriptors
  BY <1>1, <1>7, <1>8, <1>10, <1>11
<1>14. \A p \in DOMAIN demands' : FreshRows(rows'[p], p, demands', src')
  BY <1>1, <1>9, <1>10
<1> QED
  BY <1>12, <1>13, <1>14 DEF ContributionsInvariant

\* A file keeps what it asks when the file that changed is neither it nor one
\* that declares a symbol it names.
LEMMA UnmovedHolds ==
  ASSUME NEW source \in [Paths -> Texts], NEW want, Asked(want), NEW p \in Paths, NEW t \in Texts,
         NEW q \in DOMAIN want, q # p, NEW c, NEW suppressed,
         Holds(c, q, want, source, suppressed), p \notin c.deps
  PROVE  /\ Holds(c, q, want, [source EXCEPT ![p] = t], suppressed)
         /\ NamedBy(q, want, [source EXCEPT ![p] = t]) = NamedBy(q, want, source)
<1> DEFINE moved == [source EXCEPT ![p] = t]
<1>1. q \in Paths /\ want[q] \in Runs /\ source[q] \in Texts /\ moved[q] = source[q]
  BY DEF Asked
<1>2. \A o \in Paths : o # p => moved[o] = source[o]
  OBVIOUS
<1> HIDE DEF moved
<1>3. /\ AccessorsOf(q, want, moved) = AccessorsOf(q, want, source)
      /\ DescribedOf(q, want, moved) = DescribedOf(q, want, source)
  BY <1>1 DEF AccessorsOf, DescribedOf
<1>4. NamedBy(q, want, moved) = NamedBy(q, want, source)
  BY <1>3 DEF NamedBy
<1>5. NamedBy(q, want, source) \subseteq Symbols
  BY <1>1, ContributionAssumption DEF ContributionAssumption, NamedBy, AccessorsOf, DescribedOf
<1>6. \A s \in NamedBy(q, want, source) : Declarer[s] # p /\ Declarer[s] \in Paths
  BY <1>5, ContributionAssumption DEF ContributionAssumption, Holds
<1>7. \A s \in DescribedOf(q, want, source) : \A d :
        Describes(d, s, moved) <=> Describes(d, s, source)
  BY <1>2, <1>6 DEF Describes, NamedBy
<1>8. RowsOf(c.descriptors, q, want, moved, suppressed)
  BY <1>3, <1>7 DEF RowsOf, Shown, Holds
<1> QED
  BY <1>3, <1>4, <1>8 DEF Holds, moved

\* An update takes from the store what the change of its file could move.
LEMMA UpdateHolds ==
  ASSUME ContributionsInvariant, NEW p \in Paths, NEW t \in Texts, Update(p, t)
  PROVE  ContributionsInvariant'
<1> DEFINE invalid == WithDependents(store, {p})
           r == Remove(store, invalid)
<1>1. /\ src' = [src EXCEPT ![p] = t] /\ store' = r
      /\ base' = (IF base = "table" THEN "previous" ELSE "none")
      /\ last' = last /\ demands' = demands /\ rows' = rows
  BY DEF Update
<1>2. /\ src \in [Paths -> Texts] /\ Asked(demands)
      /\ DOMAIN store.byPath \subseteq Paths /\ Mirrors(store)
  BY DEF ContributionsInvariant
<1>3. /\ DOMAIN r.byPath = DOMAIN store.byPath \ invalid
      /\ \A q \in DOMAIN store.byPath \ invalid : r.byPath[q] = store.byPath[q]
      /\ Mirrors(r)
  BY <1>2, RemoveMirrors
<1>4. \A q \in DOMAIN store.byPath \ invalid : q # p /\ p \notin store.byPath[q].deps
  <2> TAKE q \in DOMAIN store.byPath \ invalid
  <2>1. q # p
    BY DEF WithDependents
  <2>2. ASSUME p \in store.byPath[q].deps PROVE FALSE
    <3>1. <<p, q>> \in Keys(q, store.byPath[q]).dependents
      BY <2>2, KeysNamePath
    <3>2. <<p, q>> \in store.dependents
      BY <1>2, <3>1 DEF Mirrors
    <3>3. q \in invalid
      BY <3>2 DEF WithDependents
    <3> QED
      BY <3>3
  <2> QED
    BY <2>1, <2>2
<1> HIDE DEF invalid, r
<1>5. /\ src' \in [Paths -> Texts] /\ Asked(demands')
      /\ DOMAIN store'.byPath \subseteq Paths /\ Mirrors(store')
  BY <1>1, <1>2, <1>3
<1>6. ASSUME base' # "none"
      PROVE  /\ last' = <<last'[1]>> /\ Kept(store', demands', src', last'[1])
             /\ \A q \in DOMAIN store'.byPath : rows'[q] = store'.byPath[q].descriptors
  <2>1. base = "table"
    BY <1>1, <1>6
  <2>2. /\ last = <<last[1]>> /\ Kept(store, demands, src, last[1])
        /\ \A q \in DOMAIN store.byPath : rows[q] = store.byPath[q].descriptors
    BY <2>1 DEF ContributionsInvariant
  <2>3. ASSUME NEW q \in DOMAIN r.byPath
        PROVE  /\ q \in DOMAIN demands
               /\ Holds(r.byPath[q], q, demands, src', last[1])
               /\ NamedBy(q, demands, src') \cap Counters = {}
    <3>1. q \in DOMAIN store.byPath \ invalid /\ r.byPath[q] = store.byPath[q]
      BY <1>3
    <3>2. /\ q \in DOMAIN demands
          /\ Holds(store.byPath[q], q, demands, src, last[1])
          /\ NamedBy(q, demands, src) \cap Counters = {}
      BY <2>2, <3>1 DEF Kept
    <3>3. q # p /\ p \notin store.byPath[q].deps
      BY <1>4, <3>1
    <3>4. /\ Holds(store.byPath[q], q, demands, [src EXCEPT ![p] = t], last[1])
          /\ NamedBy(q, demands, [src EXCEPT ![p] = t]) = NamedBy(q, demands, src)
      <4> DEFINE c == store.byPath[q]
                 suppressed == last[1]
      <4>1. /\ Holds(c, q, demands, src, suppressed) /\ q \in DOMAIN demands
            /\ q # p /\ p \notin c.deps /\ src \in [Paths -> Texts] /\ Asked(demands)
        BY <1>2, <3>2, <3>3
      <4> HIDE DEF c, suppressed
      <4>2. /\ Holds(c, q, demands, [src EXCEPT ![p] = t], suppressed)
            /\ NamedBy(q, demands, [src EXCEPT ![p] = t]) = NamedBy(q, demands, src)
        BY <4>1, UnmovedHolds, Zenon
      <4> QED
        BY <4>2 DEF c, suppressed
    <3> QED
      BY <1>1, <3>1, <3>2, <3>4
  <2>4. Kept(r, demands, src', last[1])
    BY <2>3 DEF Kept
  <2> QED
    BY <1>1, <1>3, <2>2, <2>4
<1>7. base' # "table"
  BY <1>1
<1> QED
  BY <1>5, <1>6, <1>7 DEF ContributionsInvariant

\* What an analysis that did not publish leaves is what the session began with.
LEMMA AbandonHolds ==
  ASSUME ContributionsInvariant, Abandon
  PROVE  ContributionsInvariant'
<1>1. store' = NoStore /\ base' = "none" /\ src' = src /\ demands' = demands
  BY DEF Abandon
<1>2. DOMAIN store'.byPath \subseteq Paths /\ Mirrors(store')
  BY <1>1, NothingRetained
<1>3. src' \in [Paths -> Texts] /\ Asked(demands')
  BY <1>1 DEF ContributionsInvariant
<1> QED
  BY <1>1, <1>2, <1>3 DEF ContributionsInvariant

-----------------------------------------------------------------------------
(* The theorems.                                                           *)

\* The invariant holds throughout: every analysis, update and abandoned
\* analysis keeps the store equal to what its files ask (retained_contributions.go).
THEOREM ContributionsHold == Spec => []ContributionsInvariant
<1>1. ContributionsInvariant /\ [Next]_vars => ContributionsInvariant'
  <2> SUFFICES ASSUME ContributionsInvariant, [Next]_vars PROVE ContributionsInvariant'
    OBVIOUS
  <2>1. ASSUME NEW want \in DemandSets, Analyze(want) PROVE ContributionsInvariant'
    BY <2>1, AnalyzeHolds
  <2>2. ASSUME NEW p \in Paths, NEW t \in Texts, Update(p, t) PROVE ContributionsInvariant'
    BY <2>2, UpdateHolds
  <2>3. CASE Abandon
    BY <2>3, AbandonHolds
  <2>4. CASE UNCHANGED vars
    BY <2>4 DEF vars, ContributionsInvariant
  <2> QED
    BY <2>1, <2>2, <2>3, <2>4 DEF Next
<1> QED
  BY InitHolds, <1>1, PTL DEF Spec

\* The reverse indexes name exactly the retained contributions, whatever was
\* added, replaced, invalidated or committed: what an update must invalidate,
\* or a flipped accessor must refresh, is found through them.
THEOREM IndexesAlwaysMirror == Spec => []IndexesMirrorStore
<1>1. ContributionsInvariant => IndexesMirrorStore
  BY DEF ContributionsInvariant, Mirrors, IndexesMirrorStore
<1> QED
  BY ContributionsHold, <1>1, PTL

\* One run over all files gives rows of the same symbols and declarations.
LEMMA FreshRun ==
  ASSUME ContributionsInvariant, NEW p \in DOMAIN demands
  PROVE  FreshRows(FreshDescriptors(p), p, demands, src)
<1> DEFINE c == SemanticDemandRuns(DOMAIN demands, demands, src, {}, NoSeed)[p]
           all == AccessorsIn(DOMAIN demands, demands, src)
<1>1. GoodSeed(NoSeed, src)
  BY DEF GoodSeed, NoSeed
<1>2. Holds(c, p, demands, src, {} \cup all)
  BY <1>1, BatchHolds DEF ContributionsInvariant
<1> HIDE DEF c, all
<1>3. {} \cup all = all
  OBVIOUS
<1>4. RowsOf(c.descriptors, p, demands, src, all)
  BY <1>2, <1>3 DEF Holds
<1> QED
  BY <1>4 DEF FreshRows, FreshDescriptors, c, all

\* After any sequence of updates and demand changes the client has, for each file,
\* descriptors of just the symbols one run over all files would describe, and each
\* of the type as its declaration is now, with seeds, suppression, refresh and
\* manifest as the producer applies them (semantic_retained.go).
THEOREM RowsAlwaysAsDeclared == Spec => []RowsDeclaredAsFresh
<1>1. ContributionsInvariant => RowsDeclaredAsFresh
  <2> SUFFICES ASSUME ContributionsInvariant, base = "table", NEW p \in DOMAIN demands
               PROVE  Declared(rows[p]) = Declared(FreshDescriptors(p))
    BY DEF RowsDeclaredAsFresh
  <2> DEFINE d == rows[p]
             e == FreshDescriptors(p)
             shown == Shown(p, demands, src, AccessorsIn(DOMAIN demands, demands, src))
  <2>1. FreshRows(d, p, demands, src)
    BY DEF ContributionsInvariant
  <2>2. FreshRows(e, p, demands, src)
    BY FreshRun
  <2> HIDE DEF d, e
  <2>3. /\ DOMAIN d = shown /\ DOMAIN e = shown
        /\ \A s \in shown : d[s].decl = e[s].decl
    BY <2>1, <2>2 DEF FreshRows, RowsOf, Describes
  <2> HIDE DEF shown
  <2> QED
    BY <2>3 DEF Declared, d, e
<1> QED
  BY ContributionsHold, <1>1, PTL

\* The type of a symbol is the same wherever it is asked for.
SameEverywhere ==
  \A s \in Symbols, p, q \in Paths, r, m \in Runs, t, u \in Texts :
    TypeAt[p][r][t][s] = TypeAt[q][m][u][s]

\* Reuse is invisible as far as no type depends on the place it is asked for at:
\* then the client has just the rows one run over all files would give, and the
\* comment on the seed (semantic_retained.go:394) is right.
THEOREM ReuseIsInvisible == ASSUME SameEverywhere PROVE Spec => []RowsAsFresh
<1>1. ContributionsInvariant => RowsAsFresh
  <2> SUFFICES ASSUME ContributionsInvariant, base = "table", NEW p \in DOMAIN demands
               PROVE  rows[p] = FreshDescriptors(p)
    BY DEF RowsAsFresh
  <2> DEFINE d == rows[p]
             e == FreshDescriptors(p)
             shown == Shown(p, demands, src, AccessorsIn(DOMAIN demands, demands, src))
  <2>1. FreshRows(d, p, demands, src)
    BY DEF ContributionsInvariant
  <2>2. FreshRows(e, p, demands, src)
    BY FreshRun
  <2>3. shown \subseteq Symbols
    BY ContributionAssumption
    DEF ContributionAssumption, Shown, DescribedOf, ContributionsInvariant, Asked
  <2> HIDE DEF d, e
  <2>4. /\ d = [s \in shown |-> d[s]] /\ e = [s \in shown |-> e[s]]
        /\ \A s \in shown : Describes(d[s], s, src) /\ Describes(e[s], s, src)
    BY <2>1, <2>2 DEF FreshRows, RowsOf
  <2> HIDE DEF shown
  <2>5. ASSUME NEW s \in shown PROVE d[s] = e[s]
    <3>1. d[s].decl = e[s].decl
      BY <2>4 DEF Describes
    <3>2. d[s].at = e[s].at
      BY <2>3, <2>4 DEF Describes, SameEverywhere
    <3> QED
      BY <2>4, <3>1, <3>2 DEF Describes
  <2>6. d = e
    BY <2>4, <2>5
  <2> QED
    BY <2>6 DEF d, e
<1> QED
  BY ContributionsHold, <1>1, PTL
=============================================================================
