------------------------ MODULE RetainedContributions ------------------------
(***************************************************************************)
(* The contributions the producer retains per file (retainedContribution-  *)
(* Store), their two reverse indexes, and how a materialization reuses     *)
(* them.  A symbol some demand names as a structural accessor has no       *)
(* descriptor anywhere: the union of these symbols over all files decides  *)
(* which descriptors are suppressed, so a change in one file can change    *)
(* the rows of another that no update named.                               *)
(*                                                                         *)
(* A descriptor is of the type a symbol has at the place it is asked for:  *)
(* the declaration makes one part of it, the place, by narrowing or        *)
(* instantiation, the other.  Of the demands of one run for a symbol the   *)
(* first decides, for all files.                                           *)
(*                                                                         *)
(* A contribution is a record with the fields                              *)
(*   run          what the file was asked                                  *)
(*   structural   the structural accessors its demands resolved to         *)
(*   described    the symbols whose descriptor was asked for               *)
(*   descriptors  symbol -> descriptor, where it is not suppressed         *)
(*   deps         the other files its symbols are declared in              *)
(*   durable      whether all its identities outlive the generation        *)
(***************************************************************************)
EXTENDS Naturals, FiniteSets, FiniteSetsExt

CONSTANTS
  Paths,        \* files, as numbers: canonical order is <
  Texts,        \* their source texts
  Symbols,
  Counters,     \* symbols with a generation-scoped identity
  Declarer,     \* Declarer[s]: the file that declares s
  Runs,         \* what a file may be asked
  Accessors,    \* Accessors[p][r][t]: the structural accessors among the demands
  Described,    \* Described[p][r][t]: the symbols whose descriptor is demanded
  TypeAt,       \* TypeAt[p][r][t][s]: what the first place p asks for s at makes of it
  DemandSets,   \* the demand sets: path -> run
  MaxUpdates    \* bound on updates

ASSUME ContributionAssumption ==
  /\ Paths \subseteq Nat
  /\ Counters \subseteq Symbols
  /\ Declarer \in [Symbols -> Paths]
  /\ \A p \in Paths, r \in Runs, t \in Texts :
       Accessors[p][r][t] \subseteq Symbols /\ Described[p][r][t] \subseteq Symbols
  /\ \A want \in DemandSets :
       DOMAIN want \subseteq Paths /\ \A p \in DOMAIN want : want[p] \in Runs
  /\ MaxUpdates \in Nat

VARIABLES
  src,         \* path -> text
  updates,     \* accepted updates
  store,       \* [byPath, dependents, users], the two indexes as sets of pairs
  last,        \* lastSuppression: <<>> or <<set of symbols>>
  changed,     \* transportChangedPaths
  base,        \* the table: "table", "previous" after one update, or "none"
  demands,     \* the demand set of the last analysis
  rows         \* the rows the client was sent: path -> descriptors

vars == <<src, updates, store, last, changed, base, demands, rows>>

Over(f, D) == [p \in DOMAIN f \cap D |-> f[p]]

NoStore == [byPath |-> [p \in {} |-> 0], dependents |-> {}, users |-> {}]

Init ==
  /\ src \in [Paths -> Texts]
  /\ updates = 0 /\ store = NoStore /\ last = <<>> /\ changed = {} /\ base = "none"
  /\ demands = [p \in {} |-> 0] /\ rows = [p \in {} |-> 0]

-----------------------------------------------------------------------------
(* The store and its reverse indexes.                                      *)

Keys(p, c) ==
  [dependents |-> {<<d, p>> : d \in c.deps}, users |-> {<<s, p>> : s \in c.described}]

\* Mutant: the descriptor index keeps the paths.
RemoveKeepingUsers(st, paths) ==
  [byPath     |-> Over(st.byPath, Paths \ paths),
   dependents |-> st.dependents \ UNION {Keys(p, st.byPath[p]).dependents :
                                           p \in paths \cap DOMAIN st.byPath},
   users      |-> st.users]

\* remove, for each of the paths: what a contribution left in the indexes names
\* its path, so the order of the paths does not matter.
Remove(st, paths) ==
  [byPath     |-> Over(st.byPath, Paths \ paths),
   dependents |-> st.dependents \ UNION {Keys(p, st.byPath[p]).dependents :
                                           p \in paths \cap DOMAIN st.byPath},
   users      |-> st.users \ UNION {Keys(p, st.byPath[p]).users :
                                      p \in paths \cap DOMAIN st.byPath}]

\* add, for each of the paths: what the path had goes first.
Add(st, paths, contributions) ==
  [byPath     |-> [p \in DOMAIN st.byPath \cup paths |->
                     IF p \in paths THEN contributions[p] ELSE st.byPath[p]],
   dependents |-> Remove(st, paths).dependents
                    \cup UNION {Keys(p, contributions[p]).dependents : p \in paths},
   users      |-> Remove(st, paths).users
                    \cup UNION {Keys(p, contributions[p]).users : p \in paths}]

\* invalidate extends the paths by their direct dependents.
WithDependents(st, paths) == paths \cup {pair[2] : pair \in {d \in st.dependents : d[1] \in paths}}

\* commit: what is durable stays or comes in, everything else goes.
Commit(st, contributions) ==
  LET durable == {p \in DOMAIN contributions : contributions[p].durable}
      kept    == Remove(st, DOMAIN st.byPath \ durable)
      fresh   == {p \in durable : ~ (/\ p \in DOMAIN kept.byPath
                                     /\ kept.byPath[p] = contributions[p])}
  IN  Add(kept, fresh, contributions)

-----------------------------------------------------------------------------
(* The backend's semantic demand runs.                                     *)

NoSeed == [s \in {} |-> 0]

\* The descriptor of the type of s where p asks for it.
DescriptorOf(s, p, want, source) ==
  [decl |-> source[Declarer[s]], at |-> TypeAt[p][want[p]][source[p]][s]]

\* SemanticDemandRuns and prepareRetainedContribution: the accessors of the
\* whole batch are found first, and suppress with those of the scope.  A
\* descriptor the scope already has for the symbol is taken over; else the first
\* file of the batch that describes the symbol provides it to the others.
SemanticDemandRuns(batch, want, source, suppression, seed) ==
  LET accessors(p) == Accessors[p][want[p]][source[p]]
      described(p) == Described[p][want[p]][source[p]]
      suppressed   == suppression \cup UNION {accessors(p) : p \in batch}
      named(p)     == accessors(p) \cup described(p)
      provider(s)  == Min({p \in batch : s \in described(p)})
  IN  [p \in batch |->
        [ run         |-> want[p],
          structural  |-> accessors(p),
          described   |-> described(p),
          descriptors |-> [s \in described(p) \ suppressed |->
                             IF s \in DOMAIN seed THEN seed[s]
                             ELSE DescriptorOf(s, provider(s), want, source)],
          deps        |-> {Declarer[s] : s \in named(p)} \ {p},
          durable     |-> named(p) \cap Counters = {} ]]

-----------------------------------------------------------------------------
(* Materialization.                                                        *)

\* The first file in canonical order that carries a descriptor provides it.
DescriptorSeed(retained) ==
  LET carriers(s) == {p \in DOMAIN retained : s \in DOMAIN retained[p].descriptors}
  IN  [s \in {t \in Symbols : carriers(t) # {}} |->
         retained[Min(carriers(s))].descriptors[s]]

\* Mutant: only accessors that came are looked at.
FlippedByArrival(union, before) == IF before = <<>> THEN {} ELSE union \ before[1]

\* The symbols whose suppression differs from the preceding materialization.
Flipped(union, before) ==
  IF before = <<>> THEN {} ELSE (union \ before[1]) \cup (before[1] \ union)

\* Every recomputed file is named, whatever it was recomputed for.
ManifestPaths(recomputed, refreshed) == changed \cup recomputed \cup refreshed

\* What can be reused is reused, the rest recomputed under the union of its
\* accessors and the reused ones', and a reused file is recomputed after all
\* when the union flipped a symbol it describes.
Materialize(want, current, before) ==
  LET retained  == Over(current.byPath, DOMAIN want)
      stale     == DOMAIN want \ DOMAIN retained
      held      == UNION {retained[p].structural : p \in DOMAIN retained}
      computed  == SemanticDemandRuns(stale, want, src, held, DescriptorSeed(retained))
      union     == held \cup ((UNION {computed[p].structural : p \in stale}) \ Counters)
      flipped   == Flipped(union, before)
      refreshed == {p \in DOMAIN retained : \E s \in flipped : <<s, p>> \in current.users}
      again     == SemanticDemandRuns(refreshed, want, src, union, NoSeed)
  IN  [ union         |-> union,
        manifest      |-> ManifestPaths(stale, refreshed),
        contributions |-> [p \in DOMAIN want |-> CASE p \in stale     -> computed[p]
                                                   [] p \in refreshed -> again[p]
                                                   [] OTHER           -> retained[p]] ]

\* Demand edits discard the contributions they name.  Without a table to
\* compare with, everything derived is reset and the table sent whole.
Analyze(want) ==
  LET edited == {p \in Paths : ~ (/\ p \in DOMAIN want /\ p \in DOMAIN demands
                                  /\ want[p] = demands[p])}
      whole  == base = "none"
      current == IF whole THEN NoStore ELSE Remove(store, edited)
      result == Materialize(want, current, IF whole THEN <<>> ELSE last)
      sent   == IF whole THEN DOMAIN want ELSE result.manifest
  IN  /\ want # demands \/ base # "table"
      /\ store' = Commit(current, result.contributions)
      /\ last' = <<result.union>>
      /\ changed' = {} /\ base' = "table"
      /\ demands' = want
      /\ rows' = [p \in DOMAIN want |->
                    IF p \in sent THEN result.contributions[p].descriptors ELSE rows[p]]
      /\ UNCHANGED <<src, updates>>

\* An update invalidates the edited file and its direct dependents.
Update(p, t) ==
  LET invalid == WithDependents(store, {p})
  IN  /\ updates < MaxUpdates /\ t # src[p]
      /\ src' = [src EXCEPT ![p] = t]
      /\ updates' = updates + 1
      /\ store' = Remove(store, invalid)
      /\ changed' = invalid
      /\ base' = IF base = "table" THEN "previous" ELSE "none"
      /\ UNCHANGED <<last, demands, rows>>

\* resetAnalysisStateLocked, after an analysis that did not publish.
Abandon ==
  /\ base # "none"
  /\ store' = NoStore /\ last' = <<>> /\ changed' = {} /\ base' = "none"
  /\ UNCHANGED <<src, updates, demands, rows>>

Next ==
  \/ \E want \in DemandSets : Analyze(want)
  \/ \E p \in Paths, t \in Texts : Update(p, t)
  \/ Abandon

Spec == Init /\ [][Next]_vars

-----------------------------------------------------------------------------
(* Properties.                                                             *)

\* The descriptors of one run over all files at once, with nothing retained.
FreshDescriptors(p) ==
  SemanticDemandRuns(DOMAIN demands, demands, src, {}, NoSeed)[p].descriptors

\* What the declarations make of descriptors.
Declared(descriptors) == [s \in DOMAIN descriptors |-> descriptors[s].decl]

\* After any sequence of edits and demand changes the client has descriptors for
\* just the symbols a run over all files would give it, and each of a type as it
\* is declared now: reuse, seeds, suppression and manifest together lose none
\* and keep none of a declaration that changed.
RowsDeclaredAsFresh ==
  base = "table" =>
    \A p \in DOMAIN demands : Declared(rows[p]) = Declared(FreshDescriptors(p))

\* semantic_retained.go says that the descriptors a seed has are what a run over
\* all files would have cached before it reached the recomputed demands, and the
\* integration test that retained output is byte-identical to a fresh
\* materialization: the rows are the same in what the place makes of them, too.
RowsAsFresh ==
  base = "table" => \A p \in DOMAIN demands : rows[p] = FreshDescriptors(p)

\* The reverse indexes name exactly the retained contributions that declare
\* a dependency or describe a symbol, so invalidation and refresh miss none.
IndexesMirrorStore ==
  /\ store.dependents = UNION {Keys(p, store.byPath[p]).dependents : p \in DOMAIN store.byPath}
  /\ store.users = UNION {Keys(p, store.byPath[p]).users : p \in DOMAIN store.byPath}

=============================================================================
