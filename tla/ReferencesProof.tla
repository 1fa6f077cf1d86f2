--------------------------- MODULE ReferencesProof ---------------------------
(***************************************************************************)
(* Proofs about SymbolClosure, for any project and any demands, edits and   *)
(* failures: the client's index of declarations stays right however symbols *)
(* are patched, and, where every file is configured, no reference list the  *)
(* client keeps, patches or asks for names a reference that is gone.        *)
(***************************************************************************)
EXTENDS SymbolClosure, TLAPS

-----------------------------------------------------------------------------
(* The index of declarations.                                              *)

HeldFields == {"demands", "symbols", "tier", "byPath", "seen"}

\* The client's table with its index of declarations by path.
Indexed ==
  client # <<>> =>
    /\ client = <<Held>> /\ DOMAIN Held = HeldFields
    /\ \A i \in DOMAIN Held.symbols : DOMAIN Held.symbols[i] = {"alias", "decl", "refs"}
    /\ Held.byPath = ByPath(Held.symbols)

\* An index entry is a declaration of a symbol.
LEMMA ByPathEntry ==
  ASSUME NEW symbols, NEW b
  PROVE  (b \in ByPath(symbols)) <=>
           (\E i \in DOMAIN symbols : \E d \in symbols[i].decl : b = <<d[1], i>>)
BY DEF ByPath

\* Closing the symbols indexes them all.
LEMMA ClosedIndexed ==
  ASSUME NEW want, CloseSymbols(want)
  PROVE  Indexed'
<1>1. PICK x \in {ReportChanges(AfterAnalyze(want), src)}, tier \in {ReferenceTier(want)} :
        AskAndClose(want, x, tier, {i \in tier : MustAsk(i, x)})
  BY DEF CloseSymbols
<1> DEFINE ask == {i \in tier : MustAsk(i, x)}
<1>2. PICK y \in {Queried(x, ask, src)} : client' = <<Assembled(want, tier, ask, y)>>
  BY <1>1 DEF AskAndClose
<1> DEFINE symbols == [i \in Reachable(Seeds(want, src), src) |->
                         Evidence(i, src, ListOf(i, tier, ask, y))]
           h == Assembled(want, tier, ask, y)
<1>3. /\ h = [demands |-> want, symbols |-> symbols, tier |-> tier,
              byPath |-> ByPath(symbols), seen |-> src]
      /\ \A i \in DOMAIN symbols : DOMAIN symbols[i] = {"alias", "decl", "refs"}
  BY DEF Assembled, Closed, Evidence
<1> HIDE DEF symbols
<1>4. DOMAIN h = HeldFields /\ h.symbols = symbols /\ h.byPath = ByPath(symbols)
  BY <1>3 DEF HeldFields
<1> HIDE DEF h
<1>5. client' = <<h>> /\ Held' = h
  BY <1>2 DEF h, Held
<1> QED
  BY <1>3, <1>4, <1>5 DEF Indexed

\* Patching replaces exactly the entries of the invalidated symbols.
LEMMA PatchedIndexed ==
  ASSUME Indexed, client # <<>>, NEW want, PatchStableSymbols(want)
  PROVE  /\ Indexed'
         /\ DOMAIN Held'.symbols = DOMAIN Held.symbols
         /\ \A i \in DOMAIN Held.symbols :
              Held'.symbols[i] =
                PatchedSymbols(ReportChanges(idx, src), InvalidatedSymbols)[i]
         /\ Held'.tier = Held.tier /\ Held'.seen = src
<1> DEFINE inv == InvalidatedSymbols
           y   == ReportChanges(idx, src)
           ps  == PatchedSymbols(y, inv)
           h   == Patched(ps, inv)
<1>1. /\ client = <<Held>> /\ DOMAIN Held = HeldFields
      /\ \A i \in DOMAIN Held.symbols : DOMAIN Held.symbols[i] = {"alias", "decl", "refs"}
      /\ Held.byPath = ByPath(Held.symbols)
  BY DEF Indexed
<1>2. client' = <<h>> /\ Held' = h
  BY DEF PatchStableSymbols, Held
<1>3. /\ DOMAIN ps = DOMAIN Held.symbols
      /\ \A i \in DOMAIN ps :
           /\ DOMAIN ps[i] = {"alias", "decl", "refs"}
           /\ i \notin inv => ps[i].decl = Held.symbols[i].decl
  <2> HIDE DEF inv, y
  <2>1. \A i \in DOMAIN Held.symbols :
          /\ DOMAIN Structural(i, inv) = {"alias", "decl", "refs"}
          /\ i \notin inv => Structural(i, inv) = Held.symbols[i]
    BY <1>1 DEF Structural, Evidence
  <2>2. /\ DOMAIN ps = DOMAIN Held.symbols
        /\ \A i \in DOMAIN Held.symbols :
             \/ ps[i] = Structural(i, inv)
             \/ ps[i] = [Structural(i, inv) EXCEPT
                           !.refs = PatchReferencePaths(@, Locations(y, i, src), affected)]
    BY DEF PatchedSymbols
  <2> HIDE DEF ps
  <2>3. ASSUME NEW i \in DOMAIN Held.symbols
        PROVE  /\ DOMAIN ps[i] = {"alias", "decl", "refs"}
               /\ ps[i].decl = Structural(i, inv).decl
    <3> DEFINE st == Structural(i, inv)
    <3>1. DOMAIN st = {"alias", "decl", "refs"}
      BY <2>1
    <3>2. \/ ps[i] = st
          \/ ps[i] = [st EXCEPT !.refs = PatchReferencePaths(@, Locations(y, i, src), affected)]
      BY <2>2
    <3> HIDE DEF st
    <3>3. DOMAIN ps[i] = {"alias", "decl", "refs"} /\ ps[i].decl = st.decl
      BY <3>1, <3>2
    <3> QED
      BY <3>3 DEF st
  <2> QED
    BY <2>1, <2>2, <2>3
<1>4. \A i \in inv : i \in DOMAIN Held.symbols
  <2> SUFFICES ASSUME NEW b \in Held.byPath PROVE b[2] \in DOMAIN Held.symbols
    BY DEF InvalidatedSymbols
  <2> QED
    BY <1>1, ByPathEntry
<1>5. /\ DOMAIN h = HeldFields /\ h.symbols = ps /\ h.tier = Held.tier /\ h.seen = src
      /\ h.byPath = PatchedByPath(ps, inv)
  <2> HIDE DEF ps, inv
  <2> QED
    BY <1>1 DEF Patched, HeldFields
<1> HIDE DEF ps, h, inv
<1>6. PatchedByPath(ps, inv) = ByPath(ps)
  <2> DEFINE some == [i \in inv |-> ps[i]]
  <2>1. ASSUME NEW b \in PatchedByPath(ps, inv) PROVE b \in ByPath(ps)
    <3>1. CASE b \in Held.byPath /\ b[2] \notin inv
      <4>1. PICK i \in DOMAIN Held.symbols : \E d \in Held.symbols[i].decl : b = <<d[1], i>>
        BY <1>1, <3>1, ByPathEntry
      <4> QED
        BY <1>3, <3>1, <4>1, ByPathEntry
    <3>2. CASE b \in ByPath(some)
      <4>1. PICK i \in inv : \E d \in ps[i].decl : b = <<d[1], i>>
        BY <3>2, ByPathEntry
      <4> QED
        BY <1>3, <1>4, <4>1, ByPathEntry
    <3> QED
      BY <2>1, <3>1, <3>2 DEF PatchedByPath
  <2>2. ASSUME NEW b \in ByPath(ps) PROVE b \in PatchedByPath(ps, inv)
    <3>1. PICK i \in DOMAIN ps : \E d \in ps[i].decl : b = <<d[1], i>>
      BY <2>2, ByPathEntry
    <3>2. CASE i \in inv
      <4>1. b \in ByPath(some)
        BY <3>1, <3>2, ByPathEntry
      <4> QED
        BY <4>1 DEF PatchedByPath
    <3>3. CASE i \notin inv
      <4>1. b \in Held.byPath /\ b[2] = i
        BY <1>1, <1>3, <3>1, <3>3, ByPathEntry
      <4> QED
        BY <3>3, <4>1 DEF PatchedByPath
    <3> QED
      BY <3>2, <3>3
  <2> QED
    BY <2>1, <2>2
<1>7. Indexed'
  BY <1>2, <1>3, <1>5, <1>6 DEF Indexed
<1> QED
  BY <1>2, <1>3, <1>5, <1>7 DEF ps, inv

\* Every step keeps the index of declarations.
LEMMA IndexedStep ==
  ASSUME Indexed, [Next]_vars
  PROVE  Indexed'
<1>1. ASSUME NEW want \in DemandSets, NEW moved \in BOOLEAN, Analyze(want, moved)
      PROVE  Indexed'
  <2>1. CASE Patches(want, moved)
    <3>1. PatchStableSymbols(want)
      BY <1>1, <2>1 DEF Analyze
    <3>2. client # <<>>
      BY <2>1 DEF Patches, HeldSymbols, Full
    <3> QED
      BY <3>1, <3>2, PatchedIndexed
  <2>2. CASE ~Patches(want, moved)
    BY <1>1, <2>2, ClosedIndexed DEF Analyze
  <2> QED
    BY <2>1, <2>2
<1>2. ASSUME client' = client PROVE Indexed'
  BY <1>2 DEF Indexed, Held
<1>3. ASSUME client' = <<>> PROVE Indexed'
  BY <1>3 DEF Indexed
<1> QED
  BY <1>1, <1>2, <1>3 DEF Next, AnalyzeCancelled, AnalyzeUnfinished, Update, Restart, vars

\* The declarations patched one symbol at a time are indexed as if they had been
\* indexed at once (patch_stable_symbols), on any project: an update finds all
\* the symbols it invalidates.
THEOREM DeclarationsStayIndexed == Spec => []DeclarationsIndexed
<1>1. Init => Indexed
  BY DEF Init, Indexed
<1>2. Indexed /\ [Next]_vars => Indexed'
  BY IndexedStep
<1>3. Indexed => DeclarationsIndexed
  BY DEF Indexed, DeclarationsIndexed
<1> QED
  BY <1>1, <1>2, <1>3, PTL DEF Spec

-----------------------------------------------------------------------------
(* The producer's index and the client's lists: the inductive invariant.   *)

Ids(p, s) == {r.id : r \in References(p, s)}

IndexFields == {"merged", "paths", "used", "refresh", "changed", "exact", "files"}

\* What the index holds of a file is what a scan of it gives, though not all of
\* it; a merged index knows every file, or is to scan it again.
IndexTrue(x, s) ==
  /\ DOMAIN x = IndexFields /\ x.exact \in BOOLEAN
  /\ DOMAIN x.files \subseteq Paths /\ x.refresh \subseteq Paths
  /\ x.refresh # {} => x.exact
  /\ \A p \in DOMAIN x.files :
       /\ DOMAIN x.files[p] = {"ids", "spans", "durable"}
       /\ x.files[p].ids = Ids(p, s)
       /\ x.files[p].spans \subseteq References(p, s)
  /\ x.merged # <<>> =>
       /\ x.merged = <<x.merged[1]>> /\ x.paths = Paths
       /\ Paths \subseteq DOMAIN x.files \cup x.refresh
       /\ \A r \in x.merged[1] : r.path \in DOMAIN x.files /\ r \in References(r.path, s)

\* An index that was looked at, from the index x before.
Ensured(y, x, s) ==
  /\ IndexTrue(y, s)
  /\ y.merged # <<>> /\ y.refresh = {} /\ DOMAIN y.files = Paths
  /\ y.exact = x.exact
  /\ x.exact => /\ x.changed \subseteq y.changed
                /\ \A p \in Paths \ DOMAIN x.files : Ids(p, s) \subseteq y.changed

\* The table the client holds, of the sources it has seen.
ListsTrue(h) ==
  /\ h.seen \in Sources /\ DOMAIN h.symbols \subseteq Symbols
  /\ h.tier \subseteq DOMAIN h.symbols
  /\ \A i \in DOMAIN h.symbols :
       /\ h.symbols[i].alias = AliasTarget(i, h.seen)
       /\ h.symbols[i].decl = {<<Declarer[i], h.seen[Declarer[i]]>>}
       /\ h.symbols[i].refs \subseteq To(i, AllReferences(h.seen))
       /\ i \in h.tier => h.symbols[i].alias = {}
       /\ i \notin h.tier => h.symbols[i].refs = {}

\* What the updates since left alone outside the affected paths.
Away(seen) ==
  \A p \in Paths \ affected :
    /\ seen[p] = src[p] /\ References(p, seen) = References(p, src)
    /\ \A i \in Symbols : Declarer[i] = p => Canonical(i, seen) = Canonical(i, src)

\* A file whose references moved is to be scanned again, and its old ones are
\* reported.
Covered(x, seen) ==
  x.exact =>
    \A p \in Paths : References(p, seen) # References(p, src) =>
      p \notin DOMAIN x.files /\ Ids(p, seen) \subseteq x.changed

ReferencesInvariant ==
  /\ Indexed
  /\ src \in Sources /\ IndexTrue(idx, src)
  /\ base = "table" => affected = {}
  /\ base = "previous" => affected \cap DOMAIN idx.files = {}
  /\ base \in {"table", "previous", "none"}
  /\ client # <<>> =>
       /\ ListsTrue(Held)
       /\ affected = {} => Held.seen = src
       /\ base = "table" => /\ Held.seen = src
                            /\ idx.merged # <<>> /\ DOMAIN idx.files = Paths
       /\ base # "none" => Away(Held.seen) /\ Covered(idx, Held.seen)

-----------------------------------------------------------------------------
(* What an update leaves alone.                                            *)

\* Where the configuration includes every file, every file is in the program.
LEMMA AllMembers ==
  ASSUME Roots = Paths, NEW s
  PROVE  Members(s) = Paths
BY DEF Members, Closure

\* Imports lead to paths.
LEMMA EdgesStay ==
  ASSUME NEW s \in Sources, NEW p \in Paths
  PROVE  Edges(p, s) = Imports[p][s[p]] /\ Edges(p, s) \subseteq Paths
BY ProgramAssumption DEF Edges, Sources, ProgramAssumption

\* The walk from the changed files is closed and holds them.
LEMMA WalkClosed ==
  ASSUME NEW S \in SUBSET Paths, NEW step, \A p \in Paths : step[p] \subseteq Paths
  PROVE  /\ S \subseteq Closure(S, step)
         /\ \A p \in Closure(S, step) : step[p] \subseteq Closure(S, step)
<1>1. Closure(S, step) \subseteq Paths /\ S \subseteq Closure(S, step)
  BY DEF Closure
<1>2. ASSUME NEW p \in Closure(S, step), NEW q \in step[p]
      PROVE  q \in Closure(S, step)
  <2>1. ASSUME NEW T \in SUBSET Paths, S \subseteq T, ClosedUnder(T, step)
        PROVE  q \in T
    <3>1. p \in T
      BY <2>1 DEF Closure
    <3> QED
      BY <2>1, <3>1 DEF ClosedUnder
  <2> QED
    BY <1>1, <2>1 DEF Closure
<1> QED
  BY <1>1, <1>2

\* The symbols of a file stand for the same ones under both sources.
Calm(q, old, new) ==
  \A s \in Symbols : Declarer[s] = q => AliasOf[s][new[q]] = AliasOf[s][old[q]]

\* A set of files that imports do not lead out of and whose symbols are calm.
Undisturbed(U, old, new) ==
  /\ U \subseteq Paths
  /\ \A q \in U : Calm(q, old, new) /\ Edges(q, old) \subseteq U

\* A file an update does not affect lies in such a set.
LEMMA UnaffectedUndisturbed ==
  ASSUME Roots = Paths, NEW old \in Sources, NEW new \in Sources, NEW changed \in SUBSET Paths,
         \A q \in Paths \ changed : new[q] = old[q],
         NEW p \in Paths, p \notin Affected(changed, old, new)
  PROVE  p \notin changed /\ \E U : p \in U /\ Undisturbed(U, old, new)
<1>1. Members(old) = Paths /\ Members(new) = Paths
  BY AllMembers
<1>2. \A q \in Paths \ changed : Calm(q, old, new)
  BY DEF Calm
<1>3. CASE ~SemanticCutoff(changed, old, new)
  <2> DEFINE step == [q \in Paths |-> Importers(q, old) \cup Importers(q, new)]
             A    == Closure(changed, step)
  <2>1. A = Affected(changed, old, new)
    BY <1>3 DEF Affected, AffectedFromReverseDeps
  <2>2. \A q \in Paths : step[q] \subseteq Paths
    BY <1>1 DEF Importers
  <2>3. changed \subseteq A /\ \A q \in A : step[q] \subseteq A
    BY <2>2, WalkClosed
  <2>4. A \subseteq Paths
    BY DEF Closure
  <2>5. ASSUME NEW q \in Paths \ A, NEW r \in Edges(q, old)
        PROVE  r \in Paths \ A
    <3>1. r \in Paths
      BY EdgesStay
    <3>2. q \in step[r]
      BY <1>1, <3>1 DEF Importers
    <3> QED
      BY <2>3, <3>1, <3>2
  <2> HIDE DEF A
  <2>6. Undisturbed(Paths \ A, old, new)
    BY <1>2, <2>3, <2>5 DEF Undisturbed
  <2> QED
    BY <2>1, <2>3, <2>6
<1>4. CASE SemanticCutoff(changed, old, new)
  <2>1. PICK c \in changed :
          /\ changed = {c} /\ c \in Paths
          /\ \/ Importers(c, old) = {}
             \/ Shape[c][old[c]] = Shape[c][new[c]] /\ Edges(c, old) = Edges(c, new)
    BY <1>4 DEF SemanticCutoff
  <2>2. p # c /\ p \notin changed
    BY <1>4, <2>1 DEF Affected
  <2>3. CASE Importers(c, old) = {}
    <3>1. \A q \in Paths \ {c} : Edges(q, old) \subseteq Paths \ {c}
      BY <1>1, <2>3, EdgesStay DEF Importers
    <3>2. Undisturbed(Paths \ {c}, old, new)
      BY <1>2, <2>1, <3>1 DEF Undisturbed
    <3> QED
      BY <2>2, <3>2
  <2>4. CASE Shape[c][old[c]] = Shape[c][new[c]]
    <3>1. old[c] \in Texts /\ new[c] \in Texts
      BY <2>1 DEF Sources
    <3>2. Calm(c, old, new)
      BY <2>4, <3>1, ReferenceAssumption DEF ReferenceAssumption, Calm
    <3>3. Undisturbed(Paths, old, new)
      BY <1>2, <2>1, <3>2, EdgesStay DEF Undisturbed
    <3> QED
      BY <2>2, <3>3
  <2> QED
    BY <2>1, <2>3, <2>4
<1> QED
  BY <1>3, <1>4

\* There every symbol stands for what it stood for.
LEMMA SameCanonical ==
  ASSUME Roots = Paths, NEW old \in Sources, NEW new \in Sources, NEW U,
         Undisturbed(U, old, new), NEW s \in Symbols, Declarer[s] \in U
  PROVE  Canonical(s, new) = Canonical(s, old)
<1>1. Members(old) = Paths /\ Members(new) = Paths
  BY AllMembers
<1>2. \A i \in Symbols : Declarer[i] \in U =>
        /\ AliasIn(i, Paths, old) = AliasOf[i][old[Declarer[i]]]
        /\ AliasIn(i, Paths, new) = AliasIn(i, Paths, old)
  BY DEF AliasIn, Undisturbed, Calm
<1> DEFINE once == Follow(s, AliasIn(s, Paths, old))
<1>3. once = s \/ once \in AliasIn(s, Paths, old)
  BY DEF Follow
<1>4. once \in Symbols /\ Declarer[once] \in U
  <2>1. CASE once = s
    BY <2>1
  <2>2. CASE once \in AliasOf[s][old[Declarer[s]]]
    <3>1. Declarer[s] \in Paths /\ old[Declarer[s]] \in Texts
      BY DEF Undisturbed, Sources
    <3>2. once \in Symbols
          /\ Declarer[once] \in Imports[Declarer[s]][old[Declarer[s]]] \cup {Declarer[s]}
      BY <2>2, <3>1, ReferenceAssumption DEF ReferenceAssumption
    <3>3. Imports[Declarer[s]][old[Declarer[s]]] \subseteq U
      BY DEF Undisturbed, Edges
    <3> QED
      BY <3>2, <3>3
  <2> QED
    BY <1>2, <1>3, <2>1, <2>2
<1>5. Follow(s, AliasIn(s, Paths, new)) = once
  BY <1>2
<1>6. AliasIn(once, Paths, new) = AliasIn(once, Paths, old)
  BY <1>2, <1>4
<1> HIDE DEF once
<1>7. CanonicalIn(s, Paths, new) = Follow(once, AliasIn(once, Paths, new))
  BY <1>5 DEF CanonicalIn
<1>8. CanonicalIn(s, Paths, old) = Follow(once, AliasIn(once, Paths, old))
  BY DEF CanonicalIn, once
<1> QED
  BY <1>1, <1>6, <1>7, <1>8 DEF Canonical

\* A file an update does not affect has the text and the references it had, and
\* its symbols stand for what they stood for.
LEMMA UnaffectedReferences ==
  ASSUME Roots = Paths, NEW old \in Sources, NEW new \in Sources, NEW changed \in SUBSET Paths,
         \A q \in Paths \ changed : new[q] = old[q],
         NEW p \in Paths, p \notin Affected(changed, old, new)
  PROVE  /\ old[p] = new[p] /\ References(p, old) = References(p, new)
         /\ \A i \in Symbols : Declarer[i] = p => Canonical(i, old) = Canonical(i, new)
<1>1. p \notin changed /\ \E U : p \in U /\ Undisturbed(U, old, new)
  BY UnaffectedUndisturbed
<1>2. PICK U : p \in U /\ Undisturbed(U, old, new)
  BY <1>1
<1>3. \A i \in Symbols : Declarer[i] \in U => Canonical(i, old) = Canonical(i, new)
  BY <1>2, SameCanonical
<1>4. old[p] = new[p] /\ old[p] \in Texts
  BY <1>1 DEF Sources
<1>5. \A use \in Uses[p][old[p]] : Canonical(use[1], old) = Canonical(use[1], new)
  <2> TAKE use \in Uses[p][old[p]]
  <2>1. use[1] \in Symbols /\ Declarer[use[1]] \in Imports[p][old[p]] \cup {p}
    BY <1>4, ReferenceAssumption DEF ReferenceAssumption
  <2>2. Imports[p][old[p]] \subseteq U
    BY <1>2 DEF Undisturbed, Edges
  <2> QED
    BY <1>2, <1>3, <2>1, <2>2
<1>6. References(p, old) = References(p, new)
  BY <1>4, <1>5 DEF References
<1> QED
  BY <1>2, <1>3, <1>4, <1>6

\* What an update affects holds what it changed.
LEMMA AffectedHoldsChanged ==
  ASSUME Roots = Paths, NEW old \in Sources, NEW new \in Sources, NEW changed \in SUBSET Paths
  PROVE  changed \subseteq Affected(changed, old, new)
<1>1. \A q \in Paths : [r \in Paths |-> Importers(r, old) \cup Importers(r, new)][q] \subseteq Paths
  BY AllMembers DEF Importers
<1>2. changed \subseteq AffectedFromReverseDeps(changed, old, new)
  BY <1>1, WalkClosed DEF AffectedFromReverseDeps
<1> QED
  BY <1>2 DEF Affected

-----------------------------------------------------------------------------
(* The producer's index.                                                   *)

\* What a scan enters.
LEMMA ScanEntry ==
  ASSUME NEW p, NEW s
  PROVE  /\ DOMAIN Scan(p, s) = {"ids", "spans", "durable"}
         /\ Scan(p, s).ids = Ids(p, s) /\ Scan(p, s).spans = References(p, s)
         /\ \A r \in References(p, s) : r.path = p /\ r.id \in Ids(p, s)
BY DEF Scan, Entry, Ids, References

\* An entry that was handed over keeps its identities.
LEMMA MergedEntry ==
  ASSUME NEW e, DOMAIN e = {"ids", "spans", "durable"}
  PROVE  /\ DOMAIN Merged(e) = {"ids", "spans", "durable"}
         /\ Merged(e).ids = e.ids /\ Merged(e).spans = {} /\ Merged(e).durable = e.durable
BY DEF Merged

FilesTrue(files, s) ==
  \A p \in DOMAIN files :
    /\ DOMAIN files[p] = {"ids", "spans", "durable"}
    /\ files[p].ids = Ids(p, s) /\ files[p].spans \subseteq References(p, s)

\* So do the entries of all files.
LEMMA HandedOverTrue ==
  ASSUME NEW files, NEW s, FilesTrue(files, s), NEW paths
  PROVE  DOMAIN HandedOver(files, paths) = DOMAIN files /\ FilesTrue(HandedOver(files, paths), s)
<1>1. \A p \in DOMAIN files :
        \/ HandedOver(files, paths)[p] = files[p]
        \/ HandedOver(files, paths)[p] = Merged(files[p])
  BY DEF HandedOver
<1>2. DOMAIN HandedOver(files, paths) = DOMAIN files
  BY DEF HandedOver
<1> QED
  BY <1>1, <1>2, MergedEntry DEF FilesTrue

\* Scanned files join the others.
LEMMA OverwrittenTrue ==
  ASSUME NEW files, NEW s, FilesTrue(files, s), NEW scanned, FilesTrue(scanned, s)
  PROVE  /\ DOMAIN Overwrite(files, scanned) = DOMAIN files \cup DOMAIN scanned
         /\ FilesTrue(Overwrite(files, scanned), s)
<1>1. /\ DOMAIN Overwrite(files, scanned) = DOMAIN files \cup DOMAIN scanned
      /\ \A p \in DOMAIN scanned : Overwrite(files, scanned)[p] = scanned[p]
      /\ \A p \in DOMAIN files \ DOMAIN scanned : Overwrite(files, scanned)[p] = files[p]
  BY DEF Overwrite
<1> QED
  BY <1>1 DEF FilesTrue

\* What files hand over are references of theirs.
LEMMA SpansTrue ==
  ASSUME NEW files, NEW s, FilesTrue(files, s), NEW r \in Spans(files)
  PROVE  r.path \in DOMAIN files /\ r \in References(r.path, s)
<1>1. PICK p \in DOMAIN files : r \in files[p].spans
  BY DEF Spans
<1>2. r \in References(p, s)
  BY <1>1 DEF FilesTrue
<1> QED
  BY <1>2, ScanEntry

\* A restriction of true files is true.
LEMMA RestrictedTrue ==
  ASSUME NEW files, NEW s, FilesTrue(files, s), NEW paths
  PROVE  /\ DOMAIN Restrict2(files, paths) = DOMAIN files \cap paths
         /\ \A p \in DOMAIN files \cap paths : Restrict2(files, paths)[p] = files[p]
         /\ FilesTrue(Restrict2(files, paths), s)
<1>1. /\ DOMAIN Restrict2(files, paths) = DOMAIN files \cap paths
      /\ \A p \in DOMAIN files \cap paths : Restrict2(files, paths)[p] = files[p]
  BY DEF Restrict2
<1> QED
  BY <1>1 DEF FilesTrue

\* A scan of some files is true of them.
LEMMA ScannedTrue ==
  ASSUME NEW paths, NEW s
  PROVE  /\ FilesTrue([p \in paths |-> Scan(p, s)], s)
         /\ \A p \in paths : Ids(p, s) \subseteq Found([q \in paths |-> Scan(q, s)])
<1> DEFINE scanned == [p \in paths |-> Scan(p, s)]
<1>1. DOMAIN scanned = paths /\ \A p \in paths : scanned[p] = Scan(p, s)
  OBVIOUS
<1> HIDE DEF scanned
<1>2. FilesTrue(scanned, s)
  BY <1>1, ScanEntry DEF FilesTrue
<1>3. \A p \in paths : Ids(p, s) \subseteq Found(scanned)
  BY <1>1, ScanEntry DEF Found
<1> QED
  BY <1>2, <1>3 DEF scanned

\* The fields of an index that a build rewrites, and the others.
LEMMA RewrittenFields ==
  ASSUME NEW x, DOMAIN x = IndexFields, NEW m, NEW ps, NEW c, NEW f
  PROVE  LET y == [x EXCEPT !.merged = m, !.paths = ps, !.refresh = {}, !.changed = c,
                            !.files = f]
         IN  /\ DOMAIN y = IndexFields /\ y.merged = m /\ y.paths = ps /\ y.refresh = {}
             /\ y.changed = c /\ y.files = f /\ y.exact = x.exact
<1> DEFINE y == [x EXCEPT !.merged = m, !.paths = ps, !.refresh = {}, !.changed = c,
                          !.files = f]
<1>1. DOMAIN y = IndexFields
  BY DEF IndexFields
<1>2. y.merged = m /\ y.paths = ps /\ y.refresh = {}
  BY DEF IndexFields
<1>3. y.changed = c /\ y.files = f
  BY DEF IndexFields
<1>4. y.exact = x.exact
  BY DEF IndexFields
<1> QED
  BY <1>1, <1>2, <1>3, <1>4

\* A refresh keeps the paths too.
LEMMA RefreshedFields ==
  ASSUME NEW x, DOMAIN x = IndexFields, NEW m, NEW c, NEW f
  PROVE  LET y == [x EXCEPT !.merged = m, !.refresh = {}, !.changed = c, !.files = f]
         IN  /\ DOMAIN y = IndexFields /\ y.merged = m /\ y.paths = x.paths /\ y.refresh = {}
             /\ y.changed = c /\ y.files = f /\ y.exact = x.exact
<1> DEFINE y == [x EXCEPT !.merged = m, !.refresh = {}, !.changed = c, !.files = f]
<1>1. DOMAIN y = IndexFields
  BY DEF IndexFields
<1>2. y.merged = m /\ y.paths = x.paths /\ y.refresh = {}
  BY DEF IndexFields
<1>3. y.changed = c /\ y.files = f
  BY DEF IndexFields
<1>4. y.exact = x.exact
  BY DEF IndexFields
<1> QED
  BY <1>1, <1>2, <1>3, <1>4

\* Building the index scans what has no entry.
LEMMA BuildEnsures ==
  ASSUME Roots = Paths, NEW s \in Sources, NEW x, IndexTrue(x, s)
  PROVE  Ensured(Build(x, s), x, s)
<1> DEFINE scanned == [p \in Paths \ DOMAIN x.files |-> Scan(p, s)]
           all     == Overwrite(x.files, scanned)
           y       == Build(x, s)
<1>1. /\ DOMAIN x = IndexFields /\ x.exact \in BOOLEAN /\ DOMAIN x.files \subseteq Paths
      /\ FilesTrue(x.files, s)
  BY DEF IndexTrue, FilesTrue
<1>2. /\ FilesTrue(scanned, s) /\ DOMAIN scanned = Paths \ DOMAIN x.files
      /\ \A p \in Paths \ DOMAIN x.files : Ids(p, s) \subseteq Found(scanned)
  BY ScannedTrue
<1> DEFINE found == IF x.exact THEN x.changed \cup Found(scanned) ELSE x.changed
<1>3. y = [x EXCEPT !.merged  = <<Spans(Restrict2(all, Paths))>>,
                    !.paths   = Paths,
                    !.refresh = {},
                    !.changed = found,
                    !.files   = HandedOver(all, Paths)]
  BY AllMembers DEF Build, BuildIn, Rebuilt
<1> HIDE DEF scanned
<1>4. DOMAIN all = Paths /\ FilesTrue(all, s)
  BY <1>1, <1>2, OverwrittenTrue
<1> HIDE DEF all
<1>5. /\ DOMAIN HandedOver(all, Paths) = Paths /\ FilesTrue(HandedOver(all, Paths), s)
      /\ FilesTrue(Restrict2(all, Paths), s) /\ DOMAIN Restrict2(all, Paths) = Paths
  <2>1. DOMAIN HandedOver(all, Paths) = Paths /\ FilesTrue(HandedOver(all, Paths), s)
    BY <1>4, HandedOverTrue
  <2>2. FilesTrue(Restrict2(all, Paths), s)
        /\ DOMAIN Restrict2(all, Paths) = DOMAIN all \cap Paths
    BY <1>4, RestrictedTrue
  <2> QED
    BY <1>4, <2>1, <2>2
<1>6. \A r \in Spans(Restrict2(all, Paths)) : r.path \in Paths /\ r \in References(r.path, s)
  BY <1>5, SpansTrue
<1> DEFINE merged == Spans(Restrict2(all, Paths))
           files  == HandedOver(all, Paths)
<1> HIDE DEF y, merged, files, found
<1>7. /\ DOMAIN y = IndexFields /\ y.merged = <<merged>> /\ y.paths = Paths /\ y.refresh = {}
      /\ y.changed = found /\ y.files = files
  BY <1>1, <1>3, RewrittenFields DEF merged, files
<1>8. y.exact = x.exact
  BY <1>1, <1>3, RewrittenFields
<1>9. DOMAIN files = Paths /\ FilesTrue(files, s)
  BY <1>5 DEF files
<1>10. \A r \in merged : r.path \in Paths /\ r \in References(r.path, s)
  BY <1>6 DEF merged
<1>11. IndexTrue(y, s)
  BY <1>1, <1>7, <1>8, <1>9, <1>10 DEF IndexTrue, FilesTrue
<1> QED
  BY <1>2, <1>7, <1>8, <1>9, <1>11 DEF Ensured, y, found

\* Refreshing it scans what the last update took out.
LEMMA RefreshEnsures ==
  ASSUME Roots = Paths, NEW s \in Sources, NEW x, IndexTrue(x, s), x.merged # <<>>
  PROVE  Ensured(Refresh(x, s), x, s)
<1> DEFINE scanned == [p \in x.refresh |-> Scan(p, s)]
           y       == Refresh(x, s)
<1>1. /\ DOMAIN x = IndexFields /\ x.exact \in BOOLEAN /\ DOMAIN x.files \subseteq Paths
      /\ x.refresh \subseteq Paths /\ FilesTrue(x.files, s)
      /\ x.merged = <<x.merged[1]>> /\ x.paths = Paths
      /\ Paths \subseteq DOMAIN x.files \cup x.refresh
      /\ \A r \in x.merged[1] : r.path \in DOMAIN x.files /\ r \in References(r.path, s)
  BY DEF IndexTrue, FilesTrue
<1>2. /\ FilesTrue(scanned, s) /\ DOMAIN scanned = x.refresh
      /\ \A p \in x.refresh : Ids(p, s) \subseteq Found(scanned)
  BY ScannedTrue
<1>3. Restrict2(scanned, Paths) = scanned
  BY <1>1 DEF Restrict2
<1>4. x.refresh \cap Members(s) = x.refresh
  BY <1>1, AllMembers
<1> DEFINE found == IF x.exact THEN x.changed \cup Found(scanned) ELSE x.changed
<1>5. y = [x EXCEPT !.merged  = <<x.merged[1] \cup Spans(scanned)>>,
                    !.refresh = {},
                    !.changed = found,
                    !.files   = Overwrite(x.files, HandedOver(scanned, Paths))]
  BY <1>1, <1>3, <1>4 DEF Refresh, Rescanned
<1> HIDE DEF scanned
<1> DEFINE merged == x.merged[1] \cup Spans(scanned)
           files  == Overwrite(x.files, HandedOver(scanned, Paths))
<1>6. DOMAIN files = Paths /\ FilesTrue(files, s)
  <2> DEFINE handed == HandedOver(scanned, Paths)
             known  == x.files
  <2>1. DOMAIN handed = x.refresh /\ FilesTrue(handed, s) /\ FilesTrue(known, s)
    BY <1>1, <1>2, HandedOverTrue
  <2> HIDE DEF handed, known
  <2>2. /\ DOMAIN Overwrite(known, handed) = DOMAIN known \cup DOMAIN handed
        /\ FilesTrue(Overwrite(known, handed), s)
    BY <2>1, OverwrittenTrue
  <2>3. DOMAIN files = DOMAIN x.files \cup x.refresh /\ FilesTrue(files, s)
    BY <2>1, <2>2 DEF handed, known
  <2> QED
    BY <1>1, <2>3
<1>7. \A r \in merged : r.path \in Paths /\ r \in References(r.path, s)
  <2>1. \A r \in Spans(scanned) : r.path \in x.refresh /\ r \in References(r.path, s)
    BY <1>2, SpansTrue
  <2> QED
    BY <1>1, <2>1
<1> HIDE DEF y, merged, files, found
<1>8. /\ DOMAIN y = IndexFields /\ y.merged = <<merged>> /\ y.paths = Paths /\ y.refresh = {}
      /\ y.changed = found /\ y.files = files
  BY <1>1, <1>5, RefreshedFields DEF merged, files
<1>9. y.exact = x.exact
  BY <1>1, <1>5, RefreshedFields
<1>10. IndexTrue(y, s)
  <2>1. y.exact \in BOOLEAN
    BY <1>1, <1>9
  <2>2. y.merged # <<>> /\ y.merged[1] = merged
    BY <1>8
  <2> QED
    BY <1>6, <1>7, <1>8, <2>1, <2>2 DEF IndexTrue, FilesTrue
<1> QED
  BY <1>1, <1>2, <1>6, <1>8, <1>9, <1>10 DEF Ensured, y, found

\* ensure leaves an index that knows every file, whatever it finds.
LEMMA EnsureEnsures ==
  ASSUME Roots = Paths, NEW s \in Sources, NEW x, IndexTrue(x, s)
  PROVE  Ensured(Ensure(x, s), x, s)
<1>1. CASE x.merged = <<>>
  BY <1>1, BuildEnsures DEF Ensure
<1>2. CASE x.merged # <<>> /\ x.refresh # {}
  BY <1>2, RefreshEnsures DEF Ensure
<1>3. CASE x.merged # <<>> /\ x.refresh = {}
  <2>1. Ensure(x, s) = x
    BY <1>3 DEF Ensure
  <2>2. DOMAIN x.files = Paths
    BY <1>3 DEF IndexTrue
  <2> QED
    BY <1>3, <2>1, <2>2 DEF Ensured
<1> QED
  BY <1>1, <1>2, <1>3

\* Marking rows as used keeps that.
LEMMA MarkedEnsured ==
  ASSUME NEW s, NEW x, NEW y, Ensured(y, x, s), NEW ids
  PROVE  Ensured(Marked(y, ids, s), x, s)
<1> DEFINE z == Marked(y, ids, s)
<1>1. DOMAIN y = IndexFields
  BY DEF Ensured, IndexTrue
<1>2. /\ DOMAIN z = IndexFields /\ z.merged = y.merged /\ z.paths = y.paths
      /\ z.refresh = y.refresh /\ z.changed = y.changed /\ z.files = y.files
      /\ z.exact = y.exact
  BY <1>1 DEF Marked, IndexFields
<1> HIDE DEF z
<1> QED
  BY <1>2 DEF Ensured, IndexTrue, z

\* So does releasing what was not used: the index forgets rows, not files.
LEMMA ReleasedEnsured ==
  ASSUME NEW s, NEW x, NEW y, Ensured(y, x, s)
  PROVE  Ensured(ReleaseAnalysisState(y), x, s)
<1> DEFINE z == ReleaseAnalysisState(y)
           kept == {r \in y.merged[1] : r.id \in y.used}
<1>1. DOMAIN y = IndexFields /\ y.merged # <<>> /\ y.merged = <<y.merged[1]>>
  BY DEF Ensured, IndexTrue
<1>2. /\ DOMAIN z = IndexFields /\ z.merged = <<kept>> /\ z.paths = y.paths
      /\ z.refresh = y.refresh /\ z.changed = y.changed /\ z.files = y.files
      /\ z.exact = y.exact
  BY <1>1 DEF ReleaseAnalysisState, IndexFields
<1>3. kept \subseteq y.merged[1]
  OBVIOUS
<1> HIDE DEF z, kept
<1>4. z.merged # <<>> /\ z.merged[1] = kept
  BY <1>2
<1> QED
  BY <1>1, <1>2, <1>3, <1>4 DEF Ensured, IndexTrue, z

\* Looking at an index again changes nothing but what is marked as used.
LEMMA ReportedEnsured ==
  ASSUME NEW s, NEW x, NEW y, Ensured(y, x, s)
  PROVE  Ensured(ReportChanges(y, s), x, s)
<1>1. Ensure(y, s) = y
  BY DEF Ensure, Ensured
<1>2. ReportChanges(y, s) = y \/ ReportChanges(y, s) = Marked(y, y.changed, s)
  BY <1>1 DEF ReportChanges, Reported
<1>3. Ensured(Marked(y, y.changed, s), x, s)
  BY MarkedEnsured
<1> QED
  BY <1>2, <1>3

\* Asking for the changes looks at the index.
LEMMA ReportEnsures ==
  ASSUME Roots = Paths, NEW s \in Sources, NEW x, IndexTrue(x, s)
  PROVE  Ensured(ReportChanges(x, s), x, s)
<1> DEFINE y == Ensure(x, s)
<1>1. Ensured(y, x, s)
  BY EnsureEnsures
<1> HIDE DEF y
<1>2. Ensured(Marked(y, y.changed, s), x, s)
  BY <1>1, MarkedEnsured
<1>3. ReportChanges(x, s) = y \/ ReportChanges(x, s) = Marked(y, y.changed, s)
  BY DEF ReportChanges, Reported, y
<1> QED
  BY <1>1, <1>2, <1>3

\* The rows of an index are references of the program.
LEMMA LocationsTrue ==
  ASSUME Roots = Paths, NEW s \in Sources, NEW y, IndexTrue(y, s), y.merged # <<>>,
         NEW i, Canonical(i, s) = i
  PROVE  Locations(y, i, s) \subseteq To(i, AllReferences(s))
<1> SUFFICES ASSUME NEW l \in Locations(y, i, s) PROVE l \in To(i, AllReferences(s))
  OBVIOUS
<1>1. PICK r \in y.merged[1] : r.id = i /\ l = <<r.path, r.at>>
  BY DEF Locations
<1>2. r.path \in Paths /\ r \in References(r.path, s)
  BY DEF IndexTrue
<1>3. r \in AllReferences(s)
  BY <1>2, AllMembers DEF AllReferences
<1> QED
  BY <1>1, <1>3 DEF To

-----------------------------------------------------------------------------
(* An update of the producer's index.                                      *)

\* The files whose contributions an update drops.
Dropped(x, reached) == {p \in DOMAIN x.files : p \in reached \/ ~x.files[p].durable}

\* What an update leaves: every file outside reached is as it was.
Unreached(reached, old, new) ==
  \A p \in Paths \ reached : References(p, old) = References(p, new)

\* An update keeps the index true, and one that meets a merged index reports
\* what it drops.
LEMMA InvalidateTrue ==
  ASSUME NEW old, NEW new, NEW x, IndexTrue(x, old), NEW reached,
         Unreached(reached, old, new)
  PROVE  LET z == Invalidate(x, Paths, reached)
         IN  /\ IndexTrue(z, new)
             /\ DOMAIN z.files = DOMAIN x.files \ Dropped(x, reached)
             /\ x.merged # <<>> =>
                  \A p \in Dropped(x, reached) : Ids(p, old) \subseteq z.changed
<1> DEFINE composing    == x.exact /\ (x.merged = <<>> \/ x.refresh # {})
           hadExactBase == x.merged # <<>> \/ composing
           inPlace      == x.merged # <<>> /\ Cardinality(reached) <= MaxInPlace /\ ~composing
           dropped == Dropped(x, reached)
           ids     == IF hadExactBase THEN UNION {x.files[p].ids : p \in dropped} ELSE {}
           changed == ids \cup (IF composing THEN x.changed ELSE {})
           kept    == Restrict2(x.files, DOMAIN x.files \ dropped)
           rows    == {r \in x.merged[1] : ~ (/\ r.path \in dropped
                                              /\ r.id \in x.files[r.path].ids)}
           patched == [x EXCEPT !.merged  = <<rows>>, !.refresh = dropped \cap Paths,
                                !.changed = changed, !.exact = TRUE, !.files = kept]
           fresh   == [NoIndex EXCEPT !.used = x.used, !.changed = changed,
                                      !.exact = hadExactBase, !.files = kept]
           z == Invalidate(x, Paths, reached)
<1>1. /\ DOMAIN x = IndexFields /\ x.exact \in BOOLEAN
      /\ DOMAIN x.files \subseteq Paths /\ x.refresh \subseteq Paths
      /\ x.refresh # {} => x.exact
      /\ FilesTrue(x.files, old)
  BY DEF IndexTrue, FilesTrue
<1>2. {p \in DOMAIN x.files : ~ ((p \notin reached /\ p \in Paths) /\ x.files[p].durable)} = dropped
  BY <1>1 DEF Dropped
<1>3. z = IF inPlace THEN patched ELSE fresh
  BY <1>2 DEF Invalidate
<1>4. dropped \subseteq DOMAIN x.files /\ DOMAIN x.files \cap reached \subseteq dropped
  BY DEF Dropped
<1>5. /\ DOMAIN kept = DOMAIN x.files \ dropped
      /\ \A p \in DOMAIN kept : kept[p] = x.files[p]
      /\ FilesTrue(kept, new)
  <2>1. /\ DOMAIN kept = DOMAIN x.files \ dropped
        /\ \A p \in DOMAIN kept : kept[p] = x.files[p]
    BY DEF Restrict2
  <2>2. \A p \in DOMAIN kept : Ids(p, old) = Ids(p, new) /\ References(p, old) = References(p, new)
    BY <1>1, <1>4, <2>1 DEF Unreached, Ids
  <2> HIDE DEF kept
  <2> QED
    BY <1>1, <2>1, <2>2 DEF FilesTrue
<1>6. x.merged # <<>> => \A p \in dropped : Ids(p, old) \subseteq changed
  BY <1>1, <1>4 DEF FilesTrue
<1> HIDE DEF z, dropped, changed, kept
<1>7. CASE inPlace
  <2>1. /\ x.refresh = {} /\ x.paths = Paths /\ Paths \subseteq DOMAIN x.files
        /\ \A r \in x.merged[1] : r.path \in DOMAIN x.files /\ r \in References(r.path, old)
    BY <1>7 DEF IndexTrue
  <2>2. \A r \in rows : r.path \in DOMAIN kept /\ r \in References(r.path, new)
    <3> TAKE r \in rows
    <3>1. r.path \in DOMAIN x.files /\ r \in References(r.path, old)
      BY <2>1
    <3>2. r.id \in x.files[r.path].ids
      BY <1>1, <3>1 DEF FilesTrue, Ids
    <3>3. r.path \notin dropped
      BY <3>2
    <3> QED
      BY <1>1, <1>4, <1>5, <3>1, <3>3 DEF Unreached
  <2> HIDE DEF rows
  <2> DEFINE back == dropped \cap Paths
  <2>3. z = [x EXCEPT !.merged = <<rows>>, !.refresh = back, !.changed = changed,
                      !.exact = TRUE, !.files = kept]
    BY <1>3, <1>7
  <2>4. back \subseteq Paths /\ Paths \subseteq DOMAIN kept \cup back
    BY <1>5, <2>1
  <2> HIDE DEF inPlace, back
  <2>5. DOMAIN z = IndexFields
    BY <1>1, <2>3 DEF IndexFields
  <2>6. z.merged = <<rows>> /\ z.paths = x.paths /\ z.refresh = back
    BY <1>1, <2>3 DEF IndexFields
  <2>7. z.changed = changed /\ z.files = kept
    BY <1>1, <2>3 DEF IndexFields
  <2>8. z.exact = TRUE
    BY <1>1, <2>3 DEF IndexFields
  <2>9. z.merged[1] = rows
    BY <2>6
  <2>10. IndexTrue(z, new)
    BY <1>1, <1>5, <2>1, <2>2, <2>4, <2>5, <2>6, <2>7, <2>8, <2>9 DEF IndexTrue, FilesTrue
  <2> QED
    BY <1>5, <1>6, <2>7, <2>10 DEF z, dropped
<1>8. CASE ~inPlace
  <2> HIDE DEF rows, composing
  <2> DEFINE known == hadExactBase
  <2>1. z = [NoIndex EXCEPT !.used = x.used, !.changed = changed, !.exact = known,
                            !.files = kept]
    BY <1>3, <1>8
  <2>2. known \in BOOLEAN
    OBVIOUS
  <2> HIDE DEF inPlace, hadExactBase, known
  <2>3. DOMAIN z = IndexFields
    BY <2>1 DEF IndexFields, NoIndex
  <2>4. z.merged = <<>> /\ z.refresh = {}
    BY <2>1 DEF NoIndex
  <2>5. z.changed = changed /\ z.files = kept
    BY <2>1 DEF NoIndex
  <2>6. z.exact = known
    BY <2>1, Zenon DEF NoIndex
  <2>7. z.exact \in BOOLEAN
    BY <2>2, <2>6
  <2>8. IndexTrue(z, new)
    BY <1>1, <1>5, <2>3, <2>4, <2>5, <2>7 DEF IndexTrue, FilesTrue
  <2> QED
    BY <1>5, <1>6, <2>5, <2>8 DEF z, dropped
<1> QED
  BY <1>7, <1>8

-----------------------------------------------------------------------------
(* What an analysis finds.                                                 *)

\* What a symbol stands for is a symbol.
LEMMA CanonicalSymbol ==
  ASSUME Roots = Paths, NEW s \in Sources, NEW i \in Symbols
  PROVE  Canonical(i, s) \in Symbols
<1>1. \A a \in Symbols : AliasIn(a, Paths, s) \subseteq Symbols
  <2> TAKE a \in Symbols
  <2>1. Declarer[a] \in Paths /\ s[Declarer[a]] \in Texts
    BY ReferenceAssumption DEF ReferenceAssumption, Sources
  <2>2. AliasOf[a][s[Declarer[a]]] \subseteq Symbols
    BY <2>1, ReferenceAssumption DEF ReferenceAssumption
  <2> QED
    BY <2>2 DEF AliasIn
<1>2. \A a \in Symbols : Follow(a, AliasIn(a, Paths, s)) \in Symbols
  <2> TAKE a \in Symbols
  <2>1. Follow(a, AliasIn(a, Paths, s)) = a
          \/ Follow(a, AliasIn(a, Paths, s)) \in AliasIn(a, Paths, s)
    BY DEF Follow
  <2> QED
    BY <1>1, <2>1
<1> DEFINE once == Follow(i, AliasIn(i, Paths, s))
<1>3. once \in Symbols
  BY <1>2
<1>4. Canonical(i, s) = Follow(once, AliasIn(once, Paths, s))
  BY AllMembers DEF Canonical, CanonicalIn
<1> HIDE DEF once
<1> QED
  BY <1>2, <1>3, <1>4

\* Every symbol resolves, to itself or to its target.
LEMMA TargetOf ==
  ASSUME Roots = Paths, NEW s \in Sources, NEW i \in Symbols
  PROVE  /\ Resolves(i, s) /\ AliasTarget(i, s) = {Canonical(i, s)} \ {i}
         /\ AliasTarget(i, s) \subseteq Symbols
         /\ AliasTarget(i, s) = {} => Canonical(i, s) = i
<1>1. Resolves(i, s)
  BY AllMembers, ReferenceAssumption DEF Resolves, ReferenceAssumption
<1>2. AliasTarget(i, s) = {Canonical(i, s)} \ {i}
  BY <1>1 DEF AliasTarget
<1> QED
  BY <1>1, <1>2, CanonicalSymbol

\* The closure of symbols are symbols.
LEMMA ReachableSymbols ==
  ASSUME Roots = Paths, NEW s \in Sources, NEW want \in DemandSets
  PROVE  /\ Reachable(Seeds(want, s), s) \subseteq Symbols
         /\ Reachable(ReferenceRoots(want, s), s) \subseteq Reachable(Seeds(want, s), s)
<1>1. Members(s) = Paths
  BY AllMembers
<1>2. Seeds(want, s) \subseteq Symbols
  <2>1. \A p \in Paths : Named[p][s[p]] \subseteq Symbols
    BY ClosureAssumption DEF ClosureAssumption, Sources
  <2> QED
    BY <1>1, <2>1 DEF Seeds
<1>3. ReferenceRoots(want, s) \subseteq Seeds(want, s)
  BY DEF ReferenceRoots, Seeds
<1>4. \A i \in Seeds(want, s) : AliasTarget(i, s) \subseteq Symbols
  BY <1>2, TargetOf
<1> QED
  BY <1>2, <1>3, <1>4 DEF Reachable

\* A list an exact index does not report is what it was.
LEMMA UnmovedList ==
  ASSUME Roots = Paths, NEW seen, Covered(idx, seen), NEW y, Ensured(y, idx, src), y.exact,
         NEW i, i \notin y.changed
  PROVE  To(i, AllReferences(seen)) = To(i, AllReferences(src))
<1>1. ASSUME NEW p \in Paths, References(p, seen) # References(p, src)
      PROVE  Ids(p, seen) \subseteq y.changed /\ Ids(p, src) \subseteq y.changed
  BY <1>1 DEF Covered, Ensured
<1>2. ASSUME NEW p \in Paths, NEW r, r.id = i
      PROVE  (r \in References(p, seen)) <=> (r \in References(p, src))
  BY <1>1, <1>2 DEF Ids
<1>3. /\ AllReferences(seen) = UNION {References(p, seen) : p \in Paths}
      /\ AllReferences(src) = UNION {References(p, src) : p \in Paths}
  BY AllMembers DEF AllReferences
<1>4. {q \in AllReferences(seen) : q.id = i} = {q \in AllReferences(src) : q.id = i}
  BY <1>2, <1>3
<1> QED
  BY <1>4 DEF To

-----------------------------------------------------------------------------
(* The steps.                                                              *)

\* An analysis leaves a true index, and closing looks at it.
LEMMA AfterAnalyzeTrue ==
  ASSUME Roots = Paths, ReferencesInvariant, NEW want
  PROVE  /\ IndexTrue(AfterAnalyze(want), src)
         /\ ~RootsChanged(want) => Ensured(AfterAnalyze(want), idx, src)
         /\ Ensured(ReportChanges(AfterAnalyze(want), src), idx, src)
<1>1. src \in Sources /\ IndexTrue(idx, src)
  BY DEF ReferencesInvariant
<1> DEFINE y == ReportChanges(idx, src)
           z == ReleaseAnalysisState(y)
<1>2. Ensured(y, idx, src)
  BY <1>1, ReportEnsures
<1> HIDE DEF y
<1>3. Ensured(z, idx, src)
  BY <1>2, ReleasedEnsured
<1> HIDE DEF z
<1>4. Ensured(ReportChanges(z, src), idx, src)
  BY <1>3, ReportedEnsured
<1>5. AfterAnalyze(want) = IF RootsChanged(want) THEN idx ELSE z
  BY DEF AfterAnalyze, y, z
<1>6. IndexTrue(z, src)
  BY <1>3 DEF Ensured
<1> QED
  BY <1>1, <1>2, <1>3, <1>4, <1>5, <1>6 DEF y

\* A table just published holds what the index was looked at for.
LEMMA Published ==
  ASSUME src' = src, base' = "table", affected' = {}, src \in Sources,
         Indexed', client' # <<>>, ListsTrue(Held'), Held'.seen = src,
         NEW x, Ensured(idx', x, src)
  PROVE  ReferencesInvariant'
<1>1. IndexTrue(idx', src) /\ idx'.merged # <<>> /\ DOMAIN idx'.files = Paths
  BY DEF Ensured
<1>2. Away(Held.seen)' /\ Covered(idx, Held.seen)'
  BY DEF Away, Covered
<1>3. IndexTrue(idx, src)' /\ ListsTrue(Held)'
  BY <1>1 DEF IndexTrue, ListsTrue
<1> QED
  BY <1>1, <1>2, <1>3 DEF ReferencesInvariant

\* Closing the symbols finds true lists: an answer is from the index, and a list
\* that is kept was not reported as changed.
LEMMA ClosedTrue ==
  ASSUME Roots = Paths, ReferencesInvariant, NEW want \in DemandSets, CloseSymbols(want)
  PROVE  /\ client' # <<>> /\ ListsTrue(Held') /\ Held'.seen = src
         /\ \E x : Ensured(idx', x, src)
<1>1. src \in Sources /\ IndexTrue(idx, src)
  BY DEF ReferencesInvariant
<1>2. PICK x \in {ReportChanges(AfterAnalyze(want), src)}, tier \in {ReferenceTier(want)} :
        AskAndClose(want, x, tier, {i \in tier : MustAsk(i, x)})
  BY DEF CloseSymbols
<1> DEFINE ask == {i \in tier : MustAsk(i, x)}
<1>3. PICK y \in {Queried(x, ask, src)} :
        /\ idx' = ReleaseAnalysisState(IF ask = {} THEN x ELSE y)
        /\ client' = <<Assembled(want, tier, ask, y)>>
  BY <1>2 DEF AskAndClose
<1>4. Ensured(x, idx, src)
  BY AfterAnalyzeTrue
<1>5. Ensured(y, idx, src)
  <2>1. Ensure(x, src) = x
    BY <1>4 DEF Ensure, Ensured
  <2> HIDE DEF ask
  <2>2. y = Marked(x, ask, src)
    BY <2>1 DEF Queried
  <2> QED
    BY <1>4, <2>2, MarkedEnsured
<1>6. Ensured(idx', idx, src)
  <2> DEFINE w == IF ask = {} THEN x ELSE y
  <2>1. Ensured(w, idx, src)
    BY <1>4, <1>5
  <2> HIDE DEF w
  <2>2. Ensured(ReleaseAnalysisState(w), idx, src)
    BY <2>1, ReleasedEnsured
  <2> QED
    BY <1>3, <2>2 DEF w
<1> DEFINE dom     == Reachable(Seeds(want, src), src)
           list(i) == ListOf(i, tier, ask, y)
           symbols == [i \in dom |-> Evidence(i, src, list(i))]
           h       == Assembled(want, tier, ask, y)
<1>7. h.symbols = symbols /\ h.tier = tier /\ h.seen = src
  BY DEF Assembled, Closed
<1>8. client' = <<h>> /\ Held' = h
  BY <1>3 DEF Held
<1>9. /\ dom \subseteq Symbols /\ tier \subseteq dom
      /\ \A i \in tier : AliasTarget(i, src) = {}
  BY <1>1, ReachableSymbols DEF ReferenceTier
<1>10. ASSUME NEW i \in dom
       PROVE  /\ list(i) \subseteq To(i, AllReferences(src))
              /\ i \notin tier => list(i) = {}
  <2>1. CASE i \in ask
    <3>1. Canonical(i, src) = i
      BY <1>1, <1>9, <2>1, TargetOf
    <3>2. IndexTrue(y, src) /\ y.merged # <<>>
      BY <1>5 DEF Ensured
    <3>3. Locations(y, i, src) \subseteq To(i, AllReferences(src))
      BY <1>1, <3>1, <3>2, LocationsTrue
    <3> QED
      BY <2>1, <3>3 DEF ListOf
  <2>2. CASE i \in tier /\ i \notin ask
    <3>1. x.exact /\ i \notin x.changed /\ i \in DOMAIN HeldSymbols
      BY <2>2 DEF MustAsk
    <3>2. ~Full /\ HeldSymbols = Held.symbols
      BY <3>1 DEF HeldSymbols, Empty
    <3>3. ListsTrue(Held) /\ Covered(idx, Held.seen)
      BY <3>2 DEF Full, ReferencesInvariant
    <3>4. To(i, AllReferences(Held.seen)) = To(i, AllReferences(src))
      BY <1>4, <3>1, <3>3, UnmovedList
    <3>5. Held.symbols[i].refs \subseteq To(i, AllReferences(src))
      BY <3>1, <3>2, <3>3, <3>4 DEF ListsTrue
    <3> QED
      BY <2>2, <3>2, <3>5 DEF ListOf
  <2>3. CASE i \notin tier
    BY <2>3 DEF ListOf
  <2> QED
    BY <2>1, <2>2, <2>3
<1> HIDE DEF dom, list, ask, h
<1>11. ASSUME NEW i \in dom
       PROVE  /\ symbols[i].alias = AliasTarget(i, src) /\ symbols[i].refs = list(i)
              /\ symbols[i].decl = {<<Declarer[i], src[Declarer[i]]>>}
  <2>1. Resolves(i, src)
    BY <1>1, <1>9, TargetOf
  <2> QED
    BY <2>1 DEF Evidence
<1>12. DOMAIN symbols = dom
  OBVIOUS
<1> HIDE DEF symbols
<1>13. ListsTrue(h)
  BY <1>1, <1>7, <1>9, <1>10, <1>11, <1>12 DEF ListsTrue
<1> QED
  BY <1>6, <1>7, <1>8, <1>13

\* A symbol no update invalidated is declared outside the affected paths, and so
\* stands for what it stood for.
LEMMA NotInvalidated ==
  ASSUME Roots = Paths, src \in Sources, Indexed, client # <<>>, ListsTrue(Held),
         Away(Held.seen), NEW i \in DOMAIN Held.symbols, i \notin InvalidatedSymbols
  PROVE  /\ Held.seen[Declarer[i]] = src[Declarer[i]]
         /\ AliasTarget(i, Held.seen) = AliasTarget(i, src)
<1>1. /\ i \in Symbols /\ Held.seen \in Sources
      /\ Held.symbols[i].decl = {<<Declarer[i], Held.seen[Declarer[i]]>>}
  BY DEF ListsTrue
<1>2. <<Declarer[i], i>> \in Held.byPath
  <2>1. \E d \in Held.symbols[i].decl : <<Declarer[i], i>> = <<d[1], i>>
    BY <1>1
  <2> QED
    BY <2>1, ByPathEntry DEF Indexed
<1>3. Declarer[i] \notin affected
  BY <1>2 DEF InvalidatedSymbols
<1>4. Declarer[i] \in Paths
  BY <1>1, ReferenceAssumption DEF ReferenceAssumption
<1>5. Held.seen[Declarer[i]] = src[Declarer[i]] /\ Canonical(i, Held.seen) = Canonical(i, src)
  BY <1>1, <1>3, <1>4 DEF Away
<1>6. AliasTarget(i, Held.seen) = {Canonical(i, Held.seen)} \ {i}
  BY <1>1, TargetOf
<1>7. AliasTarget(i, src) = {Canonical(i, src)} \ {i}
  BY <1>1, TargetOf
<1> QED
  BY <1>5, <1>6, <1>7

\* The row a patch that asks the index y leaves of a symbol.
RowPatched(row, i, y) ==
  /\ row.alias = AliasTarget(i, src) /\ row.alias = Held.symbols[i].alias
  /\ row.decl = {<<Declarer[i], src[Declarer[i]]>>}
  /\ row.refs =
       IF i \in y.changed \cap Held.tier
       THEN PatchReferencePaths(Held.symbols[i].refs, Locations(y, i, src), affected)
       ELSE Held.symbols[i].refs

\* A patch replaces the declarations of invalidated symbols and the changed lists
\* of the reference tier, and no alias moved.
LEMMA PatchedRow ==
  ASSUME Roots = Paths, src \in Sources, Indexed, client # <<>>, ListsTrue(Held),
         Away(Held.seen), NEW i \in DOMAIN Held.symbols, NEW y,
         \A j \in InvalidatedSymbols : AliasTarget(j, src) = Held.symbols[j].alias
  PROVE  RowPatched(PatchedSymbols(y, InvalidatedSymbols)[i], i, y)
<1> DEFINE inv == InvalidatedSymbols
           st  == Structural(i, inv)
           row == PatchedSymbols(y, inv)[i]
           new == PatchReferencePaths(Held.symbols[i].refs, Locations(y, i, src), affected)
<1>1. /\ i \in Symbols /\ Resolves(i, src)
      /\ DOMAIN Held.symbols[i] = {"alias", "decl", "refs"}
      /\ Held.symbols[i].alias = AliasTarget(i, Held.seen)
      /\ Held.symbols[i].decl = {<<Declarer[i], Held.seen[Declarer[i]]>>}
      /\ i \in Held.tier => Held.symbols[i].alias = {}
  BY TargetOf DEF ListsTrue, Indexed
<1>2. /\ DOMAIN st = {"alias", "decl", "refs"}
      /\ st.alias = AliasTarget(i, src) /\ st.alias = Held.symbols[i].alias
      /\ st.decl = {<<Declarer[i], src[Declarer[i]]>>}
      /\ st.refs = Held.symbols[i].refs
  <2>1. CASE i \in inv
    BY <1>1, <2>1 DEF Structural, Evidence
  <2>2. CASE i \notin inv
    <3>1. st = Held.symbols[i]
      BY <2>2 DEF Structural
    <3>2. /\ Held.seen[Declarer[i]] = src[Declarer[i]]
          /\ AliasTarget(i, Held.seen) = AliasTarget(i, src)
      BY <2>2, NotInvalidated
    <3> QED
      BY <1>1, <3>1, <3>2
  <2> QED
    BY <2>1, <2>2
<1>3. i \in Held.tier => AliasTarget(i, src) = {}
  BY <1>1, <1>2
<1>4. row = IF i \in y.changed \cap Held.tier /\ AliasTarget(i, src) = {}
            THEN [st EXCEPT !.refs = PatchReferencePaths(@, Locations(y, i, src), affected)]
            ELSE st
  BY DEF PatchedSymbols
<1> HIDE DEF inv, st, row
<1>5. CASE i \in y.changed \cap Held.tier
  <2>1. row = [st EXCEPT !.refs = new]
    BY <1>2, <1>3, <1>4, <1>5
  <2> HIDE DEF new
  <2>2. row.alias = st.alias /\ row.decl = st.decl /\ row.refs = new
    BY <1>2, <2>1
  <2> QED
    BY <1>2, <1>5, <2>2 DEF row, inv, new, RowPatched
<1>6. CASE i \notin y.changed \cap Held.tier
  <2>1. row = st
    BY <1>4, <1>6
  <2> QED
    BY <1>2, <1>6, <2>1 DEF row, inv, RowPatched
<1> QED
  BY <1>5, <1>6

\* Patching keeps true lists: a reference outside the affected paths is still
\* there, and the others are asked for again.
LEMMA PatchedTrue ==
  ASSUME Roots = Paths, ReferencesInvariant, NEW want \in DemandSets, NEW moved,
         Patches(want, moved), PatchStableSymbols(want)
  PROVE  /\ client' # <<>> /\ ListsTrue(Held') /\ Held'.seen = src
         /\ \E x : Ensured(idx', x, src)
<1> DEFINE y == ReportChanges(idx, src)
<1>1. /\ client # <<>> /\ base # "none" /\ ~RootsChanged(want) /\ Ensure(idx, src).exact
      /\ \A j \in InvalidatedSymbols : AliasTarget(j, src) = Held.symbols[j].alias
  BY DEF Patches, HeldSymbols, Full, SeedsChanged
<1>2. /\ src \in Sources /\ IndexTrue(idx, src) /\ Indexed /\ ListsTrue(Held)
      /\ Away(Held.seen) /\ Covered(idx, Held.seen)
  BY <1>1 DEF ReferencesInvariant
<1>3. Ensured(y, idx, src) /\ y.exact
  <2>1. Ensured(y, idx, src) /\ Ensured(Ensure(idx, src), idx, src)
    BY <1>2, ReportEnsures, EnsureEnsures
  <2> QED
    BY <1>1, <2>1 DEF Ensured
<1>4. Ensured(idx', idx, src)
  BY <1>1, AfterAnalyzeTrue DEF PatchStableSymbols
<1>5. /\ Indexed' /\ DOMAIN Held'.symbols = DOMAIN Held.symbols
      /\ \A i \in DOMAIN Held.symbols :
           Held'.symbols[i] = PatchedSymbols(y, InvalidatedSymbols)[i]
      /\ Held'.tier = Held.tier /\ Held'.seen = src
  BY <1>1, <1>2, PatchedIndexed
<1>6. client' # <<>>
  BY DEF PatchStableSymbols
<1> HIDE DEF y
<1>7. ASSUME NEW i \in DOMAIN Held.symbols
      PROVE  /\ Held'.symbols[i].alias = AliasTarget(i, src)
             /\ Held'.symbols[i].decl = {<<Declarer[i], src[Declarer[i]]>>}
             /\ Held'.symbols[i].refs \subseteq To(i, AllReferences(src))
             /\ i \in Held.tier => Held'.symbols[i].alias = {}
             /\ i \notin Held.tier => Held'.symbols[i].refs = {}
  <2> DEFINE row   == Held'.symbols[i]
             refs  == Held.symbols[i].refs
             fresh == Locations(y, i, src)
  <2>1. /\ row.alias = AliasTarget(i, src) /\ row.alias = Held.symbols[i].alias
        /\ row.decl = {<<Declarer[i], src[Declarer[i]]>>}
        /\ row.refs = IF i \in y.changed \cap Held.tier
                      THEN PatchReferencePaths(refs, fresh, affected) ELSE refs
    <3>1. RowPatched(PatchedSymbols(y, InvalidatedSymbols)[i], i, y)
      BY <1>1, <1>2, PatchedRow
    <3>2. RowPatched(row, i, y)
      BY <1>5, <3>1
    <3> QED
      BY <3>2 DEF RowPatched
  <2>2. /\ i \in Symbols /\ refs \subseteq To(i, AllReferences(Held.seen))
        /\ i \in Held.tier => Held.symbols[i].alias = {}
        /\ i \notin Held.tier => refs = {}
    BY <1>2 DEF ListsTrue
  <2> HIDE DEF row
  <2>3. CASE i \in y.changed \cap Held.tier
    <3>1. Canonical(i, src) = i
      BY <1>2, <2>1, <2>2, <2>3, TargetOf
    <3>2. fresh \subseteq To(i, AllReferences(src))
      BY <1>2, <1>3, <3>1, LocationsTrue DEF Ensured
    <3>3. ASSUME NEW l \in refs, l[1] \notin affected
          PROVE  l \in To(i, AllReferences(src))
      <4>1. PICK r \in AllReferences(Held.seen) : r.id = i /\ l = <<r.path, r.at>>
        BY <2>2 DEF To
      <4>2. PICK p \in Paths : r \in References(p, Held.seen)
        BY <4>1, AllMembers DEF AllReferences
      <4>3. r.path = p
        BY <4>2, ScanEntry
      <4>4. p \notin affected
        BY <3>3, <4>1, <4>3
      <4>5. r \in References(p, src)
        BY <1>2, <4>2, <4>4 DEF Away
      <4>6. r \in AllReferences(src)
        BY <4>5, AllMembers DEF AllReferences
      <4> QED
        BY <4>1, <4>6 DEF To
    <3> QED
      BY <2>1, <2>2, <2>3, <3>2, <3>3 DEF PatchReferencePaths, row
  <2>4. CASE i \notin y.changed /\ i \in Held.tier
    <3>1. To(i, AllReferences(Held.seen)) = To(i, AllReferences(src))
      BY <1>2, <1>3, <2>4, UnmovedList
    <3> QED
      BY <2>1, <2>2, <2>4, <3>1 DEF row
  <2>5. CASE i \notin Held.tier
    BY <2>1, <2>2, <2>5 DEF row
  <2> QED
    BY <2>3, <2>4, <2>5
<1>8. ListsTrue(Held')
  BY <1>2, <1>5, <1>7 DEF ListsTrue
<1> QED
  BY <1>4, <1>5, <1>6, <1>8

\* The sources an update leaves.
LEMMA UpdatedSources ==
  ASSUME src \in Sources, NEW edit \in Edits
  PROVE  /\ Overwrite(src, edit) \in Sources
         /\ DOMAIN edit \subseteq Paths /\ DOMAIN edit # {}
         /\ \A q \in Paths \ DOMAIN edit : Overwrite(src, edit)[q] = src[q]
<1>1. PICK D \in SUBSET Paths : edit \in [D -> Texts]
  BY ClosureAssumption DEF ClosureAssumption, Partial
<1>2. edit # Empty
  BY ClosureAssumption DEF ClosureAssumption
<1>3. DOMAIN edit = D /\ D # {}
  BY <1>1, <1>2 DEF Empty
<1>4. DOMAIN src = Paths /\ \A q \in Paths : src[q] \in Texts
  BY DEF Sources
<1>5. DOMAIN Overwrite(src, edit) = Paths
  BY <1>3, <1>4 DEF Overwrite
<1>6. \A q \in Paths : Overwrite(src, edit)[q] \in Texts
  BY <1>1, <1>3, <1>4 DEF Overwrite
<1>7. Overwrite(src, edit) \in [Paths -> Texts]
  BY <1>5, <1>6 DEF Overwrite
<1> QED
  BY <1>3, <1>4, <1>7 DEF Sources, Overwrite

\* An update drops what it reaches from the index, and tells the client.
LEMMA UpdateStep ==
  ASSUME Roots = Paths, ReferencesInvariant, Indexed', NEW edit \in Edits, Update(edit)
  PROVE  ReferencesInvariant'
<1> DEFINE new     == Overwrite(src, edit)
           changed == DOMAIN edit
           reached == Affected(changed, src, new)
           z       == Invalidate(idx, Paths, reached)
<1>1. src \in Sources /\ IndexTrue(idx, src)
  BY DEF ReferencesInvariant
<1>2. /\ new \in Sources /\ changed \subseteq Paths /\ changed # {}
      /\ \A q \in Paths \ changed : new[q] = src[q]
  BY <1>1, UpdatedSources
<1>3. /\ src' = new /\ client' = client
      /\ idx' = IF Cardinality(changed) = 1 THEN z ELSE NoIndex
      /\ base' = IF base = "table" THEN "previous" ELSE "none"
      /\ affected' = affected \cup reached \cup changed
  BY AllMembers DEF Update
<1> HIDE DEF new, changed
<1>4. \A p \in Paths \ reached :
        /\ src[p] = new[p] /\ References(p, src) = References(p, new)
        /\ \A i \in Symbols : Declarer[i] = p => Canonical(i, src) = Canonical(i, new)
  BY <1>1, <1>2, UnaffectedReferences
<1>5. changed \subseteq reached
  BY <1>1, <1>2, AffectedHoldsChanged
<1> HIDE DEF reached
<1>6. /\ IndexTrue(z, new) /\ DOMAIN z.files = DOMAIN idx.files \ Dropped(idx, reached)
      /\ idx.merged # <<>> => \A p \in Dropped(idx, reached) : Ids(p, src) \subseteq z.changed
  <2>1. Unreached(reached, src, new)
    BY <1>4 DEF Unreached
  <2>2. ASSUME NEW x, x = idx, NEW old, old = src
        PROVE  LET w == Invalidate(x, Paths, reached)
               IN  /\ IndexTrue(w, new)
                   /\ DOMAIN w.files = DOMAIN x.files \ Dropped(x, reached)
                   /\ x.merged # <<>> =>
                        \A p \in Dropped(x, reached) : Ids(p, old) \subseteq w.changed
    <3>1. IndexTrue(x, old) /\ Unreached(reached, old, new)
      BY <1>1, <2>1, <2>2
    <3> QED
      BY <3>1, InvalidateTrue, Zenon
  <2> QED
    BY <2>2, Zenon
<1> HIDE DEF z
<1>7. /\ DOMAIN NoIndex = IndexFields /\ NoIndex.merged = <<>> /\ NoIndex.refresh = {}
      /\ NoIndex.exact = FALSE /\ DOMAIN NoIndex.files = {}
  BY DEF NoIndex, IndexFields, Empty
<1>8. IndexTrue(NoIndex, new)
  BY <1>7 DEF IndexTrue
<1>9. IndexTrue(idx, src)'
  <2>1. IndexTrue(idx', src')
    BY <1>3, <1>6, <1>8
  <2> QED
    BY <2>1 DEF IndexTrue, Ids, References, Canonical
<1>10. reached \cap DOMAIN idx'.files = {}
  BY <1>3, <1>6, <1>7 DEF Dropped
<1>11. ASSUME client # <<>>, base = "table"
       PROVE  Away(Held.seen)' /\ Covered(idx, Held.seen)'
  <2>1. Held.seen = src /\ idx.merged # <<>> /\ DOMAIN idx.files = Paths /\ affected = {}
    BY <1>11 DEF ReferencesInvariant
  <2>2. Held'.seen = src
    BY <1>3, <2>1 DEF Held
  <2>3. affected' = reached
    BY <1>3, <1>5, <2>1
  <2>4. Away(Held.seen)'
    BY <1>3, <1>4, <2>2, <2>3 DEF Away
  <2>5. ASSUME NEW p \in Paths, References(p, src) # References(p, src'), idx'.exact
        PROVE  p \notin DOMAIN idx'.files /\ Ids(p, src) \subseteq idx'.changed
    <3>1. p \in reached
      BY <1>3, <1>4, <2>5
    <3>2. p \in Dropped(idx, reached)
      BY <2>1, <3>1 DEF Dropped
    <3>3. idx' = z
      BY <1>3, <1>7, <2>5
    <3> QED
      BY <1>6, <2>1, <3>2, <3>3
  <2>6. Covered(idx, Held.seen)'
    BY <2>2, <2>5 DEF Covered, References, Canonical, Ids
  <2> QED
    BY <2>4, <2>6
<1>12. client # <<>> => ListsTrue(Held)'
  BY <1>3 DEF ListsTrue, Held, ReferencesInvariant
<1>13. affected' # {} /\ base' \in {"previous", "none"}
  BY <1>2, <1>3
<1>14. base' = "previous" => base = "table" /\ affected' \cap DOMAIN idx'.files = {}
  BY <1>3, <1>5, <1>10 DEF ReferencesInvariant
<1> QED
  BY <1>2, <1>3, <1>9, <1>11, <1>12, <1>13, <1>14 DEF ReferencesInvariant

\* Every step keeps the invariant.
LEMMA ReferencesStep ==
  ASSUME Roots = Paths, ReferencesInvariant, [Next]_vars
  PROVE  ReferencesInvariant'
<1>1. Indexed' /\ src \in Sources /\ IndexTrue(idx, src)
  BY IndexedStep DEF ReferencesInvariant
<1>2. ASSUME NEW want \in DemandSets, NEW moved \in BOOLEAN, Analyze(want, moved)
      PROVE  ReferencesInvariant'
  <2>1. base' = "table" /\ affected' = {} /\ src' = src
    BY <1>2 DEF Analyze
  <2>2. /\ client' # <<>> /\ ListsTrue(Held') /\ Held'.seen = src
        /\ \E x : Ensured(idx', x, src)
    <3>1. CASE Patches(want, moved)
      BY <1>2, <3>1, PatchedTrue DEF Analyze
    <3>2. CASE ~Patches(want, moved)
      BY <1>2, <3>2, ClosedTrue DEF Analyze
    <3> QED
      BY <3>1, <3>2
  <2> QED
    BY <1>1, <2>1, <2>2, Published
<1>3. ASSUME NEW want \in DemandSets, AnalyzeCancelled(want)
      PROVE  ReferencesInvariant'
  <2> DEFINE x == Ensure(idx, src)
             y == ReportChanges(idx, src)
             z == AfterAnalyze(want)
  <2>1. /\ idx' \in {idx, x, y, z} /\ base' = "none"
        /\ src' = src /\ client' = client /\ affected' = affected
    BY <1>3 DEF AnalyzeCancelled, IndexesDuringAnalyze
  <2>2. IndexTrue(x, src) /\ IndexTrue(y, src) /\ IndexTrue(z, src)
    <3>1. src \in Sources /\ IndexTrue(idx, src)
      BY <1>1 DEF ReferencesInvariant
    <3>2. Ensured(x, idx, src) /\ Ensured(y, idx, src)
      BY <3>1, EnsureEnsures, ReportEnsures
    <3> QED
      BY <3>2, AfterAnalyzeTrue DEF Ensured
  <2> HIDE DEF x, y, z
  <2>3. IndexTrue(idx', src')
    BY <1>1, <2>1, <2>2
  <2>4. IndexTrue(idx, src)'
    BY <2>3 DEF IndexTrue, Ids, References, Canonical
  <2>5. client # <<>> => ListsTrue(Held)' /\ (affected = {} => Held'.seen = src')
    BY <2>1 DEF ListsTrue, Held, ReferencesInvariant
  <2> QED
    BY <1>1, <2>1, <2>4, <2>5 DEF ReferencesInvariant
<1>4. ASSUME IndexTrue(idx', src), src' = src, base' \in {"table", "none"},
             client' = <<>>, affected' = {}
      PROVE  ReferencesInvariant'
  <2>1. IndexTrue(idx, src)'
    BY <1>4 DEF IndexTrue, Ids, References, Canonical
  <2> QED
    BY <1>1, <1>4, <2>1 DEF ReferencesInvariant
<1>5. ASSUME NEW want \in DemandSets, AnalyzeUnfinished(want)
      PROVE  ReferencesInvariant'
  <2> DEFINE x == AfterAnalyze(want)
             y == ReportChanges(AfterAnalyze(want), src)
  <2>1. IndexTrue(x, src) /\ IndexTrue(y, src)
    BY AfterAnalyzeTrue DEF Ensured
  <2>2. /\ idx' \in {x, y} /\ base' = "table" /\ src' = src
        /\ client' = <<>> /\ affected' = {}
    BY <1>5 DEF AnalyzeUnfinished
  <2> HIDE DEF x, y
  <2> QED
    BY <1>4, <2>1, <2>2
<1>6. ASSUME Restart PROVE ReferencesInvariant'
  <2>1. /\ DOMAIN NoIndex = IndexFields /\ NoIndex.merged = <<>> /\ NoIndex.refresh = {}
        /\ NoIndex.exact = FALSE /\ DOMAIN NoIndex.files = {}
    BY DEF NoIndex, IndexFields, Empty
  <2>2. IndexTrue(NoIndex, src)
    BY <2>1 DEF IndexTrue
  <2> QED
    BY <1>4, <1>6, <2>2 DEF Restart
<1>7. ASSUME UNCHANGED vars PROVE ReferencesInvariant'
  <2>1. /\ src' = src /\ idx' = idx /\ base' = base /\ client' = client
        /\ affected' = affected
    BY <1>7 DEF vars
  <2>2. IndexTrue(idx, src)'
    BY <1>1, <2>1 DEF IndexTrue, Ids, References, Canonical
  <2>3. Held' = Held
    BY <2>1 DEF Held
  <2>4. client # <<>> => ListsTrue(Held)'
    BY <2>1, <2>3 DEF ListsTrue, ReferencesInvariant
  <2>5. Away(Held.seen) => Away(Held.seen)'
    BY <2>1, <2>3 DEF Away
  <2>6. Covered(idx, Held.seen) => Covered(idx, Held.seen)'
    BY <2>1, <2>3 DEF Covered
  <2> QED
    BY <1>1, <2>1, <2>2, <2>3, <2>4, <2>5, <2>6 DEF ReferencesInvariant
<1> QED
  BY <1>2, <1>3, <1>5, <1>6, <1>7, <1>1, UpdateStep DEF Next

\* Initially there is nothing to be wrong.
LEMMA ReferencesInit ==
  ASSUME Init
  PROVE  ReferencesInvariant
<1>1. /\ DOMAIN NoIndex = IndexFields /\ NoIndex.merged = <<>> /\ NoIndex.refresh = {}
      /\ NoIndex.exact = FALSE /\ DOMAIN NoIndex.files = {}
  BY DEF NoIndex, IndexFields, Empty
<1>2. IndexTrue(NoIndex, src)
  BY <1>1 DEF IndexTrue
<1>3. src \in Sources
  BY ClosureAssumption DEF Init, ClosureAssumption
<1> QED
  BY <1>2, <1>3 DEF Init, ReferencesInvariant, Indexed

\* The invariant on every project whose files are all configured.
THEOREM ReferencesHold ==
  ASSUME Roots = Paths
  PROVE  Spec => []ReferencesInvariant
<1>1. Init => ReferencesInvariant
  BY ReferencesInit
<1>2. ReferencesInvariant /\ [Next]_vars => ReferencesInvariant'
  BY ReferencesStep
<1> QED
  BY <1>1, <1>2, PTL DEF Spec

\* Where every file is configured, no list the client keeps, patches or asks for
\* again names a reference that is not in the program, whatever analyses were
\* cancelled or cut short and whatever the producer pruned, rebuilt or lost.
THEOREM ListsStaySound ==
  ASSUME Roots = Paths
  PROVE  Spec => []ReferencesSound
<1>1. ReferencesInvariant => ReferencesSound
  <2> SUFFICES ASSUME ReferencesInvariant, UpToDate,
                      NEW i \in DOMAIN Held.symbols
               PROVE  Held.symbols[i].refs \subseteq To(i, AllReferences(src))
    BY DEF ReferencesSound
  <2>1. ListsTrue(Held) /\ Held.seen = src
    BY DEF ReferencesInvariant, UpToDate
  <2> QED
    BY <2>1 DEF ListsTrue
<1> QED
  BY <1>1, ReferencesHold, PTL

\* There, the changes a producer calls exact (deltaExact) cover every symbol with
\* a reference that came or went since the table the client holds.
THEOREM ChangesStayCovered ==
  ASSUME Roots = Paths
  PROVE  Spec => []ChangesCoverMoves
<1>1. ReferencesInvariant => ChangesCoverMoves
  <2> DEFINE x   == Ensure(idx, src)
             old == AllReferences(Held.seen)
             new == AllReferences(src)
  <2> SUFFICES ASSUME ReferencesInvariant, client # <<>>, base # "none", x.exact,
                      NEW r \in (old \ new) \cup (new \ old)
               PROVE  r.id \in x.changed
    BY DEF ChangesCoverMoves
  <2>1. src \in Sources /\ IndexTrue(idx, src) /\ Covered(idx, Held.seen)
    BY DEF ReferencesInvariant
  <2>2. Ensured(x, idx, src)
    BY <2>1, EnsureEnsures
  <2>3. /\ old = UNION {References(p, Held.seen) : p \in Paths}
        /\ new = UNION {References(p, src) : p \in Paths}
    BY AllMembers DEF AllReferences
  <2>4. PICK p \in Paths :
          /\ References(p, Held.seen) # References(p, src)
          /\ r \in References(p, Held.seen) \cup References(p, src)
    BY <2>3
  <2>5. Ids(p, Held.seen) \subseteq x.changed /\ Ids(p, src) \subseteq x.changed
    BY <2>1, <2>2, <2>4 DEF Covered, Ensured
  <2> QED
    BY <2>4, <2>5 DEF Ids
<1> QED
  BY <1>1, ReferencesHold, PTL

-----------------------------------------------------------------------------
(* Complete lists.                                                         *)

\* The files an index has no entry of are in it, whole, once it was looked at.
Whole(y, x, s) == \A p \in Paths \ DOMAIN x.files : References(p, s) \subseteq y.merged[1]

\* Whatever ensure scans joins the merged index.
LEMMA EnsureWhole ==
  ASSUME Roots = Paths, NEW s \in Sources, NEW x, IndexTrue(x, s)
  PROVE  Whole(Ensure(x, s), x, s)
<1>1. DOMAIN x = IndexFields /\ DOMAIN x.files \subseteq Paths /\ x.refresh \subseteq Paths
  BY DEF IndexTrue
<1> SUFFICES ASSUME NEW p \in Paths, p \notin DOMAIN x.files, NEW r \in References(p, s)
             PROVE  r \in Ensure(x, s).merged[1]
  BY DEF Whole
<1>2. CASE x.merged = <<>>
  <2> DEFINE scanned == [q \in Paths \ DOMAIN x.files |-> Scan(q, s)]
             all     == Overwrite(x.files, scanned)
             rows    == Spans(Restrict2(all, Paths))
  <2>1. Ensure(x, s) = Rebuilt(x, Paths, scanned)
    BY <1>2, AllMembers DEF Ensure, Build, BuildIn
  <2>2. /\ DOMAIN all = Paths /\ all[p] = Scan(p, s)
    BY <1>1 DEF Overwrite
  <2> HIDE DEF scanned
  <2>3. Rebuilt(x, Paths, scanned).merged = <<rows>>
    BY <1>1 DEF Rebuilt, IndexFields
  <2> HIDE DEF all
  <2>4. p \in DOMAIN Restrict2(all, Paths) /\ Restrict2(all, Paths)[p] = Scan(p, s)
    BY <2>2 DEF Restrict2
  <2>5. r \in rows
    BY <2>4, ScanEntry DEF Spans
  <2> HIDE DEF rows
  <2> QED
    BY <2>1, <2>3, <2>5
<1>3. CASE x.merged # <<>>
  <2>1. p \in x.refresh /\ x.paths = Paths
    BY <1>3 DEF IndexTrue
  <2> DEFINE scanned == [q \in x.refresh |-> Scan(q, s)]
             rows    == x.merged[1] \cup Spans(Restrict2(scanned, x.paths))
  <2>2. x.refresh \cap Members(s) = x.refresh
    BY <1>1, AllMembers
  <2>3. Ensure(x, s) = Rescanned(x, scanned)
    BY <1>3, <2>1, <2>2 DEF Ensure, Refresh
  <2>4. p \in DOMAIN Restrict2(scanned, x.paths) /\ Restrict2(scanned, x.paths)[p] = Scan(p, s)
    BY <2>1 DEF Restrict2
  <2> HIDE DEF scanned
  <2>5. Rescanned(x, scanned).merged = <<rows>>
    BY <1>1 DEF Rescanned, IndexFields
  <2>6. r \in rows
    BY <2>4, ScanEntry DEF Spans
  <2> HIDE DEF rows
  <2> QED
    BY <2>3, <2>5, <2>6
<1> QED
  BY <1>2, <1>3

\* Marking rows as used leaves the rows alone, and so does reporting changes.
LEMMA SameRows ==
  ASSUME NEW y, DOMAIN y = IndexFields, NEW s
  PROVE  /\ \A ids : Marked(y, ids, s).merged = y.merged
         /\ Reported(y, s).merged = y.merged
<1>1. \A ids : Marked(y, ids, s).merged = y.merged
  BY DEF Marked, IndexFields
<1> QED
  BY <1>1 DEF Reported

\* The index that reported changes is whole.
LEMMA ReportWhole ==
  ASSUME Roots = Paths, NEW s \in Sources, NEW x, IndexTrue(x, s)
  PROVE  Whole(ReportChanges(x, s), x, s)
<1> DEFINE y == Ensure(x, s)
<1>1. DOMAIN y = IndexFields /\ Whole(y, x, s)
  BY EnsureEnsures, EnsureWhole DEF Ensured, IndexTrue
<1>2. ReportChanges(x, s) = Reported(y, s)
  BY DEF ReportChanges
<1> HIDE DEF y
<1>3. Reported(y, s).merged = y.merged
  BY <1>1, SameRows
<1> QED
  BY <1>1, <1>2, <1>3 DEF Whole

\* Of the files it is whole for, an index gives every reference.
LEMMA LocationsWhole ==
  ASSUME NEW s, NEW x, NEW y, Whole(y, x, s), NEW i, Resolves(i, s), Canonical(i, s) = i,
         NEW p \in Paths \ DOMAIN x.files, NEW r \in References(p, s), r.id = i
  PROVE  <<r.path, r.at>> \in Locations(y, i, s)
BY DEF Whole, Locations

\* Patching complete lists completes them: what is gone from the affected paths
\* is scanned whole, however much the producer pruned.
LEMMA PatchCompletes ==
  ASSUME Roots = Paths, ReferencesInvariant, NEW want \in DemandSets,
         Patches(want, FALSE), PatchStableSymbols(want), Complete(Held)
  PROVE  Complete(client'[1])
<1> DEFINE y == ReportChanges(idx, src)
<1>1. /\ client # <<>> /\ base # "none"
      /\ \A j \in InvalidatedSymbols : AliasTarget(j, src) = Held.symbols[j].alias
      /\ Ensure(idx, src).exact
  BY DEF Patches, HeldSymbols, Full
<1>2. /\ src \in Sources /\ IndexTrue(idx, src) /\ Indexed /\ ListsTrue(Held)
      /\ Away(Held.seen) /\ Covered(idx, Held.seen)
      /\ affected \cap DOMAIN idx.files = {}
  BY <1>1 DEF ReferencesInvariant
<1>3. Ensured(y, idx, src) /\ y.exact /\ Whole(y, idx, src)
  <2>1. Ensured(y, idx, src) /\ Ensured(Ensure(idx, src), idx, src)
    BY <1>2, ReportEnsures, EnsureEnsures
  <2>2. Whole(y, idx, src)
    BY <1>2, ReportWhole
  <2> QED
    BY <1>1, <2>1, <2>2 DEF Ensured
<1>4. /\ DOMAIN Held'.symbols = DOMAIN Held.symbols
      /\ \A i \in DOMAIN Held.symbols :
           Held'.symbols[i] = PatchedSymbols(y, InvalidatedSymbols)[i]
      /\ Held'.tier = Held.tier /\ Held'.seen = src
  BY <1>1, <1>2, PatchedIndexed
<1>5. ListsTrue(Held')
  BY PatchedTrue
<1> HIDE DEF y
<1>6. ASSUME NEW i \in Held.tier
      PROVE  Held'.symbols[i].refs = To(i, AllReferences(src))
  <2> DEFINE row   == Held'.symbols[i]
             refs  == Held.symbols[i].refs
             fresh == Locations(y, i, src)
  <2>1. i \in DOMAIN Held.symbols /\ i \in Symbols /\ Held.symbols[i].alias = {}
    BY <1>2 DEF ListsTrue
  <2>2. /\ row.alias = AliasTarget(i, src) /\ row.alias = {}
        /\ row.refs = IF i \in y.changed
                      THEN PatchReferencePaths(refs, fresh, affected) ELSE refs
    <3>1. RowPatched(PatchedSymbols(y, InvalidatedSymbols)[i], i, y)
      BY <1>1, <1>2, <2>1, PatchedRow
    <3>2. RowPatched(row, i, y)
      BY <1>4, <2>1, <3>1
    <3>3. /\ row.alias = AliasTarget(i, src) /\ row.alias = Held.symbols[i].alias
          /\ row.refs = IF i \in y.changed \cap Held.tier
                        THEN PatchReferencePaths(refs, fresh, affected) ELSE refs
      BY <3>2 DEF RowPatched
    <3> HIDE DEF row, refs, fresh
    <3> QED
      BY <2>1, <3>3
  <2>3. refs = To(i, AllReferences(Held.seen))
    BY DEF Complete
  <2>4. Resolves(i, src) /\ Canonical(i, src) = i
    BY <1>2, <2>1, <2>2, TargetOf
  <2>5. row.refs \subseteq To(i, AllReferences(src))
    BY <1>4, <1>5, <2>1 DEF ListsTrue
  <2> HIDE DEF row, refs
  <2>6. CASE i \in y.changed
    <3> SUFFICES ASSUME NEW l \in To(i, AllReferences(src)) PROVE l \in row.refs
      BY <2>5 DEF row
    <3>1. PICK r \in AllReferences(src) : r.id = i /\ l = <<r.path, r.at>>
      BY DEF To
    <3>2. PICK p \in Paths : r \in References(p, src)
      BY <3>1, AllMembers DEF AllReferences
    <3>3. r.path = p /\ l[1] = p
      BY <3>1, <3>2, ScanEntry
    <3>4. CASE p \in affected
      <4>1. l \in fresh
        BY <1>2, <1>3, <2>4, <3>1, <3>2, <3>4, LocationsWhole
      <4> QED
        BY <2>2, <2>6, <3>3, <3>4, <4>1 DEF PatchReferencePaths
    <3>5. CASE p \notin affected
      <4>1. r \in References(p, Held.seen)
        BY <1>2, <3>2, <3>5 DEF Away
      <4>2. r \in AllReferences(Held.seen)
        BY <4>1, AllMembers DEF AllReferences
      <4>3. l \in refs
        BY <2>3, <3>1, <4>2 DEF To
      <4> QED
        BY <2>2, <2>6, <3>3, <3>5, <4>3 DEF PatchReferencePaths
    <3> QED
      BY <3>4, <3>5
  <2>7. CASE i \notin y.changed
    <3>1. To(i, AllReferences(Held.seen)) = To(i, AllReferences(src))
      BY <1>2, <1>3, <2>7, UnmovedList
    <3> QED
      BY <2>2, <2>3, <2>7, <3>1 DEF row
  <2> QED
    BY <2>6, <2>7
<1> QED
  BY <1>4, <1>6 DEF Complete, Held

\* A client without a table asks for every list, and an index without entries
\* is built whole.
LEMMA CloseCompletes ==
  ASSUME Roots = Paths, ReferencesInvariant, NEW want \in DemandSets,
         client = <<>>, idx.files = Empty, CloseSymbols(want)
  PROVE  Complete(client'[1])
<1>1. src \in Sources /\ IndexTrue(idx, src) /\ DOMAIN idx.files = {}
  BY DEF ReferencesInvariant, Empty
<1>2. ListsTrue(Held')
  BY ClosedTrue
<1>3. AfterAnalyze(want) = idx
  BY DEF AfterAnalyze, RootsChanged
<1> DEFINE x == ReportChanges(idx, src)
           tier == ReferenceTier(want)
           ask == {i \in tier : MustAsk(i, x)}
           y == Queried(x, ask, src)
           h == Assembled(want, tier, ask, y)
<1>4. client' = <<h>> /\ Held' = h
  BY <1>3 DEF CloseSymbols, AskAndClose, Held
<1>5. ask = tier
  BY DEF MustAsk, HeldSymbols, Full, Empty
<1>6. Ensured(x, idx, src) /\ Whole(x, idx, src)
  BY <1>1, ReportEnsures, ReportWhole
<1> HIDE DEF x, ask
<1>7. Whole(y, idx, src)
  <2>1. DOMAIN x = IndexFields /\ Ensure(x, src) = x
    BY <1>6 DEF Ensured, IndexTrue, Ensure
  <2>2. y.merged = x.merged
    BY <2>1, SameRows DEF Queried
  <2> QED
    BY <1>6, <2>2 DEF Whole
<1> HIDE DEF y, tier
<1> DEFINE dom == Reachable(Seeds(want, src), src)
           list(i) == ListOf(i, tier, ask, y)
           symbols == [i \in dom |-> Evidence(i, src, list(i))]
<1>8. h.symbols = symbols /\ h.tier = tier /\ h.seen = src
  BY DEF Assembled, Closed
<1> HIDE DEF h
<1>9. tier \subseteq dom /\ dom \subseteq Symbols /\ \A i \in tier : AliasTarget(i, src) = {}
  BY <1>1, ReachableSymbols DEF tier, ReferenceTier
<1>10. ASSUME NEW i \in tier
       PROVE  h.symbols[i].refs = To(i, AllReferences(src))
  <2>1. h.symbols[i].refs = Locations(y, i, src)
    BY <1>5, <1>8, <1>9 DEF Evidence, ListOf
  <2>2. Resolves(i, src) /\ Canonical(i, src) = i
    BY <1>1, <1>9, TargetOf
  <2>3. Locations(y, i, src) \subseteq To(i, AllReferences(src))
    BY <1>2, <1>4, <1>8, <1>9, <2>1 DEF ListsTrue
  <2>4. ASSUME NEW l \in To(i, AllReferences(src)) PROVE l \in Locations(y, i, src)
    <3>1. PICK r \in AllReferences(src) : r.id = i /\ l = <<r.path, r.at>>
      BY DEF To
    <3>2. PICK p \in Paths : r \in References(p, src)
      BY <3>1, AllMembers DEF AllReferences
    <3> QED
      BY <1>1, <1>7, <2>2, <3>1, <3>2, LocationsWhole
  <2> QED
    BY <2>1, <2>3, <2>4
<1> QED
  BY <1>4, <1>8, <1>10 DEF Complete

\* Where every file is configured, patching complete lists leaves complete lists,
\* although the producer pruned its index (releaseAnalysisState), and a client
\* that starts with a producer that has scanned nothing gets complete ones.
THEOREM PatchingKeepsComplete ==
  ASSUME Roots = Paths
  PROVE  Spec => PatchKeepsComplete
<1>1. ASSUME ReferencesInvariant, NEW want \in DemandSets,
             \/ Patches(want, FALSE) /\ Complete(Held) /\ PatchStableSymbols(want)
             \/ client = <<>> /\ idx.files = Empty /\ CloseSymbols(want)
      PROVE  Complete(client'[1])
  BY <1>1, PatchCompletes, CloseCompletes
<1>2. ReferencesInvariant =>
        [\A want \in DemandSets :
           \/ Patches(want, FALSE) /\ Complete(Held) /\ PatchStableSymbols(want)
           \/ client = <<>> /\ idx.files = Empty /\ CloseSymbols(want)
           => Complete(client'[1])]_vars
  BY <1>1
<1> QED
  BY <1>2, ReferencesHold, PTL DEF PatchKeepsComplete
=============================================================================
