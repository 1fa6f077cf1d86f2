--------------------------- MODULE ReferenceIndex ---------------------------
(***************************************************************************)
(* The producer's reference index (referenceIndex of references.go): the   *)
(* merged index of the generation, the contribution each file made to it,  *)
(* and the symbols whose reference lists an update may have moved.  Its    *)
(* operations are functions of a record with the fields                    *)
(*                                                                         *)
(*   merged   the merged index, a set of references, or <<>> before the    *)
(*            first query; <<set>> once it is built                        *)
(*   paths    the files of the program when it was built                   *)
(*   used     the symbols whose rows escaped since the last release        *)
(*   refresh  affected files taken out of the index, to be scanned again   *)
(*   changed  symbols removed from or added to contributions               *)
(*   exact    whether changed is known (deltaExact)                        *)
(*   files    path -> [ids, spans, durable]                                *)
(*                                                                         *)
(* Lists are sets here: their order is the sort of the merged rows.        *)
(***************************************************************************)
EXTENDS ProgramModel

CONSTANTS
  Symbols,       \* durable symbol identities
  Declarer,      \* Declarer[s]: the file that declares s
  AliasOf,       \* AliasOf[s][t]: what s imports or re-exports under text t of
                 \* its file, a set of at most one symbol
  Uses,          \* Uses[p][t]: the identifiers of p under t, <<symbol, offset>>
  MaxInPlace     \* affected files up to which the index is patched (64)

\* A symbol other files use does not stand for another one unless its file's
\* exported shape says so, and what it stands for is imported.
ASSUME ReferenceAssumption ==
  /\ \A s \in Symbols : Declarer[s] \in Paths
  /\ \A s \in Symbols, t \in Texts : \A a \in AliasOf[s][t] :
       a \in Symbols /\ Declarer[a] \in Imports[Declarer[s]][t] \cup {Declarer[s]}
  /\ \A p \in Paths, t \in Texts : \A use \in Uses[p][t] : use[1] \in Symbols
  /\ \A s \in Symbols, t \in Texts, u \in Texts :
       Shape[Declarer[s]][t] = Shape[Declarer[s]][u] => AliasOf[s][t] = AliasOf[s][u]
  /\ \A p \in Paths, t \in Texts : \A use \in Uses[p][t] :
       Declarer[use[1]] \in Imports[p][t] \cup {p}
  /\ \A s \in Symbols, t \in Texts, u \in Texts, v \in Texts : \A a \in AliasOf[s][t] :
       \A b \in AliasOf[a][u] : AliasOf[b][v] = {}
  /\ MaxInPlace \in Nat

-----------------------------------------------------------------------------
(* What the checker resolves.                                              *)

\* symbolFor: the declaration is still found in the program.
Resolves(s, src) == Declarer[s] \in Members(src)

\* canonicalSymbol: aliases are followed to the end, which is at most the
\* import of a re-export away.
AliasIn(s, members, src) ==
  IF Declarer[s] \in members THEN AliasOf[s][src[Declarer[s]]] ELSE {}

Follow(s, targets) == IF targets = {} THEN s ELSE CHOOSE b \in targets : TRUE

CanonicalIn(s, members, src) ==
  LET once == Follow(s, AliasIn(s, members, src))
  IN  Follow(once, AliasIn(once, members, src))

Canonical(s, src) == CanonicalIn(s, Members(src), src)

\* The references a file makes, under the symbols they stand for.
References(p, src) ==
  {[id |-> Canonical(use[1], src), path |-> p, at |-> use[2]] : use \in Uses[p][src[p]]}

\* scan: a file with generation-scoped identities does not outlive its generation.
Entry(p, refs) ==
  [ids |-> {r.id : r \in refs}, spans |-> refs, durable |-> p \notin NonDurable]

Scan(p, src) == Entry(p, References(p, src))

-----------------------------------------------------------------------------
(* The index.                                                              *)

NoIndex ==
  [merged |-> <<>>, paths |-> {}, used |-> {}, refresh |-> {},
   changed |-> {}, exact |-> FALSE, files |-> Empty]

\* Every contribution an update reaches is dropped and its symbols recorded.  A
\* small update of a merged index takes the files' references out of it; a
\* broad one, or one that meets an update nobody looked up yet, starts over.
\* (The code finds a file by its place in paths: a file that joined the program
\* after the index was built has none, which no project with all its files
\* configured meets.)
Invalidate(x, members, affected) ==
  LET composing    == x.exact /\ (x.merged = <<>> \/ x.refresh # {})
      hadExactBase == x.merged # <<>> \/ composing
      inPlace      == x.merged # <<>> /\ Cardinality(affected) <= MaxInPlace /\ ~composing
      retained(p)  == p \notin affected /\ p \in members
      dropped == {p \in DOMAIN x.files : ~ (retained(p) /\ x.files[p].durable)}
      ids     == IF hadExactBase THEN UNION {x.files[p].ids : p \in dropped} ELSE {}
      changed == ids \cup (IF composing THEN x.changed ELSE {})
      kept    == Restrict2(x.files, DOMAIN x.files \ dropped)
  IN  IF inPlace
      THEN [x EXCEPT !.merged  = <<{r \in @[1] : ~ (/\ r.path \in dropped
                                                    /\ r.id \in x.files[r.path].ids)}>>,
                     !.refresh = dropped \cap members,
                     !.changed = changed, !.exact = TRUE, !.files = kept]
      ELSE [NoIndex EXCEPT !.used = x.used, !.changed = changed,
                           !.exact = hadExactBase, !.files = kept]

\* The spans of an entry are handed to the merged index and not kept twice.
Merged(entry) == [entry EXCEPT !.spans = {}]

Found(scanned) == UNION {scanned[p].ids : p \in DOMAIN scanned}

Spans(files) == UNION {files[p].spans : p \in DOMAIN files}

\* The contributions of the files in paths are handed over.
HandedOver(files, paths) ==
  [p \in DOMAIN files |-> IF p \in paths THEN Merged(files[p]) ELSE files[p]]

\* build: the program's entries, old and new, become the merged index.
Rebuilt(x, members, scanned) ==
  [x EXCEPT !.merged  = <<Spans(Restrict2(Overwrite(x.files, scanned), members))>>,
            !.paths   = members,
            !.refresh = {},
            !.changed = IF x.exact THEN @ \cup Found(scanned) ELSE @,
            !.files   = HandedOver(Overwrite(@, scanned), members)]

\* Only files without an entry are scanned.
BuildIn(x, members, src) ==
  Rebuilt(x, members, [p \in members \ DOMAIN x.files |-> Scan(p, src)])

Build(x, src) == BuildIn(x, Members(src), src)

\* Mutant: what a rescan adds is not recorded as changed.
RescannedSilently(x, scanned) ==
  [x EXCEPT !.merged  = <<@[1] \cup Spans(Restrict2(scanned, x.paths))>>,
            !.refresh = {},
            !.files   = Overwrite(@, HandedOver(scanned, x.paths))]

\* refresh: what was scanned again joins the merged index.
Rescanned(x, scanned) ==
  [x EXCEPT !.merged  = <<@[1] \cup Spans(Restrict2(scanned, x.paths))>>,
            !.refresh = {},
            !.changed = IF x.exact THEN @ \cup Found(Restrict2(scanned, x.paths)) ELSE @,
            !.files   = Overwrite(@, HandedOver(scanned, x.paths))]

\* The files taken out by the last update are scanned again.
Refresh(x, src) ==
  Rescanned(x, [p \in x.refresh \cap Members(src) |-> Scan(p, src)])

Ensure(x, src) ==
  IF x.merged = <<>> THEN Build(x, src)
  ELSE IF x.refresh # {} THEN Refresh(x, src)
  ELSE x

\* SymbolEvidence with references, once the index is up to date: the rows of the
\* canonical symbols are marked as used.
Marked(y, ids, src) ==
  [y EXCEPT !.used = @ \cup {Canonical(s, src) : s \in {i \in ids : Resolves(i, src)}}]

Queried(x, ids, src) == Marked(Ensure(x, src), ids, src)

\* locations, as the answer to a query for s.
Locations(x, s, src) ==
  IF ~Resolves(s, src) THEN {}
  ELSE LET c == Canonical(s, src)
       IN  {<<r.path, r.at>> : r \in {m \in x.merged[1] : m.id = c}}

\* populateSymbolEvidence with reference_changes: ChangedReferences, and the
\* evidence of what it reports.
Reported(y, src) == IF y.exact /\ y.changed # {} THEN Marked(y, y.changed, src) ELSE y

ReportChanges(x, src) == Reported(Ensure(x, src), src)

\* Everything that was not used since the last release is pruned.
ReleaseAnalysisState(x) ==
  [x EXCEPT !.merged = IF @ = <<>> THEN @ ELSE <<{r \in @[1] : r.id \in x.used}>>,
            !.used   = {}]

\* The whole program's references, found from nothing.
AllReferences(src) == UNION {References(p, src) : p \in Members(src)}

To(s, references) == {<<r.path, r.at>> : r \in {q \in references : q.id = s}}

=============================================================================
