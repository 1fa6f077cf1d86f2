--------------------------- MODULE SymbolClosure ---------------------------
(***************************************************************************)
(* How the client closes its fact table over symbols: after each analysis  *)
(* it asks the producer for the symbols its entities name, follows their   *)
(* aliases, and keeps for the symbols of its reference tier the list of    *)
(* references to them.  When nothing but references moved it patches what  *)
(* it holds; otherwise it closes the symbols again, and asks only for the  *)
(* lists the producer reports as changed or that it does not hold.         *)
(*                                                                         *)
(* One analysis is one step: its exchanges are issued by one caller and    *)
(* nothing else reaches the producer between them.                         *)
(***************************************************************************)
EXTENDS ReferenceIndex

CONSTANTS
  Named,          \* Named[p][t]: the symbols the demanded entities of p name
  DemandSets,     \* path -> whether its demands ask for references
  Edits,          \* the batches of changes the caller sends: path -> text
  InitialSources, \* what the project holds on disk
  MaxUpdates      \* bound on accepted updates

ASSUME ClosureAssumption ==
  /\ DemandSets \subseteq Partial(BOOLEAN)
  /\ Edits \subseteq Partial(Texts) \ {Empty}
  /\ InitialSources \in Sources
  /\ \A p \in Paths, t \in Texts : Named[p][t] \subseteq Symbols
  /\ MaxUpdates \in Nat

VARIABLES
  src,      \* the producer's sources
  idx,      \* its reference index
  base,     \* its fact table: "table", "previous" after one update, or "none"
  updates,  \* accepted updates
  client,   \* <<>>, or <<[demands, symbols, tier, byPath, seen]>>
  affected  \* the paths named by updates since the client's last analysis

vars == <<src, idx, base, updates, client, affected>>

Init ==
  /\ src = InitialSources /\ idx = NoIndex /\ base = "none" /\ updates = 0
  /\ client = <<>> /\ affected = {}

-----------------------------------------------------------------------------
(* What an analysis finds.                                                 *)

\* The symbols named by the entities of the demanded files; a file outside the
\* program names none.
Seeds(want, s) == UNION {Named[p][s[p]] : p \in DOMAIN want \cap Members(s)}

ReferenceRoots(want, s) == Seeds([p \in {q \in DOMAIN want : want[q]} |-> TRUE], s)

AliasTarget(i, s) == IF Resolves(i, s) THEN {Canonical(i, s)} \ {i} ELSE {}

\* One row of symbol evidence; an identity that no longer resolves has an empty one.
Evidence(i, s, refs) ==
  [alias |-> AliasTarget(i, s),
   decl  |-> IF Resolves(i, s) THEN {<<Declarer[i], s[Declarer[i]]>>} ELSE {},
   refs  |-> refs]

\* The closure of ids under alias targets.
Reachable(ids, s) == ids \cup UNION {AliasTarget(i, s) : i \in ids}

ByPath(symbols) ==
  UNION {{<<d[1], i>> : d \in symbols[i].decl} : i \in DOMAIN symbols}

-----------------------------------------------------------------------------
(* The client.                                                             *)

Held == client[1]

\* A client without a table, or with other demands, changes its roots.
RootsChanged(want) == IF client = <<>> THEN TRUE ELSE Held.demands # want

\* Without a table to compare with the producer sends a full one, and a full
\* table has no symbols.
Full == client = <<>> \/ base = "none"

HeldSymbols == IF Full THEN Empty ELSE Held.symbols

\* The index after the analysis itself, which carries the changed references
\* and a release along when the roots are the same.
AfterAnalyze(want) ==
  IF RootsChanged(want) THEN idx ELSE ReleaseAnalysisState(ReportChanges(idx, src))

InvalidatedSymbols == {pair[2] : pair \in {b \in Held.byPath : b[1] \in affected}}

\* Entities of the affected files can differ in more than the symbols they name.
SeedsChanged(want, moved) ==
  \/ RootsChanged(want) \/ Full
  \/ Seeds(want, Held.seen) # Seeds(want, src)
  \/ moved /\ DOMAIN want \cap affected # {}

\* patch_stable_symbols gives up when the changes are not exact or an alias moved.
Patches(want, moved) ==
  /\ ~SeedsChanged(want, moved)
  /\ HeldSymbols # Empty
  /\ Ensure(idx, src).exact
  /\ \A i \in InvalidatedSymbols : AliasTarget(i, src) = Held.symbols[i].alias

\* Mutant: the runs of the affected paths are dropped and not replaced.
PatchDropsRuns(refs, fresh, paths) == {r \in refs : r[1] \notin paths}

\* The references in the given paths are replaced, the others stay.
PatchReferencePaths(refs, fresh, paths) ==
  {r \in refs : r[1] \notin paths} \cup {r \in fresh : r[1] \in paths}

\* The rows of the invalidated symbols are replaced, their lists apart.
Structural(i, invalidated) ==
  IF i \in invalidated THEN Evidence(i, src, Held.symbols[i].refs) ELSE Held.symbols[i]

\* Then the lists of the reference tier that the index y reports as changed.
PatchedSymbols(y, invalidated) ==
  [i \in DOMAIN Held.symbols |->
     IF i \in y.changed \cap Held.tier /\ AliasTarget(i, src) = {}
     THEN [Structural(i, invalidated) EXCEPT
             !.refs = PatchReferencePaths(@, Locations(y, i, src), affected)]
     ELSE Structural(i, invalidated)]

\* Mutant: invalidated symbols are not indexed again.
PatchedByPathDropped(patched, invalidated) == {b \in Held.byPath : b[2] \notin invalidated}

\* The declaration index is patched for the invalidated symbols alone.
PatchedByPath(patched, invalidated) ==
  {b \in Held.byPath : b[2] \notin invalidated}
    \cup ByPath([i \in invalidated |-> patched[i]])

Patched(patched, invalidated) ==
  [Held EXCEPT !.symbols = patched, !.byPath = PatchedByPath(patched, invalidated),
               !.seen = src]

PatchStableSymbols(want) ==
  /\ idx' = AfterAnalyze(want)
  /\ client' = <<Patched(PatchedSymbols(ReportChanges(idx, src), InvalidatedSymbols),
                         InvalidatedSymbols)>>

\* Mutant: a list the client holds is kept although it changed.
MustAskHeld(i, x) == ~x.exact \/ i \notin DOMAIN HeldSymbols

\* Which lists of the reference tier are asked for again.
MustAsk(i, x) == ~x.exact \/ i \in x.changed \/ i \notin DOMAIN HeldSymbols

ReferenceTier(want) ==
  {i \in Reachable(ReferenceRoots(want, src), src) : AliasTarget(i, src) = {}}

\* A list is the answer of the index y, or the one held, or none.
ListOf(i, tier, ask, y) ==
  IF i \in ask THEN Locations(y, i, src) ELSE IF i \in tier THEN HeldSymbols[i].refs ELSE {}

Closed(want, symbols, tier) ==
  [demands |-> want, symbols |-> symbols, tier |-> tier, byPath |-> ByPath(symbols),
   seen |-> src]

\* The table's symbols, from the index y that answered the lists asked for.
Assembled(want, tier, ask, y) ==
  Closed(want, [i \in Reachable(Seeds(want, src), src) |->
                  Evidence(i, src, ListOf(i, tier, ask, y))], tier)

\* close_symbols from the seeds on: the lists in ask are queried.
AskAndClose(want, x, tier, ask) ==
  \E y \in {Queried(x, ask, src)} :
    /\ idx' = ReleaseAnalysisState(IF ask = {} THEN x ELSE y)
    /\ client' = <<Assembled(want, tier, ask, y)>>

CloseSymbols(want) ==
  \E x \in {ReportChanges(AfterAnalyze(want), src)}, tier \in {ReferenceTier(want)} :
    AskAndClose(want, x, tier, {i \in tier : MustAsk(i, x)})

\* Nothing is materialized for the same demands in the generation of the last
\* published table, which the producer's session keeps through a cancellation.
Asks(want) == RootsChanged(want) \/ affected # {}

Analyze(want, moved) ==
  /\ Asks(want)
  /\ IF Patches(want, moved) THEN PatchStableSymbols(want) ELSE CloseSymbols(want)
  /\ base' = "table"
  /\ affected' = {}
  /\ UNCHANGED <<src, updates>>

-----------------------------------------------------------------------------
(* Updates and failures.                                                   *)

\* One edited file is patched into the program, several rebuild it.
Update(edit) ==
  LET new     == Overwrite(src, edit)
      reached == Affected(DOMAIN edit, src, new)
  IN  /\ updates < MaxUpdates /\ new # src
      /\ updates' = updates + 1
      /\ src' = new
      /\ idx' = IF Cardinality(DOMAIN edit) = 1
                THEN Invalidate(idx, Members(new), reached) ELSE NoIndex
      /\ base' = IF base = "table" THEN "previous" ELSE "none"
      /\ affected' = affected \cup reached \cup DOMAIN edit
      /\ UNCHANGED client

\* What an analysis with the same roots does to the index: it brings it up to
\* date, marks the rows it reports and releases the others.
IndexesDuringAnalyze(want) ==
  IF RootsChanged(want) THEN {idx}
  ELSE {idx, Ensure(idx, src), ReportChanges(idx, src), AfterAnalyze(want)}

\* The producer's analysis is cancelled before it publishes, wherever it is with
\* the index: it abandons its tables, and the client keeps its own.
AnalyzeCancelled(want) ==
  /\ Asks(want)
  /\ idx' \in IndexesDuringAnalyze(want)
  /\ base' = "none"
  /\ UNCHANGED <<src, updates, client, affected>>

\* A later exchange of the analysis fails: the client's token is stale, and it
\* will drop what it retains.
AnalyzeUnfinished(want) ==
  /\ Asks(want)
  /\ idx' \in {AfterAnalyze(want), ReportChanges(AfterAnalyze(want), src)}
  /\ base' = "table"
  /\ client' = <<>> /\ affected' = {}
  /\ UNCHANGED <<src, updates>>

\* The producer dies and the overlays are replayed into a new one.
Restart ==
  /\ idx # NoIndex
  /\ idx' = NoIndex /\ base' = "none"
  /\ client' = <<>> /\ affected' = {}
  /\ UNCHANGED <<src, updates>>

Next ==
  \/ \E want \in DemandSets, moved \in BOOLEAN : Analyze(want, moved)
  \/ \E want \in DemandSets : AnalyzeCancelled(want)
  \/ \E want \in DemandSets : AnalyzeUnfinished(want)
  \/ \E edit \in Edits : Update(edit)
  \/ Restart

Spec == Init /\ [][Next]_vars

-----------------------------------------------------------------------------
(* Properties.                                                             *)

UpToDate == client # <<>> /\ affected = {}

\* Every list the client kept, patched or asked for again names only
\* references that are in the program: whatever removed one, some step told
\* the client, however analyses and updates interleave, fail and are lost.
ReferencesSound ==
  UpToDate =>
    LET all == AllReferences(src)
    IN  \A i \in DOMAIN Held.symbols : Held.symbols[i].refs \subseteq To(i, all)

\* The changes the producer reports as exact cover every symbol whose list is
\* not what it was when the table the client holds was published.
ChangesCoverMoves ==
  client # <<>> /\ base # "none" =>
    LET x   == Ensure(idx, src)
        old == AllReferences(Held.seen)
        new == AllReferences(src)
    IN  x.exact => {r.id : r \in (old \ new) \cup (new \ old)} \subseteq x.changed

\* The declarations patched one symbol at a time are indexed as if they had
\* been indexed at once: the symbols an update invalidates are all found.
DeclarationsIndexed == client # <<>> => Held.byPath = ByPath(Held.symbols)

\* The reference tier's lists are those of the program the table was built from.
Complete(held) ==
  LET all == AllReferences(held.seen)
  IN  \A i \in held.tier : held.symbols[i].refs = To(i, all)

\* Patching complete lists leaves complete lists, although the producer pruned
\* its index to what was last asked for; and lists asked for before anything
\* was merged are complete.
PatchKeepsComplete ==
  [][ \A want \in DemandSets :
        \/ Patches(want, FALSE) /\ Complete(Held) /\ PatchStableSymbols(want)
        \/ client = <<>> /\ idx.files = Empty /\ CloseSymbols(want)
        => Complete(client'[1]) ]_vars

\* The reference tier's lists are complete whenever the client is up to date.
ReferencesComplete == UpToDate => Complete(Held)

=============================================================================
