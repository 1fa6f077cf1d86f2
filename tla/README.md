# A TLA+ development of Type Facts

Type Facts answers semantic questions about one TypeScript project. A Go
process, the *producer* (`cmd/solid-typefacts`, `internal/typefacts`), owns the
compiler; a Rust library, the *client* (`crates/typefacts`), keeps a retained
session against it over a pair of pipes. This directory holds TLA+ modules that
model the session protocol, the retained state behind it, and the concurrency
around the pipes; TLC configurations that check them on small instances; and
TLAPS proofs of the results that should hold for every instance.

Run `tlc -config X.cfg M` for a row of the table below, and `tlapm M.tla` for each
module whose name ends in `Proof`.

## Inventory

| Component | State it keeps | Operations | What makes it correct |
|---|---|---|---|
| Session, client (`session.rs`) | generation, state token, retained demands, retained table, replay log | open, update, analyze_groups, configured_sources, module_graph, close | a returned table is the table of this generation and these demands; token, demands and table change together |
| Replay log (`session.rs`) | one batch of overlays per accepted update, index of the newest overlay per path | commit_update, supersede_replayed_overlays, restart_and_replay | a rebuilt producer has the acknowledged overlays and generation; the log does not grow with repeated edits |
| Connection, cancellation (`session.rs`, `shared_transition_arena.rs`) | pending map, active request, reader thread, startup thread, arena | spawn, send, wait, cancel_active, fail_pending, terminate | each call gets its own answer, and gets one; a cancel hits the call it was meant for |
| Serve loop (`main.go`) | job and response queues, cancels map | accept, cancel, compute, release, write, drain | one answer per request in arrival order; it ends when its input or its output does |
| Transition arena (`transition_arena.go`) | one file, one committed header | Begin, AppendRows, Finish, attach | the header read is the one of the response that names it |
| Session, producer (`session.go`) | token, retained demand store, header of the published table | update, analyze, symbols, sources, modules, close | an analysis publishes everything or nothing |
| Retained demand store (`session_demands.go`) | path-ordered runs, undo log | begin, beginCompact, replace, remove, commit, rollback | rollback restores the store exactly |
| Compact demands (`protocolv3_compact.go`) | packed rows with the dictionary of their frame | pack, expand, scan for one flag | a run means the same packed, expanded or scanned, however long it is kept |
| Demand closure (`closure.go`, `semantic_demand.go`, `semantic_retained.go`) | table, previous table, changed paths, contributions, async cache, suppression union | Update, materialize, reset, release | retained facts equal recomputed ones; the manifest names every changed row |
| Retained contributions (`retained_contributions.go`) | rows or seeds per file, dependents, descriptor users | add, remove, invalidate, discard, commit | invalidation misses no dependent |
| Wire transition (`wire_transition*.go`) | per-encoder scratch, manifest | plan full, exact, sparse and fallback | the client accepts every transition, and its base plus the delta is the target |
| Retained table (`retained_table.rs`) | two packed indexes of leaves, counts | materialize_full, apply_delta sparse or linear, replace_symbols, patch_reference_paths | both ways of applying give the same canonical index |
| Compiler project (`tsgo/project.go`, `overlay.go`) | program, overlays, versions, import graph | Update, SourceFiles, SymbolEvidence, ReleaseAnalysisState | the affected set covers what an edit can change |
| Symbol identities (`tsgo/project.go`) | exported identities, symbol maps of the checker, durable references | idFor, symbolFor, release, sweep | an identity in retained facts is the one of a restart and leads to its declaration |
| Reference index (`tsgo/references.go`) | per-file reference groups, merged lists, delta | invalidate, ensure, build, ChangedReferences, release | references equal a fresh scan; the delta covers every list that moved |
| Symbol closure (client, `session.rs`) | symbols and reference tier of the table, index of declarations by path | close_symbols, patch_stable_symbols | patched lists equal lists asked for again |
| Symbol closure (producer, `symbol_closure.go`, `symbol_store.go`) | work list, symbol chunks | close, patch | without a caller since the client owns the closure |
| Codecs, model, facts about one location | none | encode, decode, describe | round trips |

The hard parts are the ones where two of these disagree about the past: a
client that holds the token of an analysis the producer has since left behind,
a rebuilt producer, a delta computed against one table and applied to another,
a cancel that arrives before, during or after its target. `PROJECT.json` lists
the hazards at their lines with the properties that watch them.

## Modules

```
ProgramModel <- DemandClosure <- TypeFactsSession <- MCSession, MCSessionGaps
                    TypeFactsSession <- SessionProof
ProgramModel <- ReferenceIndex <- SymbolClosure <- MCReferences, ReferencesProof
ProgramModel <- Identities <- MCIdentities, IdentitiesProof
RetainedContributions <- MCContributions, ContributionsProof
PackedIndex, WireTransition <- RetainedTable <- TableTransition <- MCTable, TableProof
ReplayLog <- ReplayLogProof
CompactDemands <- DemandRuns
DemandSet (abstract), CompactDemands <- DemandStore <- DemandStoreProof
                     DemandStore, DemandRuns <- MCDemandStore
ServeLoop <- Connection <- ConnectionProof
```

`TypeFactsSession` is the protocol as a whole. The other groups open up one of
its steps: what a transition carries and how the client applies it
(`TableTransition` for its `Delta` and `Patch`), what the symbol exchanges ask
and patch (`SymbolClosure` for its one step that may fail), how demands are
edited (`DemandStore` for `NextDemands`), how contributions are reused
(`RetainedContributions` beside `DemandClosure`), how a producer is rebuilt
(`ReplayLog` for `RestartAndReplay`), and the threads and pipes below
(`Connection`).

**ProgramModel** is the compiler as the closure sees it. A source text is a
model value; `Imports` and `Shape` say what a text imports and which declaration
shape it exports, and a file's facts are a function of its own text, the texts
of the files it imports directly (their spans appear in the rows) and the
shapes of everything it reaches. What the checker computes from these is
external; that retained facts depend on nothing else is the assumption the
retention code makes. Reachability is the least set of paths that holds the start
and that imports do not lead out of, where the code walks a queue to its end.
`Affected` is `project.Update`'s choice between the
semantic cutoff and the reverse-dependency walk.

**DemandClosure** gives the closure's operations as functions of a record:
update and invalidation, materialization with reuse of contributions and of
cached async facts, the manifest, and the release of the rows to the client.

**TypeFactsSession** is the client session, the producer session and the wire
between them, one call outstanding at a time. An analysis is a request, an
answer or failure, and, when the producer materialized a table, symbol
exchanges before the client publishes. The producer may crash at every step and
an analysis may be cancelled at every point before it publishes. A request carries
the generation it was stamped with, and keeps it when a read or an analysis is
resent after a restart; `logged` is the generation a full replay of the log ends
at, one more than the batches. A restart has three outcomes: a replay to the end, one
that breaks off and leaves the session's `generation` at the batches acknowledged so
far, and no new producer at all. A lost answer is waited for once more; an update
that cannot even be written starts over as a new update, as often as that happens.

**ReplayLog** has the steps TypeFactsSession takes at once: the log of accepted
updates, and its replay into a new producer batch by batch, with crashes,
refusals and failed spawns in between. `resent` is whether the next failure is the
last one the call recovers from; a restart for an update that could not be written
leaves it FALSE.

**CompactDemands** is the packed form of a request: one string dictionary per
frame, rows with a flag header and a start byte as the distance from the row
before, a new group where the path changes or the start goes back. A retained
run keeps its packed rows and its frame's dictionary; `Expanded` and `AsyncRows`
are what the producer later makes of them.

**DemandStore** is the transaction an analysis edits the retained demand set
with, one replacement, removal or undo per step; `committed` and `trail` are
history variables, the published groups and the groups before each undo entry.
**DemandRuns** is what `begin` and `beginCompact` make of a request before it
reaches the store: contiguous runs, the grouping of requests out of path order,
and the refusal of a compact frame that names a path twice. **DemandSet** is the
promise: for each path the rows demanded, and those demanded async, which an
analysis edits as a whole or not at all. The refinement reads them off the
store's runs, packed or plain, so it covers the encoding too.

**WireTransition** has the planners (full, exact, sparse, fallback, for path
slots and for symbols), the encoder's choice between them, and what the
decoder refuses. **PackedIndex** and **RetainedTable** are the client's table:
leaves with lookup, update and split, symbols with their packed reference runs,
counts kept beside the rows, and a delta applied operation by operation or, from
`LINEAR_REBUILD_MIN_OPERATIONS` on, in one merge. **TableTransition** lets the
producer edit one or two paths or a symbol of its table per analysis, with no
manifest, one of exactly the changed rows or one of all, and lets responses be lost.

**ReferenceIndex** gives the operations of the producer's index as functions of
a record: scan, build, invalidation of affected files, refresh, the change set
and whether it is exact, and the pruning at release. **SymbolClosure** puts the
client around it: `close_symbols`, `patch_stable_symbols`, the reference tier,
the index of declarations by path, and analyses that are cancelled or lose a
later exchange.

**RetainedContributions** is the store of per-file contributions with its two
reverse indexes and a materialization that reuses them. Its subject is the
suppression union: a symbol some file names as a structural accessor has no
descriptor anywhere, so an edit in one file can change the rows of another that
no update named. A descriptor has two parts: what the declaration makes of the
type (`decl`), and what the place makes of it at which the type was asked for (`at`,
from the constant `TypeAt`: narrowing, instantiation). Of a run's demands for a
symbol the first decides for all files, unless a retained file seeds it. `Remove` and `Add` take a set of paths: every entry of an index
names the path it is for, so the order of the code's loops over a map (Go leaves
it open) does not matter.

**Identities** is how symbols get names that outlive the checker: by path and
name where a module exports them, by span otherwise, by a counter where two
symbols share a declaration or there is none. `held` are the identities in
facts retained per file; the maps to and from symbols are dropped at every
release and update. Copies of a symbol stand for the checker's own second
symbol for one declaration.

**ServeLoop** is `serve`: main loop, worker, writer, two queues, the cancels
map, and a client that may pipeline any frames. The reader goroutine only moves
a frame from the pipe into a channel and is part of the pipe.

**Connection** composes ServeLoop with the client threads: caller, reader
thread, cancelling thread, and the thread that reads the startup handshake of a
new connection and hands it over, or not, before the caller's timeout. `alive`
is the producer process; after its death the frames in its output pipe can
still be read.

A definition named as a mutant in a comment is a deliberately wrong variant of
the definition that follows it, kept to show that the properties notice.

## Runs

| Run | Configuration | States | Shows |
|---|---|---|---|
| session | MCSession | 95,719 | every table returned is the fresh one (`ReturnedTableFresh`), the token proves agreement, retained contributions stay fresh, generations agree between calls and a replay that broke off costs at most one refused read or analysis, calls return |
| replay | MCReplayLog | 18,513 | overlays restored, updates applied once, one overlay per path, calls return |
| serve | MCServeLoop | 441,152 | arrival order, one answer each, cancels hit their target only, drain, termination |
| connection | MCConnection | 541,782 | own answer, arena intact, cancel aimed, a waiting caller has a reader, every call returns, through two crashes, malformed replies, failed writes and handshakes that time out |
| demand_store | MCDemandStore | 132,789 | path order, exact rollback, every changed path named, runs that mean their request, refinement of DemandSet |
| table | MCTable | 658,858 | the client holds the producer's table after every accepted transition, refuses none, its indexes are canonical, and the changes reported are exactly the rows that differ |
| references | MCReferences | 4,369 | lists kept or patched name no reference that is gone, the exact change set covers every list that moved, patching complete lists leaves complete lists, declarations stay indexed by path |
| contributions | MCContributions | 6,917 | the client has descriptors for just the symbols a run over all files describes, each of the type as it is declared now; the reverse indexes mirror the store |
| identities | MCIdentities | 18,550 | identities in retained facts are those of a restart, resolve, and are not shared |

Bounds. *session*: three files in a chain, all configured, with an edit that
keeps the exported shape, edits that change it, drop an import or close an
import cycle, and a two-file batch; three demand sets that add, remove and
change runs and ask for async facts; one file with non-durable identities. Three
generations and three published analyses per producer allow a table, a delta on
it, and a delta after a failure in between; crashes are unbounded. *replay*: two
paths, three batches, three versions, unbounded crashes; one text is enough
because an overlay is told apart by its version. *serve*: three frames of any
kind, since every property relates at most a request, its cancel and one
bystander. *connection*: two calls and one cancel, so that a cancel meant for
the first can meet the second; two crashes, so that a restart itself can fail.
*demand_store*: three paths and four demands, two of them on one path, one path
not spelled clean, one query into another file; any two of them in any order,
and longer requests with the demands of a path apart, plain and compact, with
removals and resets, so that a run falls before, between and behind the groups
there are and runs of different frames lie side by side. Here deadlock is
checked. *table*: three paths and two symbols, leaves of one row that split at
the third (64 in the code) and a linear rebuild from two operations on (32), so
that every path of the table code is taken; any number of analyses over two
generations. *references*: three files with an alias across two of them, two
updates, analyses unbounded, in-place refresh of at most one file (64) so that
both the refresh and the full build happen. *contributions*: three files, four
updates, four demand sets between which accessors come, go and change hands,
and a file that narrows a type under its second text.
*identities*: two modules with a re-export, an exported name, a member of it and
a local; three updates, single edits that move, reshape or withdraw a
declaration, and two-file rebuilds. Except for demand_store, deadlock is not
checked: after the bounded number of calls or updates the system rests.

Fairness. Each thread and goroutine is weakly fair: it takes its next step if it
can. The compiler's work ends, the operating system runs the threads, and the
client blocks without a timeout, so nothing stronger is needed. The five-second
timeout of the handshake is an alternative of the caller's step that may fire as
long as nothing was handed over, whether or not the child has reported, so the
caller's wait ends; the thread it then joins is fair. Nothing is assumed about calls, cancels or crashes.
`CallsReturn` of TypeFactsSession and of ReplayLog therefore says of an update only
that it returns if the producer stops dying (`<>[][~Crash]_vars`): on a failed send
`update_during` restarts and calls `update` again, without a bound (session.rs:834).
Reads and analyses return whatever crashes.
`CallsReturn` and `WaiterHasReader` of Connection exclude one state, a live
connection whose reader left on a reply that does not decode (`startup.link` is
"choked"): there a call can wait for ever, see below.

### Disagreements between code and documentation

Each of the first three is a run TLC must find violated; the finding in
`PROJECT.json` quotes the line it contradicts.

* **membership**: an edit that adds the first import of a file brings that file
  into the program, but only the edited file and its importers are named in the
  manifest; the delta lacks the new file's source and file rows.
* **references_lost**: an analysis that asks for no references prunes the merged
  lists at release, and their spans were moved out of the per-file entries when
  they were merged; a second analysis of the same generation that asks for
  references gets an empty list. The same loss follows two updates without an
  analysis between them, a cancelled analysis and its retry, and a held symbol
  that enters the reference tier later. `ReferencesSound` still holds: lists are
  too short, never wrong.
* **identities_moved**: an importer that uses a member of an exported declaration
  holds the member's span identity; a shape-preserving edit that moves the
  member leaves the importer's facts in place and the identity without a
  declaration.

Others are met by changing a constant, a proviso or a property of a run above and
have no run of their own:

* With `INVARIANT RowsAsFresh` in `MCContributions.cfg`, TLC finds it violated. A
  file that asks for a symbol's type first gives its descriptor to the others. When
  it is edited and the type at its place becomes another one, say by narrowing,
  the recomputation is seeded from a retained file that copied the old descriptor,
  so the edited file gets it back; a run over all files would describe the type anew.
  `semantic_retained.go:394` says that descriptors the retained files carry "are
  what a whole-batch run would have cached before reaching the recomputed demands",
  and `docs/warm-incremental-performance.md:39` that "all retained tables byte-match a
  fresh full Wire table transition". What the declaration makes of the type is right
  all the same (`RowsDeclaredAsFresh`).
* With `AsyncTargets` naming another (script) file, `ManifestNamesEveryChange`
  fails: the async facts change that file's row and the manifest does not name
  it.
* With `MonotoneVersions = FALSE`, `OverlaysRestored` fails: a change the
  producer ignores, its version not being newer, supersedes in the log the
  overlay the producer kept. With `ReplayMayBeRefused = TRUE` it fails too: a
  batch refused during a replay leaves a live producer without the overlays
  that follow.
* A producer that dies half way through a replay leaves the session at a
  generation below the one it reported. The next read or analysis is stamped with
  that generation, finds no producer, restarts it in full and is refused with
  generation-mismatch; the one after is answered. `GenerationsAgree` says that this
  is all: an update is never refused, and between calls a live producer and the
  session agree.
* Without the proviso, `CallsReturn` of Connection fails: a symbols reply that
  does not decode ends the reader, nothing restarts the connection, and the
  next call waits for ever.
* A cancel can overtake its target, since the active request is visible to
  `cancel_active` before its frame is written; it then reaches nobody.
* After a failed symbol exchange, a first analysis without demands finds the
  released table and gets an empty "full" one; the session's demand sets
  therefore always demand something.
* A file that joins the program through an edit of another is not scanned by
  the reference index while merged lists exist, and its exports get no entry
  among the exported identities until everything is collected again: their
  identities are then those of their spans, not of a restart. The same holds of
  a barrel's exports when one of its re-exports was broken at the last full
  collection.

The *session*, *references* and *identities* runs are over instances without
these gaps: every file is configured, async demands name functions of their own
file, and importers use exported names. The *replay* run has growing versions
and no refusals. With files that come and go, `Invalidate` of ReferenceIndex would
also have to take out another file's references than the code means to: a file that
joined after the index was built has no place among its paths (references.go:70).

## Proofs

`ReplayLogProof` proves, for every set of paths and texts and every bound:

* `TypeCorrect`: `TypeOK` is an invariant. The only step with content is that a
  pruned log is still a sequence of batches (`PrunedLog`).
* `ReplayInvariantHolds`: `ReplayInvariant` is inductive, assuming growing
  versions and a producer that accepts the batches it accepted before.
  `OverlaysRestored` is not inductive by itself: half way through a replay the
  producer has only a prefix, and what it will end up with depends on the log.
  The invariant therefore says what the log stands for (the batch the index
  names holds the acknowledged overlay of a path), what a producer has after
  `position` batches, and that a pending update is newer than what is
  acknowledged, so that sending it again has the effect it had the first time.
* `ReplayRestores`, `UpdatesAppliedOnce`: `OverlaysRestored`, `AppliedOnce`, and `BatchPerGeneration`,
  that session, producer and log agree on the generation.
* `LogIsBounded`: `OneOverlayPerPath`, without those two assumptions.

`DemandStoreProof` proves, for every set of path numbers, every set of runs and
every set of requests:

* `StoreInvariantHolds`: `StoreInvariant` is inductive. That a rollback ends at
  the published groups cannot be shown from the groups alone, since each undo
  entry holds an index that is right only for the groups its edit was made in.
  The invariant therefore keeps that history (`trail`): every store along it is
  in path order, and each entry of the log leads from one to the one before.
  `ReplaceKeepsOrder`, `InsertKeepsOrder` and `RemoveKeepsOrder` show for each
  edit that it keeps the order and that its entry undoes it.
* `PathOrderHolds`, `RollbackIsExact`: its consequences for the code.
* `ClosureIsTold`: `ChangedPathsComplete`. Its invariant `Announced` adds that
  what is still to be edited is announced already; an edit then changes no other
  path (`ReplaceElsewhere`, `InsertElsewhere`, `RemoveElsewhere`).
* `StoreImplements`: `Implements`, the refinement of `DemandSet`, where the runs of
  each request mean its demands (`[]RunsMeanRequest`: one run per path, and what is
  read from it are the rows demanded there; two runs of one path would overwrite each
  other). `Progress` says of a transaction under way what the store holds of each
  path after the runs placed and the paths removed so far; `AsSetReads` turns the
  store into the demand set path by path. All steps but `Commit` then leave the abstract
  state alone, ask or withdraw; `Commit` publishes (`CommitPublishes`).

`SessionProof` proves about `TypeFactsSession`, for every program, every set of
demand sets and edits and every bound:

* `ProtocolHolds`: `ProtocolInvariant` is inductive. None of the session's
  properties is: what a token proves depends on the answer under way. The
  invariant has six parts. `Shapes`: among the types, that a request with a token
  presents the client's own unless a restart took it, and that its edits lead
  from the retained demands to the wanted ones. `InStep`: generation and sources
  of a live producer are the client's, but for an update it applied and whose
  answer is under way. `Stamped`: the session counts short of its log only while it
  has no producer, and a request is stamped otherwise than the session counts only if
  it outlived a restart; that confines a generation-mismatch to one resent read
  or analysis. `RetainedTogether`. `TokenOfTable`: producer's token,
  demands and header stand for one table, and a client with that token has the
  demands and the generation of it. `AnswerPending`: what an answer, or an analysis
  waiting for its symbols, will publish fits the client that is going to receive it.
* `SessionTypeCorrect`, `GenerationsAlwaysAgree`, `PublishedTogether`,
  `TokenIsProof`, `NoAnswerRefused`: `TypeOK`, `GenerationsAgree`,
  `RetainedTogether`, `TokenProvesAgreement`, `AnswersAccepted`.

Its second half proves `ContributionsFresh` (`ContributionsStayFresh`) and the action
property `ReturnedTableFresh` (`ReturnedTablesAreFresh`) under the hypothesis `WholeProgram`, whose three parts are
the provisos of the *session* run: every file is configured (otherwise the
membership finding above is a counterexample), async demands name functions of
their own file (otherwise the manifest misses a row), and no demand set is empty
(otherwise a released table can be found again). On top of `ProtocolInvariant`
the invariant says that each contribution has the rows a recomputation gives
(`ContribFresh`), cached async facts of paths nobody named are right
(`AsyncFresh`), and where no path was named since the last table the client's
table agrees with the producer's sources (`BaseAgrees`), so that a delta of the
named paths makes it fresh. The graph argument is `ClosureMinimal`: the files
reached from a file outside the affected set form a closed set that the edit does
not touch. The theorem holds for any import graph, cycles included.

The first half of `ConnectionProof` proves about `ServeLoop`, for any number of frames: `ServeTypeOK`,
`ArrivalOrder`, `OnlyTargetsCancelled` and `DrainAnswersAll`. `PipelineInvariant`
keeps the accepted requests equal to the written answers followed by the queues
(`Orderly`), the identity of a request equal to its place among the accepted
(`Positions`), and the trail of a cancelled answer: a verdict comes from a fired
cancellation, which comes from an accepted frame that names the request
(`VerdictTrail`, `FiredTrail`).

Its second half proves about `Connection`, for any number of calls, cancels,
crashes and restarts: `TypeOK`, `AnswersOwnRequest`, `ArenaIntact`,
`WaiterHasReader` and `CancelledOnlyIfAimed`. Its `ConnectionInvariant` rests on the
`Row`: the identities in the output pipe, the response queue, the worker, the job
queue and the input pipe, in this order, are distinct, so that an answer read can
belong to one request only. Around it are what a call in each of its phases may
find in the Row, that only one call at a time can have an analysis there (the
arena is overwritten by the next one), and the aim trail: each cancel frame under
way names a request of a call in `aimed` or one that is gone. `WaiterHasReader`
needs `ArenaIntact`: a reader that met a response whose rows are lost would leave.

`ContributionsProof` proves about `RetainedContributions`, for any files, symbols,
accessors and demand sets and any dependence of types on their places:

* `IndexesAlwaysMirror`: `IndexesMirrorStore`.
* `RowsAlwaysAsDeclared`: `RowsDeclaredAsFresh`. While there is a table to compare
  with, `ContributionsInvariant` says that each retained contribution has descriptors
  for the symbols its file asks for and the last suppression union leaves, each made
  of the declaration as it is now (`Describes`), that it names no generation-scoped
  symbol, and that the client has its rows. `MaterializeComplete` is the heart: the
  union under which retained rows were computed may differ from the one of a run
  over all files in generation-scoped symbols, which no retained file describes;
  where it differs otherwise the reverse index finds the file and it is computed
  again. `UnmovedHolds` shows that the direct dependents are all an update can move,
  seeds included: a file that carries a descriptor depends on the declaring file.
* `ReuseIsInvisible`: `RowsAsFresh`, where no type depends on its place
  (`SameEverywhere`); the first item of the disagreements without a run is the
  counterexample otherwise.

`ReferencesProof` proves about `SymbolClosure` and its `ReferenceIndex`, for any
symbols, uses, demands, edits and failures:

* `DeclarationsStayIndexed`: `DeclarationsIndexed`, without a hypothesis.
* `ListsStaySound`, `ChangesStayCovered` and `PatchingKeepsComplete`:
  `ReferencesSound`, `ChangesCoverMoves` and the action property
  `PatchKeepsComplete`, where every file is configured (`Roots = Paths`; with
  files that come and go the membership finding above lets an update miss a file
  whose references move). `ReferencesInvariant` says of the producer that what the
  index holds of a file is true of the present sources, though pruned, and that
  a merged index has an entry for every file or is about to scan it again
  (`IndexTrue`); of the client that its rows are true of the sources it has seen
  (`ListsTrue`); and of both, as long as the producer can still compare with the
  client's table, that nothing moved outside the affected paths (`Away`) and
  that a file whose references moved has no entry and its old symbols are reported
  (`Covered`). The last part is what `ChangesCoverMoves` needs and cannot give: half
  of a move is recorded when an update drops an entry, the other half when the file
  is scanned again. The graph argument is `UnaffectedUndisturbed`: a file outside
  the affected set lies in a set of files that imports do not leave and whose
  aliases stand still. It rests on `ReferenceAssumption`: what a file uses or
  re-exports is declared in the file or in one it imports, and an alias moves only
  with the exported shape.
* `ReferencesComplete` is not a theorem: the run *references_lost* violates it.

`IdentitiesProof` proves about `Identities`, for any files, texts, symbols and edits:

* `IdentitiesStayPaired`: `OneSymbolPerId`, without a hypothesis. `PairedInvariant`
  adds that an identity without a declaration is one the counter has passed, and
  that retained facts hold none of those.
* `RestartStaysStable` and `HeldIdsKeepResolving`: `RestartStable` and
  `HeldIdsResolve`, under four hypotheses, each of them needed. Every file is
  configured (`Roots = Paths`). Importers use exported names, not members of them
  (`ImportersUseExports`; *identities_moved* is the counterexample). Exported
  declarations have one checker symbol each (`OneSymbolPerExport`: of two, the
  second gets its span's identity while the first has the exported one). Every
  re-export resolves in every state (`[]ExportsResolve(src)`: one that dangles makes
  `collectExportedIdentities` skip the file, which an update of another file does
  not notice). The invariant says of the maps that a durable identity is the one a
  restart gives, and that a declared symbol without one shares its declaration with
  a symbol that has it (`Named`); of a retained fact that its symbol is the file's
  own or an export of a direct import, and that the durable reference is the
  declaration's present place (`FactTrue`). That is what an update behind the
  semantic cutoff can keep: the exports of the edited file are the same names and
  their references are set anew.

`TableProof` proves about `TableTransition`, and with it about `WireTransition`,
`PackedIndex` and `RetainedTable`, for any paths, rows
and symbols, any leaf size and any threshold between the two ways of applying a
delta:

* `ClientIsExact`, `NoResponseRefused`, `IndexesStayCanonical` and the action
  property `DeltasReportExactly`: `ClientHoldsTarget`, `ResponsesAccepted`,
  `IndexesCanonical` and `ChangesExact`.

The argument has three layers. A packed index is well formed (`Well`) when its
leaves are within bounds and keys ascend through it; then it stands for a set of
rows with distinct keys (`Content`), `Lookup` finds the row of a key in that set,
and `Updated`, `Split`, `FromSorted` and the linear merge change that set as the
operations on it say (`LookupOpt`, `UpdatedWell` and so on). The two ways to apply a
sequence of operations therefore agree, since both do to each key what the
operations of that key say. A plan from `old` to `new` is right when its
operations, in strict order and none of them empty, take the rows of `old` at the paths and
ids they name to those of `new`, and nothing differs elsewhere (`PathPlanOk`,
`SymPlanOk`); every planner gives such a plan, the manifest ones because a manifest
names at least what changed. For symbols with references moved run by run, the
state of a symbol is a function from paths to runs, and flattening its runs in path
order gives the list back, because the lists are sorted by path. Last, the
client's table `Represents` a table of the producer when its indexes hold that
table's rows and its counts are theirs.

`TableInv` is the inductive invariant: what the producer retains is a table; the
client's table represents some table the producer published; it is the last one
when no response is in flight; and a response in flight, if it is a delta, was
planned from the table that the client's represents. The last part is what the
properties need and do not say: that a delta is accepted and exact depends on
the table it was planned against, which the client does not see. The invariant
quantifies over all tables, so TLC checks its consequences and not the
invariant itself. `TableAssumption` says that a symbol's
references are in canonical order and that an alias has none, as the decoder
demands and the producer's tables have; `KeysAssumption` that paths and ids are
numbers, standing for names in their order.

A file's symbols are named in a fold, and deltas are applied and planned by recursive
functions over sequences, so these proofs are by induction over a length.
The library's induction theorems take an operator, which the provers cannot
instantiate; `SetInduction` states induction for a set instead, from `WFMin` and
the well-foundedness of `<`, and `FoldChain` unfolds the fold into the chain of
books it goes through.

Each inductive invariant but `TableInv` was checked by TLC on the instance of its
run before it was proved. The hypotheses are the named assumptions on the constants
(`SessionAssumption`, `ProgramAssumption`, `ContributionAssumption`,
`DemandStoreAssumption` and so on), which give them their types, and where stated
`WholeProgram`, growing versions and an accepted replay; that path names are totally
ordered is expressed by taking them as numbers.

Only model-checked:

* liveness (`CallsReturn` of the session, the replay and the connection,
  `RequestsAnswered`, `ServeEnds`), which needs fairness and `ENABLED`;
* `RunsMeanRequest`, the hypothesis of `StoreImplements`: what a packed run expands
  to depends on a dictionary built by a fold and on sums of flags and distances.

## Plan

1. *Done*: all modules and runs above; the proofs of ReplayLog, DemandStore,
   TypeFactsSession, ServeLoop, Connection, RetainedContributions, ReferenceIndex,
   SymbolClosure, Identities and TableTransition.
2. Proof left: `RunsMeanRequest`, the packing of `CompactDemands` and the grouping of
   `DemandRuns` for every request.

## Not modelled

* What a demand says about one location (`tsgo/semantic_entities.go`,
  `resolved_calls.go`, the shape, constant and library-type modules): a
  computation over the TypeScript checker, which is external. The batch
  structure around it is in RetainedContributions.
* CBOR, varints, the packing of a row's fields and the transition's string
  dictionary: stateless encodings, left to round-trip tests. What the decoder
  refuses for its order or consistency is in WireTransition.
* The producer's own symbol closure and symbol store: no caller outside tests.
* Reference spaces, runtime identities, global scripts and module augmentations
  in the compiler project; for the last two `Update` fails closed by naming
  every file.
* The shims, tracing, statistics and timings.
