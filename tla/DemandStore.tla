----------------------------- MODULE DemandStore -----------------------------
(***************************************************************************)
(* The retained demand store of the producer's session, and the transaction *)
(* an analysis edits it with.  The groups are kept in path order and are    *)
(* edited in place; every edit leaves an entry in an undo log, which takes  *)
(* the edits back if the analysis does not publish.  A reset puts the old   *)
(* groups aside instead.                                                    *)
(***************************************************************************)
EXTENDS CompactDemands

CONSTANTS
  Paths,     \* cleaned path names, numbered in their order
  Run,       \* the runs a group can hold
  Requests   \* [valid, runs, removed, reset, demands]: what an analysis asks

Group == [path : Paths, run : Run]

ASSUME DemandStoreAssumption ==
  /\ Paths \subseteq Nat
  /\ \A request \in Requests :
       /\ request.valid \in BOOLEAN /\ request.reset \in BOOLEAN
       /\ request.runs \in Seq(Group)
       /\ request.removed \in SUBSET Paths

VARIABLES
  groups,    \* retainedDemandStore.groups
  phase,     \* "idle", "editing", "open" (the analysis runs) or "undoing"
  request,   \* the request of the transaction
  runs,      \* changed runs not yet put into the store
  removals,  \* removed paths not yet taken out of it
  undo,      \* retainedDemandTransaction.undo
  resetOld,  \* the groups a reset put aside
  changedPaths, \* what the closure is told may have changed
  committed, \* history: the groups as the last transaction left them
  trail      \* history: the groups before each entry of undo, and now

vars == <<groups, phase, request, runs, removals, undo, resetOld,
          changedPaths, committed, trail>>

NoRequest == [valid |-> FALSE, runs |-> << >>, removed |-> {}, reset |-> FALSE,
              demands |-> {}]

\* sort.Search: the first group whose path is not below p.
Search(gs, p) ==
  CHOOSE i \in 1 .. Len(gs) + 1 :
    /\ \A j \in 1 .. i - 1 : gs[j].path < p
    /\ \A j \in i .. Len(gs) : gs[j].path >= p

Holds(gs, p) == Search(gs, p) <= Len(gs) /\ gs[Search(gs, p)].path = p

\* retainedDemandStore.at: the run of a path; none is the empty sequence.
At(gs, p) == IF Holds(gs, p) THEN <<gs[Search(gs, p)].run>> ELSE << >>

Init ==
  /\ groups = << >> /\ phase = "idle" /\ request = NoRequest
  /\ runs = << >> /\ removals = {} /\ undo = << >> /\ resetOld = << >>
  /\ changedPaths = {}
  /\ committed = << >> /\ trail = << << >> >>

-----------------------------------------------------------------------------
(* begin and beginCompact.                                                 *)

\* Mutant: the closure is not told of the removed paths.
BeginRunsNamingRuns(r) ==
  /\ phase = "idle" /\ r.valid
  /\ phase' = "editing" /\ request' = r
  /\ runs' = r.runs /\ removals' = r.removed
  /\ changedPaths' = {r.runs[k].path : k \in DOMAIN r.runs}
  /\ undo' = << >>
  /\ resetOld' = IF r.reset THEN groups ELSE << >>
  /\ groups' = IF r.reset THEN << >> ELSE groups
  /\ trail' = <<groups'>>
  /\ UNCHANGED committed

\* An invalid request is answered invalid-demands and touches nothing.
BeginRuns(r) ==
  /\ phase = "idle" /\ r.valid
  /\ phase' = "editing" /\ request' = r
  /\ runs' = r.runs /\ removals' = r.removed
  /\ changedPaths' = {r.runs[k].path : k \in DOMAIN r.runs} \cup r.removed
  /\ undo' = << >>
  /\ resetOld' = IF r.reset THEN groups ELSE << >>
  /\ groups' = IF r.reset THEN << >> ELSE groups
  /\ trail' = <<groups'>>
  /\ UNCHANGED committed

\* Mutant: a run of a new path goes behind the others.
ReplaceRunLast ==
  LET group == Head(runs)
      index == IF Holds(groups, group.path) THEN Search(groups, group.path)
                                            ELSE Len(groups) + 1
  IN  /\ phase = "editing" /\ runs # << >>
      /\ IF Holds(groups, group.path)
         THEN /\ undo' = Append(undo, [kind |-> "replace", index |-> index,
                                       previous |-> groups[index]])
              /\ groups' = ReplaceAt(groups, index, group)
         ELSE /\ undo' = Append(undo, [kind |-> "insert", index |-> index,
                                       previous |-> group])
              /\ groups' = Append(groups, group)
      /\ runs' = Tail(runs)
      /\ trail' = Append(trail, groups')
      /\ UNCHANGED <<phase, request, removals, resetOld, changedPaths, committed>>

\* transaction.replace: the group of its path is overwritten, or it is put in
\* its place.
ReplaceRun ==
  LET group == Head(runs)
      index == Search(groups, group.path)
  IN  /\ phase = "editing" /\ runs # << >>
      /\ IF Holds(groups, group.path)
         THEN /\ undo' = Append(undo, [kind |-> "replace", index |-> index,
                                       previous |-> groups[index]])
              /\ groups' = ReplaceAt(groups, index, group)
         ELSE /\ undo' = Append(undo, [kind |-> "insert", index |-> index,
                                       previous |-> group])
              /\ groups' = InsertAt(groups, index, group)
      /\ runs' = Tail(runs)
      /\ trail' = Append(trail, groups')
      /\ UNCHANGED <<phase, request, removals, resetOld, changedPaths, committed>>

\* transaction.remove, for the removed paths in any order; a path without a
\* group is skipped.
RemoveRun(p) ==
  LET index == Search(groups, p)
  IN  /\ phase = "editing" /\ runs = << >> /\ p \in removals
      /\ removals' = removals \ {p}
      /\ IF Holds(groups, p)
         THEN /\ undo' = Append(undo, [kind |-> "remove", index |-> index,
                                       previous |-> groups[index]])
              /\ groups' = RemoveAt(groups, index)
              /\ trail' = Append(trail, groups')
         ELSE UNCHANGED <<undo, groups, trail>>
      /\ UNCHANGED <<phase, request, runs, resetOld, changedPaths, committed>>

Begun ==
  /\ phase = "editing" /\ runs = << >> /\ removals = {}
  /\ phase' = "open"
  /\ UNCHANGED <<groups, request, runs, removals, undo, resetOld,
                 changedPaths, committed, trail>>

-----------------------------------------------------------------------------
(* The end of the transaction.                                             *)

\* finish, which commit and rollback share.
Finish ==
  /\ phase' = "idle"
  /\ undo' = << >> /\ resetOld' = << >> /\ changedPaths' = {}
  /\ request' = NoRequest
  /\ trail' = <<groups'>>
  /\ UNCHANGED <<runs, removals>>

Commit ==
  /\ phase = "open"
  /\ UNCHANGED groups
  /\ committed' = groups
  /\ Finish

\* Mutant: the groups put aside are not brought back.
RollbackResetCleared ==
  /\ phase = "open" /\ request.reset
  /\ groups' = << >>
  /\ UNCHANGED committed
  /\ Finish

\* The analysis fails or is cancelled: rollback.
RollbackReset ==
  /\ phase = "open" /\ request.reset
  /\ groups' = resetOld
  /\ UNCHANGED committed
  /\ Finish

RollbackBegins ==
  /\ phase = "open" /\ ~request.reset
  /\ phase' = "undoing"
  /\ UNCHANGED <<groups, request, runs, removals, undo, resetOld,
                 changedPaths, committed, trail>>

\* One entry of the log taken back.
Undone(gs, entry) ==
  CASE entry.kind = "replace" -> ReplaceAt(gs, entry.index, entry.previous)
    [] entry.kind = "insert"  -> RemoveAt(gs, entry.index)
    [] entry.kind = "remove"  -> InsertAt(gs, entry.index, entry.previous)

\* The newest entry is undone first.
UndoLast ==
  /\ phase = "undoing" /\ undo # << >>
  /\ groups' = Undone(groups, Last(undo))
  /\ undo' = Front(undo)
  /\ trail' = Front(trail)
  /\ UNCHANGED <<phase, request, runs, removals, resetOld, changedPaths, committed>>

RolledBack ==
  /\ phase = "undoing" /\ undo = << >>
  /\ UNCHANGED <<groups, committed>>
  /\ Finish

-----------------------------------------------------------------------------

Next ==
  \/ \E r \in Requests : BeginRuns(r)
  \/ ReplaceRun \/ (\E p \in removals : RemoveRun(p)) \/ Begun
  \/ Commit \/ RollbackReset \/ RollbackBegins \/ UndoLast \/ RolledBack

Spec == Init /\ [][Next]_vars

-----------------------------------------------------------------------------
(* Properties.                                                             *)

Kinds == {"replace", "insert", "remove"}
Entry == [kind : Kinds, index : Nat \ {0}, previous : Group]

\* Every variable keeps its shape.
TypeOK ==
  /\ groups \in Seq(Group) /\ resetOld \in Seq(Group) /\ committed \in Seq(Group)
  /\ phase \in {"idle", "editing", "open", "undoing"}
  /\ request.reset \in BOOLEAN
  /\ runs \in Seq(Group) /\ removals \in SUBSET Paths
  /\ undo \in Seq(Entry)
  /\ changedPaths \in SUBSET Paths
  /\ trail \in Seq(Seq(Group))

Sorted(gs) == \A i, j \in 1 .. Len(gs) : i < j => gs[i].path < gs[j].path

\* The groups are in path order, one per path, after every single edit and every
\* single undo, so that the binary searches of replace, remove and at find what
\* is there.
PathOrder == Sorted(groups)

\* After any prefix of replacements and removals is taken back, and between
\* transactions, the store is what the last published analysis left, to the
\* position of every group.
RollbackRestores == phase = "idle" => groups = committed

\* The inductive invariant behind the two properties above: the undo log leads
\* from the store back to the published one, each entry from a store in path
\* order to the store in path order its edit was made in.
StoreInvariant ==
  /\ Len(trail) = Len(undo) + 1
  /\ groups = trail[Len(trail)]
  /\ \A i \in 1 .. Len(trail) : Sorted(trail[i])
  /\ \A i \in 1 .. Len(undo) : trail[i] = Undone(trail[i + 1], undo[i])
  /\ Sorted(committed)
  /\ phase = "idle" => groups = committed
  /\ phase # "idle" => IF request.reset THEN resetOld = committed
                                        ELSE trail[1] = committed
  /\ phase = "undoing" => ~request.reset

\* The closure is told of every path whose run differs from the published one:
\* unchanged paths are never hashed again.
ChangedPathsComplete ==
  (phase = "open" /\ ~request.reset) =>
    \A p \in Paths \ changedPaths : At(groups, p) = At(committed, p)

\* What an analysis reads of a run: its rows, and the rows that ask for async
\* facts.
Read(run) == [rows |-> ToSet(Expanded(run)), async |-> ToSet(AsyncRows(run))]

AsSet(gs) == [p \in {gs[i].path : i \in DOMAIN gs} |-> Read(gs[Search(gs, p)].run)]

Abstract == INSTANCE DemandSet WITH demanded <- AsSet(committed), asked <- request

\* What begin and beginCompact make of a request means its demands: one run for
\* each path, from which an analysis reads the rows demanded there, also when
\* they were packed or came out of order.
RunsMeanRequest ==
  phase # "idle" =>
    /\ \A i, j \in DOMAIN request.runs :
         request.runs[i].path = request.runs[j].path => i = j
    /\ Abstract!Named(request) = {request.runs[k].path : k \in DOMAIN request.runs}
    /\ \A k \in DOMAIN request.runs :
         Read(request.runs[k].run) = Abstract!RowsAt(request, request.runs[k].path)

\* The store implements the promise of DemandSet: an analysis replaces and
\* removes exactly what its request says, when it publishes, in one step, and a
\* packed run still means the same demands analyses later, under the dictionary
\* of the frame it came in.
Implements == Abstract!Spec

=============================================================================
