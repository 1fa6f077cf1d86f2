------------------------------ MODULE DemandRuns ------------------------------
(***************************************************************************)
(* The runs of a request: begin and beginCompact, up to beginRuns.  A group *)
(* is a clean path, a number in the order of the clean path names, and its  *)
(* run.                                                                     *)
(***************************************************************************)
EXTENDS CompactDemands

\* Where a run of neighbours with one clean path begins.
Starts(changes) ==
  SetToSortSeq({i \in DOMAIN changes :
                  i > 1 => Clean(changes[i].path) # Clean(changes[i - 1].path)}, <)

ContiguousRuns(changes) ==
  LET starts == Starts(changes)
      End(k) == IF k = Len(starts) THEN Len(changes) ELSE starts[k + 1] - 1
  IN  [k \in DOMAIN starts |->
         [ path    |-> Clean(changes[starts[k]].path),
           demands |-> SubSeq(changes, starts[k], End(k)) ]]

Ascending(groups) ==
  \A i, j \in DOMAIN groups : i < j => groups[i].path < groups[j].path

\* The compatibility path of a request that is not in path order.
GroupedRuns(changes) ==
  LET paths == SetToSortSeq({Clean(changes[i].path) : i \in DOMAIN changes}, <)
      Of(p) == SelectSeq(changes, LAMBDA demand : Clean(demand.path) = p)
  IN  [k \in DOMAIN paths |-> [path |-> paths[k], demands |-> Of(paths[k])]]

\* Mutant: a request out of path order is not grouped.
UngroupedDemandRuns(changes) == ContiguousRuns(changes)

\* sessionChangedDemandRuns.
SessionChangedDemandRuns(changes) ==
  IF Ascending(ContiguousRuns(changes)) THEN ContiguousRuns(changes)
                                        ELSE GroupedRuns(changes)

\* canonicalDemandRun: clean rows in the order of their places.
CanonicalRun(demands) ==
  SortSeq([i \in DOMAIN demands |-> Row(demands[i])],
          LAMBDA left, right : left.at < right.at)

\* begin.
PlainRuns(changes) ==
  LET runs == SessionChangedDemandRuns(changes)
  IN  [k \in DOMAIN runs |->
         [ path |-> runs[k].path,
           run  |-> [strings |-> << >>, rows |-> CanonicalRun(runs[k].demands)] ]]

\* beginCompact: the packed groups as the client made them, each with the
\* dictionary of its frame, sorted by clean path.
CompactRuns(frame) ==
  SortSeq([g \in DOMAIN frame.groups |->
             [ path |-> Clean(Lookup(frame.strings, frame.groups[g].path)),
               run  |-> [strings |-> frame.strings, rows |-> frame.groups[g].rows] ]],
          LAMBDA left, right : left.path < right.path)

\* A path named by two groups is refused before anything is touched.
CompactValid(frame) == Ascending(CompactRuns(frame))

=============================================================================
