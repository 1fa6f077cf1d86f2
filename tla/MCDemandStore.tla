---------------------------- MODULE MCDemandStore ----------------------------
(* Three paths, two demands on the first: requests out of path order, with  *)
(* the demands of one path apart, a path that is not spelled clean, a query *)
(* location in another file, and removals of any paths, also of paths the   *)
(* same request demands.                                                    *)
EXTENDS DemandStore, DemandRuns, FiniteSets

Path(p) == [clean |-> p, dotted |-> FALSE]

First  == [path |-> Path(1), at |-> 1, wants |-> {"symbol"}, query |-> << >>]
Second == [path |-> Path(1), at |-> 3, wants |-> {"async", "references"},
           query |-> <<[clean |-> 3, dotted |-> TRUE]>>]
Dotted == [path |-> [clean |-> 2, dotted |-> TRUE], at |-> 1, wants |-> {"async"},
           query |-> << >>]
Third  == [path |-> Path(3), at |-> 2, wants |-> {"parameterObjectShape"},
           query |-> <<Path(1)>>]

MCPaths == 1 .. 3

\* Plain rows or packed ones.
MCRun ==
  [ strings : Seq([clean : 0 .. 3, dotted : BOOLEAN]),
    rows : Seq([at : Nat, wants : SUBSET DOMAIN FlagOf, query : Seq(MCPaths)]
               \cup [header : Nat, delta : Nat, query : Seq(Nat)]) ]

Pairs(demands) == {s \in SeqOf(demands, 2) : IsInjective(s)}

PlainChanges ==
  Pairs({First, Second, Dotted, Third})
    \cup {<<First, Dotted, Second>>, <<Third, Second, Dotted, First>>}

CompactChanges ==
  Pairs({First, Second, Third})
    \cup {<<First, Third, Second>>, <<First, Second, Dotted, Third>>}

\* The removed paths of a request, and whether it resets.
Removals == {<<{}, FALSE>>, <<{1}, FALSE>>, <<{2, 3}, FALSE>>, <<{1}, TRUE>>}

\* What the request means: the clean path and row of every demand.
Meant(changes) ==
  {[path |-> Clean(demand.path), at |-> Row(demand)] : demand \in Range(changes)}

Plain(changes, removed, reset) ==
  [ valid |-> TRUE, runs |-> PlainRuns(changes), removed |-> removed,
    reset |-> reset, demands |-> Meant(changes) ]

Compact(changes, removed, reset) ==
  LET frame == CompactDemandsFrom(changes)
  IN  [ valid |-> CompactValid(frame), runs |-> CompactRuns(frame),
        removed |-> removed, reset |-> reset, demands |-> Meant(changes) ]

MCRequests ==
  {Plain(c, r[1], r[2]) : c \in PlainChanges, r \in Removals}
    \cup {Compact(c, r[1], r[2]) : c \in CompactChanges, r \in Removals}

=============================================================================
