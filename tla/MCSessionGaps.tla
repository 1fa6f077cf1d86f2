---------------------------- MODULE MCSessionGaps ----------------------------
(* Two files, for the instance in which the client's table is not the table *)
(* of its generation: the program gains a file by an edit of another.       *)
EXTENDS TypeFactsSession, TLC

GapPaths == {"a", "b"}
GapTexts == {"t1", "t2"}
GapRuns  == {"plain", "async"}
OnlyA    == {"a"}

GapShape == [p \in GapPaths |-> [t \in GapTexts |-> "s"]]
GapInitialSources == [p \in GapPaths |-> "t1"]

\* Text t2 of a imports b.
JoinImports ==
  [p \in GapPaths |-> [t \in GapTexts |-> IF p = "a" /\ t = "t2" THEN {"b"} ELSE {}]]

OwnAsync == [p \in GapPaths |-> [r \in GapRuns |-> IF r = "async" THEN {p} ELSE {}]]

JoinEdits      == {"a" :> "t2"}
PlainDemands   == {"a" :> "plain"}

=============================================================================
