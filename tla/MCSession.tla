------------------------------ MODULE MCSession ------------------------------
(* A chain of three files, a -> b -> c, all included by the configuration.  *)
(* Texts t1 and t2 export the same shape and import the same files; t3      *)
(* exports another shape, and imports otherwise: b drops its import of c,   *)
(* and c closes a cycle by importing a.                                     *)
EXTENDS TypeFactsSession, TLC

MCPaths == {"a", "b", "c"}
MCTexts == {"t1", "t2", "t3"}
MCRuns  == {"plain", "async"}

Chain   == ("a" :> {"b"}) @@ ("b" :> {"c"}) @@ ("c" :> {})

Changed == ("a" :> {"b"}) @@ ("b" :> {}) @@ ("c" :> {"a"})

MCImports ==
  [p \in MCPaths |-> [t \in MCTexts |-> IF t = "t3" THEN Changed[p] ELSE Chain[p]]]
MCShape   == [p \in MCPaths |-> [t \in MCTexts |-> IF t = "t3" THEN "s2" ELSE "s1"]]
MCAsyncTargets ==
  [p \in MCPaths |-> [r \in MCRuns |-> IF r = "async" THEN {p} ELSE {}]]

MCInitialSources == [p \in MCPaths |-> "t1"]

MCEdits == { "b" :> "t2", "b" :> "t3", "c" :> "t3", ("a" :> "t2") @@ ("c" :> "t2") }

MCDemandSets ==
  { "a" :> "plain", ("a" :> "async") @@ ("b" :> "plain"),
    ("a" :> "plain") @@ ("c" :> "async") }

=============================================================================
