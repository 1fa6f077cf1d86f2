---------------------------- MODULE MCReferences ----------------------------
(* File b declares s and t; a imports one of them under the name x, c uses  *)
(* either.  Texts 1 and 2 of a file export the same shape, text 3 another:  *)
(* there a imports t, and b exports t under the name s too.                 *)
EXTENDS SymbolClosure, TLC

MCPaths == {"a", "b", "c"}
MCTexts == {1, 2, 3}

MCImports == [p \in MCPaths |-> [t \in MCTexts |-> IF p = "b" THEN {} ELSE {"b"}]]
MCShape   == [p \in MCPaths |-> [t \in MCTexts |-> IF t = 3 THEN 2 ELSE 1]]
NoAsyncTargets == [p \in MCPaths |-> [r \in {} |-> {}]]

MCSymbols  == {"s", "t", "x"}
MCDeclarer == ("s" :> "b") @@ ("t" :> "b") @@ ("x" :> "a")
MCAliasOf  ==
  [i \in MCSymbols |-> [t \in MCTexts |->
     CASE i = "x" -> IF t = 3 THEN {"t"} ELSE {"s"}
       [] i = "s" -> IF t = 3 THEN {"t"} ELSE {}
       [] i = "t" -> {} ]]

MCUses ==
  ("a" :> << {<<"x", 1>>}, {<<"x", 1>>, <<"x", 2>>}, {<<"x", 1>>} >>)
  @@ ("b" :> << {<<"s", 1>>}, {<<"t", 1>>}, {} >>)
  @@ ("c" :> << {<<"s", 1>>}, {<<"s", 2>>, <<"t", 1>>}, {<<"t", 1>>} >>)

MCNamed ==
  [p \in MCPaths |-> [t \in MCTexts |->
     IF p = "a" THEN {"x"} ELSE IF p = "b" THEN (IF t = 3 THEN {"s", "t"} ELSE {"t"}) ELSE {}]]

MCInitialSources == [p \in MCPaths |-> 1]

MCEdits ==
  {"a" :> 2, "a" :> 3, "b" :> 2, "b" :> 3, "c" :> 1, "c" :> 2, "c" :> 3,
   ("a" :> 1) @@ ("c" :> 2)}

MCDemandSets == {"a" :> TRUE, "a" :> FALSE, ("a" :> TRUE) @@ ("b" :> TRUE)}

=============================================================================
