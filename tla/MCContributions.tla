--------------------------- MODULE MCContributions ---------------------------
(* Three files; 3 declares s and t.  Under one of its texts, or one of its  *)
(* runs, a file names s or t as an accessor where it described it before.   *)
EXTENDS RetainedContributions, TLC

MCPaths   == {1, 2, 3}
MCTexts   == {1, 2}
MCSymbols == {"s", "t", "n"}
MCRuns    == {"describe", "access"}

MCDeclarer == ("s" :> 3) @@ ("t" :> 3) @@ ("n" :> 1)

MCAccessors ==
  << "describe" :> <<{}, {"s"}>> @@ "access" :> <<{"t"}, {"s", "n"}>>,
     "describe" :> <<{}, {}>>    @@ "access" :> <<{"s"}, {"t"}>>,
     "describe" :> <<{}, {}>>    @@ "access" :> <<{"t"}, {}>> >>

MCDescribed ==
  << "describe" :> <<{"s", "t"}, {"t"}>>    @@ "access" :> <<{"s"}, {"n"}>>,
     "describe" :> <<{"s", "t"}, {"s"}>>    @@ "access" :> <<{"t"}, {"s"}>>,
     "describe" :> <<{"t"}, {"s", "t"}>>    @@ "access" :> <<{"s"}, {"s"}>> >>

\* File 1 narrows what it names under its second text.
MCTypeAt ==
  [p \in MCPaths |-> [r \in MCRuns |-> [t \in MCTexts |-> [s \in MCSymbols |->
    IF p = 1 /\ t = 2 THEN "narrowed" ELSE "declared"]]]]

MCDemandSets ==
  { 1 :> "describe" @@ 2 :> "describe",
    1 :> "access" @@ 2 :> "describe" @@ 3 :> "describe",
    2 :> "access" @@ 3 :> "describe",
    1 :> "describe" @@ 2 :> "describe" @@ 3 :> "access" }

=============================================================================
