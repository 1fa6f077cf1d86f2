---------------------------- MODULE DemandClosure ----------------------------
(***************************************************************************)
(* The producer's demand closure: the fact table of the current            *)
(* generation, what is known about its predecessor, the contributions      *)
(* retained per file and the cached async facts.  Its operations are       *)
(* functions of the closure's state, a record with the fields              *)
(*                                                                         *)
(*   gen      generation of the accepted source state                      *)
(*   table    the materialized table, or NoTable                           *)
(*   prev     whether previousTable is there to be the base of a manifest  *)
(*   changed  transportChangedPaths, or NoPaths                            *)
(*   contrib  path -> [run, rows, live, deps]; live is FALSE once the rows *)
(*            went to the client and only compact seeds are kept           *)
(*   async    path -> cached async facts, or NoAsync                       *)
(***************************************************************************)
EXTENDS ProgramModel

CONSTANTS NoPaths, NoAsync

ASSUME NoPathsAssumption == \A S \in SUBSET Paths : S # NoPaths

\* Generations count from 1.
NoTable == [gen |-> 0]

InitClosure ==
  [ gen |-> 1, table |-> NoTable, prev |-> FALSE, changed |-> NoPaths,
    contrib |-> Empty, async |-> NoAsync ]

\* resetAnalysisStateLocked: everything derived goes, the generation stays.
ResetAnalysisState(cl) ==
  [ gen |-> cl.gen, table |-> NoTable, prev |-> FALSE, changed |-> NoPaths,
    contrib |-> Empty, async |-> NoAsync ]

DirectDependents(cl, paths) ==
  {p \in DOMAIN cl.contrib : cl.contrib[p].deps \cap paths # {}}

\* Mutant: only the affected paths are invalidated, not their dependents.
ClosureUpdateDirectOnly(cl, edited, affected) ==
  LET direct == edited \cup affected
  IN  [ gen     |-> cl.gen + 1,
        table   |-> NoTable,
        prev    |-> cl.table # NoTable,
        changed |-> direct,
        contrib |-> Restrict2(cl.contrib, Paths \ direct),
        async   |-> cl.async ]

ClosureUpdate(cl, edited, affected) ==
  LET direct  == edited \cup affected
      invalid == direct \cup DirectDependents(cl, direct)
  IN  [ gen     |-> cl.gen + 1,
        table   |-> NoTable,
        prev    |-> cl.table # NoTable,
        changed |-> invalid,
        contrib |-> Restrict2(cl.contrib, Paths \ invalid),
        async   |-> cl.async ]

-----------------------------------------------------------------------------
(* Materialization.                                                        *)

Named(cl, p) == cl.changed = NoPaths \/ p \in cl.changed

\* The run of a path no update or demand edit named is taken to be the one the
\* contribution was computed for; only named runs are hashed again.
Reusable(cl, demands) ==
  {p \in DOMAIN demands \cap DOMAIN cl.contrib :
     Named(cl, p) => cl.contrib[p].run = demands[p]}

\* Mutant: cached async facts are kept for the paths an update named.
AsyncStaleOnlyUncached(cl, demands) ==
  {p \in AsyncGroups(demands) : cl.async = NoAsync \/ p \notin DOMAIN cl.async}

\* The async groups asked for again.  A fact that lands outside the refreshed
\* paths (crossPathAsync) makes every group be asked for again, and nothing is
\* cached for the next generation.
AsyncStale(cl, demands) ==
  {p \in AsyncGroups(demands) :
     cl.async = NoAsync \/ Named(cl, p) \/ p \notin DOMAIN cl.async}

CrossPathAsync(cl, src, demands) ==
  \E p \in AsyncStale(cl, demands) :
    ~ (AsyncTargets[p][demands[p]] \cap Members(src) \subseteq AsyncStale(cl, demands))

AsyncRefreshed(cl, src, demands) ==
  IF CrossPathAsync(cl, src, demands) THEN AsyncGroups(demands)
                                      ELSE AsyncStale(cl, demands)

\* asyncByPath restricted to the files of the program.
AsyncByPath(cl, src, demands) ==
  LET refreshed == AsyncRefreshed(cl, src, demands)
      found     == AsyncFacts(refreshed, demands, src, cl.gen)
  IN  [p \in Members(src) |->
         IF p \in AsyncGroups(demands) \ refreshed THEN cl.async[p] ELSE found[p]]

NextAsync(cl, src, demands) ==
  IF \/ CrossPathAsync(cl, src, demands)
     \/ \E p \in AsyncGroups(demands) : ~Durable(p, src)
  THEN NoAsync
  ELSE Restrict2(AsyncByPath(cl, src, demands), AsyncGroups(demands))

\* Every recomputed path is named, on top of what updates and demand edits named.
Manifest(cl, recomputed) ==
  IF ~cl.prev \/ (cl.changed = NoPaths /\ recomputed = {})
  THEN NoPaths
  ELSE recomputed \cup (IF cl.changed = NoPaths THEN {} ELSE cl.changed)

Materialize(cl, src, demands) ==
  LET wanted     == DOMAIN demands
      reused     == Reusable(cl, demands)
      recomputed == wanted \ reused
      contrib    == [p \in wanted |->
                       IF p \in reused THEN cl.contrib[p]
                       ELSE [ run  |-> demands[p],
                              rows |-> EntityRows(p, demands[p], src, cl.gen),
                              live |-> TRUE,
                              deps |-> Dependencies(p, src) ]]
      table      ==
        [ gen      |-> cl.gen,
          sources  |-> Restrict2(src, Members(src)),
          entities |-> [p \in {q \in wanted : contrib[q].live} |-> contrib[p].rows],
          files    |-> AsyncByPath(cl, src, demands),
          manifest |-> Manifest(cl, recomputed) ]
  IN  [ gen     |-> cl.gen,
        table   |-> table,
        prev    |-> FALSE,
        changed |-> NoPaths,
        contrib |-> Restrict2(contrib, {p \in wanted : Durable(p, src)}),
        async   |-> NextAsync(cl, src, demands) ]

\* A demand edit drops the table and the contributions of the edited paths.
DropEdited(cl, edited) ==
  IF edited = {} THEN cl
  ELSE [ gen     |-> cl.gen,
         table   |-> NoTable,
         prev    |-> cl.prev \/ cl.table # NoTable,
         changed |-> IF cl.changed = NoPaths THEN edited ELSE cl.changed \cup edited,
         contrib |-> Restrict2(cl.contrib, Paths \ edited),
         async   |-> cl.async ]

\* Whether a request builds a table (a new BuildSequence) or finds one.
Materializes(cl, edited) == DropEdited(cl, edited).table = NoTable

\* sourceFileFor fails an async demand on a file outside the program, and the
\* analysis with it.
Answerable(cl, src, demands, edited) ==
  Materializes(cl, edited) =>
    AsyncRefreshed(DropEdited(cl, edited), src, demands) \subseteq Members(src)

\* demandTableForPreparedGroups.
DemandTable(cl, src, demands, edited) ==
  LET ready == DropEdited(cl, edited)
  IN  IF Materializes(cl, edited) THEN Materialize(ready, src, demands) ELSE ready

\* releaseTransportRows: the packed transition owns the expanded rows now.
ReleaseTransportRows(cl) ==
  IF cl.table = NoTable THEN cl
  ELSE [ gen     |-> cl.gen,
         table   |-> [ gen |-> cl.table.gen, sources |-> Empty, entities |-> Empty,
                       files |-> Empty, manifest |-> cl.table.manifest ],
         prev    |-> cl.prev,
         changed |-> cl.changed,
         contrib |-> [p \in DOMAIN cl.contrib |->
                        [ run |-> cl.contrib[p].run, rows |-> cl.contrib[p].rows,
                          live |-> FALSE, deps |-> cl.contrib[p].deps ]],
         async   |-> cl.async ]

=============================================================================
