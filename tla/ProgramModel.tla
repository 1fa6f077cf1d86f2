---------------------------- MODULE ProgramModel ----------------------------
(***************************************************************************)
(* The TypeScript program as the demand closure sees it: which files are   *)
(* in the program, who imports whom, which files an edit affects, and what *)
(* the facts of a file depend on.                                          *)
(*                                                                         *)
(* A source text is a member of Texts.  What the compiler derives from a   *)
(* text and the rest of the system depends on is given by two constants:   *)
(* the files the text imports and the declaration shape it exports.  All   *)
(* files are external modules; a file of the shared global scope makes the *)
(* producer report every path as affected, which is the easy case.         *)
(***************************************************************************)
EXTENDS Naturals, FiniteSets

CONSTANTS
  Paths,      \* the files of the project directory
  Roots,      \* the files tsconfig includes whether or not they are imported
  Texts,      \* possible source texts of a file
  Imports,    \* Imports[p][t]: the paths p's imports resolve to under text t
  Shape,      \* Shape[p][t]: the declaration shape p exports under text t
  Runs,       \* possible semantic demand runs of one file
  AsyncTargets, \* AsyncTargets[p][r]: the paths declaring the async functions
                \* run r of p asks for; only a script file's can be another file
  NonDurable  \* files whose facts carry generation-scoped symbol identities

ASSUME ProgramAssumption ==
  /\ Roots \subseteq Paths
  /\ NonDurable \subseteq Paths
  /\ \A p \in Paths : \A t \in Texts : Imports[p][t] \subseteq Paths
  /\ \A p \in Paths : \A r \in Runs : AsyncTargets[p][r] \subseteq Paths

Sources == [Paths -> Texts]

\* Every function from a subset of Paths to S.
Partial(S) == UNION {[D -> S] : D \in SUBSET Paths}

Restrict2(f, D) == [p \in DOMAIN f \cap D |-> f[p]]

Overwrite(f, g) ==
  [p \in DOMAIN f \cup DOMAIN g |-> IF p \in DOMAIN g THEN g[p] ELSE f[p]]

Empty == [p \in {} |-> {}]

-----------------------------------------------------------------------------
(* The import graph.                                                       *)

Edges(p, src) == Imports[p][src[p]]

ClosedUnder(T, step) == \A p \in T : step[p] \subseteq T

\* The paths reachable from S by step: those in every set of paths that holds S
\* and that step does not lead out of.
Closure(S, step) ==
  {p \in Paths : \A T \in SUBSET Paths : S \subseteq T /\ ClosedUnder(T, step) => p \in T}

Forward(src) == [p \in Paths |-> Edges(p, src)]

\* The non-declaration source files of the program built from src.
Members(src) == Closure(Roots, Forward(src))

Importers(p, src) == {q \in Members(src) : p \in Edges(q, src)}

Reach(p, src) == Closure({p}, Forward(src))

-----------------------------------------------------------------------------
(* What an accepted update affects.                                        *)

AffectedFromReverseDeps(changed, old, new) ==
  Closure(changed, [p \in Paths |-> Importers(p, old) \cup Importers(p, new)])

\* A single edit of a file nobody imports, or one that leaves the exported
\* declaration shape and the resolved imports alone, affects only itself.  A
\* single edit of p leaves the edges into p alone: if p is in the new program it
\* was in the old one.
SemanticCutoff(changed, old, new) ==
  \E p \in changed :
    /\ changed = {p}
    /\ p \in Members(old) \cap Members(new)
    /\ \/ Importers(p, old) = {}
       \/ /\ Shape[p][old[p]] = Shape[p][new[p]]
          /\ Edges(p, old) = Edges(p, new)

Affected(changed, old, new) ==
  IF SemanticCutoff(changed, old, new)
  THEN changed
  ELSE AffectedFromReverseDeps(changed, old, new)

-----------------------------------------------------------------------------
(* What the facts of a file are a function of.                             *)

\* The files whose declarations a run of p names: their spans are in the rows.
Dependencies(p, src) ==
  IF p \in Members(src) THEN Edges(p, src) \ {p} ELSE {}

ShapesSeen(p, src) == [q \in Reach(p, src) \ {p} |-> Shape[q][src[q]]]

\* A file outside the program answers each demand with a bare location.
EntityRows(p, run, src, gen) ==
  IF p \notin Members(src)
  THEN <<run>>
  ELSE << run, src[p], ShapesSeen(p, src),
          [q \in Dependencies(p, src) |-> src[q]],
          IF p \in NonDurable THEN gen ELSE 0 >>

\* Paths with an async demand; the demands of one run are asked for together.
AsyncGroups(demands) == {p \in DOMAIN demands : AsyncTargets[p][demands[p]] # {}}

\* AsyncFunctionsAt for the async demands of groups: a fact belongs to the file
\* that declares the function.
AsyncFacts(groups, demands, src, gen) ==
  [q \in Members(src) |->
     { << src[q], ShapesSeen(q, src), IF q \in NonDurable THEN gen ELSE 0 >> :
         p \in {g \in groups : q \in AsyncTargets[g][demands[g]]} }]

Durable(p, src) == p \notin NonDurable \cap Members(src)

\* The fact table of one generation for one demand set, computed from nothing.
FreshTable(src, demands, gen) ==
  [ gen      |-> gen,
    sources  |-> Restrict2(src, Members(src)),
    entities |-> [p \in DOMAIN demands |-> EntityRows(p, demands[p], src, gen)],
    files    |-> AsyncFacts(AsyncGroups(demands), demands, src, gen) ]

=============================================================================
