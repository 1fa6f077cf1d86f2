---------------------------- MODULE SessionProof ----------------------------
(* Proofs about the session's protocol, for any project, any demand sets and *)
(* edits, and any bounds: the two sides agree on generations, a token proves *)
(* agreement on demands and base table, and no transition of the producer is *)
(* refused, through crashes, resends, cancelled analyses and lost answers.   *)
(* The last part is about what the producer retains: it is never stale.      *)
EXTENDS TypeFactsSession, TLAPS

-----------------------------------------------------------------------------
(* The inductive invariant.                                                *)

\* A closure between two requests: its rows are with the client, and what an
\* update or a demand edit named has no contribution.
ClosureShape(cl) ==
  /\ cl.gen \in Nat \ {0} /\ cl.prev \in BOOLEAN
  /\ cl.table # NoTable => cl.table.gen = cl.gen /\ cl.table.entities = Empty
  /\ cl.changed # NoPaths =>
       cl.changed \subseteq Paths /\ cl.changed \cap DOMAIN cl.contrib = {}
  /\ DOMAIN cl.contrib \subseteq Paths
  /\ \A p \in DOMAIN cl.contrib : cl.contrib[p].live = FALSE

AnalyzeCalls ==
  [ op : {"analyze"}, gen : Nat, want : DemandSets, reset : BOOLEAN, token : Nat,
    changed : Partial(Runs), removed : SUBSET Paths, complete : BOOLEAN,
    resent : BOOLEAN ]

\* The demand edits of an analysis lead from what the client retains to what
\* the caller wants.
Leads(c) ==
  c.changed = ChangedRuns(c.want) /\ c.removed = DOMAIN retainedDemands \ DOMAIN c.want

\* A request that presents a token presents the client's, unless the client lost
\* it to a restart; then the new producer has none either.
AnalyzeCall(c) ==
  /\ c \in AnalyzeCalls
  /\ c.complete => c.reset
  /\ c.reset => c.token = 0 /\ stateToken = 0 /\ c.changed = c.want /\ c.removed = {}
  /\ ~c.reset => /\ c.token # 0
                 /\ \/ c.token = stateToken /\ Leads(c)
                    \/ stateToken = 0 /\ token = 0

\* What the client will retain as the demands of an analysis.
ClientDemands(c) ==
  IF c.complete THEN c.want
  ELSE Overwrite(Restrict2(retainedDemands, Paths \ c.removed), c.changed)

SymbolsCall(c) ==
  /\ c.want \in DemandSets /\ c.complete \in BOOLEAN
  /\ c.token \in Nat \ {0}
  /\ ClientDemands(c) = c.want

CallShape ==
  /\ call.op \in {"none", "closed", "read", "update", "analyze", "symbols"}
  /\ call.op = "read" => call \in [op : {"read"}, gen : Nat, resent : BOOLEAN]
  /\ call.op = "update" =>
       call \in [op : {"update"}, gen : Nat, edit : Edits, resent : BOOLEAN]
  /\ call.op = "update" => logged < MaxGeneration
  /\ call.op = "analyze" => AnalyzeCall(call)
  /\ call.op = "symbols" => SymbolsCall(call)

Codes == {"none", "ok", "generation-mismatch", "state-mismatch", "update-failed", "analysis-cancelled"}

ReplyShape ==
  /\ reply.code \in Codes
  /\ reply.code = "none" => reply = NoReply
  /\ call.op \in {"none", "closed", "symbols"} => reply = NoReply

Shapes ==
  /\ generation \in 1..MaxGeneration /\ logged \in 1..MaxGeneration
  /\ sources \in Sources /\ producerSources \in Sources
  /\ stateToken \in Nat /\ token \in Nat /\ header \in Nat
  /\ retainedDemands \in Partial(Runs) /\ demands \in Partial(Runs)
  /\ outcome \in {"none", "ok", "error"} /\ alive \in BOOLEAN
  /\ retainedTable.gen \in Nat
  /\ ClosureShape(closure)
  /\ CallShape /\ ReplyShape

\* An update the producer applied and the client has not heard of yet.
Applied == call.op = "update" /\ reply.code = "ok"

InStep ==
  alive => /\ closure.gen = IF Applied THEN generation + 1 ELSE generation
           /\ producerSources = IF Applied THEN Overwrite(sources, call.edit) ELSE sources

\* A generation-mismatch is the answer to a stamp from before the replay.
StaleStamp ==
  /\ call.op \in {"read", "analyze"} /\ call.resent
  /\ call.gen < logged /\ generation = logged

\* The session counts short of its log only while it has no producer, and the
\* stamp of a request only where the request outlived a restart.
Stamped ==
  /\ generation <= logged
  /\ alive => generation = logged
  /\ call.op \in {"read", "analyze"} => call.gen <= logged
  /\ (call.op \in {"read", "analyze"} /\ ~call.resent) => call.gen = generation
  /\ call.op = "update" => call.gen = generation + 1
  /\ reply.code = "generation-mismatch" => StaleStamp

\* What the producer's token stands for.
TokenOfTable ==
  /\ token = 0 <=> header = NoHeader
  /\ header <= generation
  /\ ~alive => header = NoHeader
  /\ closure.table # NoTable => header = closure.gen
  /\ closure.prev => token # 0
  /\ alive => stateToken <= token
  /\ (alive /\ stateToken # 0 /\ stateToken = token) =>
       retainedDemands = demands /\ retainedTable.gen = header

\* What an answer, or the analysis waiting for its symbols, will publish.
Published(candidate, newToken) ==
  /\ newToken \in Nat \ {0}
  /\ candidate.gen = generation
  /\ DOMAIN candidate.entities = DOMAIN call.want
  /\ alive => newToken = token /\ demands = call.want /\ header = generation

AnswerPending ==
  /\ (call.op = "analyze" /\ reply.code = "ok") =>
       /\ Acceptable(reply.transition)
       /\ Published(Candidate(reply.transition), reply.token)
       /\ reply.materialized \in BOOLEAN
       /\ ~call.reset => call.token = stateToken
  /\ call.op = "symbols" => Published(call.candidate, call.token)

ProtocolInvariant ==
  Shapes /\ InStep /\ Stamped /\ RetainedTogether /\ TokenOfTable /\ AnswerPending

-----------------------------------------------------------------------------
(* What the closure's operations return.                                   *)

\* Restricting a function keeps its values on what is left.
LEMMA RestrictProperties ==
  ASSUME NEW f, NEW D
  PROVE  /\ DOMAIN Restrict2(f, D) = DOMAIN f \cap D
         /\ \A p \in DOMAIN f \cap D : Restrict2(f, D)[p] = f[p]
BY DEF Restrict2

\* Restricting to the paths outside a set takes those of the set away.
LEMMA WithoutProperties ==
  ASSUME NEW f, NEW N, DOMAIN f \subseteq Paths
  PROVE  /\ DOMAIN Restrict2(f, Paths \ N) = DOMAIN f \ N
         /\ \A p \in DOMAIN f \ N : Restrict2(f, Paths \ N)[p] = f[p]
<1>1. DOMAIN Restrict2(f, Paths \ N) = DOMAIN f \cap (Paths \ N)
  BY DEF Restrict2
<1>2. DOMAIN f \cap (Paths \ N) = DOMAIN f \ N
  OBVIOUS
<1>3. \A p \in DOMAIN f \ N : Restrict2(f, Paths \ N)[p] = f[p]
  BY DEF Restrict2
<1> QED
  BY <1>1, <1>2, <1>3

\* An overwritten function has the values of the second where it is defined.
LEMMA OverwriteProperties ==
  ASSUME NEW f, NEW g
  PROVE  /\ DOMAIN Overwrite(f, g) = DOMAIN f \cup DOMAIN g
         /\ \A p \in DOMAIN g : Overwrite(f, g)[p] = g[p]
         /\ \A p \in DOMAIN f \ DOMAIN g : Overwrite(f, g)[p] = f[p]
BY DEF Overwrite

\* The empty function has no argument.
LEMMA EmptyProperties == DOMAIN Empty = {} /\ Empty = [p \in {} |-> {}]
BY DEF Empty

\* A record of a generation is a table.
LEMMA IsATable == \A t : t.gen \in Nat \ {0} => t # NoTable
BY DEF NoTable

\* A reset leaves a closure without table and contributions.
LEMMA ResetShape ==
  ASSUME NEW cl, cl.gen \in Nat \ {0}
  PROVE  ClosureShape(ResetAnalysisState(cl))
BY EmptyProperties DEF ResetAnalysisState, ClosureShape

\* A demand edit names the edited paths and drops their contributions.
LEMMA DropEditedShape ==
  ASSUME NEW cl, ClosureShape(cl), NEW e \in SUBSET Paths
  PROVE  LET r == DropEdited(cl, e)
         IN  /\ ClosureShape(r) /\ r.gen = cl.gen
             /\ e # {} => /\ r.table = NoTable /\ r.changed # NoPaths
                          /\ r.prev <=> (cl.prev \/ cl.table # NoTable)
                          /\ r.changed = e \cup (IF cl.changed = NoPaths THEN {} ELSE cl.changed)
                          /\ r.async = cl.async
             /\ e = {} => r = cl
             /\ DOMAIN r.contrib = DOMAIN cl.contrib \ e
             /\ \A p \in DOMAIN r.contrib : r.contrib[p] = cl.contrib[p]
<1>1. CASE e = {}
  BY <1>1 DEF DropEdited
<1>2. CASE e # {}
  <2> DEFINE kept  == Restrict2(cl.contrib, Paths \ e)
             named == IF cl.changed = NoPaths THEN e ELSE cl.changed \cup e
             r     == DropEdited(cl, e)
  <2>0. r.prev \in BOOLEAN /\ (r.prev <=> (cl.prev \/ cl.table # NoTable))
    BY <1>2, Zenon DEF DropEdited
  <2>1. /\ r.gen = cl.gen /\ r.table = NoTable
        /\ r.changed = named /\ r.contrib = kept /\ r.async = cl.async
    BY <1>2, SMT DEF DropEdited
  <2>2. /\ DOMAIN kept = DOMAIN cl.contrib \ e
        /\ \A p \in DOMAIN cl.contrib \ e : kept[p] = cl.contrib[p]
    <3>1. DOMAIN cl.contrib \subseteq Paths
      BY DEF ClosureShape
    <3> QED
      BY <3>1, WithoutProperties, Zenon
  <2>3. named \subseteq Paths /\ named # NoPaths /\ named \cap DOMAIN kept = {}
    BY <2>2, NoPathsAssumption DEF ClosureShape
  <2> HIDE DEF kept, r
  <2>4. ClosureShape(r)
    BY <2>0, <2>1, <2>2, <2>3 DEF ClosureShape
  <2> QED
    BY <1>2, <2>0, <2>1, <2>2, <2>3, <2>4 DEF r
<1> QED
  BY <1>1, <1>2

\* An update names what it invalidates and drops those contributions.
Invalidated(r, cl, e, a) ==
  /\ ClosureShape(r) /\ r.gen = cl.gen + 1 /\ r.async = cl.async
  /\ r.table = NoTable /\ (r.prev <=> cl.table # NoTable)
  /\ r.changed = e \cup a \cup DirectDependents(cl, e \cup a)
  /\ r.changed # NoPaths
  /\ DOMAIN r.contrib = DOMAIN cl.contrib \ r.changed
  /\ \A p \in DOMAIN r.contrib : r.contrib[p] = cl.contrib[p]

\* An update leaves a closure without contributions of what it named.
LEMMA UpdateShape ==
  ASSUME NEW cl, ClosureShape(cl), NEW e \in SUBSET Paths, NEW a \in SUBSET Paths
  PROVE  Invalidated(ClosureUpdate(cl, e, a), cl, e, a)
<1> DEFINE named == e \cup a \cup DirectDependents(cl, e \cup a)
           kept  == Restrict2(cl.contrib, Paths \ named)
           r     == ClosureUpdate(cl, e, a)
<1>0. r.prev \in BOOLEAN /\ (r.prev <=> (cl.table # NoTable))
  BY Zenon DEF ClosureUpdate
<1>1. /\ r.gen = cl.gen + 1 /\ r.table = NoTable
      /\ r.changed = named /\ r.contrib = kept /\ r.async = cl.async
  BY SMT DEF ClosureUpdate
<1>2. named \subseteq Paths /\ named # NoPaths
  BY NoPathsAssumption DEF DirectDependents, ClosureShape
<1>3. /\ DOMAIN kept = DOMAIN cl.contrib \ named
      /\ \A p \in DOMAIN cl.contrib \ named : kept[p] = cl.contrib[p]
  <2>1. DOMAIN cl.contrib \subseteq Paths
    BY DEF ClosureShape
  <2> QED
    BY <2>1, WithoutProperties, Zenon
<1> HIDE DEF kept, named, r
<1>4. ClosureShape(r)
  BY <1>0, <1>1, <1>2, <1>3 DEF ClosureShape
<1> QED
  BY <1>0, <1>1, <1>2, <1>3, <1>4 DEF r, named, Invalidated

\* The paths whose rows a materialization computes anew.
Recomputed(cl, dem) == DOMAIN dem \ Reusable(cl, dem)

\* A materialized table has rows only for the paths computed anew: the rows of
\* a retained contribution are with the client.
Materialized(r, cl, src, dem) ==
  /\ r.gen = cl.gen /\ r.prev = FALSE /\ r.changed = NoPaths
  /\ r.async = NextAsync(cl, src, dem)
  /\ r.table.gen = cl.gen
  /\ r.table.sources = Restrict2(src, Members(src))
  /\ r.table.files = AsyncByPath(cl, src, dem)
  /\ r.table.manifest = Manifest(cl, Recomputed(cl, dem))
  /\ DOMAIN r.table.entities = Recomputed(cl, dem)
  /\ r.table.entities = [p \in Recomputed(cl, dem) |-> EntityRows(p, dem[p], src, cl.gen)]
  /\ DOMAIN r.contrib \subseteq DOMAIN dem
  /\ \A p \in DOMAIN r.contrib :
       /\ Durable(p, src)
       /\ p \in Reusable(cl, dem) => r.contrib[p] = cl.contrib[p]
       /\ p \notin Reusable(cl, dem) =>
            /\ r.contrib[p].run = dem[p]
            /\ r.contrib[p].rows = EntityRows(p, dem[p], src, cl.gen)
            /\ r.contrib[p].deps = Dependencies(p, src)

\* A materialization sends the rows away and keeps the closure in shape.
LEMMA MaterializeShape ==
  ASSUME NEW cl, ClosureShape(cl), NEW src, NEW dem
  PROVE  Materialized(Materialize(cl, src, dem), cl, src, dem)
<1> DEFINE reused     == Reusable(cl, dem)
           recomputed == Recomputed(cl, dem)
           new(p)     == [ run |-> dem[p], rows |-> EntityRows(p, dem[p], src, cl.gen),
                           live |-> TRUE, deps |-> Dependencies(p, src) ]
           contrib    == [p \in DOMAIN dem |-> IF p \in reused THEN cl.contrib[p] ELSE new(p)]
           entities   == [p \in {q \in DOMAIN dem : contrib[q].live} |-> contrib[p].rows]
           kept       == {p \in DOMAIN dem : Durable(p, src)}
           r          == Materialize(cl, src, dem)
<1>1. /\ r.gen = cl.gen /\ r.changed = NoPaths
      /\ r.async = NextAsync(cl, src, dem)
      /\ r.contrib = Restrict2(contrib, kept)
      /\ r.table.gen = cl.gen
      /\ r.table.sources = Restrict2(src, Members(src))
      /\ r.table.files = AsyncByPath(cl, src, dem)
      /\ r.table.manifest = Manifest(cl, recomputed)
      /\ r.table.entities = entities
  BY DEF Materialize, Recomputed
<1>2. r.prev = FALSE
  BY Zenon DEF Materialize
<1>3. \A p \in DOMAIN dem : p \in reused => contrib[p] = cl.contrib[p] /\ contrib[p].live = FALSE
  BY DEF ClosureShape, Reusable
<1>4. \A p \in recomputed :
        /\ contrib[p].run = dem[p] /\ contrib[p].deps = Dependencies(p, src)
        /\ contrib[p].rows = EntityRows(p, dem[p], src, cl.gen)
  BY DEF Recomputed
<1>5. \A p \in recomputed : contrib[p].live = TRUE
  BY Zenon DEF Recomputed
<1> HIDE DEF reused, contrib
<1>6. {q \in DOMAIN dem : contrib[q].live} = recomputed
  BY <1>3, <1>5 DEF Recomputed, reused
<1>7. /\ DOMAIN entities = recomputed
      /\ entities = [p \in recomputed |-> EntityRows(p, dem[p], src, cl.gen)]
  BY <1>4, <1>6
<1>8. /\ DOMAIN Restrict2(contrib, kept) = kept
      /\ \A p \in kept : Restrict2(contrib, kept)[p] = contrib[p]
  <2>1. DOMAIN contrib = DOMAIN dem
    BY DEF contrib
  <2> QED
    BY <2>1 DEF Restrict2
<1> HIDE DEF entities, kept, r
<1>9. \A p \in kept :
        /\ p \in reused => r.contrib[p] = cl.contrib[p]
        /\ p \notin reused =>
             /\ r.contrib[p].run = dem[p] /\ r.contrib[p].deps = Dependencies(p, src)
             /\ r.contrib[p].rows = EntityRows(p, dem[p], src, cl.gen)
  BY <1>1, <1>3, <1>4, <1>8 DEF kept, Recomputed, reused
<1>10. DOMAIN r.contrib = kept
  BY <1>1, <1>8
<1> QED
  BY <1>1, <1>2, <1>7, <1>9, <1>10 DEF reused, kept, r, Materialized

\* What the producer keeps of a table it sends.
LEMMA ReleaseShape ==
  ASSUME NEW cl, cl.table # NoTable
  PROVE  LET r == ReleaseTransportRows(cl)
         IN  /\ r.gen = cl.gen /\ r.changed = cl.changed /\ r.async = cl.async
             /\ r.prev = cl.prev
             /\ r.table.gen = cl.table.gen /\ r.table.entities = Empty
             /\ DOMAIN r.contrib = DOMAIN cl.contrib
             /\ \A p \in DOMAIN cl.contrib :
                  /\ r.contrib[p].run = cl.contrib[p].run
                  /\ r.contrib[p].rows = cl.contrib[p].rows
                  /\ r.contrib[p].deps = cl.contrib[p].deps
                  /\ r.contrib[p].live = FALSE
<1> DEFINE compact(p) == [ run |-> cl.contrib[p].run, rows |-> cl.contrib[p].rows,
                           live |-> FALSE, deps |-> cl.contrib[p].deps ]
           kept == [p \in DOMAIN cl.contrib |-> compact(p)]
           r    == ReleaseTransportRows(cl)
<1>1. /\ r.gen = cl.gen /\ r.changed = cl.changed /\ r.async = cl.async
      /\ r.table.gen = cl.table.gen /\ r.table.entities = Empty /\ r.contrib = kept
  BY DEF ReleaseTransportRows
<1>2. r.prev = cl.prev
  BY Zenon DEF ReleaseTransportRows
<1>3. \A p \in DOMAIN cl.contrib :
        /\ kept[p].run = cl.contrib[p].run /\ kept[p].rows = cl.contrib[p].rows
        /\ kept[p].deps = cl.contrib[p].deps
  OBVIOUS
<1>4. \A p \in DOMAIN cl.contrib : kept[p].live = FALSE
  BY Zenon
<1>5. DOMAIN kept = DOMAIN cl.contrib
  OBVIOUS
<1> HIDE DEF kept, r
<1> QED
  BY <1>1, <1>2, <1>3, <1>4, <1>5 DEF r

\* A manifest names every path computed anew and every path an update or a demand
\* edit named, and of the paths that have a demand no others.
LEMMA ManifestShape ==
  ASSUME NEW cl, ClosureShape(cl), NEW dem, DOMAIN dem \subseteq Paths
  PROVE  LET recomputed == Recomputed(cl, dem)
             m          == Manifest(cl, recomputed)
         IN  m # NoPaths =>
               /\ cl.prev /\ m \subseteq Paths
               /\ cl.changed # NoPaths => cl.changed \subseteq m
               /\ m = recomputed \cup (IF cl.changed = NoPaths THEN {} ELSE cl.changed)
               /\ m \cap DOMAIN dem = recomputed
<1> DEFINE recomputed == Recomputed(cl, dem)
           m          == Manifest(cl, recomputed)
<1> SUFFICES ASSUME m # NoPaths
             PROVE  /\ cl.prev /\ m \subseteq Paths
                    /\ cl.changed # NoPaths => cl.changed \subseteq m
                    /\ m = recomputed \cup (IF cl.changed = NoPaths THEN {} ELSE cl.changed)
                    /\ m \cap DOMAIN dem = recomputed
  OBVIOUS
<1>1. cl.prev /\ m = recomputed \cup (IF cl.changed = NoPaths THEN {} ELSE cl.changed)
  BY DEF Manifest
<1>2. cl.changed # NoPaths =>
        cl.changed \subseteq Paths /\ cl.changed \cap Reusable(cl, dem) = {}
  BY DEF ClosureShape, Reusable
<1> HIDE DEF m
<1> QED
  BY <1>1, <1>2 DEF Recomputed

\* What demandTableForPreparedGroups leaves for a transition: a table of this
\* generation, and either the demand edits forced it to be built, or there were
\* none and it is the table that was there.
TableFor(f, cl, src, dem, e) ==
  /\ f.gen = cl.gen /\ f.table.gen = cl.gen /\ f.table # NoTable
  /\ ClosureShape(ReleaseTransportRows(f))
  /\ ReleaseTransportRows(f).gen = cl.gen
  /\ ReleaseTransportRows(f).table # NoTable
  /\ Materializes(cl, e) =>
       /\ f = Materialize(DropEdited(cl, e), src, dem)
       /\ DOMAIN f.table.entities = Recomputed(DropEdited(cl, e), dem)
       /\ f.table.manifest # NoPaths =>
            /\ f.table.manifest \subseteq Paths
            /\ e \subseteq f.table.manifest
            /\ f.table.manifest \cap DOMAIN dem = DOMAIN f.table.entities
  /\ ~Materializes(cl, e) => e = {} /\ cl.table # NoTable /\ f = cl

\* A table found again or materialized is one of this generation.
LEMMA DemandTableShape ==
  ASSUME NEW cl, ClosureShape(cl), NEW src, NEW dem, DOMAIN dem \subseteq Paths,
         NEW e \in SUBSET Paths
  PROVE  TableFor(DemandTable(cl, src, dem, e), cl, src, dem, e)
<1> DEFINE ready == DropEdited(cl, e)
           f     == DemandTable(cl, src, dem, e)
           r     == ReleaseTransportRows(f)
           recomputed == Recomputed(ready, dem)
<1>1. /\ ClosureShape(ready) /\ ready.gen = cl.gen
      /\ e # {} => ready.table = NoTable /\ ready.changed # NoPaths /\ e \subseteq ready.changed
      /\ e = {} => ready = cl
  <2>1. /\ ClosureShape(ready) /\ ready.gen = cl.gen
        /\ e # {} => /\ ready.table = NoTable /\ ready.changed # NoPaths
                     /\ ready.changed = e \cup (IF cl.changed = NoPaths THEN {} ELSE cl.changed)
        /\ e = {} => ready = cl
    BY DropEditedShape
  <2> QED
    BY <2>1
<1>2. ready.gen \in Nat \ {0}
  BY <1>1 DEF ClosureShape
<1> HIDE DEF ready
<1>3. CASE Materializes(cl, e)
  <2>1. f = Materialize(ready, src, dem)
    BY <1>3 DEF DemandTable, ready
  <2>2. /\ f.gen = cl.gen /\ f.prev = FALSE /\ f.changed = NoPaths
        /\ f.table.gen = cl.gen /\ f.table.manifest = Manifest(ready, recomputed)
        /\ DOMAIN f.table.entities = recomputed
        /\ DOMAIN f.contrib \subseteq DOMAIN dem
    <3>1. Materialized(f, ready, src, dem)
      BY <1>1, <2>1, MaterializeShape
    <3> QED
      BY <1>1, <3>1 DEF Materialized
  <2> HIDE DEF f
  <2>3. f.table # NoTable
    BY <1>1, <1>2, <2>2, IsATable
  <2>4. f.table.manifest # NoPaths =>
           /\ f.table.manifest \subseteq Paths
           /\ e \subseteq f.table.manifest
           /\ f.table.manifest \cap DOMAIN dem = recomputed
    BY <1>1, <2>2, ManifestShape
  <2>5. /\ r.gen = cl.gen /\ r.prev = FALSE /\ r.changed = NoPaths
        /\ r.table.gen = cl.gen /\ r.table.entities = Empty
        /\ DOMAIN r.contrib = DOMAIN f.contrib
        /\ \A p \in DOMAIN f.contrib : r.contrib[p].live = FALSE
    BY <2>2, <2>3, ReleaseShape
  <2> HIDE DEF r
  <2>6. ClosureShape(r) /\ r.table # NoTable
    BY <1>1, <1>2, <2>2, <2>5, IsATable DEF ClosureShape
  <2> QED
    BY <1>3, <2>1, <2>2, <2>3, <2>4, <2>5, <2>6 DEF f, r, ready, TableFor
<1>4. CASE ~Materializes(cl, e)
  <2>1. e = {} /\ ready = cl /\ f = cl /\ cl.table # NoTable
    BY <1>1, <1>4 DEF Materializes, DemandTable, ready
  <2>2. cl.table.gen = cl.gen
    BY <2>1 DEF ClosureShape
  <2> HIDE DEF f
  <2>3. /\ r.gen = cl.gen /\ r.prev = cl.prev /\ r.changed = cl.changed
        /\ r.table.gen = cl.gen /\ r.table.entities = Empty
        /\ DOMAIN r.contrib = DOMAIN cl.contrib
        /\ \A p \in DOMAIN cl.contrib : r.contrib[p].live = FALSE
    BY <2>1, <2>2, ReleaseShape
  <2> HIDE DEF r
  <2>4. ClosureShape(r) /\ r.table # NoTable
    BY <1>1, <1>2, <2>3, IsATable DEF ClosureShape
  <2> QED
    BY <1>4, <2>1, <2>2, <2>3, <2>4 DEF f, r, TableFor
<1> QED
  BY <1>3, <1>4

-----------------------------------------------------------------------------
(* Demand sets and their edits.                                            *)

\* A partial function is one on a set of paths.
LEMMA PartialFunctions ==
  ASSUME NEW S, NEW f
  PROVE  f \in Partial(S) <=>
           /\ f = [p \in DOMAIN f |-> f[p]] /\ DOMAIN f \subseteq Paths
           /\ \A p \in DOMAIN f : f[p] \in S
<1>1. f \in Partial(S) <=> \E D \in SUBSET Paths : f \in [D -> S]
  BY DEF Partial
<1>2. ASSUME f = [p \in DOMAIN f |-> f[p]], DOMAIN f \subseteq Paths,
             \A p \in DOMAIN f : f[p] \in S
      PROVE  f \in [DOMAIN f -> S]
  BY <1>2
<1> QED
  BY <1>1, <1>2

\* The empty function is partial over any range.
LEMMA EmptyIsPartial == \A S : Empty \in Partial(S)
<1> TAKE S
<1>1. Empty \in [{} -> S]
  BY DEF Empty
<1> QED
  BY <1>1 DEF Partial

\* A partial function without arguments is the empty one.
LEMMA NoDomain ==
  ASSUME NEW S, NEW f \in Partial(S), DOMAIN f = {}
  PROVE  f = Empty
BY PartialFunctions, EmptyProperties

\* Overwriting stays within the partial functions.
LEMMA OverwriteIsPartial ==
  ASSUME NEW S, NEW f \in Partial(S), NEW g \in Partial(S)
  PROVE  Overwrite(f, g) \in Partial(S)
<1> DEFINE h == Overwrite(f, g)
<1>1. /\ h = [p \in DOMAIN h |-> h[p]] /\ DOMAIN h = DOMAIN f \cup DOMAIN g
      /\ \A p \in DOMAIN h : h[p] = IF p \in DOMAIN g THEN g[p] ELSE f[p]
  BY DEF Overwrite
<1> HIDE DEF h
<1>2. DOMAIN h \subseteq Paths /\ \A p \in DOMAIN h : h[p] \in S
  BY <1>1, PartialFunctions
<1> QED
  BY <1>1, <1>2, PartialFunctions DEF h

\* Restricting stays within the partial functions.
LEMMA RestrictIsPartial ==
  ASSUME NEW S, NEW f \in Partial(S), NEW D
  PROVE  Restrict2(f, D) \in Partial(S)
<1> DEFINE h == Restrict2(f, D)
<1>1. /\ h = [p \in DOMAIN h |-> h[p]] /\ DOMAIN h = DOMAIN f \cap D
      /\ \A p \in DOMAIN h : h[p] = f[p]
  BY DEF Restrict2
<1> HIDE DEF h
<1>2. DOMAIN h \subseteq Paths /\ \A p \in DOMAIN h : h[p] \in S
  BY <1>1, PartialFunctions
<1> QED
  BY <1>1, <1>2, PartialFunctions DEF h

\* The edits lead to the wanted set on the client, which removes first, and on
\* the producer, which replaces first.
LEMMA EditsLead ==
  ASSUME NEW c, c.want \in Partial(Runs), retainedDemands \in Partial(Runs), Leads(c)
  PROVE  /\ Overwrite(Restrict2(retainedDemands, Paths \ c.removed), c.changed) = c.want
         /\ Restrict2(Overwrite(retainedDemands, c.changed), Paths \ c.removed) = c.want
<1> DEFINE want    == c.want
           have    == retainedDemands
           changed == c.changed
           removed == c.removed
           other   == {p \in DOMAIN want : ~ (p \in DOMAIN have /\ have[p] = want[p])}
           l       == Overwrite(Restrict2(have, Paths \ removed), changed)
           r       == Restrict2(Overwrite(have, changed), Paths \ removed)
<1>0. changed = Restrict2(want, other) /\ removed = DOMAIN have \ DOMAIN want
  BY DEF Leads, ChangedRuns
<1>1. /\ want = [p \in DOMAIN want |-> want[p]]
      /\ DOMAIN want \subseteq Paths /\ DOMAIN have \subseteq Paths
  BY PartialFunctions
<1> HIDE DEF want, have, changed, removed
<1>2. DOMAIN changed = other /\ \A p \in other : changed[p] = want[p]
  BY <1>0 DEF Restrict2
<1>3. l = want
  <2> DEFINE left == Restrict2(have, Paths \ removed)
  <2>1. DOMAIN left = DOMAIN have \cap DOMAIN want /\ \A p \in DOMAIN left : left[p] = have[p]
    BY <1>0, <1>1 DEF Restrict2
  <2> HIDE DEF left
  <2>2. l = [p \in DOMAIN left \cup DOMAIN changed |-> IF p \in DOMAIN changed THEN changed[p] ELSE left[p]]
    BY DEF Overwrite, left
  <2>3. DOMAIN left \cup DOMAIN changed = DOMAIN want
    BY <2>1, <1>2
  <2>4. \A p \in DOMAIN want : (IF p \in DOMAIN changed THEN changed[p] ELSE left[p]) = want[p]
    BY <2>1, <1>2
  <2> QED
    BY <1>1, <2>2, <2>3, <2>4
<1>4. r = want
  <2> DEFINE all == Overwrite(have, changed)
  <2>1. /\ DOMAIN all = DOMAIN have \cup DOMAIN want
        /\ \A p \in DOMAIN want : all[p] = want[p]
    BY <1>2 DEF Overwrite
  <2> HIDE DEF all
  <2>2. r = [p \in DOMAIN all \cap (Paths \ removed) |-> all[p]]
    BY DEF Restrict2, all
  <2>3. DOMAIN all \cap (Paths \ removed) = DOMAIN want
    BY <1>0, <2>1, <1>1
  <2> QED
    BY <1>1, <2>1, <2>2, <2>3
<1> QED
  BY <1>3, <1>4 DEF want, have, changed, removed

-----------------------------------------------------------------------------
(* The invariant holds at the start and every step keeps it.               *)

\* The first closure has no table.
LEMMA InitClosureShape == ClosureShape(InitClosure) /\ InitClosure.table = NoTable
                          /\ InitClosure.gen = 1 /\ InitClosure.prev = FALSE
<1>1. /\ InitClosure.table = NoTable /\ InitClosure.gen = 1
      /\ InitClosure.changed = NoPaths /\ InitClosure.contrib = Empty
  BY DEF InitClosure
<1>2. InitClosure.prev = FALSE /\ InitClosure.prev \in BOOLEAN
  BY Zenon DEF InitClosure
<1>3. ClosureShape(InitClosure)
  BY <1>1, <1>2, EmptyProperties DEF ClosureShape
<1> QED
  BY <1>1, <1>2, <1>3

\* No table is of no generation.
LEMMA NoTableGen == NoTable.gen = 0
BY DEF NoTable

\* The invariant holds when a session opens.
LEMMA ProtocolInit ==
  ASSUME Init
  PROVE  ProtocolInvariant
<1> USE DEF Init
<1>1. Shapes
  <2>1. call.op = "none" /\ reply.code = "none" /\ reply = NoReply
    BY DEF Idle, NoReply
  <2>2. CallShape /\ ReplyShape
    BY <2>1 DEF CallShape, ReplyShape, Codes
  <2> QED
    BY <2>2, SessionAssumption, InitClosureShape, EmptyIsPartial, NoTableGen
    DEF Shapes, NoHeader
<1>2. InStep
  BY InitClosureShape DEF InStep, Applied, Idle
<1>3. RetainedTogether
  BY DEF RetainedTogether
<1>4. TokenOfTable
  BY InitClosureShape DEF TokenOfTable, NoHeader
<1>5. AnswerPending
  BY DEF AnswerPending, Idle
<1>6. Stamped
  <2>1. call.op = "none" /\ reply.code = "none"
    BY DEF Idle, NoReply
  <2> QED
    BY <2>1 DEF Stamped
<1> QED
  BY <1>1, <1>2, <1>3, <1>4, <1>5, <1>6 DEF ProtocolInvariant

\* A step of the wire alone keeps what the two sides retain.
LEMMA SameClient ==
  ASSUME ProtocolInvariant, UNCHANGED <<client, producer>>,
         outcome' \in {"none", "ok", "error"}, CallShape', ReplyShape',
         InStep', Stamped', AnswerPending'
  PROVE  ProtocolInvariant'
<1>1. /\ UNCHANGED <<generation, logged, sources, stateToken, retainedDemands, retainedTable>>
      /\ UNCHANGED <<alive, producerSources, closure, token, demands, header>>
  BY DEF client, producer
<1>2. Shapes'
  BY <1>1 DEF ProtocolInvariant, Shapes, ClosureShape
<1>3. RetainedTogether'
  BY <1>1 DEF ProtocolInvariant, RetainedTogether
<1>4. TokenOfTable'
  BY <1>1 DEF ProtocolInvariant, TokenOfTable
<1> QED
  BY <1>2, <1>3, <1>4 DEF ProtocolInvariant

\* The stamp of a call is kept while the session's count is, and needs no keeping
\* where the call is over.
LEMMA StampKept ==
  ASSUME ProtocolInvariant, UNCHANGED <<generation, logged>>, alive' => alive,
         call' = call \/ call'.op \notin {"read", "analyze", "update"},
         reply'.code # "generation-mismatch" \/ (call' = call /\ reply' = reply)
  PROVE  Stamped'
<1>1. CASE call' = call
  BY <1>1 DEF ProtocolInvariant, Stamped, StaleStamp
<1>2. CASE call'.op \notin {"read", "analyze", "update"}
  BY <1>2 DEF ProtocolInvariant, Stamped, StaleStamp
<1> QED
  BY <1>1, <1>2

\* Where no call is under way, or the one that is asked for nothing yet.
LEMMA CallReturns ==
  ASSUME ProtocolInvariant, UNCHANGED <<client, producer>>, NEW result \in {"ok", "error"},
         Return(result), ~Applied
  PROVE  ProtocolInvariant'
<1>1. call'.op = "none" /\ reply'.code = "none" /\ reply' = NoReply
  BY DEF Return, Idle, NoReply
<1>2. CallShape' /\ ReplyShape'
  BY <1>1 DEF CallShape, ReplyShape, Codes
<1>3. InStep'
  BY <1>1 DEF ProtocolInvariant, InStep, Applied, client, producer
<1>4. AnswerPending'
  BY <1>1 DEF AnswerPending
<1>5. Stamped'
  BY <1>1, StampKept DEF client, producer
<1> QED
  BY <1>2, <1>3, <1>4, <1>5, SameClient DEF Return

\* A request that presents no token.
LEMMA ResetRequest ==
  ASSUME NEW want \in DemandSets, generation \in Nat, NEW c,
         \/ c = AnalyzeRequest(want, TRUE, want, {}, FALSE)
         \/ c = AnalyzeRequest(want, TRUE, want, {}, TRUE)
  PROVE  /\ c \in AnalyzeCalls /\ c.op = "analyze"
         /\ c.want = want /\ c.changed = want /\ c.removed = {} /\ c.token = 0
         /\ c.reset /\ c.gen = generation
<1>1. want \in Partial(Runs) /\ {} \in SUBSET Paths /\ 0 \in Nat
  BY SessionAssumption
<1>2. CASE c = AnalyzeRequest(want, TRUE, want, {}, FALSE)
  <2>1. c.op = "analyze" /\ c.want = want /\ c.changed = want /\ c.removed = {} /\ c.token = 0
        /\ c.gen = generation
    BY <1>2 DEF AnalyzeRequest
  <2>2. c.reset
    BY <1>2, Zenon DEF AnalyzeRequest
  <2>3. c \in AnalyzeCalls
    BY <1>1, <1>2 DEF AnalyzeRequest, AnalyzeCalls
  <2> QED
    BY <2>1, <2>2, <2>3
<1>3. CASE c = AnalyzeRequest(want, TRUE, want, {}, TRUE)
  <2>1. c.op = "analyze" /\ c.want = want /\ c.changed = want /\ c.removed = {} /\ c.token = 0
        /\ c.gen = generation
    BY <1>3 DEF AnalyzeRequest
  <2>2. c.reset
    BY <1>3, Zenon DEF AnalyzeRequest
  <2>3. c \in AnalyzeCalls
    BY <1>1, <1>3 DEF AnalyzeRequest, AnalyzeCalls
  <2> QED
    BY <2>1, <2>2, <2>3
<1> QED
  BY <1>2, <1>3

\* A request that presents the client's token.
LEMMA TokenRequest ==
  ASSUME NEW want \in DemandSets, stateToken \in Nat, generation \in Nat,
         retainedDemands \in Partial(Runs),
         NEW c, c = AnalyzeRequest(want, FALSE, ChangedRuns(want),
                                   DOMAIN retainedDemands \ DOMAIN want, FALSE)
  PROVE  /\ c \in AnalyzeCalls /\ c.op = "analyze"
         /\ c.want = want /\ c.token = stateToken /\ Leads(c)
         /\ ~c.reset /\ ~c.complete /\ c.gen = generation
<1>1. /\ c.op = "analyze" /\ c.want = want /\ c.changed = ChangedRuns(want)
      /\ c.removed = DOMAIN retainedDemands \ DOMAIN want /\ c.token = stateToken
      /\ c.gen = generation
  BY DEF AnalyzeRequest
<1>2. ~c.reset /\ ~c.complete
  BY Zenon DEF AnalyzeRequest
<1>3. ChangedRuns(want) \in Partial(Runs) /\ DOMAIN retainedDemands \ DOMAIN want \in SUBSET Paths
  BY SessionAssumption, RestrictIsPartial, PartialFunctions DEF ChangedRuns
<1>4. c \in AnalyzeCalls
  BY <1>3 DEF AnalyzeRequest, AnalyzeCalls
<1> QED
  BY <1>1, <1>2, <1>4 DEF Leads

\* A call is made where none is under way.
LEMMA CallMade ==
  ASSUME ProtocolInvariant, call = Idle, UNCHANGED <<client, reply, outcome, producer>>,
         call'.op # "symbols", CallShape',
         call'.op \in {"read", "analyze"} => call'.gen = generation,
         call'.op = "update" => call'.gen = generation + 1
  PROVE  ProtocolInvariant'
<1>1. call.op = "none" /\ reply = NoReply /\ reply' = NoReply /\ reply.code = "none"
  BY DEF Idle, NoReply, ProtocolInvariant, Shapes, ReplyShape
<1>2. ReplyShape'
  BY <1>1 DEF ReplyShape, Codes
<1>3. InStep'
  BY <1>1 DEF ProtocolInvariant, InStep, Applied, client, producer
<1>4. AnswerPending'
  BY <1>1 DEF AnswerPending
<1>5. UNCHANGED <<client, producer>> /\ outcome' \in {"none", "ok", "error"}
  BY DEF ProtocolInvariant, Shapes
<1>6. Stamped'
  <2>1. UNCHANGED <<generation, logged, alive>> /\ generation <= logged
        /\ (alive => generation = logged) /\ reply'.code # "generation-mismatch"
    BY <1>1 DEF client, producer, ProtocolInvariant, Stamped
  <2> QED
    BY <2>1 DEF Stamped
<1> QED
  BY <1>2, <1>3, <1>4, <1>5, <1>6, SameClient

\* analyze_groups sends the edits that lead to what the caller wants.
LEMMA ClientAnalyzeKeeps ==
  ASSUME ProtocolInvariant, NEW want \in DemandSets, ClientAnalyze(want)
  PROVE  ProtocolInvariant'
<1>1. /\ generation \in Nat /\ stateToken \in Nat /\ retainedDemands \in Partial(Runs) /\ want \in Partial(Runs)
      /\ DOMAIN retainedDemands \subseteq Paths
  BY SessionAssumption, PartialFunctions DEF ProtocolInvariant, Shapes
<1>2. AnalyzeCall(call)' /\ call'.op = "analyze" /\ call'.gen = generation
  <2>0. UNCHANGED <<stateToken, token, retainedDemands>>
    BY DEF ClientAnalyze, client, producer
  <2>1. CASE stateToken = 0
    <3>1. call' = AnalyzeRequest(want, TRUE, want, {}, FALSE)
      BY <2>1 DEF ClientAnalyze
    <3>2. /\ call' \in AnalyzeCalls /\ call'.op = "analyze"
          /\ call'.want = want /\ call'.changed = want /\ call'.removed = {}
          /\ call'.token = 0 /\ call'.reset /\ call'.gen = generation
      BY <1>1, <3>1, ResetRequest
    <3> QED
      BY <2>0, <2>1, <3>2 DEF AnalyzeCall
  <2>2. CASE stateToken # 0
    <3>1. call' = AnalyzeRequest(want, FALSE, ChangedRuns(want),
                                 DOMAIN retainedDemands \ DOMAIN want, FALSE)
      BY <2>2 DEF ClientAnalyze
    <3>2. /\ call' \in AnalyzeCalls /\ call'.op = "analyze"
          /\ call'.token = stateToken /\ Leads(call')
          /\ ~call'.reset /\ ~call'.complete /\ call'.gen = generation
      BY <1>1, <3>1, TokenRequest
    <3>3. Leads(call)'
      BY <2>0, <3>2 DEF Leads, ChangedRuns
    <3> QED
      BY <2>0, <2>2, <3>2, <3>3 DEF AnalyzeCall
  <2> QED
    BY <2>1, <2>2
<1>3. CallShape'
  BY <1>2 DEF CallShape
<1> QED
  BY <1>2, <1>3, CallMade DEF ClientAnalyze

\* A new update is pending before the producer has seen it.
LEMMA ClientUpdateKeeps ==
  ASSUME ProtocolInvariant, NEW edit \in Edits, ClientUpdate(edit)
  PROVE  ProtocolInvariant'
<1>0. generation + 1 \in Nat
  BY DEF ProtocolInvariant, Shapes
<1>1. /\ call' \in [op : {"update"}, gen : Nat, edit : Edits, resent : BOOLEAN]
      /\ call'.op = "update" /\ call'.gen = generation + 1
  BY <1>0 DEF ClientUpdate
<1>2. logged' = logged /\ logged < MaxGeneration
  BY DEF ClientUpdate, client
<1>3. CallShape'
  BY <1>1, <1>2 DEF CallShape
<1> QED
  BY <1>1, <1>3, CallMade DEF ClientUpdate

\* A read changes nothing that is retained.
LEMMA ClientReadKeeps ==
  ASSUME ProtocolInvariant, ClientRead
  PROVE  ProtocolInvariant'
<1>0. generation \in Nat
  BY DEF ProtocolInvariant, Shapes
<1>1. /\ call' \in [op : {"read"}, gen : Nat, resent : BOOLEAN]
      /\ call'.op = "read" /\ call'.gen = generation
  BY <1>0 DEF ClientRead
<1>2. CallShape'
  BY <1>1 DEF CallShape
<1> QED
  BY <1>1, <1>2, CallMade DEF ClientRead

\* A producer that is gone holds nothing, and nothing is promised of it.
LEMMA ProducerGone ==
  ASSUME ProtocolInvariant, Gone, UNCHANGED <<client, outcome>>,
         CallShape', ReplyShape', Stamped', AnswerPending'
  PROVE  ProtocolInvariant'
<1>1. UNCHANGED <<generation, logged, sources, stateToken, retainedDemands, retainedTable, outcome>>
  BY DEF client
<1>2. /\ alive' = FALSE /\ producerSources' = InitialSources /\ closure' = InitClosure
      /\ token' = 0 /\ demands' = Empty /\ header' = 0
  BY DEF Gone, NoHeader
<1>3. Shapes'
  <2>1. ClosureShape(closure')
    BY <1>2, InitClosureShape
  <2> QED
    BY <1>1, <1>2, <2>1, SessionAssumption, EmptyIsPartial DEF ProtocolInvariant, Shapes, ClosureShape
<1>4. InStep' /\ RetainedTogether'
  BY <1>1, <1>2 DEF ProtocolInvariant, InStep, RetainedTogether
<1>5. TokenOfTable'
  BY <1>1, <1>2, InitClosureShape DEF TokenOfTable, NoHeader, ProtocolInvariant, Shapes
<1> QED
  BY <1>3, <1>4, <1>5 DEF ProtocolInvariant

\* Closing keeps what is retained.
LEMMA CloseKeeps ==
  ASSUME ProtocolInvariant, Close
  PROVE  ProtocolInvariant'
<1>1. call.op = "none" /\ call'.op = "closed" /\ reply' = NoReply /\ reply'.code = "none"
  BY DEF Close, Idle, NoReply, ProtocolInvariant, Shapes, ReplyShape
<1>2. CallShape' /\ ReplyShape' /\ AnswerPending'
  BY <1>1 DEF CallShape, ReplyShape, Codes, AnswerPending
<1>3. Stamped'
  BY <1>1, StampKept DEF Close, Gone, client
<1> QED
  BY <1>2, <1>3, ProducerGone DEF Close

\* A crash takes away one side: there is nothing left to agree with.
LEMMA CrashKeeps ==
  ASSUME ProtocolInvariant, Crash
  PROVE  ProtocolInvariant'
<1>1. /\ UNCHANGED <<generation, logged, sources, stateToken, retainedDemands, retainedTable>>
      /\ UNCHANGED <<call, reply, outcome>>
      /\ alive' = FALSE /\ token' = 0
  BY DEF Crash, Gone, client
<1>2. CallShape'
  <2>1. call.op = "analyze" => AnalyzeCall(call)'
    BY <1>1 DEF ProtocolInvariant, Shapes, CallShape, AnalyzeCall, Leads, ChangedRuns
  <2>2. call.op = "symbols" => SymbolsCall(call)'
    BY <1>1 DEF ProtocolInvariant, Shapes, CallShape, SymbolsCall, ClientDemands
  <2> QED
    BY <1>1, <2>1, <2>2 DEF ProtocolInvariant, Shapes, CallShape
<1>3. ReplyShape'
  BY <1>1 DEF ProtocolInvariant, Shapes, ReplyShape
<1>4. AnswerPending'
  BY <1>1 DEF ProtocolInvariant, AnswerPending, Acceptable, Candidate, Patch, Published
<1>5. Stamped'
  BY <1>1, StampKept
<1> QED
  BY <1>1, <1>2, <1>3, <1>4, <1>5, ProducerGone DEF Crash

\* An answer that only reports what the producer holds.
LEMMA ProducerAnswers ==
  ASSUME ProtocolInvariant, UNCHANGED <<client, call, outcome, producer>>,
         call.op \in {"read", "update", "analyze"}, ReplyShape', Stamped',
         AnswerPending', ~Applied, ~Applied'
  PROVE  ProtocolInvariant'
<1>1. /\ UNCHANGED <<generation, logged, sources, stateToken, retainedDemands, retainedTable>>
      /\ UNCHANGED <<alive, producerSources, closure, token, demands, header>>
      /\ UNCHANGED <<call, outcome>> /\ UNCHANGED <<client, producer>>
  BY DEF client, producer
<1>2. CallShape'
  BY <1>1 DEF ProtocolInvariant, Shapes, CallShape, AnalyzeCall, Leads, ChangedRuns
<1>3. InStep'
  BY <1>1 DEF ProtocolInvariant, InStep
<1> QED
  BY <1>1, <1>2, <1>3, SameClient DEF ProtocolInvariant, Shapes

\* A producer that is asked is in step with the client.
LEMMA AskedFacts ==
  ASSUME ProtocolInvariant, NEW op, Asked(op)
  PROVE  /\ alive /\ call.op = op /\ reply = NoReply /\ reply.code = "none"
         /\ ~Applied /\ closure.gen = generation /\ producerSources = sources
<1>1. reply.code = "none" /\ reply = NoReply /\ alive /\ call.op = op
  BY DEF Asked, NoReply
<1> QED
  BY <1>1 DEF ProtocolInvariant, InStep, Applied

\* A stamp the producer refuses is from before the replay.
LEMMA RefusedStamp ==
  ASSUME ProtocolInvariant, NEW op \in {"read", "analyze"}, Asked(op), call.gen # closure.gen,
         reply'.code = "generation-mismatch", UNCHANGED <<client, call, producer>>
  PROVE  Stamped'
<1>1. /\ alive /\ call.op = op /\ closure.gen = generation
      /\ generation \in Nat /\ logged \in Nat /\ call.gen \in Nat
  BY AskedFacts DEF ProtocolInvariant, Shapes, CallShape, AnalyzeCall, AnalyzeCalls
<1>2. /\ generation = logged /\ call.gen <= logged /\ call.gen # generation /\ call.resent
  BY <1>1 DEF ProtocolInvariant, Stamped
<1>3. StaleStamp
  BY <1>1, <1>2 DEF StaleStamp
<1>4. UNCHANGED <<generation, logged, call, alive>>
  BY DEF client, producer
<1>5. StaleStamp'
  BY <1>3, <1>4 DEF StaleStamp
<1> QED
  BY <1>4, <1>5 DEF ProtocolInvariant, Stamped

\* Answering a read changes nothing that is retained.
LEMMA ProducerReadKeeps ==
  ASSUME ProtocolInvariant, ProducerRead
  PROVE  ProtocolInvariant'
<1>1. Asked("read")
  BY DEF ProducerRead
<1>2. /\ call.op = "read" /\ call' = call /\ ~Applied
      /\ reply'.code = IF call.gen # closure.gen THEN "generation-mismatch" ELSE "ok"
  BY <1>1, AskedFacts DEF ProducerRead, Failure
<1>3. ReplyShape' /\ AnswerPending' /\ ~Applied'
  BY <1>2 DEF ReplyShape, Codes, AnswerPending, Applied
<1>4. Stamped'
  <2>1. CASE call.gen # closure.gen
    BY <1>1, <1>2, <2>1, RefusedStamp DEF ProducerRead
  <2>2. CASE call.gen = closure.gen
    BY <1>2, <2>2, StampKept DEF ProducerRead, client, producer
  <2> QED
    BY <2>1, <2>2
<1> QED
  BY <1>2, <1>3, <1>4, ProducerAnswers DEF ProducerRead

\* A refused update is applied on neither side.
LEMMA ProducerUpdateFailsKeeps ==
  ASSUME ProtocolInvariant, ProducerUpdateFails
  PROVE  ProtocolInvariant'
<1>1. Asked("update")
  BY DEF ProducerUpdateFails
<1>2. /\ call.op = "update" /\ call' = call /\ reply'.code = "update-failed" /\ ~Applied
  BY <1>1, AskedFacts DEF ProducerUpdateFails, Failure
<1>3. ReplyShape' /\ AnswerPending' /\ ~Applied'
  BY <1>2 DEF ReplyShape, Codes, AnswerPending, Applied
<1>4. Stamped'
  BY <1>2, StampKept DEF ProducerUpdateFails, client, producer
<1> QED
  BY <1>2, <1>3, <1>4, ProducerAnswers DEF ProducerUpdateFails

\* An analysis that fails publishes nothing.
LEMMA ProducerAnalyzeFailsKeeps ==
  ASSUME ProtocolInvariant, ProducerAnalyzeFails
  PROVE  ProtocolInvariant'
<1>1. Asked("analyze")
  BY DEF ProducerAnalyzeFails
<1>2. /\ call.op = "analyze" /\ reply'.code = "analysis-cancelled"
      /\ closure.gen = generation /\ producerSources = sources
  BY <1>1, AskedFacts DEF ProducerAnalyzeFails, Failure
<1>3. /\ UNCHANGED <<generation, logged, sources, stateToken, retainedDemands, retainedTable>>
      /\ UNCHANGED <<alive, producerSources, token, demands, header, call, outcome>>
  BY DEF ProducerAnalyzeFails, client
<1>4. ClosureShape(closure') /\ closure'.table = NoTable /\ closure'.gen = closure.gen
  BY ResetShape DEF ProducerAnalyzeFails, ProtocolInvariant, Shapes, ClosureShape, ResetAnalysisState
<1>5. closure'.prev = FALSE
  BY Zenon DEF ProducerAnalyzeFails, ResetAnalysisState
<1>6. CallShape' /\ ReplyShape'
  <2>1. AnalyzeCall(call)'
    BY <1>2, <1>3 DEF ProtocolInvariant, Shapes, CallShape, AnalyzeCall, Leads, ChangedRuns
  <2> QED
    BY <1>2, <1>3, <2>1 DEF CallShape, ReplyShape, Codes
<1>7. Shapes'
  <2> HIDE DEF ClosureShape
  <2> QED
    BY <1>3, <1>4, <1>6 DEF ProtocolInvariant, Shapes, ClosureShape
<1>8. InStep' /\ RetainedTogether'
  BY <1>2, <1>3, <1>4 DEF ProtocolInvariant, InStep, Applied, RetainedTogether
<1>9. TokenOfTable'
  BY <1>3, <1>4, <1>5 DEF ProtocolInvariant, TokenOfTable
<1>10. AnswerPending'
  BY <1>2, <1>3 DEF AnswerPending
<1>11. Stamped'
  BY <1>2, <1>3, StampKept
<1> QED
  BY <1>7, <1>8, <1>9, <1>10, <1>11 DEF ProtocolInvariant

\* Edited sources are sources.
LEMMA SourcesOverwritten ==
  ASSUME NEW src \in Sources, NEW edit \in Edits
  PROVE  Overwrite(src, edit) \in Sources
<1>1. edit \in Partial(Texts)
  BY SessionAssumption
<1>2. /\ DOMAIN edit \subseteq Paths /\ \A p \in DOMAIN edit : edit[p] \in Texts
  BY <1>1, PartialFunctions
<1>3. DOMAIN src = Paths /\ \A p \in Paths : src[p] \in Texts
  BY DEF Sources
<1>4. DOMAIN src \cup DOMAIN edit = Paths
  BY <1>2, <1>3
<1> QED
  BY <1>2, <1>3, <1>4 DEF Overwrite, Sources

\* What an edit affects are paths.
LEMMA AffectedIsPaths ==
  ASSUME NEW changed \in SUBSET Paths, NEW old, NEW new
  PROVE  Affected(changed, old, new) \in SUBSET Paths
BY DEF Affected, AffectedFromReverseDeps, Closure

\* The producer applies an update before the client hears of it.
LEMMA ProducerUpdateKeeps ==
  ASSUME ProtocolInvariant, ProducerUpdate
  PROVE  ProtocolInvariant'
<1> DEFINE new      == Overwrite(producerSources, call.edit)
           affected == Affected(DOMAIN call.edit, producerSources, new)
<1>1. Asked("update")
  BY DEF ProducerUpdate
<1>2. /\ call.op = "update" /\ alive
      /\ closure.gen = generation /\ producerSources = sources
  BY <1>1, AskedFacts
<1>3. /\ call.edit \in Edits /\ generation \in Nat /\ call.gen = generation + 1
      /\ ClosureShape(closure) /\ sources \in Sources
  BY <1>2, SessionAssumption DEF ProtocolInvariant, Shapes, CallShape, Stamped
<1>4. /\ UNCHANGED <<generation, logged, sources, stateToken, retainedDemands, retainedTable>>
      /\ UNCHANGED <<alive, token, demands, header, call, outcome>>
      /\ reply'.code = "ok" /\ producerSources' = new
      /\ closure' = ClosureUpdate(closure, DOMAIN call.edit, affected)
  BY <1>2, <1>3 DEF ProducerUpdate, client
<1>5. new \in Sources
  BY <1>2, <1>3, SourcesOverwritten
<1>6. DOMAIN call.edit \in SUBSET Paths
  BY <1>3, SessionAssumption, PartialFunctions
<1>7. affected \in SUBSET Paths
  BY <1>6, AffectedIsPaths
<1> HIDE DEF new, affected
<1>8. /\ ClosureShape(closure') /\ closure'.gen = closure.gen + 1
      /\ closure'.table = NoTable /\ (closure'.prev <=> closure.table # NoTable)
  <2>1. Invalidated(closure', closure, DOMAIN call.edit, affected)
    BY <1>3, <1>4, <1>6, <1>7, UpdateShape
  <2> QED
    BY <2>1 DEF Invalidated
<1>9. CallShape' /\ ReplyShape'
  BY <1>2, <1>4 DEF ProtocolInvariant, Shapes, CallShape, ReplyShape, Codes
<1>10. Shapes'
  BY <1>4, <1>5, <1>8, <1>9 DEF ProtocolInvariant, Shapes, ClosureShape
<1>11. InStep' /\ RetainedTogether'
  BY <1>2, <1>4, <1>8 DEF ProtocolInvariant, InStep, Applied, RetainedTogether, new
<1>12. TokenOfTable'
  <2>1. closure.table # NoTable => token # 0
    BY <1>3 DEF ProtocolInvariant, TokenOfTable, NoHeader, ClosureShape
  <2> QED
    BY <1>4, <1>8, <2>1 DEF ProtocolInvariant, TokenOfTable
<1>13. AnswerPending'
  BY <1>2, <1>4 DEF AnswerPending
<1>14. Stamped'
  BY <1>4, StampKept
<1> QED
  BY <1>10, <1>11, <1>12, <1>13, <1>14 DEF ProtocolInvariant

\* The answer to an update brings the client to the generation of the producer.
LEMMA UpdateAnsweredKeeps ==
  ASSUME ProtocolInvariant, UpdateAnswered
  PROVE  ProtocolInvariant'
<1>1. /\ call.op = "update" /\ Applied
      /\ call'.op = "none" /\ reply'.code = "none" /\ reply' = NoReply /\ outcome' = "ok"
      /\ generation' = generation + 1 /\ logged' = logged + 1 /\ sources' = Overwrite(sources, call.edit)
      /\ UNCHANGED <<stateToken, retainedDemands, retainedTable>>
      /\ UNCHANGED <<alive, producerSources, closure, token, demands, header>>
  BY DEF UpdateAnswered, Return, Idle, NoReply, producer, Applied
<1>2. /\ call.edit \in Edits /\ logged < MaxGeneration /\ generation <= logged
      /\ generation \in 1..MaxGeneration /\ logged \in 1..MaxGeneration
  BY <1>1 DEF ProtocolInvariant, Shapes, CallShape, Stamped
<1>3. Overwrite(sources, call.edit) \in Sources
  BY <1>2, SourcesOverwritten DEF ProtocolInvariant, Shapes
<1>4. CallShape' /\ ReplyShape'
  BY <1>1 DEF CallShape, ReplyShape, Codes
<1>5. Shapes'
  BY <1>1, <1>2, <1>3, <1>4, SessionAssumption DEF ProtocolInvariant, Shapes, ClosureShape
<1>6. InStep' /\ RetainedTogether' /\ TokenOfTable'
  BY <1>1, <1>2, <1>5 DEF Shapes, ProtocolInvariant, InStep, Applied, RetainedTogether, TokenOfTable
<1>7. AnswerPending'
  BY <1>1 DEF AnswerPending
<1>8. Stamped'
  BY <1>1, <1>2 DEF ProtocolInvariant, Stamped
<1> QED
  BY <1>5, <1>6, <1>7, <1>8 DEF ProtocolInvariant

\* The calls that end with the client's state as it was.
LEMMA EndedKeeps ==
  ASSUME ProtocolInvariant, ReadAnswered \/ SymbolsFailed \/ CallFailed \/ GiveUp
  PROVE  ProtocolInvariant'
<1>1. ~Applied
  BY DEF ReadAnswered, SymbolsFailed, CallFailed, GiveUp, Unanswered, Applied, NoReply
<1> QED
  BY <1>1, CallReturns DEF ReadAnswered, SymbolsFailed, CallFailed, GiveUp

\* The request a restart sends again.
LEMMA Resent ==
  ASSUME ProtocolInvariant, Recoverable, NEW last \in BOOLEAN,
         call' = [call EXCEPT !.resent = last,
                              !.gen = IF call.op = "update" THEN logged + 1 ELSE @]
  PROVE  /\ call.op = "analyze" =>
              /\ call' \in AnalyzeCalls /\ call'.op = "analyze"
              /\ call'.want = call.want /\ call'.token = call.token
              /\ call'.changed = call.changed /\ call'.removed = call.removed
              /\ call'.reset = call.reset /\ call'.complete = call.complete
              /\ call'.gen = call.gen
         /\ call.op = "update" =>
              /\ call' \in [op : {"update"}, gen : Nat, edit : Edits, resent : BOOLEAN]
              /\ call'.op = "update" /\ call'.gen = logged + 1
         /\ call.op = "read" =>
              /\ call' \in [op : {"read"}, gen : Nat, resent : BOOLEAN]
              /\ call'.op = "read" /\ call'.gen = call.gen
         /\ call.op \in {"analyze", "read"} => call'.resent = last
<1>1. logged \in Nat
  BY DEF ProtocolInvariant, Shapes
<1>2. CASE call.op = "analyze"
  <2>1. call \in AnalyzeCalls
    BY <1>2 DEF ProtocolInvariant, Shapes, CallShape, AnalyzeCall
  <2>2. call' = [call EXCEPT !.resent = last, !.gen = call.gen]
    BY <1>2
  <2>3. /\ call' \in AnalyzeCalls /\ call'.op = "analyze"
        /\ call'.want = call.want /\ call'.token = call.token
        /\ call'.changed = call.changed /\ call'.removed = call.removed
        /\ call'.gen = call.gen
    BY <2>1, <2>2 DEF AnalyzeCalls
  <2>4. call'.reset = call.reset /\ call'.complete = call.complete /\ call'.resent = last
    BY <2>1, <2>2 DEF AnalyzeCalls
  <2> QED
    BY <1>2, <2>3, <2>4
<1>3. CASE call.op = "update"
  <2>1. call \in [op : {"update"}, gen : Nat, edit : Edits, resent : BOOLEAN]
    BY <1>3 DEF ProtocolInvariant, Shapes, CallShape
  <2>2. call' = [call EXCEPT !.resent = last, !.gen = logged + 1]
    BY <1>3
  <2>3. /\ call' \in [op : {"update"}, gen : Nat, edit : Edits, resent : BOOLEAN]
        /\ call'.op = "update"
    <3>1. logged + 1 \in Nat
      BY <1>1
    <3> DEFINE g == logged + 1
    <3>2. g \in Nat /\ call' = [call EXCEPT !.resent = last, !.gen = g]
      BY <2>2, <3>1
    <3> HIDE DEF g
    <3> QED
      BY <2>1, <3>2
  <2>4. call'.gen = logged + 1
    BY <2>1, <2>2
  <2> QED
    BY <1>3, <2>3, <2>4
<1>4. CASE call.op = "read"
  <2>1. call \in [op : {"read"}, gen : Nat, resent : BOOLEAN]
    BY <1>4 DEF ProtocolInvariant, Shapes, CallShape
  <2>2. call' = [call EXCEPT !.resent = last, !.gen = call.gen]
    BY <1>4
  <2> QED
    BY <1>4, <2>1, <2>2
<1> QED
  BY <1>2, <1>3, <1>4 DEF Recoverable, Unanswered

\* A rebuilt producer is in step and has no token.
LEMMA RestartAndReplayKeeps ==
  ASSUME ProtocolInvariant, RestartAndReplay
  PROVE  ProtocolInvariant'
<1>1. PICK named : /\ named = NoPaths \/ named \in SUBSET Paths
                   /\ NewProducer(sources, logged, named)
  <2>1. \E named \in IF logged = 1 THEN {NoPaths} ELSE SUBSET Paths :
          NewProducer(sources, logged, named)
    BY DEF RestartAndReplay
  <2>2. CASE logged = 1
    BY <2>1, <2>2, Zenon
  <2>3. CASE logged # 1
    BY <2>1, <2>3, Zenon
  <2> QED
    BY <2>2, <2>3
<1>2. /\ generation' = logged /\ UNCHANGED <<logged, sources, reply, outcome>>
      /\ stateToken' = 0 /\ retainedDemands' = Empty /\ retainedTable' = NoTable
      /\ alive' = TRUE /\ producerSources' = sources
      /\ token' = 0 /\ demands' = Empty /\ header' = 0
  BY <1>1 DEF RestartAndReplay, ClearRetainedState, NewProducer, NoHeader
<1>3. /\ reply = NoReply /\ reply.code = "none" /\ call.op \in {"analyze", "update", "read"}
      /\ Recoverable
  BY DEF RestartAndReplay, Recoverable, Unanswered, NoReply
<1>13. PICK last \in BOOLEAN :
         /\ call' = [call EXCEPT !.resent = last,
                                 !.gen = IF call.op = "update" THEN logged + 1 ELSE @]
         /\ call.op # "update" => last = TRUE
  <2>1. \E last \in IF call.op = "update" THEN BOOLEAN ELSE {TRUE} :
          call' = [call EXCEPT !.resent = last,
                               !.gen = IF call.op = "update" THEN logged + 1 ELSE @]
    BY DEF RestartAndReplay
  <2>2. CASE call.op = "update"
    BY <2>1, <2>2, Zenon
  <2>3. CASE call.op # "update"
    BY <2>1, <2>3, Zenon
  <2> QED
    BY <2>2, <2>3
<1>4. /\ closure'.gen = logged /\ closure'.changed = named
      /\ closure'.table = NoTable /\ closure'.contrib = Empty
  BY <1>1 DEF NewProducer, InitClosure
<1>5. closure'.prev = FALSE /\ closure'.prev \in BOOLEAN
  BY <1>1, Zenon DEF NewProducer, InitClosure
<1>6. ClosureShape(closure')
  <2>1. logged \in Nat \ {0}
    BY DEF ProtocolInvariant, Shapes
  <2> QED
    BY <1>1, <1>4, <1>5, <2>1, EmptyProperties DEF ClosureShape
<1>14. /\ call.op = "analyze" =>
              /\ call' \in AnalyzeCalls /\ call'.op = "analyze"
              /\ call'.want = call.want /\ call'.token = call.token
              /\ call'.changed = call.changed /\ call'.removed = call.removed
              /\ call'.reset = call.reset /\ call'.complete = call.complete
              /\ call'.gen = call.gen
       /\ call.op = "update" =>
            /\ call' \in [op : {"update"}, gen : Nat, edit : Edits, resent : BOOLEAN]
            /\ call'.op = "update" /\ call'.gen = logged + 1
       /\ call.op = "read" =>
            /\ call' \in [op : {"read"}, gen : Nat, resent : BOOLEAN]
            /\ call'.op = "read" /\ call'.gen = call.gen
       /\ call.op \in {"analyze", "read"} => call'.resent
  BY <1>3, <1>13, Resent
<1>7. CallShape'
  <2>1. CASE call.op = "analyze"
    <3>1. AnalyzeCall(call)
      BY <2>1 DEF ProtocolInvariant, Shapes, CallShape
    <3>3. AnalyzeCall(call)'
      BY <1>2, <1>14, <2>1, <3>1 DEF AnalyzeCall
    <3> QED
      BY <1>14, <2>1, <3>3 DEF CallShape
  <2>2. CASE call.op = "update"
    <3>1. logged < MaxGeneration
      BY <2>2 DEF ProtocolInvariant, Shapes, CallShape
    <3> QED
      BY <1>2, <1>14, <2>2, <3>1 DEF CallShape
  <2>3. CASE call.op = "read"
    BY <1>14, <2>3 DEF CallShape
  <2> QED
    BY <1>3, <2>1, <2>2, <2>3
<1>8. ReplyShape'
  <2>1. call'.op \in {"analyze", "update", "read"}
    BY <1>3, <1>14
  <2> QED
    BY <1>2, <1>3, <2>1 DEF ReplyShape, Codes
<1>9. Shapes'
  BY <1>2, <1>6, <1>7, <1>8, EmptyIsPartial, NoTableGen
  DEF ProtocolInvariant, Shapes, ClosureShape
<1>10. InStep' /\ RetainedTogether'
  BY <1>2, <1>3, <1>4 DEF InStep, Applied, RetainedTogether
<1>11. TokenOfTable'
  BY <1>2, <1>4, <1>5, <1>9 DEF TokenOfTable, NoHeader, Shapes, ClosureShape
<1>12. AnswerPending'
  <2>1. call'.op # "symbols"
    BY <1>3, <1>14
  <2> QED
    BY <1>2, <1>3, <2>1 DEF AnswerPending
<1>15. Stamped'
  <2>1. /\ logged \in Nat /\ generation \in Nat /\ generation <= logged
        /\ call.op \in {"read", "analyze"} => call.gen <= logged
    BY DEF ProtocolInvariant, Shapes, Stamped
  <2>2. reply'.code = "none"
    BY <1>2, <1>3
  <2>3. /\ call'.op = call.op
        /\ call.op \in {"read", "analyze"} => call'.gen <= logged /\ call'.resent
        /\ call.op = "update" => call'.gen = logged + 1
    BY <1>3, <1>14, <2>1
  <2> QED
    BY <1>2, <2>1, <2>2, <2>3 DEF Stamped
<1> QED
  BY <1>9, <1>10, <1>11, <1>12, <1>15 DEF ProtocolInvariant

\* A replay that fails leaves a count short of the log, no producer and nothing
\* retained.
LEMMA ReplayFailsKeeps ==
  ASSUME ProtocolInvariant, ReplayFails
  PROVE  ProtocolInvariant'
<1>1. /\ generation' \in 1..logged /\ UNCHANGED <<logged, sources>>
      /\ stateToken' = 0 /\ retainedDemands' = Empty /\ retainedTable' = NoTable
      /\ UNCHANGED <<alive, producerSources, closure, token, demands, header>>
      /\ ~alive /\ outcome' = "error"
      /\ call'.op = "none" /\ reply' = NoReply /\ reply'.code = "none"
  BY DEF ReplayFails, ClearRetainedState, Return, Recoverable, Unanswered, producer, Idle, NoReply
<1>2. logged \in 1..MaxGeneration /\ MaxGeneration \in Nat /\ generation' \in 1..MaxGeneration
  BY <1>1, SessionAssumption DEF ProtocolInvariant, Shapes
<1>3. CallShape' /\ ReplyShape'
  BY <1>1 DEF CallShape, ReplyShape, Codes
<1>4. Shapes'
  BY <1>1, <1>2, <1>3, EmptyIsPartial, NoTableGen DEF ProtocolInvariant, Shapes, ClosureShape
<1>5. InStep' /\ RetainedTogether'
  BY <1>1 DEF InStep, RetainedTogether
<1>6. TokenOfTable'
  BY <1>1, <1>2 DEF ProtocolInvariant, TokenOfTable, NoHeader
<1>7. AnswerPending'
  BY <1>1 DEF AnswerPending
<1>8. Stamped'
  BY <1>1, <1>2 DEF Stamped
<1> QED
  BY <1>4, <1>5, <1>6, <1>7, <1>8 DEF ProtocolInvariant

\* A session without a connection keeps what it retained.
LEMMA SpawnFailsKeeps ==
  ASSUME ProtocolInvariant, SpawnFails
  PROVE  ProtocolInvariant'
<1>1. /\ UNCHANGED <<client, producer>> /\ outcome' = "error" /\ ~alive /\ alive' = alive
      /\ call'.op = "closed" /\ reply' = reply /\ reply = NoReply /\ reply'.code = "none"
  BY DEF SpawnFails, Recoverable, Unanswered, producer, NoReply
<1>2. CallShape' /\ ReplyShape' /\ AnswerPending'
  BY <1>1 DEF CallShape, ReplyShape, Codes, AnswerPending
<1>3. InStep'
  BY <1>1 DEF InStep
<1>4. Stamped'
  BY <1>1, StampKept DEF client
<1> QED
  BY <1>1, <1>2, <1>3, <1>4, SameClient

\* The complete request after a state mismatch.
LEMMA CompleteKeeps ==
  ASSUME ProtocolInvariant, Complete, UNCHANGED producer, ~Applied, call.want \in DemandSets
  PROVE  ProtocolInvariant'
<1>1. /\ UNCHANGED <<generation, logged, sources, outcome>>
      /\ UNCHANGED <<alive, producerSources, closure, token, demands, header>>
      /\ stateToken' = 0 /\ retainedDemands' = Empty /\ retainedTable' = NoTable
      /\ reply' = NoReply /\ reply'.code = "none"
  BY DEF Complete, ClearRetainedState, producer, NoReply
<1>2. call' = AnalyzeRequest(call.want, TRUE, call.want, {}, TRUE)
  BY DEF Complete
<1>3. /\ call' \in AnalyzeCalls /\ call'.op = "analyze" /\ call'.reset
      /\ call'.changed = call'.want /\ call'.removed = {} /\ call'.token = 0
      /\ call'.gen = generation
  <2>1. /\ call' \in AnalyzeCalls /\ call'.op = "analyze"
        /\ call'.want = call.want /\ call'.changed = call.want /\ call'.removed = {}
        /\ call'.token = 0 /\ call'.reset /\ call'.gen = generation
    <3>1. generation \in Nat
      BY DEF ProtocolInvariant, Shapes
    <3> QED
      BY <1>2, <3>1, ResetRequest, Zenon
  <2> QED
    BY <2>1
<1>4. AnalyzeCall(call)'
  BY <1>1, <1>3 DEF AnalyzeCall
<1>5. CallShape' /\ ReplyShape'
  BY <1>1, <1>3, <1>4 DEF CallShape, ReplyShape, Codes
<1>6. Shapes'
  BY <1>1, <1>5, EmptyIsPartial, NoTableGen DEF ProtocolInvariant, Shapes, ClosureShape
<1>7. InStep' /\ RetainedTogether'
  BY <1>1, <1>3 DEF ProtocolInvariant, InStep, Applied, RetainedTogether
<1>8. TokenOfTable'
  BY <1>1 DEF ProtocolInvariant, Shapes, TokenOfTable
<1>9. AnswerPending'
  BY <1>1, <1>3 DEF AnswerPending
<1>10. Stamped'
  BY <1>1, <1>3 DEF ProtocolInvariant, Stamped
<1> QED
  BY <1>6, <1>7, <1>8, <1>9, <1>10 DEF ProtocolInvariant

\* A refused token makes the client ask again with everything.
LEMMA AnalyzeMismatchedKeeps ==
  ASSUME ProtocolInvariant, AnalyzeMismatched
  PROVE  ProtocolInvariant'
<1>1. ~Applied /\ call.op = "analyze"
  BY DEF AnalyzeMismatched, Applied
<1>2. call.want \in DemandSets
  BY <1>1 DEF ProtocolInvariant, Shapes, CallShape, AnalyzeCall, AnalyzeCalls
<1> QED
  BY <1>1, <1>2, CompleteKeeps DEF AnalyzeMismatched

\* Publishing moves token, demands and table of the client together.
LEMMA PublishKeeps ==
  ASSUME ProtocolInvariant, NEW candidate, NEW newToken,
         Publish(candidate, newToken), UNCHANGED producer, ~Applied,
         Published(candidate, newToken), ClientDemands(call) = call.want,
         call.want \in DemandSets
  PROVE  ProtocolInvariant'
<1>1. /\ UNCHANGED <<generation, logged, sources>>
      /\ UNCHANGED <<alive, producerSources, closure, token, demands, header>>
      /\ call'.op = "none" /\ reply' = NoReply /\ reply'.code = "none" /\ outcome' = "ok"
      /\ stateToken' = newToken /\ retainedTable' = candidate
      /\ retainedDemands' = call.want
  BY DEF Publish, Return, Idle, NoReply, producer, ClientDemands
<1>2. /\ newToken \in Nat \ {0} /\ candidate.gen = generation /\ generation \in Nat \ {0}
      /\ call.want \in Partial(Runs)
  BY SessionAssumption DEF Published, ProtocolInvariant, Shapes
<1>3. candidate # NoTable
  BY <1>2, IsATable
<1>4. CallShape' /\ ReplyShape'
  BY <1>1 DEF CallShape, ReplyShape, Codes
<1>5. Shapes'
  BY <1>1, <1>2, <1>4 DEF ProtocolInvariant, Shapes, ClosureShape
<1>6. InStep'
  BY <1>1 DEF ProtocolInvariant, InStep, Applied
<1>7. RetainedTogether'
  BY <1>1, <1>2, <1>3 DEF RetainedTogether, Published
<1>8. TokenOfTable'
  BY <1>1, <1>2 DEF ProtocolInvariant, TokenOfTable, Published
<1>9. AnswerPending'
  BY <1>1 DEF AnswerPending
<1>10. Stamped'
  BY <1>1, StampKept
<1> QED
  BY <1>5, <1>6, <1>7, <1>8, <1>9, <1>10 DEF ProtocolInvariant

\* Edits of nothing lead to what they name.
LEMMA OntoEmpty ==
  ASSUME NEW S, NEW want \in Partial(S), NEW D
  PROVE  Overwrite(Restrict2(Empty, D), want) = want
<1>1. want = [p \in DOMAIN want |-> want[p]]
  BY PartialFunctions
<1>2. DOMAIN Restrict2(Empty, D) \cup DOMAIN want = DOMAIN want
  BY EmptyProperties, RestrictProperties
<1> QED
  BY <1>1, <1>2 DEF Overwrite

\* The demands the client publishes with an answer are the ones it asked for.
LEMMA AnswerDemands ==
  ASSUME ProtocolInvariant, call.op = "analyze", reply.code = "ok"
  PROVE  ClientDemands(call) = call.want /\ call.want \in DemandSets
<1>1. AnalyzeCall(call) /\ (~call.reset => call.token = stateToken)
  BY DEF ProtocolInvariant, Shapes, CallShape, AnswerPending
<1>2. /\ call.want \in DemandSets /\ call.want \in Partial(Runs)
      /\ retainedDemands \in Partial(Runs)
  BY <1>1, SessionAssumption DEF AnalyzeCall, AnalyzeCalls, ProtocolInvariant, Shapes
<1>3. CASE call.complete
  BY <1>2, <1>3 DEF ClientDemands
<1>4. CASE ~call.complete /\ call.reset
  <2>1. retainedDemands = Empty /\ call.changed = call.want
    BY <1>1, <1>4 DEF AnalyzeCall, ProtocolInvariant, RetainedTogether
  <2> QED
    BY <1>2, <1>4, <2>1, OntoEmpty DEF ClientDemands
<1>5. CASE ~call.complete /\ ~call.reset
  <2>1. Leads(call)
    BY <1>1, <1>5 DEF AnalyzeCall
  <2>2. Overwrite(Restrict2(retainedDemands, Paths \ call.removed), call.changed) = call.want
    BY <1>2, <2>1, EditsLead
  <2> QED
    BY <1>2, <1>5, <2>2 DEF ClientDemands
<1> QED
  BY <1>3, <1>4, <1>5

\* An answer that needs no symbols is published as it is.
LEMMA AnalyzePublishedKeeps ==
  ASSUME ProtocolInvariant, AnalyzePublished
  PROVE  ProtocolInvariant'
<1>1. call.op = "analyze" /\ reply.code = "ok" /\ ~Applied
  BY DEF AnalyzePublished, Applied
<1>2. Published(Candidate(reply.transition), reply.token)
  BY <1>1 DEF ProtocolInvariant, AnswerPending
<1> QED
  BY <1>1, <1>2, AnswerDemands, PublishKeeps DEF AnalyzePublished

\* An answer with a new table waits for its symbols.
LEMMA AnalyzeMaterializedKeeps ==
  ASSUME ProtocolInvariant, AnalyzeMaterialized
  PROVE  ProtocolInvariant'
<1>1. /\ call.op = "analyze" /\ reply.code = "ok" /\ ~Applied
      /\ UNCHANGED <<client, producer>> /\ outcome' = outcome
      /\ reply' = NoReply /\ reply'.code = "none"
  BY DEF AnalyzeMaterialized, Applied, NoReply
<1>2. /\ UNCHANGED <<generation, logged, sources, stateToken, retainedDemands, retainedTable>>
      /\ UNCHANGED <<alive, producerSources, closure, token, demands, header>>
  BY <1>1 DEF client, producer
<1>3. /\ call'.op = "symbols" /\ call'.want = call.want
      /\ call'.changed = call.changed /\ call'.removed = call.removed
      /\ call'.token = reply.token /\ call'.candidate = Candidate(reply.transition)
  BY DEF AnalyzeMaterialized
<1>4. call'.complete = call.complete
  BY Zenon DEF AnalyzeMaterialized
<1>5. call.complete \in BOOLEAN
  BY <1>1 DEF ProtocolInvariant, Shapes, CallShape, AnalyzeCall, AnalyzeCalls
<1>6. Published(Candidate(reply.transition), reply.token)
  BY <1>1 DEF ProtocolInvariant, AnswerPending
<1>7. SymbolsCall(call)'
  <2>1. ClientDemands(call)' = ClientDemands(call)
    BY <1>2, <1>3, <1>4 DEF ClientDemands
  <2> QED
    BY <1>1, <1>3, <1>4, <1>5, <1>6, <2>1, AnswerDemands DEF SymbolsCall, Published
<1>8. CallShape' /\ ReplyShape'
  BY <1>1, <1>3, <1>7 DEF CallShape, ReplyShape, Codes
<1>9. InStep'
  BY <1>1, <1>2, <1>3 DEF ProtocolInvariant, InStep, Applied
<1>10. AnswerPending'
  <2>1. Published(call.candidate, call.token)'
    BY <1>2, <1>3, <1>6 DEF Published
  <2> QED
    BY <1>3, <2>1 DEF AnswerPending
<1>11. Stamped'
  BY <1>1, <1>2, <1>3, StampKept
<1> QED
  BY <1>1, <1>8, <1>9, <1>10, <1>11, SameClient DEF ProtocolInvariant, Shapes

\* The last symbols publish what the analysis brought.
LEMMA SymbolsAnsweredKeeps ==
  ASSUME ProtocolInvariant, SymbolsAnswered
  PROVE  ProtocolInvariant'
<1>1. call.op = "symbols" /\ ~Applied /\ UNCHANGED producer
  BY DEF SymbolsAnswered, Asked, Applied
<1>2. SymbolsCall(call) /\ Published(call.candidate, call.token)
  BY <1>1 DEF ProtocolInvariant, Shapes, CallShape, AnswerPending
<1>3. CASE Publish(call.candidate, call.token)
  BY <1>1, <1>2, <1>3, PublishKeeps DEF SymbolsCall
<1>4. CASE Complete
  BY <1>1, <1>2, <1>4, CompleteKeeps DEF SymbolsCall
<1>5. CASE Return("error") /\ UNCHANGED client
  BY <1>1, <1>5, CallReturns
<1> QED
  BY <1>3, <1>4, <1>5 DEF SymbolsAnswered

-----------------------------------------------------------------------------
(* An analysis that publishes.                                             *)

\* The client takes a full table as it is.
LEMMA FullAnswer ==
  ASSUME NEW table, table.gen = generation, NEW t, t = Full(table)
  PROVE  /\ Acceptable(t) /\ Candidate(t).gen = generation
         /\ Candidate(t).sources = table.sources
         /\ Candidate(t).entities = table.entities
         /\ Candidate(t).files = table.files
BY DEF Full, Acceptable, Candidate

\* The client takes a delta onto the table and token it names.
LEMMA DeltaAnswer ==
  ASSUME NEW table, table.gen = generation, NEW base, NEW baseToken,
         retainedTable # NoTable, retainedTable.gen = base, stateToken = baseToken,
         NEW t, t = Delta(base, baseToken, table)
  PROVE  /\ Acceptable(t) /\ Candidate(t).gen = generation
         /\ LET patch(old, new) == Overwrite(Restrict2(old, Paths \ table.manifest),
                                             Restrict2(new, table.manifest))
            IN  /\ Candidate(t).sources = patch(retainedTable.sources, table.sources)
                /\ Candidate(t).entities = patch(retainedTable.entities, table.entities)
                /\ Candidate(t).files = patch(retainedTable.files, table.files)
BY DEF Delta, Acceptable, Candidate, Patch

\* What is known where the producer accepts a request.
LEMMA AcceptedRequest ==
  ASSUME ProtocolInvariant, Asked("analyze"), TokenAccepted
  PROVE  /\ AnalyzeCall(call) /\ call.want \in Partial(Runs) /\ call.changed \in Partial(Runs)
         /\ EditedPaths \in SUBSET Paths
         /\ NextDemands = call.want
         /\ ~call.reset => /\ call.token = token /\ stateToken = token /\ token # 0
                           /\ Leads(call) /\ retainedDemands = demands
                           /\ retainedTable.gen = header /\ retainedTable # NoTable
                           /\ header # NoHeader
<1>1. AnalyzeCall(call) /\ alive
  BY AskedFacts DEF ProtocolInvariant, Shapes, CallShape
<1>2. /\ call.want \in Partial(Runs) /\ call.changed \in Partial(Runs)
      /\ call.removed \in SUBSET Paths /\ retainedDemands \in Partial(Runs)
      /\ call.want \in DemandSets
  BY <1>1, SessionAssumption DEF AnalyzeCall, AnalyzeCalls, ProtocolInvariant, Shapes
<1>3. EditedPaths \in SUBSET Paths
  BY <1>2, PartialFunctions DEF EditedPaths
<1>4. CASE call.reset
  BY <1>1, <1>2, <1>3, <1>4 DEF NextDemands, AnalyzeCall
<1>5. CASE ~call.reset
  <2>1. call.token = token /\ token # 0 /\ stateToken = token /\ Leads(call)
    BY <1>1, <1>5 DEF TokenAccepted, AnalyzeCall
  <2>2. /\ retainedDemands = demands /\ retainedTable.gen = header
        /\ retainedTable # NoTable /\ header # NoHeader
    BY <1>1, <2>1 DEF ProtocolInvariant, TokenOfTable, RetainedTogether
  <2>3. NextDemands = call.want
    BY <1>2, <1>5, <2>1, <2>2, EditsLead DEF NextDemands
  <2> QED
    BY <1>1, <1>2, <1>3, <1>5, <2>1, <2>2, <2>3
<1> QED
  BY <1>4, <1>5

\* An analysis that edits nothing and finds a table of this generation publishes
\* what the client has.
LEMMA NothingToDoKeeps ==
  ASSUME ProtocolInvariant, ProducerAnalyze, call.gen = closure.gen,
         TokenAccepted, NothingToDo
  PROVE  /\ ProtocolInvariant'
         /\ reply'.transition = Reuse /\ Candidate(Reuse) = retainedTable
         /\ call.want = demands /\ header = generation /\ stateToken = token
<1>1. Asked("analyze") /\ call.op = "analyze" /\ closure.gen = generation /\ ~Applied
  BY AskedFacts DEF ProducerAnalyze
<1>2. /\ UNCHANGED <<client, call, outcome, producer>>
      /\ reply' = [ code |-> "ok", token |-> token, materialized |-> FALSE,
                    transition |-> Reuse ]
  BY <1>1 DEF ProducerAnalyze, producer
<1>3. reply'.code = "ok" /\ reply'.token = token /\ reply'.transition = Reuse
  BY <1>2
<1>4. reply'.materialized \in BOOLEAN
  BY <1>2, Zenon
<1>5. ~call.reset /\ call.changed = Empty /\ call.removed = {} /\ header = generation
  BY <1>1 DEF NothingToDo
<1>6. /\ call.token = token /\ stateToken = token /\ token # 0 /\ Leads(call)
      /\ retainedDemands = demands /\ retainedTable.gen = header /\ retainedTable # NoTable
      /\ call.want \in Partial(Runs)
  BY <1>1, <1>5, AcceptedRequest
<1>7. call.want = demands
  <2>1. Overwrite(Restrict2(retainedDemands, Paths \ {}), Empty) = call.want
    BY <1>5, <1>6, EditsLead DEF ProtocolInvariant, Shapes
  <2>2. retainedDemands \in Partial(Runs)
    BY DEF ProtocolInvariant, Shapes
  <2>3. /\ retainedDemands = [p \in DOMAIN retainedDemands |-> retainedDemands[p]]
        /\ DOMAIN retainedDemands \subseteq Paths
    BY <2>2, PartialFunctions
  <2>4. Restrict2(retainedDemands, Paths \ {}) = retainedDemands
    BY <2>3 DEF Restrict2
  <2>5. Overwrite(retainedDemands, Empty) = retainedDemands
    BY <2>3, EmptyProperties DEF Overwrite
  <2> QED
    BY <1>6, <2>1, <2>4, <2>5
<1>8. Acceptable(Reuse) /\ Candidate(Reuse) = retainedTable
  BY <1>5, <1>6 DEF Acceptable, Candidate, Reuse
<1>9. Published(Candidate(Reuse), token)'
  <2>1. /\ Candidate(Reuse)' = Candidate(Reuse)
        /\ UNCHANGED <<generation, alive, token, demands, header, call>>
    BY <1>2 DEF Candidate, Reuse, client, producer
  <2>2. DOMAIN retainedTable.entities = DOMAIN call.want
    BY <1>6, <1>7 DEF ProtocolInvariant, RetainedTogether
  <2> QED
    BY <1>5, <1>6, <1>7, <1>8, <2>1, <2>2 DEF Published, ProtocolInvariant, Shapes
<1>10. AnswerPending'
  <2>1. /\ Acceptable(reply.transition)'
        /\ Published(Candidate(reply.transition), reply.token)'
    BY <1>2, <1>3, <1>8, <1>9 DEF Acceptable, client, producer, Candidate, Reuse, Published
  <2> QED
    BY <1>1, <1>2, <1>4, <1>6, <2>1 DEF AnswerPending, client
<1>11. ReplyShape' /\ ~Applied'
  BY <1>1, <1>2, <1>3 DEF ReplyShape, Codes, Applied
<1>12. Stamped'
  BY <1>2, <1>3, StampKept DEF client, producer
<1> QED
  BY <1>1, <1>2, <1>3, <1>5, <1>6, <1>7, <1>8, <1>10, <1>11, <1>12, ProducerAnswers

\* The parts of ProducerAnalyze.
First == DemandTable(closure, producerSources, NextDemands, EditedPaths)
Base  == IF call.reset THEN NoHeader ELSE header
Broad == Base # NoHeader /\ First.table.manifest = NoPaths
Final == IF Broad
         THEN DemandTable(ResetAnalysisState(First), producerSources, NextDemands, EditedPaths)
         ELSE First

PublishedTransition == Transition(IF Broad THEN NoHeader ELSE Base, Final.table)

AnalysisPublishes ==
  /\ Asked("analyze") /\ TokenAccepted /\ ~NothingToDo
  /\ reply'.code = "ok" /\ reply'.token = token + 1
  /\ reply'.materialized \in BOOLEAN
  /\ reply'.transition = PublishedTransition
  /\ token' = token + 1 /\ demands' = NextDemands
  /\ header' = Final.table.gen /\ closure' = ReleaseTransportRows(Final)
  /\ UNCHANGED <<client, call, outcome, alive, producerSources>>

\* What the producer does with an analysis, by its token and its edits.
LEMMA AnalyzeCases ==
  ASSUME ProtocolInvariant, ProducerAnalyze
  PROVE  \/ /\ Asked("analyze") /\ call.gen # closure.gen
            /\ reply' = Failure("generation-mismatch")
            /\ UNCHANGED <<client, call, outcome, producer>>
         \/ /\ Asked("analyze") /\ ~TokenAccepted
            /\ reply' = Failure("state-mismatch") /\ UNCHANGED <<client, call, outcome, producer>>
         \/ call.gen = closure.gen /\ TokenAccepted /\ NothingToDo
         \/ AnalysisPublishes
<1>1. Asked("analyze")
  BY DEF ProducerAnalyze
<1>4. CASE call.gen # closure.gen
  BY <1>1, <1>4 DEF ProducerAnalyze, producer
<1>2. CASE call.gen = closure.gen /\ ~TokenAccepted
  BY <1>1, <1>2 DEF ProducerAnalyze, producer
<1>3. CASE call.gen = closure.gen /\ TokenAccepted /\ ~NothingToDo
  <2>1. /\ reply' = [ code |-> "ok", token |-> token + 1,
                      materialized |-> Materializes(closure, EditedPaths),
                      transition |-> PublishedTransition ]
        /\ token' = token + 1 /\ demands' = NextDemands
        /\ header' = Final.table.gen /\ closure' = ReleaseTransportRows(Final)
        /\ UNCHANGED <<client, call, outcome, alive, producerSources>>
    BY <1>1, <1>3, Zenon DEF ProducerAnalyze, First, Base, Broad, Final, PublishedTransition
  <2>2. reply'.code = "ok" /\ reply'.token = token + 1 /\ reply'.transition = PublishedTransition
    BY <2>1
  <2>3. reply'.materialized = Materializes(closure, EditedPaths)
    BY <2>1, Zenon
  <2>4. Materializes(closure, EditedPaths) \in BOOLEAN
    BY Zenon DEF Materializes
  <2>5. reply'.materialized \in BOOLEAN
    BY <2>3, <2>4, Zenon
  <2> QED
    BY <1>1, <1>3, <2>1, <2>2, <2>5 DEF AnalysisPublishes
<1> QED
  BY <1>2, <1>3, <1>4

\* An analysis that edits demands names them; one that edits none and publishes
\* met a table of an earlier generation, or the client asked for everything.
LEMMA SomethingToDo ==
  ASSUME ProtocolInvariant, Asked("analyze"), TokenAccepted, ~NothingToDo, ~call.reset
  PROVE  EditedPaths # {} \/ closure.table = NoTable
<1>1. /\ call.changed \in Partial(Runs) /\ header # NoHeader
  BY AcceptedRequest
<1>2. SUFFICES ASSUME EditedPaths = {}, closure.table # NoTable
               PROVE  FALSE
  OBVIOUS
<1>3. call.changed = Empty /\ call.removed = {}
  BY <1>1, <1>2, NoDomain DEF EditedPaths
<1>4. header = closure.gen
  BY <1>2 DEF ProtocolInvariant, TokenOfTable
<1> QED
  BY <1>1, <1>3, <1>4 DEF NothingToDo

\* The table an analysis sends, whether or not it was rebuilt from nothing.
LEMMA FinalTable ==
  ASSUME ProtocolInvariant, Asked("analyze"), TokenAccepted, ~NothingToDo
  PROVE  /\ Final.table.gen = generation
         /\ ClosureShape(ReleaseTransportRows(Final))
         /\ ReleaseTransportRows(Final).gen = generation
         /\ ReleaseTransportRows(Final).table # NoTable
         /\ (call.reset \/ Broad) => DOMAIN Final.table.entities = DOMAIN call.want
         /\ (~call.reset /\ ~Broad) =>
              /\ Final = First /\ Materializes(closure, EditedPaths)
              /\ First.table.manifest \subseteq Paths
              /\ EditedPaths \subseteq First.table.manifest
              /\ First.table.manifest \cap DOMAIN call.want = DOMAIN First.table.entities
<1> DEFINE src == producerSources
           dem == call.want
           e   == EditedPaths
           ready == DropEdited(closure, e)
           reset == ResetAnalysisState(First)
<1>1. /\ AnalyzeCall(call) /\ dem \in Partial(Runs) /\ e \in SUBSET Paths
      /\ NextDemands = dem /\ DOMAIN dem \subseteq Paths
      /\ ClosureShape(closure) /\ closure.gen = generation
  BY AcceptedRequest, AskedFacts, PartialFunctions DEF ProtocolInvariant, Shapes
<1>2. TableFor(First, closure, src, dem, e)
  BY <1>1, DemandTableShape DEF First
<1>3. CASE Broad
  <2>1. /\ ClosureShape(reset) /\ reset.table = NoTable /\ reset.gen = generation
        /\ reset.contrib = Empty
    <3>1. First.gen \in Nat \ {0}
      BY <1>1, <1>2 DEF TableFor, ClosureShape
    <3> QED
      BY <1>1, <1>2, <3>1, ResetShape DEF ResetAnalysisState, TableFor
  <2>2. Final = DemandTable(reset, src, dem, e)
    BY <1>1, <1>3 DEF Final
  <2> HIDE DEF reset
  <2>3. TableFor(Final, reset, src, dem, e)
    BY <1>1, <2>1, <2>2, DemandTableShape
  <2>4. Materializes(reset, e) /\ DOMAIN DropEdited(reset, e).contrib = {}
    BY <1>1, <2>1, DropEditedShape, EmptyProperties DEF Materializes
  <2>5. Recomputed(DropEdited(reset, e), dem) = DOMAIN dem
    BY <2>4 DEF Recomputed, Reusable
  <2> QED
    BY <1>3, <2>1, <2>3, <2>4, <2>5 DEF TableFor
<1>4. CASE ~Broad
  <2>1. Final = First
    BY <1>4 DEF Final
  <2>2. CASE call.reset
    <3>1. e = DOMAIN dem
      BY <1>1, <2>2 DEF AnalyzeCall, EditedPaths
    <3>2. CASE Materializes(closure, e)
      <4>1. DOMAIN ready.contrib = DOMAIN closure.contrib \ DOMAIN dem
        BY <1>1, <3>1, DropEditedShape
      <4>2. Recomputed(ready, dem) = DOMAIN dem
        BY <4>1 DEF Recomputed, Reusable
      <4> QED
        BY <1>1, <1>2, <2>1, <2>2, <3>2, <4>2 DEF TableFor
    <3>3. CASE ~Materializes(closure, e)
      <4>1. DOMAIN dem = {} /\ First = closure /\ closure.table # NoTable
        BY <1>2, <3>1, <3>3 DEF TableFor
      <4>2. DOMAIN closure.table.entities = {}
        BY <1>1, <4>1, EmptyProperties DEF ClosureShape
      <4> QED
        BY <1>1, <1>2, <2>1, <2>2, <4>1, <4>2 DEF TableFor
    <3> QED
      BY <3>2, <3>3
  <2>3. CASE ~call.reset
    <3>1. Materializes(closure, e)
      BY <1>2, <2>3, SomethingToDo DEF TableFor
    <3>2. First.table.manifest # NoPaths
      BY <1>4, <2>3, AcceptedRequest DEF Broad, Base
    <3> QED
      BY <1>1, <1>2, <1>4, <2>1, <2>3, <3>1, <3>2 DEF TableFor
  <2> QED
    BY <2>2, <2>3
<1> QED
  BY <1>3, <1>4

\* An answer that carries a table is a full table where the client presented no
\* token or the manifest was lost, and a delta onto the client's table otherwise.
LEMMA TransitionKind ==
  ASSUME ProtocolInvariant, Asked("analyze"), TokenAccepted, ~NothingToDo
  PROVE  /\ (call.reset \/ Broad) => PublishedTransition = Full(Final.table)
         /\ (~call.reset /\ ~Broad) => PublishedTransition = Delta(header, token, First.table)
<1>1. CASE call.reset \/ Broad
  BY <1>1 DEF PublishedTransition, Transition, Base, Broad
<1>2. CASE ~call.reset /\ ~Broad
  <2>1. /\ header # NoHeader /\ call.changed \in Partial(Runs) /\ closure.gen = generation
        /\ Final = First /\ First.table.gen = generation
        /\ EditedPaths \subseteq First.table.manifest
    BY <1>2, AcceptedRequest, AskedFacts, FinalTable
  <2>2. ~ (header = generation /\ First.table.manifest = {})
    <3>1. SUFFICES ASSUME header = generation, EditedPaths = {}
                   PROVE  FALSE
      BY <2>1
    <3>2. call.changed = Empty /\ call.removed = {}
      BY <2>1, <3>1, NoDomain DEF EditedPaths
    <3> QED
      BY <1>2, <2>1, <3>1, <3>2 DEF NothingToDo
  <2> QED
    BY <1>2, <2>1, <2>2 DEF PublishedTransition, Transition, Base
<1> QED
  BY <1>1, <1>2

\* The client accepts it, and what it makes of it has rows for the demands.
LEMMA TransitionAccepted ==
  ASSUME ProtocolInvariant, Asked("analyze"), TokenAccepted, ~NothingToDo
  PROVE  LET t == PublishedTransition
         IN  /\ Acceptable(t) /\ Candidate(t).gen = generation
             /\ DOMAIN Candidate(t).entities = DOMAIN call.want
<1> DEFINE t == PublishedTransition
<1>1. CASE call.reset \/ Broad
  <2>1. /\ t = Full(Final.table) /\ Final.table.gen = generation
        /\ DOMAIN Final.table.entities = DOMAIN call.want
    BY <1>1, TransitionKind, FinalTable
  <2> HIDE DEF t
  <2>2. Acceptable(t) /\ Candidate(t).gen = generation /\ Candidate(t).entities = Final.table.entities
    BY <2>1, FullAnswer
  <2> QED
    BY <2>1, <2>2 DEF t
<1>2. CASE ~call.reset /\ ~Broad
  <2> DEFINE m   == First.table.manifest
             old == retainedTable.entities
             new == First.table.entities
  <2>1. /\ t = Delta(header, token, First.table) /\ First.table.gen = generation
        /\ EditedPaths \subseteq m /\ m \cap DOMAIN call.want = DOMAIN new
    BY <1>2, TransitionKind, FinalTable
  <2>2. /\ stateToken = token /\ retainedTable.gen = header /\ retainedTable # NoTable
        /\ Leads(call) /\ retainedDemands \in Partial(Runs) /\ call.want \in Partial(Runs)
    BY <1>2, AcceptedRequest DEF ProtocolInvariant, Shapes
  <2>3. DOMAIN old = DOMAIN retainedDemands /\ DOMAIN old \subseteq Paths
    BY <2>2, PartialFunctions DEF ProtocolInvariant, RetainedTogether
  <2> HIDE DEF t
  <2>4. /\ Acceptable(t) /\ Candidate(t).gen = generation
        /\ Candidate(t).entities = Overwrite(Restrict2(old, Paths \ m), Restrict2(new, m))
    BY <2>1, <2>2, DeltaAnswer
  <2> HIDE DEF m, old, new
  <2>5. DOMAIN Overwrite(Restrict2(old, Paths \ m), Restrict2(new, m))
          = (DOMAIN old \ m) \cup DOMAIN new
    <3>1. DOMAIN Restrict2(old, Paths \ m) = DOMAIN old \ m
      BY <2>3, WithoutProperties
    <3>2. DOMAIN Restrict2(new, m) = DOMAIN new
      <4>1. DOMAIN new \cap m = DOMAIN new
        BY <2>1 DEF m, new
      <4> QED
        BY <4>1, RestrictProperties
    <3> QED
      BY <3>1, <3>2, OverwriteProperties
  <2>6. /\ \A p \in DOMAIN call.want : p \in DOMAIN retainedDemands \/ p \in m
        /\ \A p \in DOMAIN retainedDemands : p \in DOMAIN call.want \/ p \in m
    <3>1. \A p \in DOMAIN call.want : p \notin DOMAIN retainedDemands => p \in EditedPaths
      <4> DEFINE other == {p \in DOMAIN call.want :
                             ~ (/\ p \in DOMAIN retainedDemands
                                /\ retainedDemands[p] = call.want[p])}
      <4>1. DOMAIN call.changed = DOMAIN call.want \cap other
        BY <2>2, RestrictProperties, Zenon DEF Leads, ChangedRuns
      <4> QED
        BY <4>1 DEF EditedPaths
    <3>2. \A p \in DOMAIN retainedDemands : p \notin DOMAIN call.want => p \in EditedPaths
      BY <2>2 DEF EditedPaths, Leads
    <3> QED
      BY <2>1, <3>1, <3>2
  <2> QED
    BY <2>1, <2>3, <2>4, <2>5, <2>6 DEF t
<1> QED
  BY <1>1, <1>2

\* An analysis that succeeds publishes token, demands and header together.
LEMMA PublishesKeeps ==
  ASSUME ProtocolInvariant, AnalysisPublishes
  PROVE  ProtocolInvariant'
<1>1. /\ Asked("analyze") /\ TokenAccepted /\ ~NothingToDo
      /\ call.op = "analyze" /\ alive /\ closure.gen = generation /\ producerSources = sources
      /\ token \in Nat /\ generation \in 1..MaxGeneration
  BY AskedFacts DEF AnalysisPublishes, ProtocolInvariant, Shapes
<1>2. /\ UNCHANGED <<generation, logged, sources, stateToken, retainedDemands, retainedTable>>
      /\ UNCHANGED <<call, outcome, alive, producerSources>>
      /\ token' = token + 1 /\ demands' = call.want /\ header' = generation
      /\ reply'.code = "ok" /\ reply'.token = token + 1 /\ reply'.materialized \in BOOLEAN
      /\ reply'.transition = PublishedTransition
  BY <1>1, AcceptedRequest, FinalTable DEF AnalysisPublishes, client
<1>3. /\ ClosureShape(closure') /\ closure'.gen = generation /\ closure'.table # NoTable
  BY <1>1, FinalTable DEF AnalysisPublishes
<1>4. /\ AnalyzeCall(call) /\ call.want \in Partial(Runs)
      /\ ~call.reset => call.token = stateToken /\ Leads(call)
  BY <1>1, AcceptedRequest
<1>5. CallShape' /\ ReplyShape'
  <2>1. AnalyzeCall(call)'
    BY <1>2, <1>4 DEF AnalyzeCall, Leads, ChangedRuns
  <2> QED
    BY <1>1, <1>2, <2>1 DEF CallShape, ReplyShape, Codes
<1>6. Shapes'
  BY <1>1, <1>2, <1>3, <1>4, <1>5 DEF ProtocolInvariant, Shapes, ClosureShape
<1>7. InStep' /\ RetainedTogether'
  BY <1>1, <1>2, <1>3 DEF ProtocolInvariant, InStep, Applied, RetainedTogether
<1>8. TokenOfTable'
  <2>1. stateToken <= token /\ stateToken \in Nat /\ generation # 0
    BY <1>1 DEF ProtocolInvariant, TokenOfTable, Shapes
  <2> QED
    BY <1>1, <1>2, <1>3, <2>1 DEF TokenOfTable, NoHeader
<1>9. AnswerPending'
  <2> DEFINE t == PublishedTransition
  <2>1. /\ Acceptable(t) /\ Candidate(t).gen = generation
        /\ DOMAIN Candidate(t).entities = DOMAIN call.want
    BY <1>1, TransitionAccepted
  <2> HIDE DEF t
  <2>3. Acceptable(reply.transition)'
    BY <1>2, <2>1 DEF Acceptable, t
  <2>4. Candidate(reply.transition)' = Candidate(t)
    BY <1>2 DEF Candidate, Patch, t
  <2>5. Published(Candidate(reply.transition), reply.token)'
    BY <1>1, <1>2, <2>1, <2>4 DEF Published
  <2> QED
    BY <1>1, <1>2, <1>4, <2>3, <2>5 DEF AnswerPending
<1>10. Stamped'
  BY <1>2, StampKept
<1> QED
  BY <1>6, <1>7, <1>8, <1>9, <1>10 DEF ProtocolInvariant

\* Whatever the producer makes of an analysis, the two sides still agree.
LEMMA ProducerAnalyzeKeeps ==
  ASSUME ProtocolInvariant, ProducerAnalyze
  PROVE  ProtocolInvariant'
<1>1. CASE AnalysisPublishes
  BY <1>1, PublishesKeeps
<1>2. CASE call.gen = closure.gen /\ TokenAccepted /\ NothingToDo
  BY <1>2, NothingToDoKeeps
<1>3. CASE /\ Asked("analyze") /\ ~TokenAccepted
           /\ reply' = Failure("state-mismatch") /\ UNCHANGED <<client, call, outcome, producer>>
  <2>1. call.op = "analyze" /\ ~Applied /\ call' = call /\ reply'.code = "state-mismatch"
    BY <1>3, AskedFacts DEF Failure
  <2>2. ReplyShape' /\ AnswerPending' /\ ~Applied'
    BY <2>1 DEF ReplyShape, Codes, AnswerPending, Applied
  <2>3. Stamped'
    BY <1>3, <2>1, StampKept DEF client, producer
  <2> QED
    BY <1>3, <2>1, <2>2, <2>3, ProducerAnswers
<1>4. CASE /\ Asked("analyze") /\ call.gen # closure.gen
           /\ reply' = Failure("generation-mismatch")
           /\ UNCHANGED <<client, call, outcome, producer>>
  <2>1. call.op = "analyze" /\ ~Applied /\ call' = call /\ reply'.code = "generation-mismatch"
    BY <1>4, AskedFacts DEF Failure
  <2>2. ReplyShape' /\ AnswerPending' /\ ~Applied'
    BY <2>1 DEF ReplyShape, Codes, AnswerPending, Applied
  <2>3. Stamped'
    BY <1>4, <2>1, RefusedStamp
  <2> QED
    BY <1>4, <2>1, <2>2, <2>3, ProducerAnswers
<1> QED
  BY <1>1, <1>2, <1>3, <1>4, AnalyzeCases

-----------------------------------------------------------------------------
(* The theorems.                                                           *)

\* Every step keeps the invariant.
LEMMA ProtocolStep ==
  ASSUME ProtocolInvariant, [Next]_vars
  PROVE  ProtocolInvariant'
<1>1. CASE UNCHANGED vars
  <2>1. /\ UNCHANGED <<client, producer>>
        /\ UNCHANGED <<generation, logged, stateToken, retainedDemands, retainedTable, sources>>
        /\ UNCHANGED <<token, demands, header, alive, closure, producerSources>>
        /\ UNCHANGED <<call, reply, outcome>>
    BY <1>1 DEF vars, client, producer
  <2>2. CallShape' /\ ReplyShape' /\ InStep'
    BY <2>1 DEF ProtocolInvariant, Shapes, CallShape, ReplyShape, InStep, Applied,
                AnalyzeCall, SymbolsCall, ClientDemands, Leads, ChangedRuns
  <2>3. AnswerPending'
    BY <2>1 DEF ProtocolInvariant, AnswerPending, Acceptable, Candidate, Patch, Published
  <2>4. Stamped'
    BY <2>1, StampKept
  <2> QED
    BY <2>1, <2>2, <2>3, <2>4, SameClient DEF ProtocolInvariant, Shapes
<1>2. CASE ProducerStep
  BY <1>2, ProducerReadKeeps, ProducerUpdateFailsKeeps, ProducerAnalyzeFailsKeeps,
     ProducerUpdateKeeps, ProducerAnalyzeKeeps DEF ProducerStep
<1>3. CASE ClientStep
  BY <1>3, UpdateAnsweredKeeps, AnalyzeMismatchedKeeps, AnalyzePublishedKeeps,
     AnalyzeMaterializedKeeps, SymbolsAnsweredKeeps, RestartAndReplayKeeps, EndedKeeps,
     ReplayFailsKeeps, SpawnFailsKeeps
  DEF ClientStep
<1>4. CASE Caller
  BY <1>4, ClientAnalyzeKeeps, ClientUpdateKeeps, ClientReadKeeps, CloseKeeps DEF Caller
<1>5. CASE Crash
  BY <1>5, CrashKeeps
<1> QED
  BY <1>1, <1>2, <1>3, <1>4, <1>5 DEF Next

\* The protocol invariant holds throughout: generations, tokens, demands and tables
\* of client and producer (session.rs, session.go) stay related through every call,
\* crash, restart and cancellation.
THEOREM ProtocolHolds == Spec => []ProtocolInvariant
<1>1. Init => ProtocolInvariant
  BY ProtocolInit
<1>2. ProtocolInvariant /\ [Next]_vars => ProtocolInvariant'
  BY ProtocolStep
<1> QED
  BY <1>1, <1>2, PTL DEF Spec

\* Every variable keeps its shape, and no update is counted past the bound, on a
\* project and a history of any size.
THEOREM SessionTypeCorrect == Spec => []TypeOK
<1>1. ProtocolInvariant => TypeOK
  <2> SUFFICES ASSUME ProtocolInvariant
               PROVE  TypeOK
    OBVIOUS
  <2>1. header = NoHeader \/ header \in 1..MaxGeneration
    BY SessionAssumption DEF ProtocolInvariant, Shapes, TokenOfTable, NoHeader
  <2>2. generation \in 1..logged
    BY DEF ProtocolInvariant, Shapes, Stamped
  <2> QED
    BY <2>1, <2>2 DEF ProtocolInvariant, Shapes, CallShape, ReplyShape, Codes, TypeOK
<1> QED
  BY <1>1, ProtocolHolds, PTL

\* Between calls a live producer, the session and its replay log are at the same
\* generation, however updates were refused, resent or replayed; and the one
\* request ever answered generation-mismatch is a read or an analysis that a
\* restart resent with the stamp a failed replay had left the session with
\* (session.rs, exchange and restart_and_replay).  An update never is.
THEOREM GenerationsAlwaysAgree == Spec => []GenerationsAgree
<1>1. ProtocolInvariant => GenerationsAgree
  <2> SUFFICES ASSUME ProtocolInvariant
               PROVE  GenerationsAgree
    OBVIOUS
  <2>1. ASSUME alive, call = Idle
        PROVE  closure.gen = generation /\ generation = logged
    <3>1. ~Applied
      BY <2>1 DEF Applied, Idle
    <3> QED
      BY <2>1, <3>1 DEF ProtocolInvariant, InStep, Stamped
  <2>2. reply.code = "generation-mismatch" => StaleStamp
    BY DEF ProtocolInvariant, Stamped
  <2> QED
    BY <2>1, <2>2 DEF StaleStamp, GenerationsAgree
<1> QED
  BY <1>1, ProtocolHolds, PTL

\* Token, demands and table of the client are published together and dropped
\* together, whichever calls fail.
THEOREM PublishedTogether == Spec => []RetainedTogether
<1>1. ProtocolInvariant => RetainedTogether
  BY DEF ProtocolInvariant
<1> QED
  BY <1>1, ProtocolHolds, PTL

\* A token both sides hold proves that they hold the same demands and that the
\* producer's header is of the client's table.
THEOREM TokenIsProof == Spec => []TokenProvesAgreement
<1>1. ProtocolInvariant => TokenProvesAgreement
  BY DEF ProtocolInvariant, TokenOfTable, RetainedTogether, TokenProvesAgreement
<1> QED
  BY <1>1, ProtocolHolds, PTL

\* prepare_analyze_response refuses no transition of the producer: a delta names
\* the table and the token the client holds when the answer arrives.
THEOREM NoAnswerRefused == Spec => []AnswersAccepted
<1>1. ProtocolInvariant => AnswersAccepted
  BY DEF ProtocolInvariant, AnswerPending, AnswersAccepted
<1> QED
  BY <1>1, ProtocolHolds, PTL

-----------------------------------------------------------------------------
(* What analyze_groups returns is the table of a fresh producer, for a     *)
(* project whose configuration includes every file, whose async demands    *)
(* name functions of their own file, and a caller that asks for something. *)
(* Each of the three is needed: runs of the project show what becomes of   *)
(* the manifest where a file enters or leaves the program, and README.md   *)
(* says what becomes of the other two.                                     *)

WholeProgram ==
  /\ Roots = Paths
  /\ \A p \in Paths : \A r \in Runs : AsyncTargets[p][r] \subseteq {p}
  /\ Empty \notin DemandSets

-----------------------------------------------------------------------------
(* The inductive invariant of freshness.                                   *)

\* The paths no update or demand edit named since the last table.
Unnamed(cl) == IF cl.changed = NoPaths THEN Paths ELSE Paths \ cl.changed

\* The async facts of a file whose symbols have durable identities.
OwnAsyncFacts(p, src) == {<<src[p], ShapesSeen(p, src), 0>>}

\* The manifest of the next table will name all that differs from the last one.
KnownBase(cl) == cl.table # NoTable \/ cl.prev

ContribFresh(cl, src, dem) ==
  \A p \in DOMAIN cl.contrib :
    /\ p \notin NonDurable /\ p \in DOMAIN dem
    /\ cl.contrib[p].run = dem[p]
    /\ cl.contrib[p].deps = Dependencies(p, src)
    /\ cl.contrib[p].rows = EntityRows(p, dem[p], src, cl.gen)

AsyncFresh(cl, src) ==
  (cl.async # NoAsync /\ KnownBase(cl)) =>
    \A p \in DOMAIN cl.async \cap Unnamed(cl) :
      p \notin NonDurable /\ cl.async[p] = OwnAsyncFacts(p, src)

\* Where nothing was named, the client's table is the one of src.
Agrees(t, cl, src, dem) ==
  /\ DOMAIN t.sources = Paths /\ DOMAIN t.files = Paths /\ DOMAIN t.entities = DOMAIN dem
  /\ \A p \in Unnamed(cl) :
       /\ t.sources[p] = src[p]
       /\ p \notin AsyncGroups(dem) => t.files[p] = {}
       /\ p \in AsyncGroups(dem) \ NonDurable => t.files[p] = OwnAsyncFacts(p, src)
       /\ p \in DOMAIN cl.contrib => t.entities[p] = cl.contrib[p].rows

Holds == alive /\ stateToken # 0 /\ stateToken = token

BaseAgrees ==
  Holds => /\ KnownBase(closure) => Agrees(retainedTable, closure, producerSources, demands)
           /\ header = closure.gen =>
                retainedTable = FreshTable(producerSources, demands, closure.gen)

\* What is about to be published is the table of this generation.
AnswerFresh ==
  /\ (call.op = "analyze" /\ reply.code = "ok") =>
       Candidate(reply.transition) = FreshTable(sources, call.want, generation)
  /\ call.op = "symbols" => call.candidate = FreshTable(sources, call.want, generation)

Freshness ==
  /\ closure.table # NoTable => closure.changed = NoPaths
  /\ ContribFresh(closure, producerSources, demands)
  /\ AsyncFresh(closure, producerSources)
  /\ BaseAgrees /\ AnswerFresh

FreshInvariant == ProtocolInvariant /\ Freshness

-----------------------------------------------------------------------------
(* Reachability in the import graph.                                       *)

\* What is reachable lies in every closed set that holds the start.
LEMMA ClosureMinimal ==
  ASSUME NEW S, NEW step, NEW T \in SUBSET Paths, S \subseteq T, ClosedUnder(T, step)
  PROVE  Closure(S, step) \subseteq T
BY DEF Closure

\* What is reachable is closed and holds the start.
LEMMA ClosureClosed ==
  ASSUME NEW S \in SUBSET Paths, NEW step, \A p \in Paths : step[p] \subseteq Paths
  PROVE  /\ Closure(S, step) \in SUBSET Paths /\ S \subseteq Closure(S, step)
         /\ ClosedUnder(Closure(S, step), step)
<1>1. Closure(S, step) \in SUBSET Paths /\ S \subseteq Closure(S, step)
  BY DEF Closure
<1>2. ASSUME NEW p \in Closure(S, step), NEW q \in step[p]
      PROVE  q \in Closure(S, step)
  <2>1. q \in Paths
    BY <1>1
  <2>2. ASSUME NEW T \in SUBSET Paths, S \subseteq T, ClosedUnder(T, step)
        PROVE  q \in T
    <3>1. p \in T
      BY <2>2 DEF Closure
    <3> QED
      BY <2>2, <3>1 DEF ClosedUnder
  <2> QED
    BY <2>1, <2>2 DEF Closure
<1> QED
  BY <1>1, <1>2 DEF ClosedUnder

\* Where the configuration includes every file, every file is in the program.
LEMMA AllMembers ==
  ASSUME Roots = Paths, NEW src
  PROVE  Members(src) = Paths
BY DEF Members, Closure

\* Imports lead to paths.
LEMMA ForwardStays ==
  ASSUME NEW src \in Sources
  PROVE  \A p \in Paths : Forward(src)[p] = Edges(p, src) /\ Edges(p, src) \subseteq Paths
BY ProgramAssumption DEF Forward, Edges, Sources

\* Two source states with the same imports on a set of files that neither leads
\* out of reach the same files from it.
LEMMA SameReach ==
  ASSUME NEW old \in Sources, NEW new \in Sources, NEW U \in SUBSET Paths,
         \A q \in U : Edges(q, old) = Edges(q, new) /\ Edges(q, old) \subseteq U,
         NEW p \in U
  PROVE  Reach(p, old) = Reach(p, new) /\ Reach(p, old) \subseteq U
<1>1. ASSUME NEW a \in Sources, NEW b \in Sources,
             \A q \in U : Edges(q, a) = Edges(q, b) /\ Edges(q, a) \subseteq U
      PROVE  Reach(p, a) \subseteq U /\ Reach(p, a) \subseteq Reach(p, b)
  <2>1. ClosedUnder(U, Forward(a)) /\ ClosedUnder(U, Forward(b))
    BY <1>1, ForwardStays DEF ClosedUnder
  <2>2. Reach(p, a) \subseteq U /\ Reach(p, b) \subseteq U
    BY <2>1, ClosureMinimal DEF Reach
  <2>3. Reach(p, b) \in SUBSET Paths /\ {p} \subseteq Reach(p, b) /\ ClosedUnder(Reach(p, b), Forward(b))
    BY ClosureClosed, ForwardStays DEF Reach
  <2>4. ClosedUnder(Reach(p, b), Forward(a))
    BY <1>1, <2>2, <2>3, ForwardStays DEF ClosedUnder
  <2> QED
    BY <2>2, <2>3, <2>4, ClosureMinimal DEF Reach
<1>2. Reach(p, old) \subseteq U /\ Reach(p, old) \subseteq Reach(p, new)
  BY <1>1
<1>3. Reach(p, new) \subseteq Reach(p, old)
  BY <1>1
<1> QED
  BY <1>2, <1>3

\* A file outside what an update affects, and not edited, has the text, the
\* imports and the shapes in reach that it had.
LEMMA UnaffectedSame ==
  ASSUME Roots = Paths, NEW old \in Sources, NEW new \in Sources, NEW changed \in SUBSET Paths,
         \A q \in Paths \ changed : new[q] = old[q],
         NEW p \in Paths, p \notin changed, p \notin Affected(changed, old, new)
  PROVE  /\ new[p] = old[p] /\ Edges(p, new) = Edges(p, old)
         /\ ShapesSeen(p, new) = ShapesSeen(p, old)
<1>1. \A q \in Paths \ changed : Edges(q, new) = Edges(q, old)
  BY DEF Edges
<1>2. Members(old) = Paths /\ Members(new) = Paths
  BY AllMembers
\* It is enough that p cannot reach an edited file.
<1>3. ASSUME NEW U \in SUBSET Paths, p \in U, U \cap changed = {},
             \A q \in U : Edges(q, old) \subseteq U
      PROVE  ShapesSeen(p, new) = ShapesSeen(p, old)
  <2>1. Reach(p, old) = Reach(p, new) /\ Reach(p, old) \subseteq U
    BY <1>1, <1>3, SameReach
  <2>2. \A q \in U : new[q] = old[q]
    BY <1>3
  <2> QED
    BY <2>1, <2>2 DEF ShapesSeen
<1>4. CASE ~SemanticCutoff(changed, old, new)
  <2> DEFINE step == [q \in Paths |-> Importers(q, old) \cup Importers(q, new)]
             A    == Closure(changed, step)
  <2>1. A = Affected(changed, old, new)
    BY <1>4 DEF Affected, AffectedFromReverseDeps
  <2>2. \A q \in Paths : step[q] \subseteq Paths
    BY <1>2 DEF Importers
  <2>3. changed \subseteq A /\ ClosedUnder(A, step)
    BY <2>2, ClosureClosed
  <2>4. ASSUME NEW q \in Paths \ A, NEW r \in Edges(q, old)
        PROVE  r \in Paths \ A
    <3>1. r \in Paths
      BY ForwardStays
    <3>2. q \in step[r]
      BY <1>2, <3>1 DEF Importers
    <3> QED
      BY <2>3, <3>1, <3>2 DEF ClosedUnder
  <2> HIDE DEF A
  <2>5. ShapesSeen(p, new) = ShapesSeen(p, old)
    <3> DEFINE U == Paths \ A
    <3>1. /\ U \in SUBSET Paths /\ p \in U /\ U \cap changed = {}
          /\ \A q \in U : Edges(q, old) \subseteq U
      BY <2>1, <2>3, <2>4
    <3> QED
      BY <1>3, <3>1
  <2> QED
    BY <1>1, <2>5
<1>5. CASE SemanticCutoff(changed, old, new)
  <2>1. PICK c \in changed :
          /\ changed = {c} /\ c \in Paths
          /\ \/ Importers(c, old) = {}
             \/ Shape[c][old[c]] = Shape[c][new[c]] /\ Edges(c, old) = Edges(c, new)
    BY <1>5 DEF SemanticCutoff
  <2>2. CASE Importers(c, old) = {}
    <3> DEFINE U == Paths \ {c}
    <3>1. \A q \in U : Edges(q, old) \subseteq U
      BY <1>2, <2>2, ForwardStays DEF Importers
    <3>2. U \in SUBSET Paths /\ p \in U /\ U \cap changed = {}
      BY <2>1
    <3> QED
      BY <1>1, <1>3, <3>1, <3>2
  <2>3. CASE Shape[c][old[c]] = Shape[c][new[c]] /\ Edges(c, old) = Edges(c, new)
    <3>1. \A q \in Paths : /\ Edges(q, new) = Edges(q, old)
                           /\ Shape[q][new[q]] = Shape[q][old[q]]
      BY <1>1, <2>1, <2>3
    <3>2. Reach(p, old) = Reach(p, new) /\ Reach(p, old) \subseteq Paths
      <4>1. \A q \in Paths : Edges(q, old) = Edges(q, new) /\ Edges(q, old) \subseteq Paths
        BY <3>1, ForwardStays
      <4> QED
        BY <4>1, SameReach
    <3>3. ShapesSeen(p, new) = ShapesSeen(p, old)
      BY <3>1, <3>2 DEF ShapesSeen
    <3> QED
      BY <1>1, <3>3
  <2> QED
    BY <2>1, <2>2, <2>3
<1> QED
  BY <1>4, <1>5

\* Its rows are the same too, where none of the files its declarations are in was
\* edited or affected.
LEMMA UnaffectedRows ==
  ASSUME Roots = Paths, NEW old \in Sources, NEW new \in Sources, NEW changed \in SUBSET Paths,
         \A q \in Paths \ changed : new[q] = old[q],
         NEW p \in Paths, p \notin changed, p \notin Affected(changed, old, new),
         Dependencies(p, old) \cap changed = {}, p \notin NonDurable,
         NEW run, NEW g, NEW h
  PROVE  /\ Dependencies(p, new) = Dependencies(p, old)
         /\ EntityRows(p, run, new, g) = EntityRows(p, run, old, h)
<1>1. /\ new[p] = old[p] /\ Edges(p, new) = Edges(p, old)
      /\ ShapesSeen(p, new) = ShapesSeen(p, old)
  BY UnaffectedSame
<1>2. Members(old) = Paths /\ Members(new) = Paths
  BY AllMembers
<1>3. Dependencies(p, new) = Dependencies(p, old)
  BY <1>1, <1>2 DEF Dependencies
<1>4. \A q \in Dependencies(p, old) : new[q] = old[q]
  <2>1. Dependencies(p, old) \subseteq Paths
    BY <1>2, ForwardStays DEF Dependencies
  <2> QED
    BY <2>1
<1>5. [q \in Dependencies(p, new) |-> new[q]] = [q \in Dependencies(p, old) |-> old[q]]
  BY <1>3, <1>4
<1> QED
  BY <1>1, <1>2, <1>3, <1>5 DEF EntityRows

-----------------------------------------------------------------------------
(* Async facts.                                                            *)

\* The async facts of one file, asked for anew.
AsyncFactsOf(q, src, gen) ==
  {<<src[q], ShapesSeen(q, src), IF q \in NonDurable THEN gen ELSE 0>>}

\* Where async demands stay in their file, so do the facts.
LEMMA AsyncFactsByFile ==
  ASSUME WholeProgram, NEW dem \in Partial(Runs), NEW groups \in SUBSET AsyncGroups(dem),
         NEW src, NEW gen
  PROVE  /\ DOMAIN AsyncFacts(groups, dem, src, gen) = Paths
         /\ \A q \in Paths : AsyncFacts(groups, dem, src, gen)[q] =
                               IF q \in groups THEN AsyncFactsOf(q, src, gen) ELSE {}
<1>1. Members(src) = Paths
  BY AllMembers DEF WholeProgram
<1>2. \A g \in groups : g \in Paths /\ AsyncTargets[g][dem[g]] = {g}
  BY PartialFunctions DEF WholeProgram, AsyncGroups
<1>3. ASSUME NEW q \in Paths
      PROVE  AsyncFacts(groups, dem, src, gen)[q] =
               IF q \in groups THEN AsyncFactsOf(q, src, gen) ELSE {}
  <2>1. {g \in groups : q \in AsyncTargets[g][dem[g]]} = IF q \in groups THEN {q} ELSE {}
    BY <1>2
  <2> DEFINE fact == <<src[q], ShapesSeen(q, src), IF q \in NonDurable THEN gen ELSE 0>>
             asking == {g \in groups : q \in AsyncTargets[g][dem[g]]}
  <2>2. AsyncFacts(groups, dem, src, gen)[q] = {fact : p \in asking}
    BY <1>1 DEF AsyncFacts
  <2> HIDE DEF fact, asking
  <2>3. CASE q \in groups
    <3>1. asking = {q}
      BY <2>1, <2>3 DEF asking
    <3> QED
      BY <2>2, <2>3, <3>1 DEF AsyncFactsOf, fact
  <2>4. CASE q \notin groups
    <3>1. asking = {}
      BY <2>1, <2>4 DEF asking
    <3> QED
      BY <2>2, <2>4, <3>1
  <2> QED
    BY <2>3, <2>4
<1>4. DOMAIN AsyncFacts(groups, dem, src, gen) = Paths
  BY <1>1 DEF AsyncFacts
<1> QED
  BY <1>3, <1>4

\* Where the cached facts that are kept are right, the files of the table are
\* those of a fresh one, and what is cached for the next table is right.
AsyncRight(cl, src, dem) ==
  \A p \in AsyncGroups(dem) \ AsyncStale(cl, dem) :
    p \notin NonDurable /\ cl.async[p] = OwnAsyncFacts(p, src)

\* Cached async facts and recomputed ones together are the fresh ones.
LEMMA AsyncFilesFresh ==
  ASSUME WholeProgram, NEW dem \in Partial(Runs), NEW cl, NEW src, AsyncRight(cl, src, dem)
  PROVE  /\ AsyncByPath(cl, src, dem) = AsyncFacts(AsyncGroups(dem), dem, src, cl.gen)
         /\ NextAsync(cl, src, dem) # NoAsync =>
              \A p \in DOMAIN NextAsync(cl, src, dem) :
                p \notin NonDurable /\ NextAsync(cl, src, dem)[p] = OwnAsyncFacts(p, src)
<1> DEFINE groups == AsyncGroups(dem)
           stale  == AsyncStale(cl, dem)
           fresh  == AsyncFacts(groups, dem, src, cl.gen)
           found  == AsyncFacts(stale, dem, src, cl.gen)
           files  == AsyncByPath(cl, src, dem)
<1>1. Members(src) = Paths
  BY AllMembers DEF WholeProgram
<1>2. groups \subseteq Paths /\ stale \subseteq groups
  BY PartialFunctions DEF AsyncGroups, AsyncStale
<1>3. ~CrossPathAsync(cl, src, dem)
  <2>1. \A p \in stale : AsyncTargets[p][dem[p]] \subseteq {p}
    BY <1>2, PartialFunctions DEF WholeProgram, AsyncGroups
  <2> QED
    BY <2>1 DEF CrossPathAsync
<1>4. AsyncRefreshed(cl, src, dem) = stale
  BY <1>3 DEF AsyncRefreshed
<1>5. /\ DOMAIN fresh = Paths
      /\ \A q \in Paths : fresh[q] = IF q \in groups THEN AsyncFactsOf(q, src, cl.gen) ELSE {}
      /\ \A q \in Paths : found[q] = IF q \in stale THEN AsyncFactsOf(q, src, cl.gen) ELSE {}
  BY <1>2, AsyncFactsByFile
<1>6. files = [p \in Paths |-> IF p \in groups \ stale THEN cl.async[p] ELSE found[p]]
  BY <1>1, <1>4 DEF AsyncByPath
<1>7. \A p \in Paths : p \notin NonDurable => AsyncFactsOf(p, src, cl.gen) = OwnAsyncFacts(p, src)
  BY DEF AsyncFactsOf, OwnAsyncFacts
<1>8. \A p \in Paths : (IF p \in groups \ stale THEN cl.async[p] ELSE found[p]) = fresh[p]
  BY <1>2, <1>5, <1>7 DEF AsyncRight
<1>9. fresh = [p \in Paths |-> fresh[p]]
  BY <1>1 DEF AsyncFacts
<1>10. files = fresh
  BY <1>6, <1>8, <1>9
<1>11. ASSUME NextAsync(cl, src, dem) # NoAsync
       PROVE  \A p \in DOMAIN NextAsync(cl, src, dem) :
                p \notin NonDurable /\ NextAsync(cl, src, dem)[p] = OwnAsyncFacts(p, src)
  <2>1. /\ NextAsync(cl, src, dem) = Restrict2(files, groups)
        /\ \A p \in groups : Durable(p, src)
    BY <1>11 DEF NextAsync
  <2>2. \A p \in groups : p \notin NonDurable
    BY <1>1, <1>2, <2>1 DEF Durable
  <2> HIDE DEF files, groups, stale, fresh, found
  <2>3. DOMAIN files = Paths /\ \A p \in groups : files[p] = OwnAsyncFacts(p, src)
    BY <1>2, <1>5, <1>7, <1>10, <2>2
  <2>4. /\ DOMAIN Restrict2(files, groups) = Paths \cap groups
        /\ \A p \in Paths \cap groups : Restrict2(files, groups)[p] = files[p]
    BY <2>3, RestrictProperties
  <2> QED
    BY <1>2, <2>1, <2>2, <2>3, <2>4
<1> QED
  BY <1>10, <1>11

-----------------------------------------------------------------------------
(* Materialization.                                                        *)

\* A table is computed right, and what is kept for the next one is right.
Rebuilt(f, src, dem, gen) ==
  /\ f.gen = gen /\ f.changed = NoPaths
  /\ f.table.gen = gen /\ f.table # NoTable
  /\ f.table.sources = Restrict2(src, Members(src))
  /\ f.table.files = AsyncFacts(AsyncGroups(dem), dem, src, gen)
  /\ f.table.entities =
       [p \in DOMAIN f.table.entities |-> EntityRows(p, dem[p], src, gen)]
  /\ ContribFresh(f, src, dem)
  /\ f.async # NoAsync =>
       \A p \in DOMAIN f.async : p \notin NonDurable /\ f.async[p] = OwnAsyncFacts(p, src)

\* The contributions whose run is still asked for are right.
ContribRight(cl, src, dem) ==
  \A p \in DOMAIN cl.contrib \cap DOMAIN dem :
    /\ p \notin NonDurable /\ cl.contrib[p].run = dem[p]
    /\ cl.contrib[p].deps = Dependencies(p, src)
    /\ cl.contrib[p].rows = EntityRows(p, dem[p], src, cl.gen)

\* A materialization that reuses what is right rebuilds the fresh table.
LEMMA MaterializeRebuilds ==
  ASSUME WholeProgram, NEW cl, ClosureShape(cl), NEW src, NEW dem \in Partial(Runs),
         AsyncRight(cl, src, dem), ContribRight(cl, src, dem)
  PROVE  Rebuilt(Materialize(cl, src, dem), src, dem, cl.gen)
<1> DEFINE r == Materialize(cl, src, dem)
<1>1. Materialized(r, cl, src, dem)
  BY MaterializeShape
<1> HIDE DEF r
<1>2. r.table # NoTable
  BY <1>1, IsATable DEF Materialized, ClosureShape
<1>3. /\ r.table.files = AsyncFacts(AsyncGroups(dem), dem, src, cl.gen)
      /\ r.async # NoAsync =>
           \A p \in DOMAIN r.async : p \notin NonDurable /\ r.async[p] = OwnAsyncFacts(p, src)
  BY <1>1, AsyncFilesFresh DEF Materialized
<1>4. ContribFresh(r, src, dem)
  <2>1. SUFFICES ASSUME NEW p \in DOMAIN r.contrib
                 PROVE  /\ p \notin NonDurable /\ p \in DOMAIN dem
                        /\ r.contrib[p].run = dem[p]
                        /\ r.contrib[p].deps = Dependencies(p, src)
                        /\ r.contrib[p].rows = EntityRows(p, dem[p], src, r.gen)
    BY DEF ContribFresh
  <2>2. p \in DOMAIN dem /\ p \in Paths /\ Durable(p, src) /\ r.gen = cl.gen
    BY <1>1, PartialFunctions DEF Materialized
  <2>3. p \notin NonDurable
    BY <2>2, AllMembers DEF WholeProgram, Durable
  <2>4. CASE p \in Reusable(cl, dem)
    <3>1. r.contrib[p] = cl.contrib[p] /\ p \in DOMAIN cl.contrib
      BY <1>1, <2>4 DEF Materialized, Reusable
    <3> QED
      BY <2>2, <2>3, <3>1 DEF ContribRight
  <2>5. CASE p \notin Reusable(cl, dem)
    BY <1>1, <2>2, <2>3, <2>5 DEF Materialized
  <2> QED
    BY <2>4, <2>5
<1>5. r.table.entities = [p \in DOMAIN r.table.entities |-> EntityRows(p, dem[p], src, cl.gen)]
  BY <1>1 DEF Materialized
<1>6. /\ r.gen = cl.gen /\ r.changed = NoPaths /\ r.table.gen = cl.gen
      /\ r.table.sources = Restrict2(src, Members(src))
  BY <1>1 DEF Materialized
<1> QED
  BY <1>2, <1>3, <1>4, <1>5, <1>6 DEF r, Rebuilt

\* Releasing the rows keeps what is right.
LEMMA ReleaseRight ==
  ASSUME NEW f, NEW src, NEW dem, NEW gen, Rebuilt(f, src, dem, gen)
  PROVE  LET r == ReleaseTransportRows(f)
         IN  r.changed = NoPaths /\ ContribFresh(r, src, dem) /\ AsyncFresh(r, src)
<1> DEFINE r == ReleaseTransportRows(f)
<1>0. f.table # NoTable /\ f.changed = NoPaths
  BY DEF Rebuilt
<1>1. /\ r.gen = f.gen /\ r.changed = NoPaths /\ r.async = f.async
      /\ DOMAIN r.contrib = DOMAIN f.contrib
      /\ \A p \in DOMAIN f.contrib :
           /\ r.contrib[p].run = f.contrib[p].run
           /\ r.contrib[p].rows = f.contrib[p].rows
           /\ r.contrib[p].deps = f.contrib[p].deps
  BY <1>0, ReleaseShape
<1> HIDE DEF r
<1>2. ContribFresh(r, src, dem)
  BY <1>1 DEF Rebuilt, ContribFresh
<1>3. AsyncFresh(r, src)
  BY <1>1 DEF Rebuilt, AsyncFresh, Unnamed
<1> QED
  BY <1>1, <1>2, <1>3 DEF r

\* The run of a file no demand edit names is the one the producer has.
LEMMA RunsKept ==
  ASSUME FreshInvariant, Asked("analyze"), TokenAccepted,
         NEW p \in DOMAIN call.want, p \notin EditedPaths
  PROVE  /\ ~call.reset /\ p \in DOMAIN demands /\ demands[p] = call.want[p]
         /\ p \in DOMAIN retainedDemands
<1>1. ProtocolInvariant /\ AnalyzeCall(call) /\ ~call.reset
  BY AcceptedRequest DEF FreshInvariant, AnalyzeCall, EditedPaths
<1>2. Leads(call) /\ retainedDemands = demands
  BY <1>1, AcceptedRequest
<1> DEFINE other == {q \in DOMAIN call.want : ~ (/\ q \in DOMAIN retainedDemands
                                                /\ retainedDemands[q] = call.want[q])}
<1>3. DOMAIN call.changed = DOMAIN call.want \cap other
  BY <1>2, RestrictProperties, Zenon DEF Leads, ChangedRuns
<1>4. p \notin other
  BY <1>3 DEF EditedPaths
<1> QED
  BY <1>1, <1>2, <1>4

\* And a file whose run goes is edited.
LEMMA NoRunKept ==
  ASSUME FreshInvariant, Asked("analyze"), TokenAccepted, ~call.reset,
         NEW p \in DOMAIN demands, p \notin EditedPaths
  PROVE  p \in DOMAIN call.want
BY AcceptedRequest DEF FreshInvariant, Leads, EditedPaths

\* What the closure is left with by a demand edit.
LEMMA ReadyRight ==
  ASSUME WholeProgram, FreshInvariant, Asked("analyze"), TokenAccepted, ~NothingToDo
  PROVE  LET ready == DropEdited(closure, EditedPaths)
         IN  /\ Materializes(closure, EditedPaths)
             /\ ClosureShape(ready) /\ ready.gen = generation
             /\ ContribRight(ready, producerSources, call.want)
             /\ (call.reset \/ KnownBase(closure)) =>
                  AsyncRight(ready, producerSources, call.want)
             /\ ready.prev => KnownBase(closure)
<1> DEFINE e == EditedPaths
           ready == DropEdited(closure, e)
           src == producerSources
           dem == call.want
<1>1. /\ ProtocolInvariant /\ AnalyzeCall(call) /\ dem \in Partial(Runs) /\ e \in SUBSET Paths
      /\ ClosureShape(closure) /\ closure.gen = generation /\ DOMAIN dem \subseteq Paths
      /\ dem \in DemandSets
  BY AcceptedRequest, AskedFacts, PartialFunctions
  DEF FreshInvariant, ProtocolInvariant, Shapes, AnalyzeCall, AnalyzeCalls
<1>2. /\ ClosureShape(ready) /\ ready.gen = closure.gen
      /\ e # {} => /\ ready.table = NoTable /\ ready.async = closure.async
                   /\ ready.prev <=> (closure.prev \/ closure.table # NoTable)
                   /\ ready.changed = e \cup (IF closure.changed = NoPaths THEN {} ELSE closure.changed)
      /\ e = {} => ready = closure
      /\ DOMAIN ready.contrib = DOMAIN closure.contrib \ e
      /\ \A p \in DOMAIN ready.contrib : ready.contrib[p] = closure.contrib[p]
  BY <1>1, DropEditedShape
<1>3. call.reset => e = DOMAIN dem /\ e # {}
  <2>1. call.reset => e = DOMAIN dem
    BY <1>1 DEF AnalyzeCall, EditedPaths
  <2>2. DOMAIN dem # {}
    BY <1>1, NoDomain DEF WholeProgram
  <2> QED
    BY <2>1, <2>2
<1>4. ready.table = NoTable
  BY <1>1, <1>2, <1>3, SomethingToDo
<1>5. Materializes(closure, e)
  BY <1>4 DEF Materializes
<1> HIDE DEF ready, e
<1>6. ContribRight(ready, src, dem)
  <2>1. SUFFICES ASSUME NEW p \in DOMAIN ready.contrib \cap DOMAIN dem
                 PROVE  /\ p \notin NonDurable /\ ready.contrib[p].run = dem[p]
                        /\ ready.contrib[p].deps = Dependencies(p, src)
                        /\ ready.contrib[p].rows = EntityRows(p, dem[p], src, ready.gen)
    BY DEF ContribRight
  <2>2. p \in DOMAIN closure.contrib /\ p \notin e /\ ready.contrib[p] = closure.contrib[p]
    BY <1>2
  <2>3. demands[p] = dem[p]
    BY <2>2, RunsKept DEF e
  <2>4. /\ p \notin NonDurable /\ closure.contrib[p].run = demands[p]
        /\ closure.contrib[p].deps = Dependencies(p, src)
        /\ closure.contrib[p].rows = EntityRows(p, demands[p], src, closure.gen)
    BY <2>2 DEF FreshInvariant, Freshness, ContribFresh
  <2> QED
    BY <1>2, <2>2, <2>3, <2>4
<1>7. ASSUME call.reset \/ KnownBase(closure), NEW p \in AsyncGroups(dem) \ AsyncStale(ready, dem)
      PROVE  p \notin NonDurable /\ ready.async[p] = OwnAsyncFacts(p, src)
  <2>1. /\ p \in DOMAIN dem /\ ready.async # NoAsync /\ p \in DOMAIN ready.async
        /\ ready.changed # NoPaths /\ p \notin ready.changed
    BY <1>7 DEF AsyncStale, AsyncGroups, Named
  <2>2. ready.async = closure.async /\ p \in Unnamed(closure)
    BY <1>1, <1>2, <2>1 DEF Unnamed
  <2>3. ~call.reset
    BY <1>2, <1>3, <2>1
  <2> QED
    BY <1>7, <2>1, <2>2, <2>3 DEF FreshInvariant, Freshness, AsyncFresh
<1>8. ready.prev => KnownBase(closure)
  BY <1>2 DEF KnownBase
<1> QED
  BY <1>1, <1>2, <1>5, <1>6, <1>7, <1>8 DEF ready, e, AsyncRight

\* The table an analysis sends is computed right.
LEMMA FinalRebuilt ==
  ASSUME WholeProgram, FreshInvariant, Asked("analyze"), TokenAccepted, ~NothingToDo
  PROVE  /\ Rebuilt(Final, producerSources, call.want, generation)
         /\ (~call.reset /\ ~Broad) => KnownBase(closure)
<1> DEFINE e == EditedPaths
           ready == DropEdited(closure, e)
           src == producerSources
           dem == call.want
           reset == ResetAnalysisState(First)
           clean == DropEdited(reset, e)
<1>1. /\ ProtocolInvariant /\ dem \in Partial(Runs) /\ e \in SUBSET Paths
      /\ ClosureShape(closure) /\ closure.gen = generation /\ DOMAIN dem \subseteq Paths
      /\ NextDemands = dem
  BY AcceptedRequest, AskedFacts, PartialFunctions DEF FreshInvariant, ProtocolInvariant, Shapes
<1>2. /\ Materializes(closure, e) /\ ClosureShape(ready) /\ ready.gen = generation
      /\ ContribRight(ready, src, dem)
      /\ (call.reset \/ KnownBase(closure)) => AsyncRight(ready, src, dem)
      /\ ready.prev => KnownBase(closure)
  BY ReadyRight
<1>3. TableFor(First, closure, src, dem, e)
  BY <1>1, DemandTableShape DEF First
<1>4. First = Materialize(ready, src, dem)
  BY <1>2, <1>3 DEF TableFor
<1> HIDE DEF ready, e
<1>5. CASE Broad
  <2>1. /\ ClosureShape(reset) /\ reset.table = NoTable /\ reset.gen = generation
        /\ reset.contrib = Empty /\ reset.async = NoAsync
    <3>1. First.gen \in Nat \ {0} /\ First.gen = generation
      BY <1>1, <1>3 DEF TableFor, ClosureShape
    <3> QED
      BY <3>1, ResetShape DEF ResetAnalysisState
  <2>2. Final = DemandTable(reset, src, dem, e)
    BY <1>1, <1>5 DEF Final, e
  <2> HIDE DEF reset
  <2>3. TableFor(Final, reset, src, dem, e)
    BY <1>1, <2>1, <2>2, DemandTableShape
  <2>4. /\ ClosureShape(clean) /\ clean.gen = generation
        /\ Materializes(reset, e) /\ DOMAIN clean.contrib = {} /\ clean.async = NoAsync
    BY <1>1, <2>1, DropEditedShape, EmptyProperties DEF Materializes
  <2>5. Final = Materialize(clean, src, dem)
    BY <2>3, <2>4 DEF TableFor
  <2> HIDE DEF clean
  <2>6. ContribRight(clean, src, dem) /\ AsyncRight(clean, src, dem)
    BY <2>4 DEF ContribRight, AsyncRight, AsyncStale
  <2> QED
    BY <1>1, <1>5, <2>4, <2>5, <2>6, MaterializeRebuilds
<1>6. CASE ~Broad
  <2>1. Final = First
    BY <1>6 DEF Final
  <2>2. ~call.reset => KnownBase(closure)
    <3>1. SUFFICES ASSUME ~call.reset, ~ready.prev
                   PROVE  FALSE
      BY <1>2
    <3>2. First.table.manifest # NoPaths
      BY <1>1, <1>6, <3>1, AcceptedRequest DEF Broad, Base
    <3>3. Materialized(First, ready, src, dem)
      BY <1>2, <1>4, MaterializeShape
    <3> QED
      BY <3>1, <3>2, <3>3 DEF Materialized, Manifest
  <2> QED
    BY <1>1, <1>2, <1>4, <2>1, <2>2, MaterializeRebuilds
<1> QED
  BY <1>5, <1>6

-----------------------------------------------------------------------------
(* The table the client makes of an answer.                                *)

\* The fields of a fresh table.
LEMMA FreshFields ==
  ASSUME NEW src, NEW dem, NEW gen
  PROVE  LET t == FreshTable(src, dem, gen)
         IN  /\ t.gen = gen /\ t.sources = Restrict2(src, Members(src))
             /\ t.entities = [p \in DOMAIN dem |-> EntityRows(p, dem[p], src, gen)]
             /\ t.files = AsyncFacts(AsyncGroups(dem), dem, src, gen)
BY DEF FreshTable

\* Every file is a member where all are configured.
LEMMA WholeSources ==
  ASSUME Roots = Paths, NEW src \in Sources
  PROVE  Restrict2(src, Members(src)) = src
<1>1. Members(src) = Paths /\ DOMAIN src = Paths /\ src = [p \in Paths |-> src[p]]
  BY AllMembers DEF Sources
<1>2. DOMAIN src \cap Members(src) = Paths
  BY <1>1
<1> QED
  BY <1>1, <1>2 DEF Restrict2

\* A patch of old by new over the named paths is target, where old is target on
\* the others and new is target on the named ones.
LEMMA PatchGives ==
  ASSUME NEW old, NEW new, NEW target, NEW m,
         target = [p \in DOMAIN target |-> target[p]], DOMAIN old \subseteq Paths,
         \A p \in Paths \ m : p \in DOMAIN old <=> p \in DOMAIN target,
         \A p \in (Paths \ m) \cap DOMAIN target : old[p] = target[p],
         \A p \in m : p \in DOMAIN new <=> p \in DOMAIN target,
         \A p \in m \cap DOMAIN target : new[p] = target[p],
         DOMAIN target \subseteq Paths
  PROVE  Overwrite(Restrict2(old, Paths \ m), Restrict2(new, m)) = target
<1> DEFINE kept == Restrict2(old, Paths \ m)
           come == Restrict2(new, m)
<1>1. /\ DOMAIN kept = DOMAIN old \ m
      /\ \A p \in DOMAIN old \ m : kept[p] = old[p]
  BY WithoutProperties
<1>2. /\ DOMAIN come = DOMAIN new \cap m
      /\ \A p \in DOMAIN new \cap m : come[p] = new[p]
  BY RestrictProperties
<1> HIDE DEF kept, come
<1>3. Overwrite(kept, come) = [p \in DOMAIN kept \cup DOMAIN come |->
                                 IF p \in DOMAIN come THEN come[p] ELSE kept[p]]
  BY DEF Overwrite
<1>4. DOMAIN kept \cup DOMAIN come = DOMAIN target
  BY <1>1, <1>2
<1>5. \A p \in DOMAIN target : (IF p \in DOMAIN come THEN come[p] ELSE kept[p]) = target[p]
  BY <1>1, <1>2, <1>4
<1>6. Overwrite(kept, come) = target
  BY <1>3, <1>4, <1>5
<1> QED
  BY <1>6 DEF kept, come

\* What an analysis publishes is, applied to the client's table, the table of a
\* fresh producer.
LEMMA CandidateFresh ==
  ASSUME WholeProgram, FreshInvariant, Asked("analyze"), TokenAccepted, ~NothingToDo
  PROVE  Candidate(PublishedTransition) = FreshTable(sources, call.want, generation)
<1> DEFINE t   == PublishedTransition
           src == sources
           dem == call.want
           gen == generation
           fresh == FreshTable(src, dem, gen)
           files == AsyncFacts(AsyncGroups(dem), dem, src, gen)
           rows  == [p \in DOMAIN dem |-> EntityRows(p, dem[p], src, gen)]
<1>1. /\ ProtocolInvariant /\ dem \in Partial(Runs) /\ DOMAIN dem \subseteq Paths
      /\ closure.gen = gen /\ producerSources = src /\ src \in Sources /\ alive
      /\ NextDemands = dem
  BY AcceptedRequest, AskedFacts, PartialFunctions DEF FreshInvariant, ProtocolInvariant, Shapes
<1>2. Rebuilt(Final, src, dem, gen)
  BY <1>1, FinalRebuilt
<1>3. Restrict2(src, Members(src)) = src /\ Members(src) = Paths
  BY <1>1, WholeSources, AllMembers DEF WholeProgram
<1>4. fresh = [gen |-> gen, sources |-> src, entities |-> rows, files |-> files]
  BY <1>3 DEF FreshTable
<1>5. /\ Final.table.gen = gen /\ Final.table.sources = src /\ Final.table.files = files
      /\ Final.table.entities =
           [p \in DOMAIN Final.table.entities |-> EntityRows(p, dem[p], src, gen)]
  BY <1>2, <1>3 DEF Rebuilt
<1>6. CASE call.reset \/ Broad
  <2>1. t = Full(Final.table) /\ DOMAIN Final.table.entities = DOMAIN dem
    BY <1>1, <1>6, TransitionKind, FinalTable
  <2>2. Candidate(t) = [gen |-> gen, sources |-> src, entities |-> Final.table.entities,
                        files |-> files]
    BY <1>5, <2>1 DEF Candidate, Full
  <2>3. Final.table.entities = rows
    BY <1>5, <2>1
  <2> QED
    BY <1>4, <2>2, <2>3
<1>7. CASE ~call.reset /\ ~Broad
  <2> DEFINE m     == First.table.manifest
             base  == retainedTable
             patch(old, new) == Overwrite(Restrict2(old, Paths \ m), Restrict2(new, m))
             ready == DropEdited(closure, EditedPaths)
  <2>1. /\ t = Delta(header, token, First.table) /\ Final = First /\ First.table.gen = gen
        /\ m \subseteq Paths /\ EditedPaths \subseteq m
        /\ m \cap DOMAIN dem = DOMAIN First.table.entities
    BY <1>1, <1>7, TransitionKind, FinalTable
  <2>2. Candidate(t) = [gen |-> gen,
                        sources  |-> patch(base.sources, First.table.sources),
                        entities |-> patch(base.entities, First.table.entities),
                        files    |-> patch(base.files, First.table.files)]
    BY <2>1 DEF Candidate, Delta, Patch
  \* What the client's table is where the manifest names nothing.
  <2>3. /\ KnownBase(closure) /\ Agrees(base, closure, src, demands)
        /\ retainedDemands = demands
    BY <1>1, <1>7, FinalRebuilt, AcceptedRequest DEF FreshInvariant, Freshness, BaseAgrees, Holds
  <2>4. /\ First = Materialize(ready, src, dem) /\ Recomputed(ready, dem) \subseteq m
        /\ \A p \in Paths \ m : p \in Unnamed(closure)
    <3>1. /\ EditedPaths \in SUBSET Paths /\ ClosureShape(closure) /\ ClosureShape(ready)
          /\ Materializes(closure, EditedPaths)
      BY <1>1, AcceptedRequest, ReadyRight DEF ProtocolInvariant, Shapes
    <3>2. First = Materialize(ready, src, dem)
      <4>1. TableFor(First, closure, src, dem, EditedPaths)
        BY <1>1, <3>1, DemandTableShape DEF First
      <4> QED
        BY <3>1, <4>1 DEF TableFor
    <3>3. m = Manifest(ready, Recomputed(ready, dem)) /\ m # NoPaths
      <4>1. Materialized(First, ready, src, dem)
        BY <3>1, <3>2, MaterializeShape
      <4> QED
        BY <2>1, <4>1, NoPathsAssumption DEF Materialized
    <3>4. m = Recomputed(ready, dem) \cup (IF ready.changed = NoPaths THEN {} ELSE ready.changed)
      BY <1>1, <3>1, <3>3, ManifestShape
    <3>5. closure.changed # NoPaths =>
            ready.changed # NoPaths /\ closure.changed \subseteq ready.changed
      BY <3>1, DropEditedShape
    <3> QED
      BY <3>2, <3>4, <3>5 DEF Unnamed
  <2>5. patch(base.sources, First.table.sources) = src
    <3>1. /\ DOMAIN base.sources = Paths
          /\ \A p \in Paths \ m : base.sources[p] = src[p]
      BY <2>3, <2>4 DEF Agrees
    <3>2. src = [p \in DOMAIN src |-> src[p]] /\ DOMAIN src = Paths /\ First.table.sources = src
      BY <1>1, <1>5, <2>1 DEF Sources
    <3> QED
      BY <2>1, <3>1, <3>2, PatchGives
  \* A path outside the manifest keeps its demand, and its contribution is right.
  <2>6. ASSUME NEW p \in Paths \ m
        PROVE  /\ p \in DOMAIN dem <=> p \in DOMAIN demands
               /\ p \in DOMAIN dem => /\ demands[p] = dem[p] /\ p \notin NonDurable
                                     /\ base.entities[p] = EntityRows(p, dem[p], src, gen)
    <3>1. p \notin EditedPaths /\ p \in Unnamed(closure)
      BY <2>1, <2>4, <2>6
    <3>2. CASE p \in DOMAIN dem
      <4>1. p \in DOMAIN demands /\ demands[p] = dem[p]
        BY <3>1, <3>2, RunsKept
      <4>2. p \in DOMAIN closure.contrib
        <5>1. p \in DOMAIN ready.contrib
          BY <2>4, <2>6, <3>2 DEF Recomputed, Reusable
        <5>2. DOMAIN ready.contrib = DOMAIN closure.contrib \ EditedPaths
          BY <1>1, AcceptedRequest, DropEditedShape DEF ProtocolInvariant, Shapes
        <5> QED
          BY <5>1, <5>2
      <4>3. /\ p \notin NonDurable
            /\ closure.contrib[p].rows = EntityRows(p, dem[p], src, gen)
        BY <1>1, <4>1, <4>2 DEF FreshInvariant, Freshness, ContribFresh
      <4>4. base.entities[p] = closure.contrib[p].rows
        BY <2>3, <3>1, <4>2 DEF Agrees
      <4> QED
        BY <3>2, <4>1, <4>3, <4>4
    <3>3. CASE p \notin DOMAIN dem
      BY <1>7, <3>1, <3>3, NoRunKept
    <3> QED
      BY <3>2, <3>3
  <2>7. patch(base.entities, First.table.entities) = rows
    <3> DEFINE new == First.table.entities
    <3>1. DOMAIN base.entities = DOMAIN demands /\ DOMAIN demands \subseteq Paths
      BY <1>1, <2>3, PartialFunctions DEF Agrees, ProtocolInvariant, Shapes
    <3>2. new = [p \in DOMAIN new |-> EntityRows(p, dem[p], src, gen)] /\ DOMAIN new = m \cap DOMAIN dem
      BY <1>5, <2>1
    <3>3. rows = [p \in DOMAIN rows |-> rows[p]] /\ DOMAIN rows = DOMAIN dem
      OBVIOUS
    <3>4. \A p \in DOMAIN dem : rows[p] = EntityRows(p, dem[p], src, gen)
      OBVIOUS
    <3> HIDE DEF rows, new
    <3>5. /\ \A p \in Paths \ m : p \in DOMAIN base.entities <=> p \in DOMAIN rows
          /\ \A p \in (Paths \ m) \cap DOMAIN rows : base.entities[p] = rows[p]
      BY <2>6, <3>1, <3>3, <3>4
    <3>6. /\ \A p \in m : p \in DOMAIN new <=> p \in DOMAIN rows
          /\ \A p \in m \cap DOMAIN rows : new[p] = rows[p]
      BY <3>2, <3>3, <3>4
    <3> HIDE DEF m, base
    <3> QED
      BY <1>1, <3>1, <3>3, <3>5, <3>6, PatchGives DEF new
  <2>8. patch(base.files, First.table.files) = files
    <3>1. /\ DOMAIN files = Paths /\ files = [p \in DOMAIN files |-> files[p]]
          /\ \A p \in Paths : files[p] =
               IF p \in AsyncGroups(dem) THEN AsyncFactsOf(p, src, gen) ELSE {}
      <4>1. files = [p \in DOMAIN files |-> files[p]]
        BY DEF AsyncFacts
      <4> QED
        BY <1>1, <4>1, AsyncFactsByFile
    <3>2. First.table.files = files /\ DOMAIN base.files = Paths
      BY <1>5, <2>1, <2>3 DEF Agrees
    <3>3. ASSUME NEW p \in Paths \ m
          PROVE  base.files[p] = files[p]
      <4>1. p \in Unnamed(closure)
        BY <2>4, <3>3
      <4>2. p \in AsyncGroups(dem) <=> p \in AsyncGroups(demands)
        BY <2>6, <3>3 DEF AsyncGroups
      <4>3. CASE p \in AsyncGroups(dem)
        <5>1. p \notin NonDurable
          BY <2>6, <3>3, <4>3 DEF AsyncGroups
        <5>2. base.files[p] = OwnAsyncFacts(p, src)
          BY <2>3, <4>1, <4>2, <4>3, <5>1 DEF Agrees
        <5> QED
          BY <3>1, <3>3, <4>3, <5>1, <5>2 DEF OwnAsyncFacts, AsyncFactsOf
      <4>4. CASE p \notin AsyncGroups(dem)
        <5>1. base.files[p] = {}
          BY <2>3, <4>1, <4>2, <4>4 DEF Agrees
        <5> QED
          BY <3>1, <3>3, <4>4, <5>1
      <4> QED
        BY <4>3, <4>4
    <3> HIDE DEF files, m, base
    <3> QED
      BY <3>1, <3>2, <3>3, <2>1, PatchGives DEF m
  <2> QED
    BY <1>4, <2>2, <2>5, <2>7, <2>8
<1> QED
  BY <1>6, <1>7

-----------------------------------------------------------------------------
(* The invariant holds at the start and every step keeps it.               *)

\* The invariant holds when a session opens.
LEMMA FreshInit ==
  ASSUME Init
  PROVE  FreshInvariant
<1>1. ProtocolInvariant
  BY ProtocolInit
<1>2. /\ closure.table = NoTable /\ closure.prev = FALSE /\ DOMAIN closure.contrib = {}
  BY InitClosureShape, EmptyProperties DEF Init, InitClosure
<1>3. stateToken = 0 /\ call.op = "none"
  BY DEF Init, Idle
<1> QED
  BY <1>1, <1>2, <1>3
  DEF FreshInvariant, Freshness, ContribFresh, AsyncFresh, KnownBase, BaseAgrees, Holds, AnswerFresh

\* A step that leaves alone what the client and the producer retain.
LEMMA SameRetained ==
  ASSUME FreshInvariant, ProtocolInvariant', UNCHANGED <<client, producer>>, AnswerFresh'
  PROVE  FreshInvariant'
<1>1. /\ UNCHANGED <<generation, logged, sources, stateToken, retainedDemands, retainedTable>>
      /\ UNCHANGED <<alive, producerSources, closure, token, demands, header>>
  BY DEF client, producer
<1>2. BaseAgrees'
  BY <1>1 DEF FreshInvariant, Freshness, BaseAgrees, Holds
<1> QED
  BY <1>1, <1>2 DEF FreshInvariant, Freshness

\* A step that leaves a producer with nothing derived, and the client's table as
\* far as the two agree.
LEMMA NothingDerived ==
  ASSUME FreshInvariant, ProtocolInvariant',
         closure'.table = NoTable, ~closure'.prev, DOMAIN closure'.contrib = {},
         Holds' => /\ Holds /\ UNCHANGED <<retainedTable, producerSources, demands, header>>
                   /\ closure'.gen = closure.gen,
         AnswerFresh'
  PROVE  FreshInvariant'
<1>1. ContribFresh(closure, producerSources, demands)' /\ AsyncFresh(closure, producerSources)'
  BY DEF ContribFresh, AsyncFresh, KnownBase
<1>2. BaseAgrees'
  BY DEF FreshInvariant, Freshness, BaseAgrees, KnownBase
<1> QED
  BY <1>1, <1>2 DEF FreshInvariant, Freshness

\* Sending a request changes nothing that is retained.
LEMMA FreshCaller ==
  ASSUME FreshInvariant, ProtocolInvariant',
         \/ \E want \in DemandSets : ClientAnalyze(want)
         \/ \E edit \in Edits : ClientUpdate(edit)
         \/ ClientRead
  PROVE  FreshInvariant'
<1>1. /\ call = Idle /\ UNCHANGED <<client, reply, outcome, producer>>
      /\ call'.op # "symbols"
  BY DEF ClientAnalyze, ClientUpdate, ClientRead, AnalyzeRequest
<1>2. reply'.code = "none"
  BY <1>1 DEF FreshInvariant, ProtocolInvariant, Shapes, ReplyShape, Idle, NoReply
<1>3. AnswerFresh'
  BY <1>1, <1>2 DEF AnswerFresh
<1> QED
  BY <1>1, <1>3, SameRetained

\* Without a producer nothing is left to be stale.
LEMMA FreshGone ==
  ASSUME FreshInvariant, ProtocolInvariant', Close \/ Crash
  PROVE  FreshInvariant'
<1>1. Gone /\ UNCHANGED <<client, reply, outcome>>
  BY DEF Close, Crash
<1>2. /\ closure' = InitClosure /\ alive' = FALSE
      /\ UNCHANGED <<generation, logged, sources, retainedTable, stateToken, reply>>
  BY <1>1 DEF Gone, client
<1>3. closure'.table = NoTable /\ ~closure'.prev /\ DOMAIN closure'.contrib = {}
  BY <1>2, InitClosureShape, EmptyProperties DEF InitClosure
<1>4. AnswerFresh'
  <2>1. CASE Close
    BY <2>1 DEF Close, AnswerFresh
  <2>2. CASE Crash
    BY <1>2, <2>2 DEF Crash, FreshInvariant, Freshness, AnswerFresh, Candidate, Patch
  <2> QED
    BY <2>1, <2>2
<1> QED
  BY <1>2, <1>3, <1>4, NothingDerived DEF Holds

\* A rebuilt producer has retained nothing.
LEMMA FreshRestart ==
  ASSUME FreshInvariant, ProtocolInvariant', RestartAndReplay
  PROVE  FreshInvariant'
<1>1. stateToken' = 0 /\ reply' = NoReply /\ reply'.code = "none"
  BY DEF RestartAndReplay, ClearRetainedState, Recoverable, Unanswered, NoReply
<1>2. PICK named : NewProducer(sources, logged, named)
  BY DEF RestartAndReplay
<1>3. closure'.table = NoTable /\ closure'.contrib = Empty
  BY <1>2 DEF NewProducer, InitClosure
<1>4. ~closure'.prev
  BY <1>2, Zenon DEF NewProducer, InitClosure
<1>5. call'.op # "symbols"
  <2>1. PICK last \in BOOLEAN :
          call' = [call EXCEPT !.resent = last,
                               !.gen = IF call.op = "update" THEN logged + 1 ELSE @]
    BY DEF RestartAndReplay
  <2>2. Recoverable /\ call.op \in {"analyze", "update", "read"}
    BY DEF RestartAndReplay, Recoverable, Unanswered
  <2> QED
    BY <2>1, <2>2, Resent DEF FreshInvariant
<1>6. AnswerFresh'
  BY <1>1, <1>5 DEF AnswerFresh
<1> QED
  BY <1>1, <1>3, <1>4, <1>6, EmptyProperties, NothingDerived DEF Holds

\* A replay that fails leaves nothing derived and nothing retained.
LEMMA FreshReplayFails ==
  ASSUME FreshInvariant, ProtocolInvariant', ReplayFails
  PROVE  FreshInvariant'
<1>1. /\ stateToken' = 0 /\ call'.op = "none"
      /\ UNCHANGED <<alive, producerSources, closure, token, demands, header>>
  BY DEF ReplayFails, ClearRetainedState, Return, Idle, producer
<1>2. BaseAgrees' /\ AnswerFresh'
  BY <1>1 DEF BaseAgrees, Holds, AnswerFresh
<1> QED
  BY <1>1, <1>2 DEF FreshInvariant, Freshness

\* A failed analysis resets what it derived.
LEMMA FreshFails ==
  ASSUME FreshInvariant, ProtocolInvariant', ProducerAnalyzeFails
  PROVE  FreshInvariant'
<1>1. /\ UNCHANGED <<generation, logged, sources, stateToken, retainedDemands, retainedTable>>
      /\ UNCHANGED <<alive, producerSources, token, demands, header, call>>
      /\ reply'.code = "analysis-cancelled" /\ call.op = "analyze"
  BY DEF ProducerAnalyzeFails, client, Failure, Asked
<1>2. closure'.table = NoTable /\ closure'.contrib = Empty /\ closure'.gen = closure.gen
  BY DEF ProducerAnalyzeFails, ResetAnalysisState
<1>3. ~closure'.prev
  BY Zenon DEF ProducerAnalyzeFails, ResetAnalysisState
<1>4. AnswerFresh'
  BY <1>1 DEF AnswerFresh
<1> QED
  BY <1>1, <1>2, <1>3, <1>4, EmptyProperties, NothingDerived DEF Holds

\* Answers that publish nothing leave the tables alone.
LEMMA FreshAnswered ==
  ASSUME FreshInvariant, ProtocolInvariant',
         ProducerRead \/ ProducerUpdateFails \/ ReadAnswered \/ SymbolsFailed \/ CallFailed \/ GiveUp
         \/ SpawnFails
  PROVE  FreshInvariant'
<1>1. UNCHANGED <<client, producer>>
  BY DEF ProducerRead, ProducerUpdateFails, ReadAnswered, SymbolsFailed, CallFailed, GiveUp,
         SpawnFails
<1>2. call'.op \notin {"analyze", "symbols"}
  BY DEF ProducerRead, ProducerUpdateFails, ReadAnswered, SymbolsFailed, CallFailed, GiveUp, SpawnFails,
         Return, Idle, Asked
<1>3. AnswerFresh'
  BY <1>2 DEF AnswerFresh
<1> QED
  BY <1>1, <1>3, SameRetained

\* After an update no retained table claims the new generation.
LEMMA FreshUpdateAnswered ==
  ASSUME FreshInvariant, ProtocolInvariant', UpdateAnswered
  PROVE  FreshInvariant'
<1>1. /\ UNCHANGED <<stateToken, retainedDemands, retainedTable>>
      /\ UNCHANGED <<alive, producerSources, closure, token, demands, header>>
      /\ call'.op = "none"
  BY DEF UpdateAnswered, producer, Return, Idle
<1>2. BaseAgrees' /\ AnswerFresh'
  BY <1>1 DEF FreshInvariant, Freshness, BaseAgrees, Holds, AnswerFresh
<1> QED
  BY <1>1, <1>2 DEF FreshInvariant, Freshness

\* A fresh table agrees with a closure whose contributions are right.
LEMMA FreshAgrees ==
  ASSUME WholeProgram, NEW cl, NEW src \in Sources, NEW dem \in Partial(Runs),
         ContribFresh(cl, src, dem), NEW t, t = FreshTable(src, dem, cl.gen)
  PROVE  Agrees(t, cl, src, dem)
<1> DEFINE files == AsyncFacts(AsyncGroups(dem), dem, src, cl.gen)
<1>1. /\ t.sources = src /\ t.files = files
      /\ t.entities = [p \in DOMAIN dem |-> EntityRows(p, dem[p], src, cl.gen)]
  BY WholeSources DEF FreshTable, WholeProgram
<1>2. /\ DOMAIN files = Paths
      /\ \A q \in Paths : files[q] = IF q \in AsyncGroups(dem) THEN AsyncFactsOf(q, src, cl.gen) ELSE {}
  BY AsyncFactsByFile
<1>3. Unnamed(cl) \subseteq Paths /\ DOMAIN src = Paths
  BY DEF Unnamed, Sources
<1>4. \A q : q \notin NonDurable => AsyncFactsOf(q, src, cl.gen) = OwnAsyncFacts(q, src)
  BY DEF AsyncFactsOf, OwnAsyncFacts
<1>5. \A p \in DOMAIN cl.contrib : t.entities[p] = cl.contrib[p].rows
  BY <1>1 DEF ContribFresh
<1> HIDE DEF files
<1>6. DOMAIN t.sources = Paths /\ DOMAIN t.files = Paths /\ DOMAIN t.entities = DOMAIN dem
  BY <1>1, <1>2, <1>3
<1>7. \A p \in Unnamed(cl) :
       /\ t.sources[p] = src[p]
       /\ p \notin AsyncGroups(dem) => t.files[p] = {}
       /\ p \in AsyncGroups(dem) \ NonDurable => t.files[p] = OwnAsyncFacts(p, src)
  BY <1>1, <1>2, <1>3, <1>4
<1> QED
  BY <1>5, <1>6, <1>7 DEF Agrees

\* An analysis with nothing to publish returns the table there is.
LEMMA FreshComplete ==
  ASSUME FreshInvariant, ProtocolInvariant', Complete, UNCHANGED producer
  PROVE  FreshInvariant'
<1>1. /\ stateToken' = 0 /\ reply'.code = "none" /\ call'.op = "analyze"
      /\ UNCHANGED <<alive, producerSources, closure, token, demands, header>>
  BY DEF Complete, ClearRetainedState, NoReply, AnalyzeRequest, producer
<1>2. BaseAgrees' /\ AnswerFresh'
  BY <1>1 DEF BaseAgrees, Holds, AnswerFresh
<1> QED
  BY <1>1, <1>2 DEF FreshInvariant, Freshness

\* A fresh candidate makes a fresh retained table.
LEMMA FreshPublish ==
  ASSUME WholeProgram, FreshInvariant, ProtocolInvariant', NEW candidate, NEW newToken,
         Publish(candidate, newToken), UNCHANGED producer, Published(candidate, newToken),
         ~Applied, candidate = FreshTable(sources, call.want, generation)
  PROVE  FreshInvariant'
<1>1. /\ retainedTable' = candidate /\ call'.op = "none"
      /\ UNCHANGED <<alive, producerSources, closure, token, demands, header>>
  BY DEF Publish, Return, Idle, producer
<1>2. BaseAgrees'
  <2>1. SUFFICES ASSUME alive
                 PROVE  /\ Agrees(candidate, closure, producerSources, demands)
                        /\ candidate = FreshTable(producerSources, demands, closure.gen)
    BY <1>1 DEF BaseAgrees, Holds
  <2>2. /\ demands = call.want /\ closure.gen = generation /\ producerSources = sources
        /\ demands \in Partial(Runs) /\ producerSources \in Sources
    BY <2>1 DEF Published, FreshInvariant, ProtocolInvariant, InStep, Shapes
  <2> QED
    BY <2>2, FreshAgrees DEF FreshInvariant, Freshness
<1>3. AnswerFresh'
  BY <1>1 DEF AnswerFresh
<1> QED
  BY <1>1, <1>2, <1>3 DEF FreshInvariant, Freshness

\* The candidate waits unchanged for its symbols.
LEMMA FreshMaterialized ==
  ASSUME FreshInvariant, ProtocolInvariant', AnalyzeMaterialized
  PROVE  FreshInvariant'
<1>1. /\ UNCHANGED <<client, producer>> /\ call'.op = "symbols" /\ call'.want = call.want
      /\ call'.candidate = Candidate(reply.transition)
      /\ call.op = "analyze" /\ reply.code = "ok"
  BY DEF AnalyzeMaterialized
<1>2. UNCHANGED <<sources, generation>>
  BY <1>1 DEF client
<1>3. AnswerFresh'
  BY <1>1, <1>2 DEF AnswerFresh, FreshInvariant, Freshness
<1> QED
  BY <1>1, <1>3, SameRetained

\* An answer that needs no symbols is the fresh table.
LEMMA FreshPublished ==
  ASSUME WholeProgram, FreshInvariant, ProtocolInvariant', AnalyzePublished
  PROVE  FreshInvariant'
<1>1. call.op = "analyze" /\ reply.code = "ok" /\ ~Applied
  BY DEF AnalyzePublished, Applied
<1> QED
  BY <1>1, FreshPublish
  DEF AnalyzePublished, FreshInvariant, Freshness, AnswerFresh, ProtocolInvariant, AnswerPending

\* The last symbols publish the fresh candidate.
LEMMA FreshSymbols ==
  ASSUME WholeProgram, FreshInvariant, ProtocolInvariant', SymbolsAnswered
  PROVE  FreshInvariant'
<1>1. call.op = "symbols" /\ ~Applied /\ UNCHANGED producer
  BY DEF SymbolsAnswered, Asked, Applied
<1>2. /\ Published(call.candidate, call.token)
      /\ call.candidate = FreshTable(sources, call.want, generation)
  BY <1>1 DEF FreshInvariant, Freshness, AnswerFresh, ProtocolInvariant, AnswerPending
<1>3. CASE Publish(call.candidate, call.token)
  BY <1>1, <1>2, <1>3, FreshPublish
<1>4. CASE Complete
  BY <1>1, <1>4, FreshComplete
<1>5. CASE Return("error") /\ UNCHANGED client
  <2>1. AnswerFresh'
    BY <1>5 DEF Return, Idle, AnswerFresh
  <2> QED
    BY <1>1, <1>5, <2>1, SameRetained
<1> QED
  BY <1>3, <1>4, <1>5 DEF SymbolsAnswered

\* The transition of an analysis leads from the base of the client to the fresh table.
LEMMA FreshAnalyze ==
  ASSUME WholeProgram, FreshInvariant, ProtocolInvariant', ProducerAnalyze
  PROVE  FreshInvariant'
<1>0. ProtocolInvariant
  BY DEF FreshInvariant
<1>1. CASE /\ Asked("analyze") /\ ~TokenAccepted
           /\ reply' = Failure("state-mismatch") /\ UNCHANGED <<client, call, outcome, producer>>
  <2>1. call'.op = "analyze" /\ reply'.code = "state-mismatch" /\ UNCHANGED <<client, producer>>
    BY <1>1 DEF Asked, Failure
  <2>2. AnswerFresh'
    BY <2>1 DEF AnswerFresh
  <2> QED
    BY <2>1, <2>2, SameRetained
<1>4. CASE /\ Asked("analyze") /\ call.gen # closure.gen
           /\ reply' = Failure("generation-mismatch")
           /\ UNCHANGED <<client, call, outcome, producer>>
  <2>1. /\ call'.op = "analyze" /\ reply'.code = "generation-mismatch"
        /\ UNCHANGED <<client, producer>>
    BY <1>4 DEF Asked, Failure
  <2>2. AnswerFresh'
    BY <2>1 DEF AnswerFresh
  <2> QED
    BY <2>1, <2>2, SameRetained
<1>2. CASE call.gen = closure.gen /\ TokenAccepted /\ NothingToDo
  <2>1. /\ reply'.transition = Reuse /\ Candidate(Reuse) = retainedTable
        /\ call.want = demands /\ header = generation /\ stateToken = token
    BY <1>0, <1>2, NothingToDoKeeps
  <2>2. /\ Asked("analyze") /\ alive /\ closure.gen = generation /\ producerSources = sources
        /\ call.op = "analyze"
    BY <1>0, AskedFacts DEF ProducerAnalyze
  <2>3. ~call.reset /\ stateToken # 0
    BY <1>0, <1>2, <2>2, AcceptedRequest DEF NothingToDo
  <2>4. /\ UNCHANGED <<client, producer>> /\ call' = call
        /\ UNCHANGED <<generation, logged, sources, retainedTable>>
    BY <1>2, <2>2 DEF ProducerAnalyze, producer, client
  <2>5. retainedTable = FreshTable(sources, call.want, generation)
    BY <2>1, <2>2, <2>3 DEF FreshInvariant, Freshness, BaseAgrees, Holds
  <2>6. Candidate(reply.transition)' = retainedTable
    BY <2>1, <2>4 DEF Candidate, Reuse
  <2>7. AnswerFresh'
    BY <2>2, <2>4, <2>5, <2>6 DEF AnswerFresh
  <2> QED
    BY <2>4, <2>7, SameRetained
<1>3. CASE AnalysisPublishes
  <2>1. /\ Asked("analyze") /\ TokenAccepted /\ ~NothingToDo /\ call.op = "analyze"
        /\ producerSources = sources /\ NextDemands = call.want
    BY <1>0, <1>3, AskedFacts, AcceptedRequest DEF AnalysisPublishes
  <2>2. /\ UNCHANGED <<generation, logged, sources, stateToken, retainedTable, call, alive, producerSources>>
        /\ token' = token + 1 /\ demands' = call.want
        /\ closure' = ReleaseTransportRows(Final) /\ reply'.transition = PublishedTransition
    BY <1>3, <2>1 DEF AnalysisPublishes, client
  <2>3. Candidate(PublishedTransition) = FreshTable(sources, call.want, generation)
    BY <2>1, CandidateFresh
  <2>4. /\ closure'.changed = NoPaths /\ ContribFresh(closure', producerSources, call.want)
        /\ AsyncFresh(closure', producerSources)
    BY <2>1, <2>2, FinalRebuilt, ReleaseRight
  <2>5. ~Holds'
    BY <1>0, <2>2 DEF ProtocolInvariant, TokenOfTable, Shapes, Holds
  <2>6. Candidate(reply.transition)' = Candidate(PublishedTransition)
    <3> DEFINE t == PublishedTransition
    <3>1. reply'.transition = t
      BY <2>2
    <3> HIDE DEF t
    <3>2. Candidate(reply.transition)' = Candidate(t)
      BY <2>2, <3>1 DEF Candidate, Patch
    <3> QED
      BY <3>2 DEF t
  <2>7. AnswerFresh'
    BY <2>1, <2>2, <2>3, <2>6 DEF AnswerFresh
  <2> QED
    BY <2>2, <2>4, <2>5, <2>7 DEF FreshInvariant, Freshness, BaseAgrees
<1> QED
  BY <1>0, <1>1, <1>2, <1>3, <1>4, AnalyzeCases

\* An update drops every contribution, and names every file, that it could have
\* changed the rows of.
LEMMA FreshUpdate ==
  ASSUME WholeProgram, FreshInvariant, ProtocolInvariant', ProducerUpdate
  PROVE  FreshInvariant'
<1> DEFINE old      == producerSources
           new      == Overwrite(producerSources, call.edit)
           edited   == DOMAIN call.edit
           affected == Affected(edited, old, new)
           direct   == edited \cup affected
<1>0. ProtocolInvariant
  BY DEF FreshInvariant
<1>1. /\ Asked("update") /\ call.op = "update" /\ closure.gen = generation
      /\ generation \in Nat /\ ClosureShape(closure) /\ old \in Sources /\ call.edit \in Edits
      /\ call.gen = closure.gen + 1
  BY <1>0, AskedFacts DEF ProducerUpdate, ProtocolInvariant, Shapes, CallShape, Stamped
<1>2. /\ UNCHANGED <<stateToken, retainedTable, alive, token, demands, header, call>>
      /\ producerSources' = new /\ closure' = ClosureUpdate(closure, edited, affected)
      /\ reply'.code = "ok"
  BY <1>1 DEF ProducerUpdate, client
<1>3. /\ edited \in SUBSET Paths /\ new \in Sources
  BY <1>1, SourcesOverwritten, SessionAssumption, PartialFunctions
<1>4. affected \in SUBSET Paths /\ direct \in SUBSET Paths
  BY <1>3, AffectedIsPaths
<1>5. \A q \in Paths \ edited : new[q] = old[q]
  BY <1>1, OverwriteProperties DEF Sources
<1> HIDE DEF new, edited, affected
<1>6. Invalidated(closure', closure, edited, affected)
  BY <1>1, <1>2, <1>3, <1>4, UpdateShape
<1>7. /\ closure'.gen = closure.gen + 1 /\ closure'.async = closure.async
      /\ closure'.table = NoTable /\ (closure'.prev <=> closure.table # NoTable)
      /\ closure'.changed # NoPaths
      /\ closure'.changed = direct \cup DirectDependents(closure, direct)
      /\ DOMAIN closure'.contrib = DOMAIN closure.contrib \ closure'.changed
      /\ \A p \in DOMAIN closure'.contrib : closure'.contrib[p] = closure.contrib[p]
  BY <1>6 DEF Invalidated
<1>8. \A p \in Unnamed(closure') : p \in Paths /\ p \notin edited /\ p \notin affected
  BY <1>7 DEF Unnamed
<1>9. \A p \in Unnamed(closure') : new[p] = old[p] /\ OwnAsyncFacts(p, new) = OwnAsyncFacts(p, old)
  <2>1. SUFFICES ASSUME NEW p \in Unnamed(closure')
                 PROVE  new[p] = old[p] /\ OwnAsyncFacts(p, new) = OwnAsyncFacts(p, old)
    OBVIOUS
  <2>2. new[p] = old[p] /\ ShapesSeen(p, new) = ShapesSeen(p, old)
    BY <1>1, <1>3, <1>5, <1>8, UnaffectedSame DEF WholeProgram, affected
  <2> QED
    BY <2>2 DEF OwnAsyncFacts
<1>10. ContribFresh(closure', new, demands)
  <2>1. SUFFICES ASSUME NEW p \in DOMAIN closure'.contrib
                 PROVE  /\ p \notin NonDurable /\ p \in DOMAIN demands
                        /\ closure'.contrib[p].run = demands[p]
                        /\ closure'.contrib[p].deps = Dependencies(p, new)
                        /\ closure'.contrib[p].rows = EntityRows(p, demands[p], new, closure'.gen)
    BY DEF ContribFresh
  <2>2. /\ p \in DOMAIN closure.contrib /\ closure'.contrib[p] = closure.contrib[p]
        /\ p \notin edited /\ p \notin affected
        /\ closure.contrib[p].deps \cap direct = {}
    BY <1>7 DEF DirectDependents
  <2>3. /\ p \notin NonDurable /\ p \in DOMAIN demands
        /\ closure.contrib[p].run = demands[p]
        /\ closure.contrib[p].deps = Dependencies(p, old)
        /\ closure.contrib[p].rows = EntityRows(p, demands[p], old, closure.gen)
    BY <2>2 DEF FreshInvariant, Freshness, ContribFresh
  <2>4. p \in Paths /\ Dependencies(p, old) \cap edited = {}
    BY <1>1, <2>2, <2>3 DEF ClosureShape
  <2>5. /\ Dependencies(p, new) = Dependencies(p, old)
        /\ EntityRows(p, demands[p], new, closure'.gen) = EntityRows(p, demands[p], old, closure.gen)
    BY <1>1, <1>3, <1>5, <2>2, <2>3, <2>4, UnaffectedRows DEF WholeProgram, affected
  <2> QED
    BY <2>2, <2>3, <2>5
<1>11. AsyncFresh(closure', new)
  <2>1. SUFFICES ASSUME closure'.async # NoAsync, closure'.prev,
                        NEW p \in DOMAIN closure'.async \cap Unnamed(closure')
                 PROVE  p \notin NonDurable /\ closure'.async[p] = OwnAsyncFacts(p, new)
    BY <1>7 DEF AsyncFresh, KnownBase
  <2>2. p \in Unnamed(closure) /\ KnownBase(closure)
    BY <1>7, <1>8, <2>1 DEF FreshInvariant, Freshness, Unnamed, KnownBase
  <2> QED
    BY <1>7, <1>9, <2>1, <2>2 DEF FreshInvariant, Freshness, AsyncFresh
<1>12. BaseAgrees'
  <2>1. SUFFICES ASSUME Holds'
                 PROVE  /\ closure'.prev => Agrees(retainedTable, closure', new, demands)
                        /\ header # closure'.gen
    BY <1>2, <1>7 DEF BaseAgrees, KnownBase
  <2>2. header # closure'.gen
    BY <1>0, <1>1, <1>7 DEF ProtocolInvariant, TokenOfTable, Shapes
  <2>3. ASSUME closure'.prev
        PROVE  Agrees(retainedTable, closure', new, demands)
    <3>1. Agrees(retainedTable, closure, old, demands) /\ closure.changed = NoPaths
      BY <1>2, <1>7, <2>1, <2>3 DEF FreshInvariant, Freshness, BaseAgrees, Holds, KnownBase
    <3> QED
      BY <1>7, <1>8, <1>9, <3>1 DEF Agrees, Unnamed
  <2> QED
    BY <2>2, <2>3
<1>13. AnswerFresh'
  BY <1>1, <1>2 DEF AnswerFresh
<1> QED
  BY <1>2, <1>7, <1>10, <1>11, <1>12, <1>13 DEF FreshInvariant, Freshness

\* Every step keeps the invariant.
LEMMA FreshStep ==
  ASSUME WholeProgram, FreshInvariant, [Next]_vars
  PROVE  FreshInvariant'
<1>1. ProtocolInvariant'
  BY ProtocolStep DEF FreshInvariant
<1>2. CASE UNCHANGED vars
  <2>1. AnswerFresh'
    BY <1>2 DEF vars, client, FreshInvariant, Freshness, AnswerFresh, Candidate, Patch
  <2> QED
    BY <1>1, <1>2, <2>1, SameRetained DEF vars
<1>3. CASE ProducerStep
  BY <1>1, <1>3, FreshAnswered, FreshFails, FreshUpdate, FreshAnalyze DEF ProducerStep
<1>4. CASE ClientStep
  BY <1>1, <1>4, FreshUpdateAnswered, FreshAnswered, FreshComplete, FreshPublished,
     FreshMaterialized, FreshSymbols, FreshRestart, FreshReplayFails DEF ClientStep, AnalyzeMismatched
<1>5. CASE Caller \/ Crash
  BY <1>1, <1>5, FreshCaller, FreshGone DEF Caller
<1> QED
  BY <1>2, <1>3, <1>4, <1>5 DEF Next

-----------------------------------------------------------------------------
(* The theorems.                                                           *)

\* The freshness invariant holds throughout: what the producer reuses
\* (semantic_retained.go) and what the client retains is what a recomputation gives.
THEOREM FreshnessHolds == ASSUME WholeProgram PROVE Spec => []FreshInvariant
<1>1. Init => FreshInvariant
  BY FreshInit
<1>2. FreshInvariant /\ [Next]_vars => FreshInvariant'
  BY FreshStep
<1> QED
  BY <1>1, <1>2, PTL DEF Spec

\* The rows a retained contribution stands for are the rows a recomputation would
\* give: what closure.update invalidates, by affected paths and by direct
\* dependents, is all an update can change, on any import graph.
THEOREM ContributionsStayFresh == ASSUME WholeProgram PROVE Spec => []ContributionsFresh
<1>1. FreshInvariant => ContributionsFresh
  BY DEF FreshInvariant, Freshness, ContribFresh, ContributionsFresh
<1> QED
  BY <1>1, FreshnessHolds, PTL

\* Whatever analyze_groups returns, from a full table, a delta or reuse, after any
\* updates, demand edits, cancelled analyses, crashes and restarts, is the table
\* a fresh producer would compute, and the demands kept beside it are its own.
THEOREM ReturnedTablesAreFresh == ASSUME WholeProgram PROVE Spec => ReturnedTableFresh
<1> DEFINE returned == /\ call.op \in {"analyze", "symbols"} /\ call' = Idle /\ outcome' = "ok"
                       /\ reply' = NoReply
           right    == /\ retainedTable' = FreshTable(sources, call.want, generation)
                       /\ retainedDemands' = call.want
<1>1. FreshInvariant /\ [Next]_vars => [returned => right]_vars
  <2> SUFFICES ASSUME FreshInvariant, Next, returned
               PROVE  right
    OBVIOUS
  <2>0. ProtocolInvariant
    BY DEF FreshInvariant
  <2>1. "ok" # "error" /\ call # Idle /\ call'.op = "none" /\ call'.op # call.op
    BY DEF Idle
  <2>2. AnalyzePublished \/ SymbolsAnswered
    <3>1. ~ProducerStep /\ ~Crash
      BY <2>1 DEF ProducerStep, ProducerRead, ProducerUpdateFails, ProducerAnalyzeFails,
                  ProducerUpdate, ProducerAnalyze, Crash
    <3>2. ~Caller
      BY <2>1 DEF Caller, ClientAnalyze, ClientUpdate, ClientRead, Close
    <3>3. ~UpdateAnswered /\ ~ReadAnswered
      BY DEF UpdateAnswered, ReadAnswered
    <3>4. ~SymbolsFailed /\ ~CallFailed /\ ~GiveUp /\ ~ReplayFails /\ ~SpawnFails
      BY <2>1 DEF SymbolsFailed, CallFailed, GiveUp, ReplayFails, SpawnFails, Return
    <3>5. ~AnalyzeMismatched /\ ~AnalyzeMaterialized
      BY <2>1 DEF AnalyzeMismatched, Complete, AnalyzeRequest, AnalyzeMaterialized
    <3>6. ~RestartAndReplay
      <4>2. SUFFICES ASSUME RestartAndReplay
                     PROVE  FALSE
        OBVIOUS
      <4>3. call.op = "analyze" /\ Recoverable
        BY <4>2 DEF RestartAndReplay, Recoverable, Unanswered
      <4>4. PICK last \in BOOLEAN :
              call' = [call EXCEPT !.resent = last,
                                   !.gen = IF call.op = "update" THEN logged + 1 ELSE @]
        BY <4>2, <4>3 DEF RestartAndReplay
      <4> QED
        BY <2>0, <2>1, <4>3, <4>4, Resent
    <3> QED
      BY <3>1, <3>2, <3>3, <3>4, <3>5, <3>6 DEF Next, ClientStep
  <2>3. CASE AnalyzePublished
    <3>1. call.op = "analyze" /\ reply.code = "ok"
      BY <2>3 DEF AnalyzePublished
    <3>2. /\ retainedTable' = Candidate(reply.transition)
          /\ retainedDemands' = ClientDemands(call)
      BY <2>3 DEF AnalyzePublished, Publish, ClientDemands
    <3> QED
      BY <2>0, <3>1, <3>2, AnswerDemands DEF FreshInvariant, Freshness, AnswerFresh
  <2>4. CASE SymbolsAnswered
    <3>1. call.op = "symbols"
      BY <2>4 DEF SymbolsAnswered, Asked
    <3>2. Publish(call.candidate, call.token)
      BY <2>1, <2>4 DEF SymbolsAnswered, Complete, AnalyzeRequest, Return
    <3>3. retainedTable' = call.candidate /\ retainedDemands' = ClientDemands(call)
      BY <3>2 DEF Publish, ClientDemands
    <3> QED
      BY <2>0, <3>1, <3>3
      DEF FreshInvariant, Freshness, AnswerFresh, ProtocolInvariant, Shapes, CallShape, SymbolsCall
  <2> QED
    BY <2>2, <2>3, <2>4
<1> QED
  BY <1>1, FreshnessHolds, PTL DEF Spec, ReturnedTableFresh

=============================================================================
