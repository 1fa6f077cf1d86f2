-------------------------- MODULE TypeFactsSession --------------------------
(***************************************************************************)
(* One Rust client session and its Go producer.  The client has one call   *)
(* outstanding at a time: an update, an analysis, or a read of the         *)
(* program.  Both sides retain the demand set of the last analysis, the    *)
(* client also its fact table; the state token is the proof that the two   *)
(* agree.  The producer may crash at any moment, and an analysis may fail  *)
(* or be cancelled at any moment before it publishes.                      *)
(*                                                                         *)
(* Replaying the overlays into a new producer, or failing to half way, is  *)
(* one step here; module ReplayLog has the steps of it.  A request names   *)
(* the generation the client had when it was made, also when it is resent. *)
(***************************************************************************)
EXTENDS DemandClosure

CONSTANTS
  DemandSets,     \* the demand sets the caller asks for: path -> run
  Edits,          \* the batches of changes the caller sends: path -> text
  InitialSources, \* what the project holds on disk
  MaxGeneration,  \* bound on generations, counted from 1
  MaxToken        \* bound on the analyses one producer publishes

ASSUME SessionAssumption ==
  /\ DemandSets \subseteq Partial(Runs)
  /\ Edits \subseteq Partial(Texts) \ {Empty}
  /\ InitialSources \in Sources
  /\ MaxGeneration \in Nat \ {0} /\ MaxToken \in Nat

VARIABLES
  \* the client's Session
  generation, logged, sources, stateToken, retainedDemands, retainedTable,
  call, reply, outcome,
  \* the producer's Session and its closure
  alive, producerSources, closure, token, demands, header

client   == <<generation, logged, sources, stateToken, retainedDemands, retainedTable>>
producer == <<alive, producerSources, closure, token, demands, header>>
vars     == <<client, call, reply, outcome, producer>>

\* logged is the generation replay_batches leads to, one more than their number;
\* generation falls behind it where a replay fails half way.

\* The producer published no table yet.
NoHeader == 0

Idle    == [op |-> "none"]
NoReply == [code |-> "none"]
Failure(code) == [code |-> code]

\* A new producer: the state a restart lands on once the overlays are replayed.
\* Nothing was analyzed, so all that differs is what the last batch named.
NewProducer(src, gen, named) ==
  /\ alive' = TRUE
  /\ producerSources' = src
  /\ closure' = [InitClosure EXCEPT !.gen = gen, !.changed = named]
  /\ token' = 0
  /\ demands' = Empty
  /\ header' = NoHeader

\* The process and all it retained are gone.
Gone ==
  /\ alive' = FALSE
  /\ producerSources' = InitialSources /\ closure' = InitClosure
  /\ token' = 0 /\ demands' = Empty /\ header' = NoHeader

Init ==
  /\ generation = 1 /\ logged = 1 /\ sources = InitialSources
  /\ stateToken = 0 /\ retainedDemands = Empty /\ retainedTable = NoTable
  /\ call = Idle /\ reply = NoReply /\ outcome = "none"
  /\ alive = TRUE /\ producerSources = InitialSources
  /\ closure = InitClosure /\ token = 0 /\ demands = Empty /\ header = NoHeader

-----------------------------------------------------------------------------
(* What the client sends.                                                  *)

AnalyzeRequest(want, reset, changed, removed, complete) ==
  [ op |-> "analyze", gen |-> generation, want |-> want, reset |-> reset,
    token |-> IF reset THEN 0 ELSE stateToken,
    changed |-> changed, removed |-> removed,
    complete |-> complete, resent |-> FALSE ]

\* The runs of want that differ from the retained ones.
ChangedRuns(want) ==
  Restrict2(want, {p \in DOMAIN want : ~ (/\ p \in DOMAIN retainedDemands
                                          /\ retainedDemands[p] = want[p])})

\* analyze_groups: without a token the complete set, with one only what differs.
ClientAnalyze(want) ==
  /\ call = Idle
  /\ token < MaxToken
  /\ \/ /\ stateToken = 0
        /\ call' = AnalyzeRequest(want, TRUE, want, {}, FALSE)
     \/ /\ stateToken # 0
        /\ call' = AnalyzeRequest(want, FALSE, ChangedRuns(want),
                                  DOMAIN retainedDemands \ DOMAIN want, FALSE)
  /\ UNCHANGED <<client, reply, outcome, producer>>

ClientUpdate(edit) ==
  /\ call = Idle
  /\ logged < MaxGeneration
  /\ call' = [op |-> "update", gen |-> generation + 1, edit |-> edit, resent |-> FALSE]
  /\ UNCHANGED <<client, reply, outcome, producer>>

\* configured_sources and module_graph.
ClientRead ==
  /\ call = Idle
  /\ call' = [op |-> "read", gen |-> generation, resent |-> FALSE]
  /\ UNCHANGED <<client, reply, outcome, producer>>

\* close: whatever the producer answers, the connection is terminated.
Close ==
  /\ call = Idle
  /\ call' = [op |-> "closed"]
  /\ Gone
  /\ UNCHANGED <<client, reply, outcome>>

-----------------------------------------------------------------------------
(* The producer.                                                           *)

Asked(op) == alive /\ call.op = op /\ reply = NoReply

ProducerUpdate ==
  LET new == Overwrite(producerSources, call.edit)
  IN  /\ Asked("update")
      /\ IF call.gen # closure.gen + 1
         THEN /\ reply' = Failure("generation-mismatch")
              /\ UNCHANGED <<producerSources, closure>>
         ELSE /\ reply' = [code |-> "ok"]
              /\ producerSources' = new
              /\ closure' = ClosureUpdate(closure, DOMAIN call.edit,
                              Affected(DOMAIN call.edit, producerSources, new))
      /\ UNCHANGED <<client, call, outcome, alive, token, demands, header>>

\* Mutant: the generation advances before the backend accepts the changes.
ProducerUpdateFailsAdvanced ==
  /\ Asked("update")
  /\ reply' = Failure("update-failed")
  /\ closure' = [closure EXCEPT !.gen = @ + 1]
  /\ UNCHANGED <<client, call, outcome, alive, producerSources, token, demands, header>>

\* The backend returns its error before it changes anything.
ProducerUpdateFails ==
  /\ Asked("update")
  /\ reply' = Failure("update-failed")
  /\ UNCHANGED <<client, call, outcome, producer>>

ProducerRead ==
  /\ Asked("read")
  /\ reply' = IF call.gen # closure.gen THEN Failure("generation-mismatch")
              ELSE [code |-> "ok"]
  /\ UNCHANGED <<client, call, outcome, producer>>

TokenAccepted == call.reset \/ call.token = token

\* Mutant: the header's generation is not compared.
NothingToDoOnAnyGeneration ==
  ~call.reset /\ call.changed = Empty /\ call.removed = {} /\ header # NoHeader

\* No demand edit and a table of this generation: the answer is the old token.
NothingToDo ==
  /\ ~call.reset /\ call.changed = Empty /\ call.removed = {}
  /\ header # NoHeader /\ header = closure.gen

\* Mutant: the removals are not applied.
NextDemandsWithoutRemovals ==
  IF call.reset THEN call.changed ELSE Overwrite(demands, call.changed)

\* The demand transaction: replacements first, then removals.
NextDemands ==
  IF call.reset THEN call.changed
  ELSE Restrict2(Overwrite(demands, call.changed), Paths \ call.removed)

EditedPaths == DOMAIN call.changed \cup call.removed

Full(table) ==
  [ mode |-> "full", gen |-> table.gen,
    table |-> [ gen |-> table.gen, sources |-> table.sources,
                entities |-> table.entities, files |-> table.files ] ]

\* A path the manifest names is replaced, or removed where it has no rows.
Delta(base, baseToken, table) ==
  [ mode |-> "delta", gen |-> table.gen, base |-> base, baseToken |-> baseToken,
    paths    |-> table.manifest,
    sources  |-> Restrict2(table.sources, table.manifest),
    entities |-> Restrict2(table.entities, table.manifest),
    files    |-> Restrict2(table.files, table.manifest) ]

Reuse == [mode |-> "reuse"]

Transition(base, table) ==
  IF base = NoHeader THEN Full(table)
  ELSE IF base = table.gen /\ table.manifest = {} THEN Reuse
  ELSE Delta(base, token, table)

ProducerAnalyze ==
  LET first     == DemandTable(closure, producerSources, NextDemands, EditedPaths)
      base      == IF call.reset THEN NoHeader ELSE header
      broad     == base # NoHeader /\ first.table.manifest = NoPaths
      final     == IF broad
                   THEN DemandTable(ResetAnalysisState(first), producerSources,
                                    NextDemands, EditedPaths)
                   ELSE first
  IN  /\ Asked("analyze")
      /\ IF call.gen # closure.gen
         THEN /\ reply' = Failure("generation-mismatch")
              /\ UNCHANGED <<closure, token, demands, header>>
         ELSE IF ~TokenAccepted
         THEN /\ reply' = Failure("state-mismatch")
              /\ UNCHANGED <<closure, token, demands, header>>
         ELSE IF NothingToDo
         THEN /\ reply' = [ code |-> "ok", token |-> token, materialized |-> FALSE,
                            transition |-> Reuse ]
              /\ UNCHANGED <<closure, token, demands, header>>
         ELSE /\ Answerable(closure, producerSources, NextDemands, EditedPaths)
              /\ broad => AsyncGroups(NextDemands) \subseteq Members(producerSources)
              /\ reply' = [ code |-> "ok", token |-> token + 1,
                            materialized |-> Materializes(closure, EditedPaths),
                            transition |-> Transition(IF broad THEN NoHeader ELSE base,
                                                      final.table) ]
              /\ token' = token + 1
              /\ demands' = NextDemands
              /\ header' = final.table.gen
              /\ closure' = ReleaseTransportRows(final)
      /\ UNCHANGED <<client, call, outcome, alive, producerSources>>

\* Cancelled, or failed, anywhere before it publishes: the demand transaction is
\* rolled back and the closure's derived state abandoned.
ProducerAnalyzeFails ==
  /\ Asked("analyze")
  /\ call.gen = closure.gen
  /\ TokenAccepted /\ ~NothingToDo
  /\ reply' = Failure("analysis-cancelled")
  /\ closure' = ResetAnalysisState(closure)
  /\ UNCHANGED <<client, call, outcome, alive, producerSources, token, demands, header>>

-----------------------------------------------------------------------------
(* What the client does with an answer.                                    *)

Return(result) ==
  /\ call' = Idle /\ reply' = NoReply /\ outcome' = result

\* Mutant: the table outlives its token.
ClearTokenOnly ==
  stateToken' = 0 /\ retainedDemands' = Empty /\ UNCHANGED retainedTable

ClearRetainedState ==
  /\ stateToken' = 0 /\ retainedDemands' = Empty /\ retainedTable' = NoTable

UpdateAnswered ==
  /\ call.op = "update" /\ reply.code = "ok"
  /\ generation' = generation + 1 /\ logged' = logged + 1
  /\ sources' = Overwrite(sources, call.edit)
  /\ Return("ok")
  /\ UNCHANGED <<stateToken, retainedDemands, retainedTable, producer>>

ReadAnswered ==
  /\ call.op = "read" /\ reply.code = "ok"
  /\ Return("ok")
  /\ UNCHANGED <<client, producer>>

\* prepare_analyze_response: a transition is taken only onto the table and the
\* token it names as its base.
Acceptable(t) ==
  CASE t.mode = "full"  -> t.gen = generation
    [] t.mode = "reuse" -> retainedTable # NoTable /\ retainedTable.gen = generation
    [] t.mode = "delta" -> /\ t.gen = generation
                           /\ retainedTable # NoTable
                           /\ retainedTable.gen = t.base
                           /\ stateToken = t.baseToken

Patch(rows, t, field) == Overwrite(Restrict2(rows, Paths \ t.paths), t[field])

Candidate(t) ==
  CASE t.mode = "full"  -> t.table
    [] t.mode = "reuse" -> retainedTable
    [] t.mode = "delta" -> [ gen      |-> t.gen,
                             sources  |-> Patch(retainedTable.sources, t, "sources"),
                             entities |-> Patch(retainedTable.entities, t, "entities"),
                             files    |-> Patch(retainedTable.files, t, "files") ]

\* The candidate and its token are published together, and then the demands.
Publish(candidate, newToken) ==
  /\ retainedTable' = candidate
  /\ stateToken' = newToken
  /\ retainedDemands' =
       IF call.complete THEN call.want
       ELSE Overwrite(Restrict2(retainedDemands, Paths \ call.removed), call.changed)
  /\ Return("ok")
  /\ UNCHANGED <<generation, logged, sources>>

\* A state mismatch drops what is retained and sends the complete demand set.
Complete ==
  /\ ClearRetainedState
  /\ call' = AnalyzeRequest(call.want, TRUE, call.want, {}, TRUE)
  /\ reply' = NoReply
  /\ UNCHANGED <<generation, logged, sources, outcome>>

AnalyzeMismatched ==
  /\ call.op = "analyze" /\ reply.code = "state-mismatch" /\ ~call.complete
  /\ Complete
  /\ UNCHANGED producer

\* Nothing was materialized: there is no symbol to close.
AnalyzePublished ==
  /\ call.op = "analyze" /\ reply.code = "ok" /\ ~reply.materialized
  /\ Acceptable(reply.transition)
  /\ Publish(Candidate(reply.transition), reply.token)
  /\ UNCHANGED producer

\* The symbol closure of the candidate is resolved by further exchanges that
\* present the successor token; nothing is published before they end.
AnalyzeMaterialized ==
  /\ call.op = "analyze" /\ reply.code = "ok" /\ reply.materialized
  /\ Acceptable(reply.transition)
  /\ call' = [ op |-> "symbols", want |-> call.want, complete |-> call.complete,
               changed |-> call.changed, removed |-> call.removed,
               token |-> reply.token, candidate |-> Candidate(reply.transition) ]
  /\ reply' = NoReply
  /\ UNCHANGED <<client, outcome, producer>>

SymbolsAnswered ==
  /\ Asked("symbols")
  /\ IF generation = closure.gen /\ call.token = token
     THEN Publish(call.candidate, call.token)
     ELSE IF generation = closure.gen /\ ~call.complete THEN Complete
     ELSE Return("error") /\ UNCHANGED client
  /\ UNCHANGED producer

\* A symbol exchange is not repeated: its failure, or the producer's death,
\* ends the analysis with the retained state as it was.
SymbolsFailed ==
  /\ call.op = "symbols"
  /\ Return("error")
  /\ UNCHANGED <<client, producer>>

CallFailed ==
  /\ \/ reply.code \notin {"none", "ok", "state-mismatch"}
     \/ reply.code = "state-mismatch" /\ call.complete
     \/ call.op = "analyze" /\ reply.code = "ok" /\ ~Acceptable(reply.transition)
  /\ Return("error")
  /\ UNCHANGED <<client, producer>>

-----------------------------------------------------------------------------
(* Failure of the producer process.                                        *)

\* An answer already written is still read.
Crash ==
  /\ alive
  /\ Gone
  /\ UNCHANGED <<client, call, reply, outcome>>

\* Mutant: a read is left waiting when the producer dies.
UnansweredReadForgotten ==
  ~alive /\ reply = NoReply /\ call.op \in {"analyze", "update"}

Unanswered == ~alive /\ reply = NoReply /\ call.op \in {"analyze", "update", "read"}

\* The failures a call recovers from; of the request it sends once more it
\* reports the second.
Recoverable == Unanswered /\ ~call.resent

\* restart_and_replay to the end, then the request again: an update at the
\* generation after the replayed one, any other with the stamp it had.  A lost
\* answer is waited for once more.  An update that could not even be written
\* starts over as a new one, as often as that happens.
RestartAndReplay ==
  /\ Recoverable
  /\ \E named \in IF logged = 1 THEN {NoPaths} ELSE SUBSET Paths :
       NewProducer(sources, logged, named)
  /\ ClearRetainedState
  /\ generation' = logged
  /\ \E last \in IF call.op = "update" THEN BOOLEAN ELSE {TRUE} :
       call' = [call EXCEPT !.resent = last,
                            !.gen = IF call.op = "update" THEN logged + 1 ELSE @]
  /\ UNCHANGED <<logged, sources, reply, outcome>>

\* The new producer dies before it has acknowledged every batch, or its open: the
\* generation stays at the batches that were.
ReplayFails ==
  /\ Recoverable
  /\ generation' \in 1..logged /\ (generation' = logged => logged = 1)
  /\ ClearRetainedState
  /\ Return("error")
  /\ UNCHANGED <<logged, sources, producer>>

\* There is no new producer, and no connection: every later call fails at once.
SpawnFails ==
  /\ Recoverable
  /\ call' = [op |-> "closed"] /\ outcome' = "error"
  /\ UNCHANGED <<client, reply, producer>>

\* The request that was sent once more failed too.
GiveUp ==
  /\ Unanswered /\ call.resent
  /\ Return("error")
  /\ UNCHANGED <<client, producer>>

-----------------------------------------------------------------------------

ProducerStep ==
  \/ ProducerRead
  \/ ProducerUpdateFails \/ ProducerAnalyzeFails
  \/ ProducerUpdate \/ ProducerAnalyze

ClientStep ==
  \/ UpdateAnswered \/ ReadAnswered
  \/ AnalyzeMismatched \/ AnalyzePublished \/ AnalyzeMaterialized
  \/ SymbolsAnswered \/ SymbolsFailed \/ CallFailed
  \/ RestartAndReplay \/ ReplayFails \/ SpawnFails \/ GiveUp

Caller ==
  \/ \E want \in DemandSets : ClientAnalyze(want)
  \/ \E edit \in Edits : ClientUpdate(edit)
  \/ ClientRead
  \/ Close

Next == ProducerStep \/ ClientStep \/ Caller \/ Crash

\* The producer's compiler work ends and the client waits for every answer; the
\* caller may stop calling, and a crash need never happen.
Spec == Init /\ [][Next]_vars /\ WF_vars(ProducerStep) /\ WF_vars(ClientStep)

-----------------------------------------------------------------------------
(* Properties.                                                             *)

\* Every variable keeps its shape; no update is counted past the bound.
TypeOK ==
  /\ generation \in 1..logged /\ logged \in 1..MaxGeneration
  /\ sources \in Sources /\ producerSources \in Sources
  /\ stateToken \in Nat /\ token \in Nat
  /\ retainedDemands \in Partial(Runs) /\ demands \in Partial(Runs)
  /\ call.op \in {"none", "update", "analyze", "symbols", "read", "closed"}
  /\ reply.code \in {"none", "ok", "generation-mismatch", "state-mismatch",
                     "update-failed", "analysis-cancelled"}
  /\ outcome \in {"none", "ok", "error"}
  /\ alive \in BOOLEAN
  /\ header = NoHeader \/ header \in 1..MaxGeneration

\* What analyze_groups returns is the table a fresh producer would compute for
\* the sources of this generation and the demands of this call, however it was
\* put together: a full table, a delta onto a retained one, or reuse; and the
\* demands retained beside it are the ones of this call.
ReturnedTableFresh ==
  [][ (/\ call.op \in {"analyze", "symbols"} /\ call' = Idle /\ outcome' = "ok"
       /\ reply' = NoReply)
      => /\ retainedTable' = FreshTable(sources, call.want, generation)
         /\ retainedDemands' = call.want ]_vars

\* A client that holds the producer's current token retains the same demands,
\* and a table of the generation the producer will name as the base of a delta.
TokenProvesAgreement ==
  (alive /\ stateToken # 0 /\ stateToken = token /\ call.op # "symbols"
     /\ ~ (call.op = "analyze" /\ reply.code = "ok"))
  => /\ retainedDemands = demands
     /\ retainedTable # NoTable /\ header = retainedTable.gen

\* No transition of a live producer is refused by prepare_analyze_response: the
\* base it names is the one the client holds.
AnswersAccepted ==
  (call.op = "analyze" /\ reply.code = "ok") => Acceptable(reply.transition)

\* Between calls a live producer, the session and its log count the same
\* generation, through crashes, resends, refused updates and replays that failed
\* half way.  Such a replay leaves the session short, and that shows once:
\* a read or an analysis stamped meanwhile and resent to a producer rebuilt in full
\* is answered generation-mismatch, an update never, and the session is in step
\* again when the caller sees the error.
GenerationsAgree ==
  /\ (alive /\ call = Idle) => closure.gen = generation /\ generation = logged
  /\ reply.code = "generation-mismatch" =>
       /\ call.op \in {"read", "analyze"} /\ call.resent /\ call.gen < logged
       /\ generation = logged

\* Token, demands and table are published together or not at all: there is a
\* table exactly when there is a token, and its entity rows are those of the
\* retained demands, whichever calls failed since.
RetainedTogether ==
  /\ stateToken = 0 <=> retainedTable = NoTable
  /\ stateToken = 0 => retainedDemands = Empty
  /\ retainedTable # NoTable =>
       DOMAIN retainedTable.entities = DOMAIN retainedDemands

\* The rows a retained contribution stands for are the rows a recomputation for
\* the same run would give now: invalidation by affected paths and by direct
\* dependents misses no edit.
ContributionsFresh ==
  \A p \in DOMAIN closure.contrib :
    closure.contrib[p].rows =
      EntityRows(p, closure.contrib[p].run, producerSources, closure.gen)

\* CONTEXT.md calls the transport manifest the record of exactly which rows of a
\* fact table may differ from the immediately preceding one: the candidate a
\* delta makes of the client's table is the table of the new generation.
ManifestNamesEveryChange ==
  (/\ call.op = "analyze" /\ reply.code = "ok"
   /\ reply.transition.mode = "delta" /\ Acceptable(reply.transition))
  => Candidate(reply.transition) = FreshTable(sources, call.want, generation)

\* An analysis or a read returns whatever crashes, and however a restart fails:
\* its request is resent once, and a state mismatch answered with one complete
\* request.  An update returns unless the producer dies for ever before it can be
\* told: update_during then restarts it and calls update again without a bound.
CallsReturn ==
  /\ (call.op \in {"analyze", "symbols", "read"}) ~> (call.op \in {"none", "closed"})
  /\ <>[][~Crash]_vars => ((call.op = "update") ~> (call.op \in {"none", "closed"}))

=============================================================================
