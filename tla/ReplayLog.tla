------------------------------ MODULE ReplayLog ------------------------------
(***************************************************************************)
(* The overlays a session keeps to rebuild a producer that died, and the   *)
(* steps of rebuilding it.  Every accepted update is one batch; a batch    *)
(* loses the overlays a later one supersedes but keeps its place, because  *)
(* the producer counts one generation per update.                          *)
(*                                                                         *)
(* A batch maps every path to a change or NoChange.  The producer ignores  *)
(* a change whose version is not above the one it knows for the path.      *)
(***************************************************************************)
EXTENDS Naturals, Sequences

CONSTANTS
  Paths, Texts,
  NoChange,          \* a batch does not change the path; no overlay is known
  MaxVersion,        \* bound on the versions the caller uses
  MaxBatches,        \* bound on accepted updates
  MonotoneVersions,  \* whether the caller's versions of a path only grow
  ReplayMayBeRefused \* whether a new producer may refuse a replayed batch

Versions == 1..MaxVersion
Change   == [version : Versions, text : Texts]
Batch    == [Paths -> Change \cup {NoChange}]
NoBatch  == [p \in Paths |-> NoChange]

ASSUME ReplayAssumption ==
  /\ NoChange \notin Change
  /\ MaxVersion \in Nat /\ MaxBatches \in Nat
  /\ MonotoneVersions \in BOOLEAN /\ ReplayMayBeRefused \in BOOLEAN

VARIABLES
  generation,   \* Session.generation
  batches,      \* Session.replay_batches
  index,        \* Session.replay_index: the batch of a path's newest overlay, or 0
  connection,   \* "up", "dead" (the process is gone) or "none" (spawn failed)
  pc,           \* "idle", "sent", "answered", "refused" or "replay"
  op,           \* "update" or "query": the call in progress
  changes,      \* the batch an update carries
  requestGen,   \* the generation the request on the wire names
  resent,       \* the request is on its last producer: another failure is the caller's
  position,     \* batches replayed so far
  overlays,     \* the producer's overlays
  producerGen,  \* the producer's generation
  acknowledged  \* the overlays the producer accepted in acknowledged updates

log      == <<generation, batches, index>>
request  == <<op, changes, requestGen>>
producer == <<overlays, producerGen>>
vars     == <<log, connection, pc, request, resent, position, producer, acknowledged>>

\* project.Update: a change not above the known version of its path is skipped.
Newer(change, known) ==
  change # NoChange /\ (known # NoChange => change.version > known.version)

Applied(known, batch) ==
  [p \in Paths |-> IF Newer(batch[p], known[p]) THEN batch[p] ELSE known[p]]

Init ==
  /\ generation = 1 /\ batches = << >> /\ index = [p \in Paths |-> 0]
  /\ connection = "up" /\ pc = "idle"
  /\ op = "query" /\ changes = NoBatch /\ requestGen = 1
  /\ resent = FALSE /\ position = 0
  /\ overlays = NoBatch /\ producerGen = 1
  /\ acknowledged = NoBatch

-----------------------------------------------------------------------------
(* Calls.  After a failed spawn every call fails at once.                  *)

Update(batch) ==
  /\ pc = "idle" /\ connection # "none"
  /\ Len(batches) < MaxBatches
  /\ batch # NoBatch
  /\ MonotoneVersions =>
       \A p \in Paths : batch[p] # NoChange => Newer(batch[p], acknowledged[p])
  /\ pc' = "sent" /\ op' = "update" /\ changes' = batch
  /\ requestGen' = generation + 1 /\ resent' = FALSE
  /\ UNCHANGED <<log, connection, position, producer, acknowledged>>

\* An analysis or a read: any request that names the current generation.
Query ==
  /\ pc = "idle" /\ connection # "none"
  /\ pc' = "sent" /\ op' = "query" /\ changes' = NoBatch
  /\ requestGen' = generation /\ resent' = FALSE
  /\ UNCHANGED <<log, connection, position, producer, acknowledged>>

-----------------------------------------------------------------------------
(* The producer answers.                                                   *)

ProducerUpdate ==
  /\ connection = "up" /\ pc = "sent" /\ op = "update"
  /\ IF requestGen = producerGen + 1
     THEN /\ overlays' = Applied(overlays, changes)
          /\ producerGen' = producerGen + 1
          /\ pc' = "answered"
     ELSE pc' = "refused" /\ UNCHANGED producer
  /\ UNCHANGED <<log, connection, request, resent, position, acknowledged>>

\* update-failed: the backend changed nothing.
ProducerRefuses ==
  /\ connection = "up" /\ pc = "sent" /\ op = "update"
  /\ pc' = "refused"
  /\ UNCHANGED <<log, connection, request, resent, position, producer, acknowledged>>

ProducerQuery ==
  /\ connection = "up" /\ pc = "sent" /\ op = "query"
  /\ pc' = IF requestGen = producerGen THEN "answered" ELSE "refused"
  /\ UNCHANGED <<log, connection, request, resent, position, producer, acknowledged>>

-----------------------------------------------------------------------------
(* The client takes the answer.                                            *)

\* Mutant: nothing is superseded.
SupersedesNothing(batch) == batches

\* supersede_replayed_overlays, then push.
Superseded(batch) ==
  [i \in 1..Len(batches) |->
     [p \in Paths |-> IF batch[p] # NoChange /\ index[p] = i
                      THEN NoChange ELSE batches[i][p]]]

\* Mutant: the index names the batch before the one pushed.
CommitUpdateOffByOne ==
  /\ pc = "answered" /\ op = "update"
  /\ generation' = generation + 1
  /\ batches' = Append(Superseded(changes), changes)
  /\ index' = [p \in Paths |-> IF changes[p] # NoChange
                               THEN Len(batches) ELSE index[p]]
  /\ acknowledged' = Applied(acknowledged, changes)
  /\ pc' = "idle"
  /\ UNCHANGED <<connection, request, resent, position, producer>>

CommitUpdate ==
  /\ pc = "answered" /\ op = "update"
  /\ generation' = generation + 1
  /\ batches' = Append(Superseded(changes), changes)
  /\ index' = [p \in Paths |-> IF changes[p] # NoChange
                               THEN Len(batches) + 1 ELSE index[p]]
  /\ acknowledged' = Applied(acknowledged, changes)
  /\ pc' = "idle"
  /\ UNCHANGED <<connection, request, resent, position, producer>>

QueryReturns ==
  /\ pc = "answered" /\ op = "query"
  /\ pc' = "idle"
  /\ UNCHANGED <<log, connection, request, resent, position, producer, acknowledged>>

\* A service error goes to the caller.
Refused ==
  /\ pc = "refused"
  /\ pc' = "idle"
  /\ UNCHANGED <<log, connection, request, resent, position, producer, acknowledged>>

-----------------------------------------------------------------------------
(* Losing the producer and rebuilding it.                                  *)

\* An answer already written is still read.
Crash ==
  /\ connection = "up"
  /\ connection' = "dead"
  /\ overlays' = NoBatch /\ producerGen' = 1
  /\ UNCHANGED <<log, pc, request, resent, position, acknowledged>>

\* restart_and_replay: spawn, forget the generation, open.  A request that was
\* written and lost its answer is sent once more.  An update that could not even
\* be written starts over as a new update, as often as that happens.
Restart ==
  /\ pc = "sent" /\ connection = "dead" /\ ~resent
  /\ connection' = "up"
  /\ generation' = 1
  /\ pc' = "replay" /\ position' = 0
  /\ resent' \in IF op = "update" THEN BOOLEAN ELSE {TRUE}
  /\ UNCHANGED <<batches, index, request, producer, acknowledged>>

SpawnFails ==
  /\ pc = "sent" /\ connection = "dead" /\ ~resent
  /\ connection' = "none"
  /\ pc' = "idle"
  /\ UNCHANGED <<log, request, resent, position, producer, acknowledged>>

\* Mutant: the overlays do not follow the replay.
ReplayBatchEmpty ==
  /\ pc = "replay" /\ connection = "up" /\ position < Len(batches)
  /\ producerGen' = producerGen + 1
  /\ generation' = generation + 1
  /\ position' = position + 1
  /\ UNCHANGED <<batches, index, connection, pc, request, resent, overlays, acknowledged>>

\* One replayed batch and its acknowledgement.
ReplayBatch ==
  /\ pc = "replay" /\ connection = "up" /\ position < Len(batches)
  /\ overlays' = Applied(overlays, batches[position + 1])
  /\ producerGen' = producerGen + 1
  /\ generation' = generation + 1
  /\ position' = position + 1
  /\ UNCHANGED <<batches, index, connection, pc, request, resent, acknowledged>>

\* Mutant: the last batch is not replayed.
ReplayDoneEarly ==
  /\ pc = "replay" /\ position + 1 >= Len(batches)
  /\ pc' = "sent"
  /\ requestGen' = IF op = "update" THEN generation + 1 ELSE requestGen
  /\ UNCHANGED <<log, connection, op, changes, resent, position, producer, acknowledged>>

\* An update is sent again at the generation after the replayed one, any other
\* request as it was.
ReplayDone ==
  /\ pc = "replay" /\ position = Len(batches)
  /\ pc' = "sent"
  /\ requestGen' = IF op = "update" THEN generation + 1 ELSE requestGen
  /\ UNCHANGED <<log, connection, op, changes, resent, position, producer, acknowledged>>

\* Mutant: a producer that dies during the replay is not noticed.
ReplayFailsOnlyWhenRefused ==
  /\ pc = "replay" /\ position < Len(batches)
  /\ connection = "up" /\ ReplayMayBeRefused
  /\ pc' = "idle"
  /\ UNCHANGED <<log, connection, request, resent, position, producer, acknowledged>>

\* The replay is given up half way with the generation where it stands.
ReplayFails ==
  /\ pc = "replay" /\ position < Len(batches)
  /\ connection = "up" => ReplayMayBeRefused
  /\ pc' = "idle"
  /\ UNCHANGED <<log, connection, request, resent, position, producer, acknowledged>>

\* The request that was sent once more failed too.
GiveUp ==
  /\ pc = "sent" /\ connection = "dead" /\ resent
  /\ pc' = "idle"
  /\ UNCHANGED <<log, connection, request, resent, position, producer, acknowledged>>

-----------------------------------------------------------------------------

Step ==
  \/ ProducerUpdate \/ ProducerRefuses \/ ProducerQuery
  \/ CommitUpdate \/ QueryReturns \/ Refused
  \/ Restart \/ SpawnFails \/ ReplayBatch \/ ReplayDone \/ ReplayFails \/ GiveUp

Next == Step \/ Crash \/ Query \/ \E batch \in Batch : Update(batch)

\* The client blocks on every answer and replays without pause; calls and
\* crashes need not happen.
Spec == Init /\ [][Next]_vars /\ WF_vars(Step)

-----------------------------------------------------------------------------
(* Properties.                                                             *)

\* Every variable keeps its shape; a pruned batch is still a batch.
TypeOK ==
  /\ generation \in Nat /\ producerGen \in Nat /\ requestGen \in Nat
  /\ position \in Nat
  /\ batches \in Seq(Batch)
  /\ index \in [Paths -> Nat]
  /\ connection \in {"up", "dead", "none"}
  /\ pc \in {"idle", "sent", "answered", "refused", "replay"}
  /\ op \in {"update", "query"}
  /\ resent \in BOOLEAN
  /\ changes \in Batch /\ overlays \in Batch /\ acknowledged \in Batch

\* Between calls a live producer, the one that acknowledged the updates or one
\* rebuilt after any number of crashes, has exactly the overlays that were
\* acknowledged.
OverlaysRestored ==
  (pc = "idle" /\ connection = "up") => overlays = acknowledged

\* One batch per generation: between calls a live producer, its session and the
\* log agree on the generation.
BatchPerGeneration ==
  (pc = "idle" /\ connection = "up")
    => /\ generation = producerGen
       /\ generation = Len(batches) + 1

\* The log keeps at most one overlay of a path, the one the index names, so the
\* session does not grow with the number of edits of a file.
OneOverlayPerPath ==
  \A p \in Paths : \A i \in 1..Len(batches) :
    batches[i][p] # NoChange <=> index[p] = i

\* An acknowledged update took effect exactly once: a request that was already
\* applied by a producer that died before answering is not applied twice.
AppliedOnce ==
  (pc = "answered" /\ op = "update" /\ connection = "up")
    => /\ producerGen = Len(batches) + 2
       /\ overlays = Applied(acknowledged, changes)

\* The log stands for the acknowledged overlays: the batch the index names holds
\* the acknowledged overlay of the path, and a path without one has none.
LogHoldsAcknowledged ==
  \A p \in Paths :
    /\ index[p] \in 0..Len(batches)
    /\ acknowledged[p] = IF index[p] = 0 THEN NoChange ELSE batches[index[p]][p]

\* Half way through a replay the new producer has the overlays of the batches it
\* was sent, and no older one.
ReplayedPrefix ==
  /\ position <= Len(batches)
  /\ generation = position + 1 /\ producerGen = position + 1
  /\ overlays = [p \in Paths |-> IF index[p] <= position
                                 THEN acknowledged[p] ELSE NoChange]

Synchronized ==
  /\ generation = Len(batches) + 1 /\ producerGen = generation
  /\ overlays = acknowledged

Ahead ==
  /\ generation = Len(batches) + 1 /\ producerGen = generation + 1
  /\ overlays = Applied(acknowledged, changes)

Applying == pc = "answered" /\ op = "update"

LiveProducer ==
  connection = "up" =>
    /\ pc = "replay" => ReplayedPrefix
    /\ Applying => Ahead
    /\ (pc # "replay" /\ ~Applying) => Synchronized

PendingIsNewer ==
  (pc # "idle" /\ op = "update") =>
    \A p \in Paths : changes[p] # NoChange => Newer(changes[p], acknowledged[p])

\* The inductive invariant behind the four properties above.
ReplayInvariant ==
  /\ OneOverlayPerPath
  /\ LogHoldsAcknowledged
  /\ PendingIsNewer
  /\ LiveProducer
  /\ connection # "up" => overlays = NoBatch /\ producerGen = 1

\* A query returns whatever crashes, during the replay too.  An update returns
\* unless the producer dies for ever before it can be told: update_during then
\* rebuilds it and calls update again without a bound.
CallsReturn ==
  /\ (pc # "idle" /\ op = "query") ~> pc = "idle"
  /\ <>[][~Crash]_vars => (pc # "idle" ~> pc = "idle")

=============================================================================
