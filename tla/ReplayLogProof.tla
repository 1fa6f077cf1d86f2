--------------------------- MODULE ReplayLogProof ---------------------------
(* Proofs about ReplayLog for any number of paths, texts, versions, updates *)
(* and crashes, for a caller whose versions grow and a producer that        *)
(* accepts on replay what its predecessor accepted.                         *)
EXTENDS ReplayLog, SequenceTheorems, TLAPS

\* Pruning the superseded overlays leaves a log of as many batches.
LEMMA PrunedLog ==
  ASSUME TypeOK
  PROVE  /\ Superseded(changes) \in Seq(Batch)
         /\ Len(Superseded(changes)) = Len(batches)
<1>1. Len(batches) \in Nat
  BY LenProperties DEF TypeOK
<1>2. \A i \in 1..Len(batches) :
         [p \in Paths |-> IF changes[p] # NoChange /\ index[p] = i
                          THEN NoChange ELSE batches[i][p]] \in Batch
  BY LenProperties DEF TypeOK, Batch
<1>3. Superseded(changes) \in Seq(Batch)
  BY <1>1, <1>2 DEF Superseded, TypeOK, Batch
<1>4. DOMAIN Superseded(changes) = 1..Len(batches)
  BY DEF Superseded
<1> QED
  BY <1>1, <1>3, <1>4, LenProperties

\* The type of every variable is preserved by every step of the session.
THEOREM TypeCorrect == Spec => []TypeOK
<1>1. Init => TypeOK
  <2>1. NoBatch \in Batch
    BY DEF NoBatch, Batch
  <2>2. << >> \in Seq(Batch)
    BY EmptySeq
  <2>3. Init => resent \in BOOLEAN
    BY DEF Init
  <2>4. Init => index \in [Paths -> Nat]
    BY DEF Init
  <2> QED
    BY <2>1, <2>2, <2>3, <2>4 DEF Init, TypeOK
<1>2. TypeOK /\ [Next]_vars => TypeOK'
  <2> SUFFICES ASSUME TypeOK, [Next]_vars PROVE TypeOK'
    OBVIOUS
  <2> USE DEF TypeOK
  <2>0. ASSUME NEW f \in Batch, NEW g \in Batch PROVE Applied(f, g) \in Batch
    BY <2>0 DEF Applied, Batch
  <2>1. CASE UNCHANGED vars
    BY <2>1 DEF vars, log, request, producer
  <2>2. ASSUME NEW batch \in Batch, Update(batch) PROVE TypeOK'
    <3>1. resent' \in BOOLEAN
      BY <2>2 DEF Update
    <3> QED
      BY <2>2, <3>1 DEF Update, log, producer
  <2>3. CASE Query
    BY <2>3 DEF Query, log, producer, NoBatch, Batch
  <2>4. CASE ProducerUpdate
    BY <2>0, <2>4 DEF ProducerUpdate, log, request, producer
  <2>5. CASE ProducerRefuses
    BY <2>5 DEF ProducerRefuses, log, request, producer
  <2>6. CASE ProducerQuery
    BY <2>6 DEF ProducerQuery, log, request, producer
  <2>7. CASE CommitUpdate
    <3>1. Superseded(changes) \in Seq(Batch)
      BY PrunedLog
    <3>2. batches' \in Seq(Batch)
      BY <2>7, <3>1, AppendProperties DEF CommitUpdate
    <3>3. index' \in [Paths -> Nat]
      BY <2>7, LenProperties DEF CommitUpdate
    <3>4. acknowledged' \in Batch
      BY <2>0, <2>7 DEF CommitUpdate
    <3> QED
      BY <2>7, <3>2, <3>3, <3>4 DEF CommitUpdate, request, producer
  <2>8. CASE QueryReturns
    BY <2>8 DEF QueryReturns, log, request, producer
  <2>9. CASE Refused
    BY <2>9 DEF Refused, log, request, producer
  <2>10. CASE Crash
    BY <2>10 DEF Crash, log, request, NoBatch, Batch
  <2>11. CASE Restart
    BY <2>11 DEF Restart, request, producer
  <2>12. CASE SpawnFails
    BY <2>12 DEF SpawnFails, log, request, producer
  <2>13. CASE ReplayBatch
    <3>1. batches[position + 1] \in Batch
      BY <2>13, LenProperties DEF ReplayBatch
    <3> QED
      BY <2>0, <2>13, <3>1 DEF ReplayBatch, request
  <2>14. CASE ReplayDone
    BY <2>14 DEF ReplayDone, log, producer
  <2>15. CASE ReplayFails
    BY <2>15 DEF ReplayFails, log, request, producer
  <2>16. CASE GiveUp
    BY <2>16 DEF GiveUp, log, request, producer
  <2> QED
    BY <2>1, <2>2, <2>3, <2>4, <2>5, <2>6, <2>7, <2>8, <2>9, <2>10, <2>11,
       <2>12, <2>13, <2>14, <2>15, <2>16 DEF Next, Step
<1> QED
  BY <1>1, <1>2, PTL DEF Spec

\* What an update does to the log: it grows by the batch, and every older batch
\* loses the overlays the batch supersedes.
LEMMA CommittedLog ==
  ASSUME TypeOK, CommitUpdate
  PROVE  /\ Len(batches') = Len(batches) + 1
         /\ batches'[Len(batches) + 1] = changes
         /\ \A i \in 1..Len(batches) : \A p \in Paths :
              batches'[i][p] = IF changes[p] # NoChange /\ index[p] = i
                               THEN NoChange ELSE batches[i][p]
<1> DEFINE pruned == Superseded(changes)
<1>1. pruned \in Seq(Batch) /\ Len(pruned) = Len(batches)
  BY PrunedLog
<1>2. changes \in Batch /\ batches' = Append(pruned, changes)
  BY DEF TypeOK, CommitUpdate
<1>3. \A i \in 1..Len(batches) : \A p \in Paths :
        pruned[i][p] = IF changes[p] # NoChange /\ index[p] = i
                       THEN NoChange ELSE batches[i][p]
  BY DEF Superseded
<1> HIDE DEF pruned
<1>4. /\ Len(batches') = Len(batches) + 1
      /\ batches'[Len(batches) + 1] = changes
      /\ \A i \in 1..Len(batches) : batches'[i] = pruned[i]
  BY <1>1, <1>2, AppendProperties
<1> QED
  BY <1>3, <1>4

\* Each action of the session, the producer and the environment preserves the
\* invariant that relates the log, the acknowledged overlays and the producer.
LEMMA InvariantStep ==
  ASSUME MonotoneVersions, ~ReplayMayBeRefused,
         TypeOK, ReplayInvariant, [Next]_vars
  PROVE  ReplayInvariant'
<1> USE DEF ReplayInvariant, Applying
<1>0. Len(batches) \in Nat /\ \A i \in 1..Len(batches) : batches[i] \in Batch
  BY LenProperties DEF TypeOK
<1>1. CASE UNCHANGED vars
  BY <1>1 DEF vars, log, request, producer, OneOverlayPerPath, LogHoldsAcknowledged,
     PendingIsNewer, LiveProducer, ReplayedPrefix, Ahead, Synchronized, Applied
<1> DEFINE LogKept == UNCHANGED <<batches, index, acknowledged>>
<1>2. LogKept => OneOverlayPerPath' /\ LogHoldsAcknowledged'
  BY DEF OneOverlayPerPath, LogHoldsAcknowledged
<1>3. ASSUME NEW batch \in Batch, Update(batch) PROVE ReplayInvariant'
  BY <1>2, <1>3 DEF Update, log, producer, PendingIsNewer, LiveProducer, Synchronized
<1>4. CASE Query
  BY <1>2, <1>4 DEF Query, log, producer, PendingIsNewer, LiveProducer, Synchronized
<1>5. CASE ProducerUpdate
  BY <1>2, <1>5 DEF ProducerUpdate, log, request, producer, PendingIsNewer,
     LiveProducer, Synchronized, Ahead
<1>6. CASE ProducerRefuses
  BY <1>2, <1>6 DEF ProducerRefuses, log, request, producer, PendingIsNewer,
     LiveProducer, Synchronized
<1>7. CASE ProducerQuery
  BY <1>2, <1>7 DEF ProducerQuery, log, request, producer, PendingIsNewer,
     LiveProducer, Synchronized
<1>8. CASE CommitUpdate
  <2> DEFINE n == Len(batches)
  <2>1. /\ Len(batches') = n + 1 /\ batches'[n + 1] = changes
        /\ \A i \in 1..n : \A p \in Paths :
             batches'[i][p] = IF changes[p] # NoChange /\ index[p] = i
                              THEN NoChange ELSE batches[i][p]
    BY <1>8, CommittedLog
  <2>2. \A p \in Paths : index'[p] = IF changes[p] # NoChange THEN n + 1 ELSE index[p]
    BY <1>8 DEF CommitUpdate
  <2>3. \A p \in Paths : index[p] \in 0..n
    BY DEF LogHoldsAcknowledged
  <2> HIDE DEF n
  <2>4. n \in Nat
    BY <1>0 DEF n
  <2>5. OneOverlayPerPath'
    <3> SUFFICES ASSUME NEW p \in Paths, NEW i \in 1..(n + 1)
                 PROVE  batches'[i][p] # NoChange <=> index'[p] = i
      BY <2>1 DEF OneOverlayPerPath
    <3>1. CASE i = n + 1
      BY <2>1, <2>2, <2>3, <2>4, <3>1
    <3>2. CASE i \in 1..n
      <4>1. batches[i][p] # NoChange <=> index[p] = i
        BY <3>2 DEF OneOverlayPerPath, n
      <4> QED
        BY <2>1, <2>2, <2>4, <3>2, <4>1
    <3> QED
      BY <2>4, <3>1, <3>2
  <2>6. \A p \in Paths : acknowledged'[p] = IF changes[p] # NoChange
                                            THEN changes[p] ELSE acknowledged[p]
    BY <1>8 DEF CommitUpdate, Applied, PendingIsNewer, Newer
  <2>7. LogHoldsAcknowledged'
    <3> SUFFICES ASSUME NEW p \in Paths
                 PROVE  /\ index'[p] \in 0..(n + 1)
                        /\ acknowledged'[p] = IF index'[p] = 0 THEN NoChange
                                              ELSE batches'[index'[p]][p]
      BY <2>1 DEF LogHoldsAcknowledged
    <3>1. acknowledged[p] = IF index[p] = 0 THEN NoChange ELSE batches[index[p]][p]
      BY DEF LogHoldsAcknowledged
    <3> QED
      BY <2>1, <2>2, <2>3, <2>4, <2>6, <3>1
  <2>8. LiveProducer' /\ PendingIsNewer'
    BY <1>8, <2>1, <2>4 DEF CommitUpdate, producer, LiveProducer, Synchronized, Ahead,
       PendingIsNewer, n
  <2> QED
    BY <1>8, <2>5, <2>7, <2>8 DEF CommitUpdate, producer
<1>9. CASE QueryReturns
  BY <1>2, <1>9 DEF QueryReturns, log, request, producer, PendingIsNewer,
     LiveProducer, Synchronized
<1>10. CASE Refused
  BY <1>2, <1>10 DEF Refused, log, request, producer, PendingIsNewer,
     LiveProducer, Synchronized
<1>11. CASE Crash
  BY <1>2, <1>11 DEF Crash, log, request, PendingIsNewer, LiveProducer
<1>12. CASE Restart
  <2>1. overlays = [p \in Paths |-> IF index[p] <= 0 THEN acknowledged[p] ELSE NoChange]
    BY <1>0, <1>12 DEF Restart, NoBatch, LogHoldsAcknowledged
  <2>2. ReplayedPrefix'
    BY <1>0, <1>12, <2>1 DEF Restart, producer, ReplayedPrefix
  <2> QED
    BY <1>2, <1>12, <2>2 DEF Restart, request, producer, PendingIsNewer, LiveProducer
<1>13. CASE SpawnFails
  BY <1>2, <1>13 DEF SpawnFails, log, request, producer, PendingIsNewer, LiveProducer
<1>14. CASE ReplayBatch
  <2>1. ReplayedPrefix /\ position \in Nat /\ position + 1 \in 1..Len(batches)
    BY <1>0, <1>14 DEF ReplayBatch, LiveProducer, TypeOK
  <2>2. ASSUME NEW p \in Paths
        PROVE  overlays'[p] = IF index[p] <= position + 1 THEN acknowledged[p] ELSE NoChange
    <3>1. overlays[p] = IF index[p] <= position THEN acknowledged[p] ELSE NoChange
      BY <2>1 DEF ReplayedPrefix
    <3>2. batches[position + 1][p] # NoChange <=> index[p] = position + 1
      BY <2>1 DEF OneOverlayPerPath
    <3>3. /\ index[p] \in Nat
          /\ index[p] = position + 1 => acknowledged[p] = batches[position + 1][p]
      BY <1>0, <2>1 DEF LogHoldsAcknowledged
    <3>4. overlays'[p] = IF Newer(batches[position + 1][p], overlays[p])
                         THEN batches[position + 1][p] ELSE overlays[p]
      BY <1>14 DEF ReplayBatch, Applied
    <3> QED
      BY <2>1, <3>1, <3>2, <3>3, <3>4 DEF Newer
  <2>3. overlays' = [p \in Paths |-> IF index[p] <= position + 1
                                     THEN acknowledged[p] ELSE NoChange]
    BY <1>14, <2>2 DEF ReplayBatch, Applied
  <2>4. ReplayedPrefix'
    BY <1>0, <1>14, <2>1, <2>3 DEF ReplayBatch, ReplayedPrefix
  <2> QED
    BY <1>2, <1>14, <2>4 DEF ReplayBatch, request, PendingIsNewer, LiveProducer
<1>15. CASE ReplayDone
  <2>1. ReplayedPrefix => overlays = acknowledged
    BY <1>0, <1>15 DEF ReplayDone, ReplayedPrefix, LogHoldsAcknowledged, TypeOK, Batch
  <2> QED
    BY <1>2, <1>15, <2>1 DEF ReplayDone, log, producer, PendingIsNewer, LiveProducer,
       ReplayedPrefix, Synchronized
<1>16. CASE ReplayFails
  BY <1>2, <1>16 DEF ReplayFails, log, request, producer, PendingIsNewer,
     LiveProducer, TypeOK
<1>17. CASE GiveUp
  BY <1>2, <1>17 DEF GiveUp, log, request, producer, PendingIsNewer, LiveProducer
<1> QED
  BY <1>1, <1>3, <1>4, <1>5, <1>6, <1>7, <1>8, <1>9, <1>10, <1>11, <1>12, <1>13,
     <1>14, <1>15, <1>16, <1>17 DEF Next, Step

\* The invariant holds in every reachable state.
THEOREM ReplayInvariantHolds ==
  ASSUME MonotoneVersions, ~ReplayMayBeRefused
  PROVE  Spec => []ReplayInvariant
<1>1. Init => ReplayInvariant
  BY DEF Init, ReplayInvariant, OneOverlayPerPath, LogHoldsAcknowledged, PendingIsNewer,
     LiveProducer, Applying, Synchronized, NoBatch
<1>2. TypeOK /\ ReplayInvariant /\ [Next]_vars => ReplayInvariant'
  BY InvariantStep
<1> QED
  BY <1>1, <1>2, TypeCorrect, PTL DEF Spec

\* Whatever crashes and resends there were, a live producer between two calls has
\* exactly the acknowledged overlays, and its generation, the session's and the
\* number of batches agree; an update is never applied twice.
THEOREM ReplayRestores ==
  ASSUME MonotoneVersions, ~ReplayMayBeRefused
  PROVE  Spec => [](OverlaysRestored /\ BatchPerGeneration /\ AppliedOnce)
<1>1. TypeOK /\ ReplayInvariant => OverlaysRestored /\ BatchPerGeneration /\ AppliedOnce
  <2> SUFFICES ASSUME TypeOK, ReplayInvariant
               PROVE  OverlaysRestored /\ BatchPerGeneration /\ AppliedOnce
    OBVIOUS
  <2>1. Len(batches) \in Nat
    BY LenProperties DEF TypeOK
  <2> QED
    BY <2>1 DEF ReplayInvariant, LiveProducer, Applying, Synchronized, Ahead,
       OverlaysRestored, BatchPerGeneration, AppliedOnce
<1> QED
  BY <1>1, TypeCorrect, ReplayInvariantHolds, PTL

\* The log never holds two overlays of one path, however often it is edited:
\* this needs neither growing versions nor an accepted replay, because only
\* commit_update touches the log.
THEOREM LogIsBounded == Spec => []OneOverlayPerPath
<1> DEFINE IndexInLog == \A p \in Paths : index[p] \in 0..Len(batches)
           LogShape   == OneOverlayPerPath /\ IndexInLog
<1>1. Init => LogShape
  BY DEF Init, OneOverlayPerPath
<1>2. TypeOK /\ LogShape /\ [Next]_vars => LogShape'
  <2> SUFFICES ASSUME TypeOK, LogShape, [Next]_vars
               PROVE  LogShape'
    OBVIOUS
  <2>1. CASE CommitUpdate
    <3> DEFINE n == Len(batches)
    <3>1. /\ Len(batches') = n + 1 /\ batches'[n + 1] = changes
          /\ \A i \in 1..n : \A p \in Paths :
               batches'[i][p] = IF changes[p] # NoChange /\ index[p] = i
                                THEN NoChange ELSE batches[i][p]
      BY <2>1, CommittedLog
    <3>2. \A p \in Paths : index'[p] = IF changes[p] # NoChange THEN n + 1 ELSE index[p]
      BY <2>1 DEF CommitUpdate
    <3>3. n \in Nat /\ \A p \in Paths : index[p] \in 0..n
      BY LenProperties DEF TypeOK
    <3>4. \A p \in Paths : \A i \in 1..n : batches[i][p] # NoChange <=> index[p] = i
      BY DEF OneOverlayPerPath
    <3> HIDE DEF n
    <3>5. IndexInLog'
      BY <3>1, <3>2, <3>3
    <3>6. ASSUME NEW p \in Paths, NEW i \in 1..n + 1
          PROVE  batches'[i][p] # NoChange <=> index'[p] = i
      <4>1. CASE i = n + 1
        BY <4>1, <3>1, <3>2, <3>3
      <4>2. CASE i \in 1..n
        BY <4>2, <3>1, <3>2, <3>3, <3>4
      <4> QED
        BY <4>1, <4>2, <3>3
    <3> QED
      BY <3>1, <3>5, <3>6 DEF OneOverlayPerPath
  <2>2. CASE UNCHANGED <<batches, index>>
    BY <2>2 DEF OneOverlayPerPath
  <2>3. CommitUpdate \/ UNCHANGED <<batches, index>>
    BY DEF Next, Step, vars, log, Update, Query, ProducerUpdate, ProducerRefuses,
       ProducerQuery, QueryReturns, Refused, Crash, Restart, SpawnFails,
       ReplayBatch, ReplayDone, ReplayFails, GiveUp
  <2> QED
    BY <2>1, <2>2, <2>3
<1>3. LogShape => OneOverlayPerPath
  OBVIOUS
<1> HIDE DEF LogShape
<1> QED
  BY <1>1, <1>2, <1>3, TypeCorrect, PTL DEF Spec

\* An acknowledged update took effect exactly once, also when the producer that
\* first applied it died before it answered.
THEOREM UpdatesAppliedOnce ==
  ASSUME MonotoneVersions, ~ReplayMayBeRefused
  PROVE  Spec => []AppliedOnce
BY ReplayRestores, PTL

=============================================================================
