------------------------ MODULE FilingPipelineProofs ------------------------
(***************************************************************************)
(* The two services together.  Each invariant was proved of its component  *)
(* and its environment; here each survives the other component's steps:    *)
(* of ingestion the workers see store steps, and of the workers ingestion  *)
(* sees a status column that never becomes "absent" or ceases to be.       *)
(***************************************************************************)
EXTENDS FilingPipeline, IngestionProofs, EmbeddingWorkerProofs

(* The invariants of the two components, together. *)
PipelineInv == DeliveryInv /\ WorkerInv

(* What ingestion knows survives any step that leaves its own variables    *)
(* alone, keeps what is on the topic there and inserts no row.             *)
LEMMA DeliveryKept ==
  ASSUME DeliveryInv, UNCHANGED ingestVars, StoresTypeOK',
         \A f \in Filings : OnTopic(f) => OnTopic(f)',
         \A f \in Filings : Recorded(f)' => Recorded(f)
  PROVE  DeliveryInv'
<1> USE DEF ingestVars, handlerVars, responseVars
<1>1. IngestTypeOK /\ IngestTypeOK'
  BY DEF DeliveryInv, IngestTypeOK
<1>2. RecordedWasDelivered'
  BY DEF DeliveryInv, RecordedWasDelivered
<1>3. ASSUME NEW r \in Requests, own[r] = "acked" \/ phase[r] = "record"
      PROVE  OnTopic(current[r])'
  <2>1. PICK f \in Filings : f = current[r]
    BY <1>1, <1>3 DEF IngestTypeOK
  <2>2. OnTopic(f)'
    BY <1>3, <2>1 DEF DeliveryInv
  <2> QED
    BY <2>1, <2>2 DEF OnTopic
<1> QED
  BY <1>1, <1>2, <1>3 DEF DeliveryInv

(* Every step of the pipeline preserves both. *)
LEMMA PipelineInvStep ==
  ASSUME PipelineInv, PipelineNext
  PROVE  PipelineInv'
<1>1. IngestTypeOK /\ StoresTypeOK
  BY DEF PipelineInv, DeliveryInv, IngestTypeOK
<1>2. CASE IngestNext /\ UNCHANGED workerVars
  BY <1>1, <1>2, DeliveryStep, IngestStoreStep, WorkerInvStores DEF PipelineInv
<1>3. CASE WorkerNext /\ UNCHANGED ingestVars
  <2>1. WorkerInv'
    BY <1>3, WorkerInvStep DEF PipelineInv
  <2>2. rawTopic' = rawTopic /\ StoresTypeOK' /\ \A f \in Filings : Recorded(f)' <=> Recorded(f)
    BY <1>3, WorkerRows, WorkerStoreStep DEF PipelineInv, WorkerInv
  <2>3. \A f \in Filings : OnTopic(f) => OnTopic(f)'
    BY <2>2 DEF OnTopic
  <2> QED
    BY <1>3, <2>1, <2>2, <2>3, DeliveryKept DEF PipelineInv
<1>4. ASSUME NEW f \in Filings, Replay(f)
      PROVE  PipelineInv'
  <2>1. /\ AppendRaw(f) /\ f \in Messages
        /\ UNCHANGED ingestionLog /\ UNCHANGED ingestVars /\ UNCHANGED workerVars
    BY <1>4 DEF Replay, Messages
  <2>2. StoreStep
    BY <2>1 DEF StoreStep
  <2>3. WorkerInv'
    BY <2>1, <2>2, WorkerInvStores DEF PipelineInv
  <2>4. StoresTypeOK' /\ \A g \in Filings : OnTopic(g) => OnTopic(g)'
    BY <1>1, <2>2, StoreStepKeeps
  <2>5. \A g \in Filings : Recorded(g)' => Recorded(g)
    BY <2>1 DEF Recorded
  <2> QED
    BY <2>1, <2>3, <2>4, <2>5, DeliveryKept DEF PipelineInv
<1> QED
  BY <1>2, <1>3, <1>4 DEF PipelineNext

(* The invariants hold of the composition. *)
THEOREM PipelineInvCorrect == PipelineSpec => []PipelineInv
<1>1. PipelineInit => PipelineInv
  BY DeliveryInit, WorkerInvInit DEF PipelineInit, PipelineInv, Init
<1>2. PipelineInv /\ [PipelineNext]_pipelineVars => PipelineInv'
  <2> SUFFICES ASSUME PipelineInv, [PipelineNext]_pipelineVars
               PROVE  PipelineInv'
    OBVIOUS
  <2>1. CASE PipelineNext
    BY <2>1, PipelineInvStep
  <2>2. CASE UNCHANGED pipelineVars
    <3>1. UNCHANGED storeVars /\ UNCHANGED ingestVars /\ UNCHANGED workerVars
      BY <2>2 DEF pipelineVars
    <3>2. WorkerInv'
      BY <3>1, WorkerInvStores DEF PipelineInv, StoreStep
    <3>3. DeliveryInv'
      <4>1. StoresTypeOK' /\ \A f \in Filings : OnTopic(f) => OnTopic(f)'
        BY <3>1, StoreStepKeeps DEF PipelineInv, DeliveryInv, IngestTypeOK, StoreStep
      <4>2. \A f \in Filings : Recorded(f)' => Recorded(f)
        BY <3>1 DEF storeVars, Recorded
      <4> QED
        BY <3>1, <4>1, <4>2, DeliveryKept DEF PipelineInv
    <3> QED
      BY <3>2, <3>3 DEF PipelineInv
  <2> QED
    BY <2>1, <2>2
<1> QED
  BY <1>1, <1>2, PTL DEF PipelineSpec

(* A recorded filing is on the topic; its copy is either still ahead of    *)
(* the group or was handled before the commit that passed it.              *)
THEOREM NoFilingLostCorrect == PipelineSpec => []NoFilingLost
<1>1. PipelineInv => NoFilingLost
  <2> SUFFICES ASSUME PipelineInv, NEW f \in Filings, Recorded(f), ~ Pending(f)
               PROVE  Handled(f)
    BY DEF NoFilingLost, Handled
  <2>1. WorkerTypeOK /\ CommittedMeansHandled
    BY DEF PipelineInv, WorkerInv
  <2>2. PICK p \in Partitions : \E o \in 1..Len(rawTopic[p]) : rawTopic[p][o] = f
    BY DEF PipelineInv, DeliveryInv, RecordedWasDelivered, OnTopic
  <2>3. PICK o \in 1..Len(rawTopic[p]) : rawTopic[p][o] = f
    BY <2>2
  <2>4. ~ (o > committed[p])
    BY <2>3 DEF Pending
  <2>5. o \in 1..committed[p]
    BY <2>1, <2>4 DEF WorkerTypeOK
  <2>6. Handled(rawTopic[p][o])
    BY <2>1, <2>5 DEF CommittedMeansHandled
  <2> QED
    BY <2>3, <2>6
<1> QED
  BY <1>1, PipelineInvCorrect, PTL

-----------------------------------------------------------------------------
(* The pipeline implements FilingLifecycle.                                *)

HasChunks(f) == ChunksOf[f] \cap documentChunks # {}

(* What the invariants make of the four facts a stage is computed from:    *)
(* each implies the one after it, and the stage is the first that holds.   *)
StageFacts ==
  \A f \in Filings :
    /\ Embedded(f) => HasChunks(f)
    /\ HasChunks(f) => Recorded(f)
    /\ Recorded(f) => OnTopic(f)
    /\ Embedded(f) => StageOf(f) = "embedded"
    /\ HasChunks(f) /\ ~ Embedded(f) => StageOf(f) = "stored"
    /\ Recorded(f) /\ ~ HasChunks(f) => StageOf(f) = "recorded"
    /\ OnTopic(f) /\ ~ Recorded(f) => StageOf(f) = "onTopic"
    /\ ~ OnTopic(f) => StageOf(f) = "new"

(* The invariants imply them. *)
LEMMA StageFactsHold == PipelineInv => StageFacts
<1> SUFFICES ASSUME PipelineInv
             PROVE  StageFacts
  OBVIOUS
<1>1. ASSUME NEW f \in Filings
      PROVE  /\ Embedded(f) => HasChunks(f)
             /\ HasChunks(f) => Recorded(f)
             /\ Recorded(f) => OnTopic(f)
  BY DEF PipelineInv, DeliveryInv, WorkerInv, EmbeddedHasAllChunks, ChunksHaveRow,
       RecordedWasDelivered, Embedded, HasChunks
<1> QED
  BY <1>1 DEF StageFacts, StageOf, HasChunks

(* The four facts of f are what they were. *)
SameFacts(f) ==
  /\ Embedded(f)' <=> Embedded(f)
  /\ HasChunks(f)' <=> HasChunks(f)
  /\ Recorded(f)' <=> Recorded(f)
  /\ OnTopic(f)' <=> OnTopic(f)

(* Then so is its stage. *)
LEMMA SameStage ==
  ASSUME StageFacts, StageFacts', NEW f \in Filings, SameFacts(f)
  PROVE  StageOf(f)' = StageOf(f)
  BY DEF StageFacts, SameFacts

(* The abstract state, and a step that moves at most filing f on. *)
AbstractStage == [f \in Filings |-> StageOf(f)]

(* If the facts of every other filing stay and f stays or goes one stage   *)
(* on, the step is a step of FilingLifecycle or a stutter.                 *)
LEMMA OneFilingAdvances ==
  ASSUME StageFacts, StageFacts', NEW f \in Filings,
         \A g \in Filings \ {f} : SameFacts(g),
         \/ SameFacts(f)
         \/ StageOf(f) = "new" /\ StageOf(f)' = "onTopic"
         \/ StageOf(f) = "onTopic" /\ StageOf(f)' = "recorded"
         \/ StageOf(f) = "recorded" /\ StageOf(f)' = "stored"
         \/ StageOf(f) = "stored" /\ StageOf(f)' = "embedded"
  PROVE  [Lifecycle!Next]_AbstractStage
<1>1. \A g \in Filings \ {f} : StageOf(g)' = StageOf(g)
  BY SameStage
<1>2. CASE StageOf(f)' = StageOf(f)
  <2>1. \A g \in Filings : StageOf(g)' = StageOf(g)
    BY <1>1, <1>2
  <2> QED
    BY <2>1 DEF AbstractStage
<1>3. CASE /\ StageOf(f) # "embedded"
           /\ StageOf(f)' = Lifecycle!After(StageOf(f))
  <2>1. AbstractStage' = [AbstractStage EXCEPT ![f] = Lifecycle!After(@)]
    BY <1>1, <1>3 DEF AbstractStage
  <2>2. Lifecycle!Advance(f)
    BY <1>3, <2>1 DEF Lifecycle!Advance, AbstractStage
  <2> QED
    BY <2>2 DEF Lifecycle!Next
<1> QED
  BY <1>2, <1>3, SameStage DEF Lifecycle!After

(* A store step moves the filing it appends or inserts.  That an inserted  *)
(* filing is on the topic already is RecordedWasDelivered after the step.  *)
LEMMA StoreStepSimulates ==
  ASSUME StoresTypeOK, StageFacts, StageFacts', StoreStep, documentChunks' = documentChunks
  PROVE  [Lifecycle!Next]_AbstractStage
<1>1. \A f \in Filings : HasChunks(f)' <=> HasChunks(f)
  BY DEF HasChunks
<1>2. ASSUME NEW m \in Messages, AppendRaw(m), UNCHANGED ingestionLog
      PROVE  [Lifecycle!Next]_AbstractStage
  <2>1. \A f \in Filings : /\ Recorded(f)' <=> Recorded(f)
                           /\ Embedded(f)' <=> Embedded(f)
    BY <1>2 DEF Recorded, Embedded
  <2>2. \A f \in Filings \ {m} : OnTopic(f)' <=> OnTopic(f)
    BY <1>2, OnTopicStable, AppendAddsOnly
  <2>3. \A f \in Filings \ {m} : SameFacts(f)
    BY <1>1, <2>1, <2>2 DEF SameFacts
  <2>4. OnTopic(m)'
    BY <1>2, AppendKeepsMessages
  <2>5. CASE m \in Filings /\ ~ OnTopic(m)
    <3>1. StageOf(m) = "new"
      BY <2>5 DEF StageFacts
    <3>2. ~ Recorded(m)
      BY <2>5 DEF StageFacts
    <3>3. StageOf(m)' = "onTopic"
      BY <2>1, <2>4, <2>5, <3>2 DEF StageFacts
    <3> QED
      BY <2>3, <2>5, <3>1, <3>3, OneFilingAdvances
  <2>6. CASE m \in Filings /\ OnTopic(m)
    <3>1. SameFacts(m)
      BY <1>1, <2>1, <2>4, <2>6 DEF SameFacts
    <3> QED
      BY <2>3, <2>6, <3>1, OneFilingAdvances
  <2>7. CASE m \notin Filings
    BY <2>3, <2>7, SameStage DEF AbstractStage
  <2> QED
    BY <2>5, <2>6, <2>7
<1>3. ASSUME NEW f \in Filings, InsertPublished(f), UNCHANGED rawTopic
      PROVE  [Lifecycle!Next]_AbstractStage
  <2>1. \A g \in Filings : OnTopic(g)' <=> OnTopic(g)
    BY <1>3 DEF OnTopic
  <2>2. /\ \A g \in Filings \ {f} : ingestionLog'[g] = ingestionLog[g]
        /\ Recorded(f) => ingestionLog'[f] = ingestionLog[f]
        /\ ~ Recorded(f) => ingestionLog'[f] = "PUBLISHED"
    BY <1>3 DEF InsertPublished, StoresTypeOK, Recorded
  <2>3. \A g \in Filings \ {f} : SameFacts(g)
    BY <1>1, <2>1, <2>2 DEF SameFacts, Recorded, Embedded
  <2>4. CASE Recorded(f)
    <3>1. SameFacts(f)
      BY <1>1, <2>1, <2>2, <2>4 DEF SameFacts, Recorded, Embedded
    <3> QED
      BY <2>3, <3>1, OneFilingAdvances
  <2>5. CASE ~ Recorded(f)
    <3>1. Recorded(f)' /\ ~ HasChunks(f)'
      BY <1>1, <2>2, <2>5 DEF StageFacts, Recorded
    <3>2. StageOf(f)' = "recorded" /\ OnTopic(f)'
      BY <3>1 DEF StageFacts
    <3>3. StageOf(f) = "onTopic"
      BY <2>1, <2>5, <3>2 DEF StageFacts
    <3> QED
      BY <2>3, <3>2, <3>3, OneFilingAdvances
  <2> QED
    BY <2>4, <2>5
<1>4. CASE UNCHANGED storeVars
  <2>1. \A f \in Filings : SameFacts(f)
    BY <1>1, <1>4 DEF SameFacts, Recorded, Embedded, OnTopic, storeVars
  <2> QED
    BY <2>1, SameStage DEF AbstractStage
<1> QED
  BY <1>2, <1>3, <1>4 DEF StoreStep

(* A worker moves the filing in its hands, from recorded to stored by its  *)
(* chunks, from stored to embedded by its status.                          *)
LEMMA WorkerSimulates ==
  ASSUME PipelineInv, StageFacts, StageFacts', WorkerNext
  PROVE  [Lifecycle!Next]_AbstractStage
<1>1. WorkerTypeOK /\ StoresTypeOK /\ InHandFacts
  BY DEF PipelineInv, WorkerInv, WorkerTypeOK
<1>2. rawTopic' = rawTopic /\ \A f \in Filings : OnTopic(f)' <=> OnTopic(f)
  BY <1>1, WorkerStoreStep DEF OnTopic
<1>3. \A f \in Filings : Recorded(f)' <=> Recorded(f)
  BY <1>1, WorkerRows
<1>4. ASSUME NEW w \in Workers, StoreChunks(w)
      PROVE  [Lifecycle!Next]_AbstractStage
  <2>1. PICK m \in Filings : m = InHand(w)
    BY <1>1, <1>4 DEF InHandFacts, FactsInHand, StoreChunks
  <2>2. /\ documentChunks' = documentChunks \cup ChunksOf[m]
        /\ ChunksOf[m] # {}
        /\ ingestionLog' = ingestionLog
    BY <1>4, <2>1 DEF StoreChunks, storeVars
  <2>3. \A f \in Filings : Embedded(f)' <=> Embedded(f)
    BY <2>2 DEF Embedded
  <2>4. \A f \in Filings \ {m} : HasChunks(f)' <=> HasChunks(f)
    BY <2>2, WorkerAssumption DEF HasChunks
  <2>5. \A f \in Filings \ {m} : SameFacts(f)
    BY <1>2, <1>3, <2>3, <2>4 DEF SameFacts
  <2>6. HasChunks(m)'
    BY <2>2 DEF HasChunks
  <2>7. CASE HasChunks(m)
    <3>1. SameFacts(m)
      BY <1>2, <1>3, <2>3, <2>6, <2>7 DEF SameFacts
    <3> QED
      BY <2>5, <3>1, OneFilingAdvances
  <2>8. CASE ~ HasChunks(m)
    <3>1. Recorded(m) /\ ~ Embedded(m)
      BY <1>3, <2>6, <2>8 DEF StageFacts
    <3>2. StageOf(m) = "recorded"
      BY <2>8, <3>1 DEF StageFacts
    <3>3. StageOf(m)' = "stored"
      BY <2>3, <2>6, <3>1 DEF StageFacts
    <3> QED
      BY <2>5, <3>2, <3>3, OneFilingAdvances
  <2> QED
    BY <2>7, <2>8
<1>5. ASSUME NEW w \in Workers, UpdateStatus(w)
      PROVE  [Lifecycle!Next]_AbstractStage
  <2>1. PICK m \in Filings : m = InHand(w)
    BY <1>1, <1>5 DEF InHandFacts, FactsInHand, UpdateStatus
  <2>2. Recorded(m) /\ ChunksOf[m] # {} /\ ChunksOf[m] \subseteq documentChunks
    BY <1>1, <1>5, <2>1 DEF InHandFacts, FactsInHand, UpdateStatus
  <2>3. /\ documentChunks' = documentChunks
        /\ \A f \in Filings \ {m} : ingestionLog'[f] = ingestionLog[f]
        /\ ingestionLog'[m] = "EMBEDDED"
    BY <1>1, <1>5, <2>1, <2>2 DEF UpdateStatus, StoresTypeOK, Recorded
  <2>4. \A f \in Filings \ {m} : SameFacts(f)
    BY <1>2, <1>3, <2>3 DEF SameFacts, Embedded, HasChunks
  <2>5. Embedded(m)' /\ HasChunks(m)
    BY <2>2, <2>3 DEF Embedded, HasChunks
  <2>6. CASE Embedded(m)
    <3>1. HasChunks(m)' <=> HasChunks(m)
      BY <2>3 DEF HasChunks
    <3>2. SameFacts(m)
      BY <1>2, <1>3, <2>5, <2>6, <3>1 DEF SameFacts
    <3> QED
      BY <2>4, <3>2, OneFilingAdvances
  <2>7. CASE ~ Embedded(m)
    <3>1. StageOf(m) = "stored" /\ StageOf(m)' = "embedded"
      BY <2>5, <2>7 DEF StageFacts
    <3> QED
      BY <2>4, <3>1, OneFilingAdvances
  <2> QED
    BY <2>6, <2>7
<1>6. CASE /\ ~ \E w \in Workers : StoreChunks(w)
           /\ ~ \E w \in Workers : UpdateStatus(w)
  <2>1. documentChunks' = documentChunks
    BY <1>6 DEF WorkerNext, WorkerStep, Poll, NoChunks, Confirm, AttemptFails,
         PublishToDlq, PublishToDlqRaises, Commit, DeliverOutbox, DropOutbox,
         WorkerCrash, FirstAssignment, Rebalance, Assign
  <2>2. ingestionLog' = ingestionLog
    BY <1>1, <1>6, WorkerStoreStep
  <2>3. StoreStep
    BY <1>2, <2>2 DEF StoreStep, storeVars
  <2> QED
    BY <1>1, <2>1, <2>3, StoreStepSimulates
<1> QED
  BY <1>4, <1>5, <1>6

(* Every step of the pipeline is one of FilingLifecycle or a stutter. *)
LEMMA PipelineSimulates ==
  ASSUME PipelineInv, StageFacts, StageFacts', [PipelineNext]_pipelineVars
  PROVE  [Lifecycle!Next]_AbstractStage
<1>1. StoresTypeOK /\ IngestTypeOK
  BY DEF PipelineInv, DeliveryInv, IngestTypeOK
<1>2. CASE WorkerNext /\ UNCHANGED ingestVars
  BY <1>2, WorkerSimulates
<1>3. CASE ~ (WorkerNext /\ UNCHANGED ingestVars)
  <2>1. StoreStep
    <3>1. ASSUME NEW f \in Filings, Replay(f)
          PROVE  StoreStep
      <4>1. AppendRaw(f) /\ UNCHANGED ingestionLog /\ f \in Messages
        BY <3>1 DEF Replay, Messages
      <4> QED
        BY <4>1 DEF StoreStep
    <3>2. CASE UNCHANGED pipelineVars
      BY <3>2 DEF pipelineVars, StoreStep
    <3> QED
      BY <1>1, <1>3, <3>1, <3>2, IngestStoreStep DEF PipelineNext
  <2>2. documentChunks' = documentChunks
    BY <1>3 DEF PipelineNext, Replay, pipelineVars, workerVars
  <2> QED
    BY <1>1, <2>1, <2>2, StoreStepSimulates
<1> QED
  BY <1>2, <1>3

(* The pipeline implements FilingLifecycle: no filing skips a stage or     *)
(* goes back, for any number of everything.                                *)
THEOREM ImplementsLifecycleCorrect == PipelineSpec => ImplementsLifecycle
<1>1. PipelineInit => Lifecycle!Init
  <2> SUFFICES ASSUME PipelineInit
               PROVE  \A f \in Filings : StageOf(f) = "new"
    BY DEF Lifecycle!Init
  <2>1. PipelineInv
    BY DeliveryInit, WorkerInvInit DEF PipelineInit, PipelineInv, Init
  <2>2. \A f \in Filings : ~ OnTopic(f)
    <3>1. \A p \in Partitions : rawTopic[p] = <<>> /\ Len(rawTopic[p]) = 0
      BY DEF PipelineInit, StoresInit
    <3> QED
      BY <3>1 DEF OnTopic
  <2> QED
    BY <2>1, <2>2, StageFactsHold DEF StageFacts
<1>2. PipelineInv /\ StageFacts /\ StageFacts' /\ [PipelineNext]_pipelineVars
        => [Lifecycle!Next]_AbstractStage
  BY PipelineSimulates
<1>3. PipelineSpec => Lifecycle!Init /\ [][Lifecycle!Next]_AbstractStage
  BY <1>1, <1>2, PipelineInvCorrect, StageFactsHold, PTL DEF PipelineSpec
<1> QED
  BY <1>3, PTL DEF ImplementsLifecycle, Lifecycle!Spec, AbstractStage
=============================================================================
