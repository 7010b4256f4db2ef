----------------------- MODULE EmbeddingWorkerProofs -----------------------
(***************************************************************************)
(* The safety of the consumer group for every number of workers,           *)
(* partitions, messages and retries.  None of the four properties is       *)
(* inductive.  A commit may come from a worker that lost the partition     *)
(* long ago, so CommittedMeansHandled needs that everything before a       *)
(* message in anybody's hands is handled (EarlierHandled), which in turn   *)
(* holds when the message is polled because an owner at its poll has       *)
(* handled all it polled before (OwnerCaughtUp).  The other properties     *)
(* need what a worker knows at each step (InHandFacts) to survive the      *)
(* steps of everybody else.  WorkerInv is the conjunction.                 *)
(***************************************************************************)
EXTENDS EmbeddingWorker, FilingStoresProofs

(* What no step ever undoes: a message on the topic, a message handled, a  *)
(* row, a row's EMBEDDED, a chunk.                                         *)
Monotone ==
  /\ \A p \in Partitions : \A o \in 1..Len(rawTopic[p]) :
       /\ rawTopic'[p][o] = rawTopic[p][o]
       /\ o \in 1..Len(rawTopic'[p])
  /\ \A m \in Messages : Handled(m) => Handled(m)'
  /\ \A f \in Filings : Recorded(f) => Recorded(f)'
  /\ \A f \in Filings : Embedded(f) => Embedded(f)'
  /\ documentChunks \subseteq documentChunks'

(* A message in hand is on the topic. *)
LEMMA InHandType ==
  ASSUME WorkerTypeOK, NEW w \in Workers, step[w] # "poll"
  PROVE  /\ part[w] \in Partitions
         /\ off[w] \in 1..Len(rawTopic[part[w]])
         /\ off[w] \in Nat
         /\ InHand(w) \in Messages
<1>1. part[w] \in Partitions /\ off[w] \in 1..Len(rawTopic[part[w]]) /\ off[w] \in Nat
  BY DEF WorkerTypeOK
<1>2. rawTopic[part[w]] \in Seq(Messages)
  BY <1>1 DEF WorkerTypeOK, StoresTypeOK
<1> QED
  BY <1>1, <1>2 DEF InHand

(* A message at an offset of a partition is a message. *)
LEMMA MessageType ==
  ASSUME WorkerTypeOK, NEW p \in Partitions, NEW o \in 1..Len(rawTopic[p])
  PROVE  rawTopic[p][o] \in Messages
<1>1. rawTopic[p] \in Seq(Messages)
  BY DEF WorkerTypeOK, StoresTypeOK
<1> QED
  BY <1>1

(* If the topic, the rows and the chunks only grow, and no dead letter     *)
(* disappears without being noted as lost, nothing is undone.              *)
LEMMA MonotoneStores ==
  ASSUME WorkerTypeOK, StoreStep,
         documentChunks \subseteq documentChunks',
         dlqLost \subseteq dlqLost',
         \A m \in Messages : DeadLettered(m) => DeadLettered(m)' \/ m \in dlqLost'
  PROVE  Monotone
<1>1. /\ \A f \in Filings : Recorded(f) => Recorded(f)'
      /\ \A f \in Filings : Embedded(f) => Embedded(f)'
  BY StoreStepKeeps DEF WorkerTypeOK, Recorded, Embedded
<1>2. \A m \in Messages : Handled(m) => Handled(m)'
  BY <1>1 DEF Handled, Empty, Embedded
<1>3. \A p \in Partitions : \A o \in 1..Len(rawTopic[p]) :
        /\ rawTopic'[p][o] = rawTopic[p][o]
        /\ o \in 1..Len(rawTopic'[p])
  <2> TAKE p \in Partitions
  <2> TAKE o \in 1..Len(rawTopic[p])
  <2>1. StoresTypeOK /\ StoresTypeOK'
    BY StoreStepKeeps DEF WorkerTypeOK
  <2>2. Len(rawTopic[p]) \in Nat /\ Len(rawTopic'[p]) \in Nat
    BY <2>1 DEF StoresTypeOK
  <2> QED
    BY <2>1, <2>2, StoreStepKeeps
<1> QED
  BY <1>1, <1>2, <1>3 DEF Monotone

(* A producer's queue is only ever emptied by delivering or by dropping.   *)
LEMMA DeadLettersKept ==
  ASSUME WorkerTypeOK, WorkerNext
  PROVE  /\ dlqLost \subseteq dlqLost'
         /\ \A m \in Messages : DeadLettered(m) => DeadLettered(m)' \/ m \in dlqLost'
<1> DEFINE Kept == /\ dlqLost \subseteq dlqLost'
                   /\ \A m \in Messages :
                        DeadLettered(m) => DeadLettered(m)' \/ m \in dlqLost'
<1> USE DEF DeadLettered
<1>1. ASSUME UNCHANGED producerVars
      PROVE  Kept
  BY <1>1 DEF producerVars
<1>2. ASSUME NEW w \in Workers, NEW p \in Partitions, Poll(w, p)
      PROVE  Kept
  BY <1>1, <1>2 DEF Poll
<1>3. ASSUME NEW w \in Workers, WorkerStep(w), ~ \E p \in Partitions : Poll(w, p)
      PROVE  Kept
  <2>1. CASE NoChunks(w) \/ StoreChunks(w) \/ UpdateStatus(w) \/ AttemptFails(w) \/ Commit(w)
    BY <1>1, <2>1 DEF NoChunks, StoreChunks, UpdateStatus, AttemptFails, Commit
  <2>2. CASE Confirm(w)
    BY <2>2 DEF Confirm, WorkerTypeOK
  <2>3. CASE PublishToDlq(w)
    BY <2>3 DEF PublishToDlq, WorkerTypeOK
  <2>4. CASE PublishToDlqRaises(w)
    BY <2>4 DEF PublishToDlqRaises
  <2> QED
    BY <1>3, <2>1, <2>2, <2>3, <2>4 DEF WorkerStep
<1>4. ASSUME NEW w \in Workers, DeliverOutbox(w)
      PROVE  Kept
  BY <1>4 DEF DeliverOutbox, WorkerTypeOK
<1>5. ASSUME NEW w \in Workers, DropOutbox(w)
      PROVE  Kept
  <2>1. PICK x \in outbox[w] :
          /\ outbox' = [outbox EXCEPT ![w] = @ \ {x}]
          /\ dlqLost' = IF x[1] = "filings.dlq" THEN dlqLost \cup {x[2]} ELSE dlqLost
    BY <1>5 DEF DropOutbox
  <2>2. delivered' = delivered
    BY <1>5 DEF DropOutbox
  <2>3. ASSUME NEW m \in Messages, DeadLettered(m), m \notin dlqLost'
        PROVE  DeadLettered(m)'
    <3>1. x # <<"filings.dlq", m>>
      BY <2>1, <2>3
    <3> QED
      BY <2>1, <2>2, <2>3, <3>1 DEF WorkerTypeOK
  <2> QED
    BY <2>1, <2>3
<1>6. ASSUME NEW w \in Workers, WorkerCrash(w)
      PROVE  Kept
  BY <1>6 DEF WorkerCrash, WorkerTypeOK
<1>7. ASSUME NEW p \in Partitions, FirstAssignment(p) \/ Rebalance(p)
      PROVE  Kept
  BY <1>1, <1>7 DEF FirstAssignment, Rebalance, Assign
<1> QED
  BY <1>2, <1>3, <1>4, <1>5, <1>6, <1>7 DEF WorkerNext

(* Of the shared stores a worker writes one status column, of a row that   *)
(* exists, and nobody deletes chunks.                                      *)
LEMMA WorkerStoreStep ==
  ASSUME WorkerTypeOK, WorkerNext
  PROVE  /\ rawTopic' = rawTopic
         /\ documentChunks \subseteq documentChunks'
         /\ \/ ingestionLog' = ingestionLog
            \/ \E w \in Workers : UpdateStatus(w)
<1> DEFINE Goal == /\ rawTopic' = rawTopic
                   /\ documentChunks \subseteq documentChunks'
                   /\ \/ ingestionLog' = ingestionLog
                      \/ \E w \in Workers : UpdateStatus(w)
<1> USE DEF storeVars
<1>1. ASSUME NEW w \in Workers, WorkerStep(w)
      PROVE  Goal
  <2>1. CASE \E p \in Partitions : Poll(w, p)
    BY <2>1 DEF Poll
  <2>2. CASE NoChunks(w) \/ Confirm(w) \/ AttemptFails(w) \/ Commit(w)
    BY <2>2 DEF NoChunks, Confirm, AttemptFails, Commit
  <2>3. CASE PublishToDlq(w) \/ PublishToDlqRaises(w) \/ StoreChunks(w)
    BY <2>3 DEF PublishToDlq, PublishToDlqRaises, StoreChunks
  <2>4. CASE UpdateStatus(w)
    BY <2>4 DEF UpdateStatus
  <2> QED
    BY <1>1, <2>1, <2>2, <2>3, <2>4 DEF WorkerStep
<1>2. ASSUME NEW w \in Workers, DeliverOutbox(w) \/ DropOutbox(w) \/ WorkerCrash(w)
      PROVE  Goal
  BY <1>2 DEF DeliverOutbox, DropOutbox, WorkerCrash
<1>3. ASSUME NEW p \in Partitions, FirstAssignment(p) \/ Rebalance(p)
      PROVE  Goal
  BY <1>3 DEF FirstAssignment, Rebalance, Assign
<1> QED
  BY <1>1, <1>2, <1>3 DEF WorkerNext

(* Rows are neither inserted nor deleted by a worker, and EMBEDDED stays.  *)
LEMMA WorkerRows ==
  ASSUME WorkerTypeOK, WorkerNext
  PROVE  /\ StoresTypeOK'
         /\ \A f \in Filings : Recorded(f)' <=> Recorded(f)
         /\ \A f \in Filings : Embedded(f) => Embedded(f)'
<1>1. CASE ingestionLog' = ingestionLog
  BY <1>1, WorkerStoreStep DEF Recorded, Embedded, StoresTypeOK, WorkerTypeOK
<1>2. CASE \E w \in Workers : UpdateStatus(w)
  <2>1. PICK f : ingestionLog' = [ingestionLog EXCEPT ![f] =
                                    IF @ = "absent" THEN @ ELSE "EMBEDDED"]
    BY <1>2 DEF UpdateStatus
  <2> QED
    BY <2>1, WorkerStoreStep DEF Recorded, Embedded, StoresTypeOK, WorkerTypeOK, Statuses
<1> QED
  BY <1>1, <1>2, WorkerStoreStep

(* No step of the workers undoes anything. *)
LEMMA WorkerMonotone ==
  ASSUME WorkerTypeOK, WorkerNext
  PROVE  Monotone
<1>1. /\ rawTopic' = rawTopic
      /\ documentChunks \subseteq documentChunks'
  BY WorkerStoreStep
<1>2. \A p \in Partitions : \A o \in 1..Len(rawTopic[p]) :
        /\ rawTopic'[p][o] = rawTopic[p][o]
        /\ o \in 1..Len(rawTopic'[p])
  BY <1>1
<1>3. \A m \in Messages : Handled(m) => Handled(m)'
  BY WorkerRows, DeadLettersKept DEF Handled, Empty, Embedded
<1> QED
  BY <1>1, <1>2, <1>3, WorkerRows DEF Monotone

-----------------------------------------------------------------------------
(* Initially nothing is committed, in hand, stored or recorded. *)
LEMMA WorkerInvInit == StoresInit /\ WorkerInit => WorkerInv
<1> SUFFICES ASSUME StoresInit, WorkerInit
             PROVE  WorkerInv
  OBVIOUS
<1> USE DEF StoresInit, WorkerInit
<1>1. WorkerTypeOK
  BY WorkerAssumption DEF WorkerTypeOK, StoresTypeOK, Steps, Statuses
<1>2. CommittedMeansHandled /\ OwnerCaughtUp /\ EarlierHandled
  BY DEF CommittedMeansHandled, OwnerCaughtUp, EarlierHandled
<1>3. EmbeddedHasAllChunks /\ ConfirmationTruthful /\ ChunksHaveRow
  BY DEF EmbeddedHasAllChunks, ConfirmationTruthful, ChunksHaveRow
<1>4. InHandFacts
  BY DEF InHandFacts, FactsInHand
<1> QED
  BY <1>1, <1>2, <1>3, <1>4 DEF WorkerInv

(* The type invariant is preserved.  That the chunks stored are chunk ids  *)
(* of a filing needs InHandFacts: a malformed message is never chunked.    *)
LEMMA WorkerTypeStep ==
  ASSUME WorkerTypeOK, InHandFacts, WorkerNext
  PROVE  WorkerTypeOK'
<1> USE DEF WorkerTypeOK, StepTo, Steps, consumerVars, loopVars, producerVars
<1>1. StoresTypeOK' /\ rawTopic' = rawTopic
  BY WorkerRows, WorkerStoreStep
<1>2. ASSUME NEW w \in Workers, NEW p \in Partitions, Poll(w, p)
      PROVE  WorkerTypeOK'
  <2>1. Len(rawTopic[p]) \in Nat
    BY DEF StoresTypeOK
  <2>2. position[p] + 1 \in 1..Len(rawTopic[p])
    BY <1>2, <2>1 DEF Poll
  <2>3. step'[w] \in Steps /\ step' = [step EXCEPT ![w] = step'[w]]
    BY <1>2 DEF Poll
  <2> QED
    BY <1>1, <1>2, <2>1, <2>2, <2>3 DEF Poll
<1>3. ASSUME NEW w \in Workers,
             NoChunks(w) \/ StoreChunks(w) \/ UpdateStatus(w) \/ AttemptFails(w)
      PROVE  WorkerTypeOK'
  <2>1. CASE StoreChunks(w)
    <3>1. InHand(w) \in Filings
      BY <2>1 DEF InHandFacts, FactsInHand, StoreChunks
    <3>2. documentChunks' \subseteq ChunkIds
      BY <2>1, <3>1 DEF StoreChunks, ChunkIds
    <3> QED
      BY <1>1, <2>1, <3>2 DEF StoreChunks
  <2>2. CASE AttemptFails(w)
    <3>1. attempt' \in [Workers -> 0..MaxRetries]
      BY <2>2, WorkerAssumption DEF AttemptFails
    <3> QED
      BY <1>1, <2>2, <3>1 DEF AttemptFails
  <2> QED
    BY <1>1, <1>3, <2>1, <2>2 DEF NoChunks, UpdateStatus
<1>4. ASSUME NEW w \in Workers, Confirm(w) \/ PublishToDlq(w) \/ PublishToDlqRaises(w)
      PROVE  WorkerTypeOK'
  <2>1. step[w] # "poll"
    BY <1>4 DEF Confirm, PublishToDlq, PublishToDlqRaises
  <2>2. InHand(w) \in Messages
    BY <2>1, InHandType
  <2>3. outbox' \in [Workers -> SUBSET (OutTopics \X Messages)]
    BY <1>4, <2>2 DEF Confirm, PublishToDlq, PublishToDlqRaises, OutTopics
  <2> QED
    BY <1>1, <1>4, <2>1, <2>2, <2>3 DEF Confirm, PublishToDlq, PublishToDlqRaises
<1>5. ASSUME NEW w \in Workers, Commit(w)
      PROVE  WorkerTypeOK'
  <2>1. part[w] \in Partitions /\ off[w] \in 1..Len(rawTopic[part[w]]) /\ off[w] \in Nat
    BY <1>5, InHandType DEF Commit
  <2>2. Len(rawTopic[part[w]]) \in Nat
    BY <2>1 DEF StoresTypeOK
  <2>3. committed' = committed \/ committed' = [committed EXCEPT ![part[w]] = off[w]]
    BY <1>5 DEF Commit
  <2>4. committed' \in [Partitions -> Nat]
    BY <2>1, <2>3
  <2>5. \A p \in Partitions : committed'[p] <= Len(rawTopic[p])
    <3> TAKE p \in Partitions
    <3>1. CASE committed'[p] = committed[p]
      BY <3>1
    <3>2. CASE p = part[w] /\ committed'[p] = off[w]
      BY <2>1, <2>2, <3>2
    <3> QED
      BY <2>3, <3>1, <3>2
  <2> QED
    BY <1>1, <1>5, <2>4, <2>5, WorkerAssumption DEF Commit
<1>6. ASSUME NEW w \in Workers, DeliverOutbox(w) \/ DropOutbox(w)
      PROVE  WorkerTypeOK'
  <2>1. PICK x \in OutTopics \X Messages :
          /\ outbox' = [outbox EXCEPT ![w] = @ \ {x}]
          /\ delivered' = delivered \/ delivered' = delivered \cup {x}
          /\ dlqLost' = dlqLost \/ dlqLost' = dlqLost \cup {x[2]}
    <3>1. CASE DeliverOutbox(w)
      BY <3>1 DEF DeliverOutbox
    <3>2. CASE DropOutbox(w)
      BY <3>2 DEF DropOutbox
    <3> QED
      BY <1>6, <3>1, <3>2
  <2>2. outbox' \in [Workers -> SUBSET (OutTopics \X Messages)]
    BY <2>1
  <2>3. delivered' \subseteq OutTopics \X Messages /\ dlqLost' \subseteq Messages
    BY <2>1
  <2> QED
    BY <1>1, <1>6, <2>2, <2>3 DEF DeliverOutbox, DropOutbox
<1>7. ASSUME NEW w \in Workers, WorkerCrash(w)
      PROVE  WorkerTypeOK'
  <2>1. owner' \in [Partitions -> Workers \cup {None}]
    BY <1>7 DEF WorkerCrash
  <2> QED
    BY <1>1, <1>7, <2>1, WorkerAssumption DEF WorkerCrash
<1>8. ASSUME NEW p \in Partitions, NEW w \in Workers, Assign(p, w)
      PROVE  WorkerTypeOK'
  BY <1>1, <1>8 DEF Assign
<1> QED
  BY <1>2, <1>3, <1>4, <1>5, <1>6, <1>7, <1>8
  DEF WorkerNext, WorkerStep, FirstAssignment, Rebalance

-----------------------------------------------------------------------------
(* The steps between poll and commit leave the offsets and the message in  *)
(* hand alone.                                                             *)
Advance(w) ==
  /\ step[w] # "poll"
  /\ \E s \in Steps \ {"poll"} : StepTo(w, s)
  /\ UNCHANGED <<consumerVars, part, off>>

(* The steps that matter to offsets and to the message in hand. *)
LEMMA LoopShape ==
  ASSUME WorkerTypeOK, WorkerNext
  PROVE  \/ UNCHANGED <<consumerVars, step, part, off>>
         \/ \E w \in Workers : Advance(w) \/ Commit(w) \/ WorkerCrash(w)
         \/ \E w \in Workers, p \in Partitions : Poll(w, p) \/ Assign(p, w)
<1>1. ASSUME NEW w \in Workers, WorkerStep(w), ~ Commit(w),
             ~ \E p \in Partitions : Poll(w, p)
      PROVE  Advance(w)
  <2> USE DEF Advance, Steps, StepTo
  <2>1. CASE NoChunks(w) \/ StoreChunks(w) \/ UpdateStatus(w) \/ Confirm(w)
    BY <2>1 DEF NoChunks, StoreChunks, UpdateStatus, Confirm
  <2>2. CASE AttemptFails(w)
    BY <2>2 DEF AttemptFails
  <2>3. CASE PublishToDlq(w) \/ PublishToDlqRaises(w)
    BY <2>3 DEF PublishToDlq, PublishToDlqRaises
  <2> QED
    BY <1>1, <2>1, <2>2, <2>3 DEF WorkerStep
<1>2. ASSUME NEW w \in Workers, DeliverOutbox(w) \/ DropOutbox(w)
      PROVE  UNCHANGED <<consumerVars, step, part, off>>
  BY <1>2 DEF DeliverOutbox, DropOutbox, loopVars
<1> QED
  BY <1>1, <1>2 DEF WorkerNext, WorkerStep, FirstAssignment, Rebalance

(* A message of the topic, once handled, is handled wherever it is read.   *)
LEMMA HandledStays ==
  ASSUME WorkerTypeOK, Monotone, NEW p \in Partitions, NEW o \in 1..Len(rawTopic[p]),
         Handled(rawTopic[p][o])
  PROVE  Handled(rawTopic[p][o])'
<1>1. rawTopic[p][o] \in Messages /\ rawTopic'[p][o] = rawTopic[p][o]
  BY MessageType DEF Monotone
<1>2. PICK x \in Messages : Handled(x) /\ rawTopic'[p][o] = x
  BY <1>1
<1>3. Handled(x)'
  BY <1>2 DEF Monotone
<1> QED
  BY <1>2, <1>3 DEF Handled, Embedded, Empty, DeadLettered

(* Offsets at or below the committed offset and the position are offsets   *)
(* of messages, and so are those up to the message in hand.                *)
LEMMA OffsetsInRange ==
  ASSUME WorkerTypeOK, NEW p \in Partitions
  PROVE  /\ \A o \in 1..committed[p] : o \in 1..Len(rawTopic[p])
         /\ \A o \in 1..position[p] : o \in 1..Len(rawTopic[p])
         /\ \A w \in Workers : step[w] # "poll" /\ part[w] = p =>
              \A o \in 1..off[w] : o \in 1..Len(rawTopic[p])
<1>1. Len(rawTopic[p]) \in Nat /\ committed[p] \in Nat /\ position[p] \in Nat
  BY DEF WorkerTypeOK, StoresTypeOK
<1>2. position[p] <= Len(rawTopic[p]) /\ committed[p] <= Len(rawTopic[p])
  BY DEF WorkerTypeOK
<1>3. \A w \in Workers : step[w] # "poll" /\ part[w] = p =>
        off[w] \in Nat /\ off[w] <= Len(rawTopic[p])
  BY <1>1, InHandType
<1> QED
  BY <1>1, <1>2, <1>3

(* CommittedMeansHandled is preserved while no offset is committed. *)
LEMMA CommittedKept ==
  ASSUME WorkerInv, Monotone, UNCHANGED committed
  PROVE  CommittedMeansHandled'
<1> SUFFICES ASSUME NEW p \in Partitions, NEW o \in 1..committed[p]
             PROVE  Handled(rawTopic[p][o])'
  BY DEF CommittedMeansHandled
<1>1. Handled(rawTopic[p][o]) /\ o \in 1..Len(rawTopic[p])
  BY OffsetsInRange DEF WorkerInv, CommittedMeansHandled
<1> QED
  BY <1>1, HandledStays DEF WorkerInv

(* A commit, whoever sends it, vouches for the message in hand and for     *)
(* everything before it.                                                   *)
LEMMA CommittedStep ==
  ASSUME WorkerInv, WorkerNext
  PROVE  CommittedMeansHandled'
<1>1. WorkerTypeOK /\ Monotone
  BY WorkerMonotone DEF WorkerInv
<1>2. ASSUME NEW w \in Workers, Commit(w),
             committed' = [committed EXCEPT ![part[w]] = off[w]]
      PROVE  CommittedMeansHandled'
  <2>1. step[w] = "commit"
    BY <1>2 DEF Commit
  <2>2. part[w] \in Partitions /\ off[w] \in 1..Len(rawTopic[part[w]]) /\ off[w] \in Nat
    BY <1>1, <2>1, InHandType
  <2>3. Handled(rawTopic[part[w]][off[w]])
    BY <2>1 DEF WorkerInv, InHandFacts, FactsInHand, InHand
  <2>4. \A o \in 1..(off[w] - 1) : Handled(rawTopic[part[w]][o])
    BY <2>1 DEF WorkerInv, EarlierHandled
  <2> SUFFICES ASSUME NEW p \in Partitions, NEW o \in 1..committed'[p]
               PROVE  Handled(rawTopic[p][o])'
    BY DEF CommittedMeansHandled
  <2>5. o \in 1..Len(rawTopic[p]) /\ Handled(rawTopic[p][o])
    <3>1. CASE p = part[w]
      <4>1. committed'[p] = off[w]
        BY <1>1, <1>2, <3>1 DEF WorkerTypeOK
      <4>2. o = off[w] \/ o \in 1..(off[w] - 1)
        BY <2>2, <4>1
      <4>3. o \in 1..Len(rawTopic[p])
        BY <1>1, <2>1, <3>1, <4>1, OffsetsInRange
      <4> QED
        BY <2>3, <2>4, <3>1, <4>2, <4>3
    <3>2. CASE p # part[w]
      <4>1. committed'[p] = committed[p]
        BY <1>1, <1>2, <3>2 DEF WorkerTypeOK
      <4> QED
        BY <1>1, <4>1, OffsetsInRange DEF WorkerInv, CommittedMeansHandled
    <3> QED
      BY <3>1, <3>2
  <2> QED
    BY <1>1, <2>5, HandledStays
<1>3. CASE UNCHANGED committed
  BY <1>1, <1>3, CommittedKept
<1>4. \/ UNCHANGED committed
      \/ \E w \in Workers : Commit(w) /\ committed' = [committed EXCEPT ![part[w]] = off[w]]
  BY <1>1, LoopShape DEF consumerVars, Advance, Commit, WorkerCrash, Poll, Assign
<1> QED
  BY <1>2, <1>3, <1>4

(* What OwnerCaughtUp and EarlierHandled say of the messages behind an     *)
(* owner's position and behind a message in hand still holds after a step. *)
LEMMA BehindStays ==
  ASSUME WorkerInv, Monotone
  PROVE  /\ \A p \in Partitions : owner[p] # None =>
              \A o \in 1..position[p] :
                Handled(rawTopic[p][o])' \/ HasInHand(owner[p], p, o)
         /\ \A p \in Partitions : \A w \in Workers : step[w] # "poll" /\ part[w] = p =>
              \A o \in 1..(off[w] - 1) : Handled(rawTopic[p][o])'
<1>1. WorkerTypeOK
  BY DEF WorkerInv
<1>2. ASSUME NEW p \in Partitions, owner[p] # None, NEW o \in 1..position[p]
      PROVE  Handled(rawTopic[p][o])' \/ HasInHand(owner[p], p, o)
  BY <1>1, <1>2, OffsetsInRange, HandledStays DEF WorkerInv, OwnerCaughtUp
<1>3. ASSUME NEW p \in Partitions, NEW w \in Workers, step[w] # "poll", part[w] = p,
             NEW o \in 1..(off[w] - 1)
      PROVE  Handled(rawTopic[p][o])'
  <2>1. off[w] \in Nat
    BY <1>1, <1>3, InHandType
  <2>2. o \in 1..off[w]
    BY <2>1
  <2>3. o \in 1..Len(rawTopic[p])
    BY <1>1, <1>3, <2>2, OffsetsInRange
  <2>4. Handled(rawTopic[p][o])
    BY <1>3 DEF WorkerInv, EarlierHandled
  <2> QED
    BY <1>1, <2>3, <2>4, HandledStays
<1> QED
  BY <1>2, <1>3

(* OwnerCaughtUp and EarlierHandled survive when offsets and the messages  *)
(* in hand do not change.                                                  *)
LEMMA OffsetsKept ==
  ASSUME WorkerInv, Monotone, UNCHANGED <<consumerVars, step, part, off>>
  PROVE  OwnerCaughtUp' /\ EarlierHandled'
<1>1. OwnerCaughtUp'
  BY BehindStays DEF OwnerCaughtUp, HasInHand, consumerVars
<1>2. EarlierHandled'
  BY BehindStays, InHandType DEF EarlierHandled, WorkerInv
<1> QED
  BY <1>1, <1>2

(* A message is polled by an owner that has nothing else in hand, so that  *)
(* everything before it is handled; a new owner starts where the last      *)
(* commit left off.                                                        *)
LEMMA OffsetsStep ==
  ASSUME WorkerInv, WorkerNext
  PROVE  OwnerCaughtUp' /\ EarlierHandled'
<1> DEFINE Goal == OwnerCaughtUp' /\ EarlierHandled'
<1>1. WorkerTypeOK /\ Monotone /\ WorkerTypeOK'
  BY WorkerMonotone, WorkerTypeStep DEF WorkerInv
<1>2. ASSUME NEW w \in Workers, NEW p \in Partitions, Poll(w, p)
      PROVE  Goal
  <2>1. /\ step[w] = "poll" /\ owner[p] = w /\ w # None
        /\ position' = [position EXCEPT ![p] = @ + 1]
        /\ part' = [part EXCEPT ![w] = p]
        /\ off' = [off EXCEPT ![w] = position[p] + 1]
        /\ owner' = owner
    BY <1>2, WorkerAssumption DEF Poll
  <2>8. PICK s \in Steps : s # "poll" /\ step' = [step EXCEPT ![w] = s]
    <3> DEFINE s0 == IF rawTopic[p][position[p] + 1] \in Malformed THEN "dlq" ELSE "process"
    <3>1. step' = [step EXCEPT ![w] = s0]
      BY <1>2 DEF Poll, StepTo
    <3>2. s0 \in Steps /\ s0 # "poll"
      BY DEF Steps
    <3> QED
      BY <3>1, <3>2
  <2>2. position[p] \in Nat /\ step'[w] # "poll"
    BY <1>1, <2>1, <2>8 DEF WorkerTypeOK
  <2>3. \A o \in 1..position[p] : Handled(rawTopic[p][o])'
    BY <1>1, <2>1, BehindStays DEF HasInHand
  <2>4. ASSUME NEW q \in Partitions, owner[q] # None, NEW o \in 1..position'[q]
        PROVE  Handled(rawTopic[q][o])' \/ HasInHand(owner[q], q, o)'
    <3>1. CASE q # p
      <4>1. o \in 1..position[q]
        BY <1>1, <2>1, <3>1 DEF WorkerTypeOK
      <4>2. owner[q] \in Workers
        BY <1>1, <2>4 DEF WorkerTypeOK
      <4> QED
        BY <1>1, <2>1, <2>8, <2>4, <4>1, <4>2, BehindStays DEF HasInHand, WorkerTypeOK
    <3>2. CASE q = p /\ o \in 1..position[p]
      BY <2>3, <3>2
    <3>3. CASE q = p /\ o = position[p] + 1
      BY <1>1, <2>1, <2>2, <3>3 DEF HasInHand, WorkerTypeOK
    <3>4. q = p => o \in 1..position[p] \/ o = position[p] + 1
      BY <1>1, <2>1, <2>2 DEF WorkerTypeOK
    <3> QED
      BY <3>1, <3>2, <3>3, <3>4
  <2>5. OwnerCaughtUp'
    BY <2>1, <2>4 DEF OwnerCaughtUp
  <2>6. ASSUME NEW u \in Workers, step'[u] # "poll", NEW o \in 1..(off'[u] - 1),
               NEW q \in Partitions, part'[u] = q
        PROVE  Handled(rawTopic[q][o])'
    <3>1. CASE u = w
      <4>1. q = p /\ off'[u] = position[p] + 1
        BY <1>1, <2>1, <2>6, <3>1 DEF WorkerTypeOK
      <4>2. o \in 1..position[p]
        BY <2>2, <4>1
      <4> QED
        BY <2>3, <4>1, <4>2
    <3>2. CASE u # w
      BY <1>1, <2>1, <2>8, <2>6, <3>2, BehindStays DEF WorkerTypeOK
    <3> QED
      BY <3>1, <3>2
  <2>7. EarlierHandled'
    BY <1>1, <2>6 DEF EarlierHandled, WorkerTypeOK
  <2> QED
    BY <2>5, <2>7
<1>3. ASSUME NEW w \in Workers, Advance(w)
      PROVE  Goal
  <2>1. /\ step[w] # "poll"
        /\ \E s \in Steps \ {"poll"} : step' = [step EXCEPT ![w] = s]
        /\ UNCHANGED <<owner, position, part, off>>
    BY <1>3 DEF Advance, StepTo, consumerVars
  <2>2. \A u \in Workers : step'[u] # "poll" <=> step[u] # "poll"
    BY <1>1, <2>1 DEF WorkerTypeOK
  <2>3. OwnerCaughtUp'
    BY <1>1, <2>1, <2>2, BehindStays, WorkerAssumption
    DEF OwnerCaughtUp, HasInHand, WorkerTypeOK
  <2>4. EarlierHandled'
    BY <1>1, <2>1, <2>2, BehindStays DEF EarlierHandled, WorkerTypeOK
  <2> QED
    BY <2>3, <2>4
<1>4. ASSUME NEW w \in Workers, Commit(w)
      PROVE  Goal
  <2>1. /\ step[w] = "commit"
        /\ step' = [step EXCEPT ![w] = "poll"]
        /\ part' = [part EXCEPT ![w] = None]
        /\ off' = [off EXCEPT ![w] = 0]
        /\ UNCHANGED <<owner, position>>
    BY <1>4 DEF Commit, StepTo
  <2>2. /\ part[w] \in Partitions /\ off[w] \in 1..Len(rawTopic[part[w]])
        /\ Handled(rawTopic[part[w]][off[w]])
    BY <1>1, <2>1, InHandType DEF WorkerInv, InHandFacts, FactsInHand, InHand
  <2>3. ASSUME NEW p \in Partitions, NEW o \in 1..Len(rawTopic[p]),
               part[w] = p, off[w] = o
        PROVE  Handled(rawTopic[p][o])'
    BY <1>1, <2>2, <2>3, HandledStays
  <2>4. ASSUME NEW p \in Partitions, owner[p] # None, NEW o \in 1..position[p]
        PROVE  Handled(rawTopic[p][o])' \/ HasInHand(owner[p], p, o)'
    <3>1. owner[p] \in Workers /\ o \in 1..Len(rawTopic[p])
      BY <1>1, <2>4, OffsetsInRange DEF WorkerTypeOK
    <3>2. CASE owner[p] = w
      <4>1. Handled(rawTopic[p][o])' \/ (part[w] = p /\ off[w] = o)
        BY <1>1, <2>4, <3>2, BehindStays DEF HasInHand
      <4> QED
        BY <2>3, <3>1, <4>1
    <3>3. CASE owner[p] # w
      BY <1>1, <2>1, <2>4, <3>1, <3>3, BehindStays DEF HasInHand, WorkerTypeOK
    <3> QED
      BY <3>2, <3>3
  <2>5. OwnerCaughtUp'
    BY <2>1, <2>4 DEF OwnerCaughtUp
  <2>6. \A u \in Workers : step'[u] # "poll" =>
          step[u] # "poll" /\ part'[u] = part[u] /\ off'[u] = off[u]
    BY <1>1, <2>1 DEF WorkerTypeOK
  <2>7. EarlierHandled'
    BY <1>1, <2>6, BehindStays DEF EarlierHandled, WorkerTypeOK
  <2> QED
    BY <2>5, <2>7
<1>5. ASSUME NEW w \in Workers, WorkerCrash(w)
      PROVE  Goal
  <2>1. /\ owner' = [p \in Partitions |-> IF owner[p] = w THEN None ELSE owner[p]]
        /\ step' = [step EXCEPT ![w] = "poll"]
        /\ part' = [part EXCEPT ![w] = None]
        /\ off' = [off EXCEPT ![w] = 0]
        /\ position' = position
    BY <1>5 DEF WorkerCrash, StepTo
  <2>2. ASSUME NEW p \in Partitions, owner'[p] # None, NEW o \in 1..position[p]
        PROVE  Handled(rawTopic[p][o])' \/ HasInHand(owner[p], p, o)'
    <3>1. owner[p] # w /\ owner[p] # None /\ owner[p] \in Workers
      BY <1>1, <2>1, <2>2 DEF WorkerTypeOK
    <3> QED
      BY <1>1, <2>1, <3>1, BehindStays DEF HasInHand, WorkerTypeOK
  <2>3. OwnerCaughtUp'
    <3> SUFFICES ASSUME NEW p \in Partitions, owner'[p] # None, NEW o \in 1..position'[p]
                 PROVE  Handled(rawTopic[p][o])' \/ HasInHand(owner[p], p, o)'
      BY DEF OwnerCaughtUp
    <3> QED
      BY <2>1, <2>2
  <2>4. \A u \in Workers : step'[u] # "poll" =>
          step[u] # "poll" /\ part'[u] = part[u] /\ off'[u] = off[u]
    BY <1>1, <2>1 DEF WorkerTypeOK
  <2>5. EarlierHandled'
    BY <1>1, <2>4, BehindStays DEF EarlierHandled, WorkerTypeOK
  <2> QED
    BY <2>3, <2>5
<1>6. ASSUME NEW p \in Partitions, NEW w \in Workers, Assign(p, w)
      PROVE  Goal
  <2>1. /\ owner' = [owner EXCEPT ![p] = w]
        /\ position' = [position EXCEPT ![p] = committed[p]]
        /\ UNCHANGED <<rawTopic, committed, step, part, off>>
    BY <1>6 DEF Assign, storeVars, loopVars
  <2>2. \A o \in 1..committed[p] : Handled(rawTopic[p][o])'
    BY <1>1, OffsetsInRange, HandledStays DEF WorkerInv, CommittedMeansHandled
  <2>3. ASSUME NEW q \in Partitions, owner'[q] # None, NEW o \in 1..position'[q]
        PROVE  Handled(rawTopic[q][o])' \/ HasInHand(owner[q], q, o)'
    <3>1. CASE q = p
      BY <1>1, <2>1, <2>2, <3>1 DEF WorkerTypeOK
    <3>2. CASE q # p
      BY <1>1, <2>1, <2>3, <3>2, BehindStays DEF HasInHand, WorkerTypeOK
    <3> QED
      BY <3>1, <3>2
  <2>4. OwnerCaughtUp'
    BY <2>3 DEF OwnerCaughtUp
  <2>5. EarlierHandled'
    BY <1>1, <2>1, BehindStays DEF EarlierHandled, WorkerTypeOK
  <2> QED
    BY <2>4, <2>5
<1>7. CASE UNCHANGED <<consumerVars, step, part, off>>
  BY <1>1, <1>7, OffsetsKept
<1> QED
  BY <1>1, <1>2, <1>3, <1>4, <1>5, <1>6, <1>7, LoopShape

-----------------------------------------------------------------------------
(* EMBEDDED is written for the filing in hand, whose chunks are stored. *)
LEMMA EmbeddedStep ==
  ASSUME WorkerInv, WorkerNext
  PROVE  EmbeddedHasAllChunks'
<1>1. documentChunks \subseteq documentChunks'
  BY WorkerStoreStep DEF WorkerInv
<1>2. CASE ingestionLog' = ingestionLog
  BY <1>1, <1>2 DEF WorkerInv, EmbeddedHasAllChunks
<1>3. ASSUME NEW w \in Workers, UpdateStatus(w)
      PROVE  EmbeddedHasAllChunks'
  <2>1. /\ InHand(w) \in Filings
        /\ ChunksOf[InHand(w)] # {}
        /\ ChunksOf[InHand(w)] \subseteq documentChunks
    BY <1>3 DEF WorkerInv, InHandFacts, FactsInHand, UpdateStatus
  <2>2. \A f \in Filings : f # InHand(w) => ingestionLog'[f] = ingestionLog[f]
    BY <1>3 DEF UpdateStatus, WorkerInv, WorkerTypeOK, StoresTypeOK
  <2> QED
    BY <1>1, <2>1, <2>2 DEF WorkerInv, EmbeddedHasAllChunks
<1> QED
  BY <1>2, <1>3, WorkerStoreStep DEF WorkerInv

(* A confirmation of f is somewhere. *)
Confirmed(f) ==
  \/ <<"filings.embedded", f>> \in delivered
  \/ \E w \in Workers : <<"filings.embedded", f>> \in outbox[w]

(* Only Confirm makes a confirmation; the producer moves or drops it. *)
LEMMA ConfirmedByConfirm ==
  ASSUME WorkerTypeOK, WorkerNext, NEW f \in Filings, Confirmed(f)'
  PROVE  Confirmed(f) \/ \E w \in Workers : Confirm(w) /\ f = InHand(w)
<1> DEFINE Goal == Confirmed(f) \/ \E w \in Workers : Confirm(w) /\ f = InHand(w)
<1> USE DEF Confirmed
<1>1. ASSUME UNCHANGED <<delivered, outbox>>
      PROVE  Goal
  BY <1>1
<1>2. ASSUME NEW w \in Workers, WorkerStep(w), ~ Confirm(w), ~ PublishToDlq(w)
      PROVE  Goal
  <2>1. UNCHANGED <<delivered, outbox>>
    BY <1>2 DEF WorkerStep, Poll, NoChunks, StoreChunks, UpdateStatus, AttemptFails,
         PublishToDlqRaises, Commit, producerVars
  <2> QED
    BY <1>1, <2>1
<1>3. ASSUME NEW w \in Workers, Confirm(w)
      PROVE  Goal
  BY <1>3 DEF Confirm, WorkerTypeOK
<1>4. ASSUME NEW w \in Workers, PublishToDlq(w)
      PROVE  Goal
  BY <1>4 DEF PublishToDlq, WorkerTypeOK
<1>5. ASSUME NEW w \in Workers, DeliverOutbox(w) \/ DropOutbox(w) \/ WorkerCrash(w)
      PROVE  Goal
  BY <1>5 DEF DeliverOutbox, DropOutbox, WorkerCrash, WorkerTypeOK
<1>6. ASSUME NEW p \in Partitions, FirstAssignment(p) \/ Rebalance(p)
      PROVE  Goal
  BY <1>1, <1>6 DEF FirstAssignment, Rebalance, Assign, producerVars
<1> QED
  BY <1>2, <1>3, <1>4, <1>5, <1>6 DEF WorkerNext

(* A confirmation is made after the status was written, and a status that  *)
(* says EMBEDDED stays.                                                    *)
LEMMA ConfirmationStep ==
  ASSUME WorkerInv, WorkerNext
  PROVE  ConfirmationTruthful'
<1> SUFFICES ASSUME NEW f \in Filings, Confirmed(f)'
             PROVE  ingestionLog'[f] = "EMBEDDED"
  BY DEF ConfirmationTruthful, Confirmed
<1>1. Confirmed(f) \/ \E w \in Workers : Confirm(w) /\ f = InHand(w)
  BY ConfirmedByConfirm DEF WorkerInv
<1>2. Embedded(f)
  BY <1>1 DEF WorkerInv, ConfirmationTruthful, Confirmed, Embedded, InHandFacts,
       FactsInHand, Confirm
<1> QED
  BY <1>2, WorkerRows DEF WorkerInv, Embedded

(* Chunks are inserted for a filing that has its row: the foreign key; two *)
(* filings share no chunk, so no other filing gains one.                   *)
LEMMA ChunksHaveRowStep ==
  ASSUME WorkerInv, WorkerNext
  PROVE  ChunksHaveRow'
<1>1. \A f \in Filings : Recorded(f)' <=> Recorded(f)
  BY WorkerRows DEF WorkerInv
<1>2. CASE documentChunks' = documentChunks
  BY <1>1, <1>2 DEF WorkerInv, ChunksHaveRow
<1>3. ASSUME NEW w \in Workers, StoreChunks(w)
      PROVE  ChunksHaveRow'
  <2>1. PICK m \in Filings : m = InHand(w)
    BY <1>3 DEF WorkerInv, InHandFacts, FactsInHand, StoreChunks
  <2>2. /\ documentChunks' = documentChunks \cup ChunksOf[m]
        /\ ChunksOf[m] # {}
        /\ Recorded(m) \/ ChunksOf[m] \subseteq documentChunks
    BY <1>3, <2>1 DEF StoreChunks, ForeignKeyHolds
  <2>3. Recorded(m)
    BY <2>2 DEF WorkerInv, ChunksHaveRow
  <2> QED
    BY <1>1, <2>2, <2>3, WorkerAssumption DEF WorkerInv, ChunksHaveRow
<1>4. documentChunks' = documentChunks \/ \E w \in Workers : StoreChunks(w)
  BY DEF WorkerNext, WorkerStep, Poll, NoChunks, UpdateStatus, Confirm, AttemptFails,
       PublishToDlq, PublishToDlqRaises, Commit, DeliverOutbox, DropOutbox,
       WorkerCrash, FirstAssignment, Rebalance, Assign
<1> QED
  BY <1>2, <1>3, <1>4

(* What a worker knows stays true while the others go on. *)
LEMMA FactsKept ==
  ASSUME WorkerInv, Monotone, NEW w \in Workers,
         step'[w] = step[w], part'[w] = part[w], off'[w] = off[w]
  PROVE  FactsInHand(w)'
<1>1. CASE step[w] = "poll"
  BY <1>1 DEF FactsInHand
<1>2. CASE step[w] # "poll"
  <2>1. PICK m \in Messages : m = InHand(w)
    BY <1>2, InHandType DEF WorkerInv
  <2>2. part[w] \in Partitions /\ off[w] \in 1..Len(rawTopic[part[w]])
    BY <1>2, InHandType DEF WorkerInv
  <2>3. InHand(w)' = m
    BY <2>1, <2>2 DEF InHand, Monotone
  <2>4. FactsInHand(w)
    BY DEF WorkerInv, InHandFacts
  <2>5. /\ step[w] \in {"process", "status", "confirm"} => m \in Filings
        /\ step[w] = "status" =>
             /\ Recorded(m)'
             /\ ChunksOf[m] # {}
             /\ ChunksOf[m] \subseteq documentChunks'
        /\ step[w] = "confirm" => Embedded(m)'
        /\ step[w] = "commit" => Handled(m)'
    BY <2>1, <2>4 DEF FactsInHand, Monotone
  <2> QED
    BY <2>3, <2>5 DEF FactsInHand, Recorded, Embedded, Handled, Empty, DeadLettered
<1> QED
  BY <1>1, <1>2

(* What the worker that moves learns from its own step. *)
LEMMA FactsLearnt ==
  ASSUME WorkerInv, NEW w \in Workers, WorkerStep(w), WorkerNext
  PROVE  FactsInHand(w)'
<1>1. WorkerTypeOK /\ Monotone /\ FactsInHand(w)
  BY WorkerMonotone DEF WorkerInv, InHandFacts
<1>2. ASSUME NEW p \in Partitions, Poll(w, p)
      PROVE  FactsInHand(w)'
  <2>1. position[p] + 1 \in 1..Len(rawTopic[p])
    <3>1. position[p] \in Nat /\ Len(rawTopic[p]) \in Nat
      BY <1>1 DEF WorkerTypeOK, StoresTypeOK
    <3> QED
      BY <1>2, <3>1 DEF Poll
  <2>2. PICK m \in Messages : m = rawTopic[p][position[p] + 1]
    BY <1>1, <2>1, MessageType
  <2>3. InHand(w)' = m
    BY <1>1, <1>2, <2>2 DEF Poll, InHand, WorkerTypeOK, storeVars
  <2>4. step'[w] = IF m \in Malformed THEN "dlq" ELSE "process"
    BY <1>1, <1>2, <2>2 DEF Poll, StepTo, WorkerTypeOK
  <2> QED
    BY <2>3, <2>4 DEF FactsInHand, Messages
<1>3. ASSUME step[w] # "poll", UNCHANGED <<rawTopic, part, off>>
      PROVE  InHand(w)' = InHand(w)
  BY <1>3 DEF InHand
<1>4. CASE NoChunks(w)
  <2>1. step'[w] = "commit" /\ InHand(w)' = InHand(w)
    BY <1>1, <1>3, <1>4 DEF NoChunks, StepTo, WorkerTypeOK, storeVars
  <2>2. InHand(w) \in Filings /\ ChunksOf[InHand(w)] = {}
    BY <1>1, <1>4 DEF NoChunks, FactsInHand
  <2> QED
    BY <2>1, <2>2 DEF FactsInHand, Handled, Empty
<1>5. CASE StoreChunks(w)
  <2>1. step'[w] = "status" /\ InHand(w)' = InHand(w)
    BY <1>1, <1>3, <1>5 DEF StoreChunks, StepTo, WorkerTypeOK, storeVars
  <2>2. PICK m \in Filings : m = InHand(w)
    BY <1>1, <1>5 DEF StoreChunks, FactsInHand
  <2>3. /\ ChunksOf[m] # {}
        /\ ChunksOf[m] \subseteq documentChunks'
        /\ Recorded(m) \/ ChunksOf[m] \subseteq documentChunks
    BY <1>5, <2>2 DEF StoreChunks, ForeignKeyHolds
  <2>4. Recorded(m)'
    BY <1>1, <2>3 DEF WorkerInv, ChunksHaveRow, Monotone
  <2> QED
    BY <2>1, <2>2, <2>3, <2>4 DEF FactsInHand, Recorded
<1>6. CASE UpdateStatus(w)
  <2>1. step'[w] = "confirm" /\ InHand(w)' = InHand(w)
    BY <1>1, <1>3, <1>6 DEF UpdateStatus, StepTo, WorkerTypeOK
  <2>2. InHand(w) \in Filings /\ Recorded(InHand(w))
    BY <1>1, <1>6 DEF UpdateStatus, FactsInHand
  <2>3. ingestionLog'[InHand(w)] = "EMBEDDED"
    BY <1>1, <1>6, <2>2 DEF UpdateStatus, Recorded, WorkerTypeOK, StoresTypeOK
  <2> QED
    BY <2>1, <2>2, <2>3 DEF FactsInHand, Embedded
<1>7. CASE Confirm(w)
  <2>1. step'[w] = "commit" /\ InHand(w)' = InHand(w)
    BY <1>1, <1>3, <1>7 DEF Confirm, StepTo, WorkerTypeOK, storeVars
  <2>2. Embedded(InHand(w)) /\ ingestionLog' = ingestionLog
    BY <1>1, <1>7 DEF Confirm, FactsInHand, storeVars
  <2> QED
    BY <2>1, <2>2 DEF FactsInHand, Handled, Embedded
<1>8. CASE AttemptFails(w)
  <2>1. InHand(w) \in Filings /\ InHand(w)' = InHand(w)
    BY <1>1, <1>3, <1>8 DEF AttemptFails, FactsInHand, storeVars
  <2>2. step'[w] \in {"process", "dlq"}
    BY <1>1, <1>8 DEF AttemptFails, StepTo, WorkerTypeOK
  <2> QED
    BY <2>1, <2>2 DEF FactsInHand
<1>9. CASE PublishToDlq(w) \/ PublishToDlqRaises(w)
  <2>1. step'[w] = "commit" /\ InHand(w)' = InHand(w)
    BY <1>1, <1>3, <1>9 DEF PublishToDlq, PublishToDlqRaises, StepTo, WorkerTypeOK,
         storeVars
  <2>2. <<"filings.dlq", InHand(w)>> \in outbox'[w] \/ InHand(w) \in dlqLost'
    BY <1>1, <1>9 DEF PublishToDlq, PublishToDlqRaises, WorkerTypeOK
  <2> QED
    BY <2>1, <2>2 DEF FactsInHand, Handled, DeadLettered
<1>10. CASE Commit(w)
  BY <1>1, <1>10 DEF Commit, StepTo, FactsInHand, WorkerTypeOK
<1> QED
  BY <1>2, <1>4, <1>5, <1>6, <1>7, <1>8, <1>9, <1>10 DEF WorkerStep

(* InHandFacts is preserved: one worker learns, the others' facts stay.    *)
LEMMA FactsStep ==
  ASSUME WorkerInv, WorkerNext
  PROVE  InHandFacts'
<1>1. WorkerTypeOK /\ Monotone
  BY WorkerMonotone DEF WorkerInv
<1>2. ASSUME NEW w \in Workers, WorkerStep(w)
      PROVE  InHandFacts'
  <2> SUFFICES ASSUME NEW u \in Workers
               PROVE  FactsInHand(u)'
    BY DEF InHandFacts
  <2>1. CASE u = w
    BY <1>2, <2>1, FactsLearnt
  <2>2. CASE u # w
    <3>1. step'[u] = step[u] /\ part'[u] = part[u] /\ off'[u] = off[u]
      BY <1>1, <1>2, <2>2 DEF WorkerTypeOK, WorkerStep, Poll, NoChunks, StoreChunks,
           UpdateStatus, Confirm, AttemptFails, PublishToDlq, PublishToDlqRaises,
           Commit, StepTo
    <3> QED
      BY <1>1, <3>1, FactsKept
  <2> QED
    BY <2>1, <2>2
<1>3. ASSUME NEW w \in Workers, WorkerCrash(w)
      PROVE  InHandFacts'
  <2> SUFFICES ASSUME NEW u \in Workers
               PROVE  FactsInHand(u)'
    BY DEF InHandFacts
  <2>1. CASE u = w
    BY <1>1, <1>3, <2>1 DEF WorkerCrash, StepTo, WorkerTypeOK, FactsInHand
  <2>2. CASE u # w
    BY <1>1, <1>3, <2>2, FactsKept DEF WorkerCrash, StepTo, WorkerTypeOK
  <2> QED
    BY <2>1, <2>2
<1>4. CASE UNCHANGED <<step, part, off>>
  BY <1>1, <1>4, FactsKept DEF InHandFacts
<1>5. ASSUME NEW w \in Workers, DeliverOutbox(w) \/ DropOutbox(w)
      PROVE  UNCHANGED <<step, part, off>>
  BY <1>5 DEF DeliverOutbox, DropOutbox, loopVars
<1>6. ASSUME NEW p \in Partitions, FirstAssignment(p) \/ Rebalance(p)
      PROVE  UNCHANGED <<step, part, off>>
  BY <1>6 DEF FirstAssignment, Rebalance, Assign, loopVars
<1> QED
  BY <1>2, <1>3, <1>4, <1>5, <1>6 DEF WorkerNext

(* WorkerInv is preserved by the steps of the workers... *)
LEMMA WorkerInvStep ==
  ASSUME WorkerInv, WorkerNext
  PROVE  WorkerInv'
<1>1. WorkerTypeOK'
  BY WorkerTypeStep DEF WorkerInv
<1>2. CommittedMeansHandled' /\ OwnerCaughtUp' /\ EarlierHandled'
  BY CommittedStep, OffsetsStep
<1>3. EmbeddedHasAllChunks' /\ ConfirmationTruthful' /\ ChunksHaveRow' /\ InHandFacts'
  BY EmbeddedStep, ConfirmationStep, ChunksHaveRowStep, FactsStep
<1> QED
  BY <1>1, <1>2, <1>3 DEF WorkerInv

(* ...and by what others do to the shared stores meanwhile. *)
LEMMA WorkerInvStores ==
  ASSUME WorkerInv, StoreStep, UNCHANGED workerVars
  PROVE  WorkerInv'
<1> USE DEF workerVars, consumerVars, loopVars, producerVars
<1>1. WorkerTypeOK /\ StoresTypeOK
  BY DEF WorkerInv, WorkerTypeOK
<1>2. Monotone
  BY <1>1, MonotoneStores DEF DeadLettered
<1>3. WorkerTypeOK'
  <2>1. StoresTypeOK' /\ \A p \in Partitions : Len(rawTopic[p]) <= Len(rawTopic'[p])
    BY <1>1, StoreStepKeeps
  <2>2. \A p \in Partitions : Len(rawTopic[p]) \in Nat /\ Len(rawTopic'[p]) \in Nat
    BY <1>1, <2>1 DEF StoresTypeOK
  <2>3. \A p \in Partitions :
          position[p] <= Len(rawTopic'[p]) /\ committed[p] <= Len(rawTopic'[p])
    BY <1>1, <2>1, <2>2 DEF WorkerTypeOK
  <2>4. \A w \in Workers : step[w] # "poll" =>
          part[w] \in Partitions /\ off[w] \in 1..Len(rawTopic'[part[w]])
    BY <1>1, <1>2 DEF WorkerTypeOK, Monotone
  <2> QED
    BY <1>1, <2>1, <2>3, <2>4 DEF WorkerTypeOK
<1>4. CommittedMeansHandled' /\ OwnerCaughtUp' /\ EarlierHandled'
  BY <1>2, CommittedKept, OffsetsKept
<1>5. InHandFacts'
  BY <1>2, FactsKept DEF InHandFacts
<1>6. EmbeddedHasAllChunks'
  BY <1>1, StoreStepKeeps DEF WorkerInv, EmbeddedHasAllChunks
<1>7. ConfirmationTruthful' /\ ChunksHaveRow'
  BY <1>2 DEF WorkerInv, Monotone, ConfirmationTruthful, ChunksHaveRow, Embedded
<1> QED
  BY <1>3, <1>4, <1>5, <1>6, <1>7 DEF WorkerInv

(* A stuttering step changes nothing WorkerInv speaks of. *)
LEMMA WorkerInvStutter ==
  ASSUME WorkerInv, UNCHANGED workerSpecVars
  PROVE  WorkerInv'
<1>1. StoreStep /\ UNCHANGED workerVars
  BY DEF workerSpecVars, StoreStep
<1> QED
  BY <1>1, WorkerInvStores

(* WorkerInv holds in every state of the workers and their environment.    *)
THEOREM WorkerInvCorrect == WorkerSpec => []WorkerInv
<1>1. StoresInit /\ WorkerInit => WorkerInv
  BY WorkerInvInit
<1>2. WorkerInv /\ [WorkerEnvNext]_workerSpecVars => WorkerInv'
  <2> SUFFICES ASSUME WorkerInv, [WorkerEnvNext]_workerSpecVars
               PROVE  WorkerInv'
    OBVIOUS
  <2>1. CASE WorkerNext
    BY <2>1, WorkerInvStep
  <2>2. CASE MessageArrives \/ RowArrives
    <3>1. StoreStep /\ UNCHANGED workerVars
      BY <2>2 DEF MessageArrives, RowArrives, StoreStep
    <3> QED
      BY <3>1, WorkerInvStores
  <2>3. CASE UNCHANGED workerSpecVars
    BY <2>3, WorkerInvStutter
  <2> QED
    BY <2>1, <2>2, <2>3 DEF WorkerEnvNext
<1> QED
  BY <1>1, <1>2, PTL DEF WorkerSpec, WorkerSpecInit

(* The variables of the workers keep their types. *)
THEOREM WorkerTypeCorrect == WorkerSpec => []WorkerTypeOK
<1>1. WorkerInv => WorkerTypeOK
  BY DEF WorkerInv
<1> QED
  BY <1>1, WorkerInvCorrect, PTL

(* No message is committed past before it is handled, for any number of    *)
(* workers, rebalances, zombies, lost commits, retries and crashes.        *)
THEOREM CommittedMeansHandledCorrect == WorkerSpec => []CommittedMeansHandled
<1>1. WorkerInv => CommittedMeansHandled
  BY DEF WorkerInv
<1> QED
  BY <1>1, WorkerInvCorrect, PTL

(* A filing whose row says EMBEDDED has all its chunks. *)
THEOREM EmbeddedHasAllChunksCorrect == WorkerSpec => []EmbeddedHasAllChunks
<1>1. WorkerInv => EmbeddedHasAllChunks
  BY DEF WorkerInv
<1> QED
  BY <1>1, WorkerInvCorrect, PTL

(* No confirmation of a filing is ahead of its row. *)
THEOREM ConfirmationTruthfulCorrect == WorkerSpec => []ConfirmationTruthful
<1>1. WorkerInv => ConfirmationTruthful
  BY DEF WorkerInv
<1> QED
  BY <1>1, WorkerInvCorrect, PTL
=============================================================================
