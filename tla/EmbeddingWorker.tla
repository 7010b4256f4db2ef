-------------------------- MODULE EmbeddingWorker --------------------------
(***************************************************************************)
(* The embedding workers: a Kafka consumer group over filings.raw.  Each   *)
(* worker polls a message, chunks and embeds the filing, stores the chunks *)
(* and moves its ingestion_log row to EMBEDDED in two transactions, hands  *)
(* a confirmation to its producer, and commits the offset.  An attempt     *)
(* that raises is retried MaxRetries times; then, like a message that does *)
(* not parse, the filing goes to the dead-letter queue and the offset is   *)
(* committed all the same.                                                 *)
(*                                                                         *)
(* The group may rebalance while a worker processes: it goes on, commits,  *)
(* and meanwhile the partition's new owner has the same message.  The      *)
(* coordinator checks that a commit comes from a member, not that the      *)
(* member owns the partition, so either commit may come last.              *)
(***************************************************************************)
EXTENDS FilingStores

CONSTANTS
  Workers,
  ChunksOf,      \* chunk_filing: the chunk ids of a filing, {} for an empty one;
                 \* an id hashes the accession number in, so filings share none
  MaxRetries     \* retries after the first attempt (MAX_RETRIES)

ASSUME WorkerAssumption ==
  /\ None \notin Workers
  /\ DOMAIN ChunksOf = Filings
  /\ \A f, g \in Filings : f # g => ChunksOf[f] \cap ChunksOf[g] = {}
  /\ MaxRetries \in Nat

VARIABLES
  owner,           \* owner[p]: the worker partition p is assigned to, or None
  position,        \* position[p]: offset of the last message its owner polled
  committed,       \* committed[p]: the group's committed offset
  step,            \* where the consume loop of a worker is
  part, off,       \* partition and offset of the message it has in hand
  attempt,         \* retries used on that message
  documentChunks,  \* chunk ids in document_chunks
  outbox,          \* <<topic, message>> in a worker's librdkafka queue
  delivered,       \* <<topic, message>> on filings.embedded and filings.dlq
  dlqLost          \* history: messages whose dead letter was dropped unsent

consumerVars == <<owner, position, committed>>
loopVars == <<step, part, off, attempt>>
producerVars == <<outbox, delivered, dlqLost>>
workerVars == <<consumerVars, loopVars, documentChunks, producerVars>>
workerSpecVars == <<storeVars, workerVars>>

Steps == {"poll", "process", "status", "confirm", "dlq", "commit"}
OutTopics == {"filings.embedded", "filings.dlq"}
ChunkIds == UNION {ChunksOf[f] : f \in Filings}

WorkerTypeOK ==
  /\ StoresTypeOK
  /\ owner \in [Partitions -> Workers \cup {None}]
  /\ position \in [Partitions -> Nat]
  /\ committed \in [Partitions -> Nat]
  /\ \A p \in Partitions :
        position[p] <= Len(rawTopic[p]) /\ committed[p] <= Len(rawTopic[p])
  /\ step \in [Workers -> Steps]
  /\ part \in [Workers -> Partitions \cup {None}]
  /\ off \in [Workers -> Nat]
  /\ \A w \in Workers : step[w] # "poll" =>
        part[w] \in Partitions /\ off[w] \in 1..Len(rawTopic[part[w]])
  /\ attempt \in [Workers -> 0..MaxRetries]
  /\ documentChunks \subseteq ChunkIds
  /\ outbox \in [Workers -> SUBSET (OutTopics \X Messages)]
  /\ delivered \subseteq OutTopics \X Messages
  /\ dlqLost \subseteq Messages

WorkerInit ==
  /\ owner = [p \in Partitions |-> None]
  /\ position = [p \in Partitions |-> 0]
  /\ committed = [p \in Partitions |-> 0]
  /\ step = [w \in Workers |-> "poll"]
  /\ part = [w \in Workers |-> None]
  /\ off = [w \in Workers |-> 0]
  /\ attempt = [w \in Workers |-> 0]
  /\ documentChunks = {}
  /\ outbox = [w \in Workers |-> {}]
  /\ delivered = {}
  /\ dlqLost = {}

-----------------------------------------------------------------------------
(* The message a worker has in hand. *)
InHand(w) == rawTopic[part[w]][off[w]]

StepTo(w, s) == step' = [step EXCEPT ![w] = s]

(* document_chunks.accession_number REFERENCES ingestion_log; a row that   *)
(* ON CONFLICT DO NOTHING leaves out is not checked.                       *)
ForeignKeyHolds(f) == Recorded(f) \/ ChunksOf[f] \subseteq documentChunks

(* Faulty variant: enable.auto.commit, the offset stored when polled. *)
PollAutoCommit(w, p) ==
  /\ step[w] = "poll"
  /\ owner[p] = w
  /\ position[p] < Len(rawTopic[p])
  /\ position' = [position EXCEPT ![p] = @ + 1]
  /\ committed' = [committed EXCEPT ![p] = position[p] + 1]
  /\ part' = [part EXCEPT ![w] = p]
  /\ off' = [off EXCEPT ![w] = position[p] + 1]
  /\ StepTo(w, IF rawTopic[p][position[p] + 1] \in Malformed THEN "dlq" ELSE "process")
  /\ UNCHANGED <<storeVars, owner, attempt, documentChunks, producerVars>>

(* consumer.poll returns the next message of an assigned partition; one    *)
(* that does not parse goes straight to the dead-letter queue.             *)
Poll(w, p) ==
  /\ step[w] = "poll"
  /\ owner[p] = w
  /\ position[p] < Len(rawTopic[p])
  /\ position' = [position EXCEPT ![p] = @ + 1]
  /\ part' = [part EXCEPT ![w] = p]
  /\ off' = [off EXCEPT ![w] = position[p] + 1]
  /\ StepTo(w, IF rawTopic[p][position[p] + 1] \in Malformed THEN "dlq" ELSE "process")
  /\ UNCHANGED <<storeVars, owner, committed, attempt, documentChunks, producerVars>>

-----------------------------------------------------------------------------
(* _process_filing, one attempt.                                           *)

(* The filing yields no chunks: not an error, and nothing is written. *)
NoChunks(w) ==
  /\ step[w] = "process"
  /\ ChunksOf[InHand(w)] = {}
  /\ StepTo(w, "commit")
  /\ UNCHANGED <<storeVars, consumerVars, part, off, attempt, documentChunks,
                 producerVars>>

(* Faulty variant: the two transactions in the other order. *)
StoreChunksLast(w) ==
  /\ step[w] = "process"
  /\ ChunksOf[InHand(w)] # {}
  /\ ForeignKeyHolds(InHand(w))
  /\ ingestionLog' = [ingestionLog EXCEPT ![InHand(w)] = "EMBEDDED"]
  /\ StepTo(w, "status")
  /\ UNCHANGED <<rawTopic, consumerVars, part, off, attempt, documentChunks,
                 producerVars>>

(* store_chunks: all rows in one transaction, none for an unrecorded filing. *)
StoreChunks(w) ==
  /\ step[w] = "process"
  /\ ChunksOf[InHand(w)] # {}
  /\ ForeignKeyHolds(InHand(w))
  /\ documentChunks' = documentChunks \cup ChunksOf[InHand(w)]
  /\ StepTo(w, "status")
  /\ UNCHANGED <<storeVars, consumerVars, part, off, attempt, producerVars>>

(* Faulty variant: the confirmation sent with the status update swallowed. *)
UpdateStatusSwallowed(w) ==
  /\ step[w] = "status"
  /\ StepTo(w, "confirm")
  /\ UNCHANGED <<storeVars, consumerVars, part, off, attempt, documentChunks,
                 producerVars>>

(* update_ingestion_status: an UPDATE, which touches no row if there is none. *)
UpdateStatus(w) ==
  /\ step[w] = "status"
  /\ ingestionLog' = [ingestionLog EXCEPT ![InHand(w)] =
                        IF @ = "absent" THEN @ ELSE "EMBEDDED"]
  /\ StepTo(w, "confirm")
  /\ UNCHANGED <<rawTopic, consumerVars, part, off, attempt, documentChunks,
                 producerVars>>

Confirm(w) ==
  /\ step[w] = "confirm"
  /\ outbox' = [outbox EXCEPT ![w] = @ \cup {<<"filings.embedded", InHand(w)>>}]
  /\ StepTo(w, "commit")
  /\ UNCHANGED <<storeVars, consumerVars, part, off, attempt, documentChunks,
                 delivered, dlqLost>>

(* Faulty variant: attempts are not counted. *)
AttemptFailsForever(w) ==
  /\ step[w] \in {"process", "status", "confirm"}
  /\ StepTo(w, "process")
  /\ UNCHANGED <<storeVars, consumerVars, part, off, attempt, documentChunks,
                 producerVars>>

(* Faulty variant: one retry too many. *)
AttemptFailsOnceMore(w) ==
  /\ step[w] \in {"process", "status", "confirm"}
  /\ IF attempt[w] <= MaxRetries
       THEN attempt' = [attempt EXCEPT ![w] = @ + 1] /\ StepTo(w, "process")
       ELSE StepTo(w, "dlq") /\ UNCHANGED attempt
  /\ UNCHANGED <<storeVars, consumerVars, part, off, documentChunks, producerVars>>

(* Chunking, embedding, a transaction or produce() raises.  What earlier   *)
(* steps of the attempt committed stays; the next attempt starts over.     *)
AttemptFails(w) ==
  /\ step[w] \in {"process", "status", "confirm"}
  /\ IF attempt[w] < MaxRetries
       THEN attempt' = [attempt EXCEPT ![w] = @ + 1] /\ StepTo(w, "process")
       ELSE StepTo(w, "dlq") /\ UNCHANGED attempt
  /\ UNCHANGED <<storeVars, consumerVars, part, off, documentChunks, producerVars>>

-----------------------------------------------------------------------------
(* The end of the consume loop's body.                                     *)

(* Faulty variant: the offset is committed with no dead letter. *)
PublishToDlqForgotten(w) ==
  /\ step[w] = "dlq"
  /\ StepTo(w, "commit")
  /\ UNCHANGED <<storeVars, consumerVars, part, off, attempt, documentChunks,
                 producerVars>>

(* produce() only enqueues the dead letter. *)
PublishToDlq(w) ==
  /\ step[w] = "dlq"
  /\ outbox' = [outbox EXCEPT ![w] = @ \cup {<<"filings.dlq", InHand(w)>>}]
  /\ StepTo(w, "commit")
  /\ UNCHANGED <<storeVars, consumerVars, part, off, attempt, documentChunks,
                 delivered, dlqLost>>

(* produce() raises; _publish_to_dlq logs the exception and returns. *)
PublishToDlqRaises(w) ==
  /\ step[w] = "dlq"
  /\ dlqLost' = dlqLost \cup {InHand(w)}
  /\ StepTo(w, "commit")
  /\ UNCHANGED <<storeVars, consumerVars, part, off, attempt, documentChunks,
                 outbox, delivered>>

(* consumer.commit(msg) is asynchronous: it may take effect, whoever owns  *)
(* the partition by now, or be lost or refused without the loop noticing.  *)
Commit(w) ==
  /\ step[w] = "commit"
  /\ \/ committed' = [committed EXCEPT ![part[w]] = off[w]]
     \/ UNCHANGED committed
  /\ StepTo(w, "poll")
  /\ part' = [part EXCEPT ![w] = None]
  /\ off' = [off EXCEPT ![w] = 0]
  /\ attempt' = [attempt EXCEPT ![w] = 0]
  /\ UNCHANGED <<storeVars, owner, position, documentChunks, producerVars>>

-----------------------------------------------------------------------------
(* librdkafka, the group coordinator, and the death of a worker.           *)

DeliverOutbox(w) ==
  /\ \E m \in outbox[w] :
        /\ outbox' = [outbox EXCEPT ![w] = @ \ {m}]
        /\ delivered' = delivered \cup {m}
  /\ UNCHANGED <<storeVars, consumerVars, loopVars, documentChunks, dlqLost>>

(* Rejected by the broker or expired; no delivery callback is registered. *)
DropOutbox(w) ==
  /\ \E m \in outbox[w] :
        /\ outbox' = [outbox EXCEPT ![w] = @ \ {m}]
        /\ dlqLost' = IF m[1] = "filings.dlq" THEN dlqLost \cup {m[2]} ELSE dlqLost
  /\ UNCHANGED <<storeVars, consumerVars, loopVars, documentChunks, delivered>>

(* The coordinator gives p to w, who starts from the committed offset. *)
Assign(p, w) ==
  /\ owner' = [owner EXCEPT ![p] = w]
  /\ position' = [position EXCEPT ![p] = committed[p]]
  /\ UNCHANGED <<storeVars, committed, loopVars, documentChunks, producerVars>>

(* A member joins, leaves, or misses max.poll.interval.ms or its session. *)
Rebalance(p) ==
  /\ owner[p] # None
  /\ \E w \in Workers : Assign(p, w)

FirstAssignment(p) ==
  /\ owner[p] = None
  /\ \E w \in Workers : Assign(p, w)

(* The worker dies or is stopped and restarted with an empty producer.     *)
WorkerCrash(w) ==
  /\ owner' = [p \in Partitions |-> IF owner[p] = w THEN None ELSE owner[p]]
  /\ StepTo(w, "poll")
  /\ part' = [part EXCEPT ![w] = None]
  /\ off' = [off EXCEPT ![w] = 0]
  /\ attempt' = [attempt EXCEPT ![w] = 0]
  /\ outbox' = [outbox EXCEPT ![w] = {}]
  /\ dlqLost' = dlqLost \cup {m \in Messages : <<"filings.dlq", m>> \in outbox[w]}
  /\ UNCHANGED <<storeVars, position, committed, documentChunks, delivered>>

-----------------------------------------------------------------------------
WorkerStep(w) ==
  \/ \E p \in Partitions : Poll(w, p)
  \/ NoChunks(w) \/ StoreChunks(w) \/ UpdateStatus(w) \/ Confirm(w)
  \/ AttemptFails(w) \/ PublishToDlq(w) \/ PublishToDlqRaises(w) \/ Commit(w)

WorkerNext ==
  \/ \E w \in Workers :
        WorkerStep(w) \/ DeliverOutbox(w) \/ DropOutbox(w) \/ WorkerCrash(w)
  \/ \E p \in Partitions : FirstAssignment(p) \/ Rebalance(p)

(* What the workers may see of the other side: messages, filings and junk  *)
(* alike, any number of times, and rows before or after their message.     *)
MessageArrives == \E m \in Messages : AppendRaw(m) /\ UNCHANGED <<ingestionLog, workerVars>>

RowArrives ==
  \E f \in Filings : ~ Recorded(f) /\ InsertPublished(f) /\ UNCHANGED <<rawTopic, workerVars>>

WorkerEnvNext == WorkerNext \/ MessageArrives \/ RowArrives

WorkerSpecInit == StoresInit /\ WorkerInit

WorkerSpec == WorkerSpecInit /\ [][WorkerEnvNext]_workerSpecVars

Disruption ==
  \/ \E p \in Partitions : Rebalance(p)
  \/ \E w \in Workers : WorkerCrash(w)

(* The consumer threads run, an unowned partition is assigned, and the     *)
(* group settles in the end.  Attempts may go on failing.                  *)
WorkerFairSpec ==
  /\ WorkerSpec
  /\ \A w \in Workers : WF_workerSpecVars(WorkerStep(w))
  /\ \A p \in Partitions : WF_workerSpecVars(FirstAssignment(p))
  /\ <>[][~ Disruption]_workerSpecVars

-----------------------------------------------------------------------------
(* A dead letter for m was produced: on the topic, in a buffer, or lost.   *)
DeadLettered(m) ==
  \/ <<"filings.dlq", m>> \in delivered
  \/ \E w \in Workers : <<"filings.dlq", m>> \in outbox[w]

Embedded(m) == m \in Filings /\ ingestionLog[m] = "EMBEDDED"

Empty(m) == m \in Filings /\ ChunksOf[m] = {}

(* The workers are done with message m. *)
Handled(m) == Embedded(m) \/ Empty(m) \/ DeadLettered(m) \/ m \in dlqLost

(* "Only commit after the message is fully handled" (_consume_loop): no    *)
(* message at or below the committed offset of its partition was skipped,  *)
(* whatever rebalances, zombie commits, lost commits and crashes came      *)
(* before; the only losses are dead letters that were never sent.          *)
CommittedMeansHandled ==
  \A p \in Partitions : \A o \in 1..committed[p] : Handled(rawTopic[p][o])

(* Status EMBEDDED, which list_documents shows and which nothing ever      *)
(* revisits, implies that every chunk of the filing can be retrieved.      *)
EmbeddedHasAllChunks ==
  \A f \in Filings : ingestionLog[f] = "EMBEDDED" =>
    ChunksOf[f] # {} /\ ChunksOf[f] \subseteq documentChunks

(* A confirmation on filings.embedded, or on its way there, is never       *)
(* ahead of the database: retries and redeliveries repeat it, and it is    *)
(* true every time.                                                        *)
ConfirmationTruthful ==
  \A f \in Filings :
    (<<"filings.embedded", f>> \in delivered
       \/ \E w \in Workers : <<"filings.embedded", f>> \in outbox[w])
    => ingestionLog[f] = "EMBEDDED"

(* Poison messages do not block the partition: once the group settles,     *)
(* every message on the topic is handled, though attempts keep failing.    *)
EveryMessageHandled ==
  \A p \in Partitions : \A o \in 1..MaxTopic :
    o <= Len(rawTopic[p]) ~> (o <= Len(rawTopic[p]) /\ Handled(rawTopic[p][o]))

-----------------------------------------------------------------------------
(* The strengthening of these invariants that every step preserves.        *)

HasInHand(w, p, o) == step[w] # "poll" /\ part[w] = p /\ off[w] = o

(* Below its position, an owner has at most the message in its hands left. *)
OwnerCaughtUp ==
  \A p \in Partitions : owner[p] # None =>
    \A o \in 1..position[p] : Handled(rawTopic[p][o]) \/ HasInHand(owner[p], p, o)

(* Everything before a message somebody works on is handled, even if that  *)
(* somebody has lost the partition since.                                  *)
EarlierHandled ==
  \A w \in Workers : step[w] # "poll" =>
    \A o \in 1..(off[w] - 1) : Handled(rawTopic[part[w]][o])

(* What worker w knows of the message in its hands at each step. *)
FactsInHand(w) ==
  /\ step[w] \in {"process", "status", "confirm"} => InHand(w) \in Filings
  /\ step[w] = "status" =>
       /\ Recorded(InHand(w))
       /\ ChunksOf[InHand(w)] # {}
       /\ ChunksOf[InHand(w)] \subseteq documentChunks
  /\ step[w] = "confirm" => Embedded(InHand(w))
  /\ step[w] = "commit" => Handled(InHand(w))

InHandFacts == \A w \in Workers : FactsInHand(w)

ChunksHaveRow ==
  \A f \in Filings : ChunksOf[f] \cap documentChunks # {} => Recorded(f)

WorkerInv ==
  /\ WorkerTypeOK
  /\ CommittedMeansHandled
  /\ EmbeddedHasAllChunks
  /\ ConfirmationTruthful
  /\ OwnerCaughtUp
  /\ EarlierHandled
  /\ InHandFacts
  /\ ChunksHaveRow

-----------------------------------------------------------------------------
(* What ADR-010 says (design-decisions.md:433): "No message loss -- every  *)
(* message is either successfully processed or routed to the DLQ".         *)
NoMessageLoss ==
  \A p \in Partitions : \A o \in 1..committed[p] :
    LET m == rawTopic[p][o] IN Embedded(m) \/ Empty(m) \/ DeadLettered(m)
=============================================================================
