--------------------------- MODULE FilingPipeline ---------------------------
(***************************************************************************)
(* The ingestion service and the embedding workers together, over one      *)
(* topic and one database: the message the workers wait for and the row    *)
(* their chunks refer to are now the ones Ingestion writes, in its order   *)
(* and with its failures, instead of an arbitrary environment's.           *)
(***************************************************************************)
EXTENDS Ingestion, EmbeddingWorker

pipelineVars == <<storeVars, ingestVars, workerVars>>

PipelineInit == StoresInit /\ IngestInit /\ WorkerInit

(* The operator republishes the original_message of a dead letter whose    *)
(* filing is still not embedded (technical-design-document.md:683).        *)
Replay(f) ==
  /\ <<"filings.dlq", f>> \in delivered
  /\ ~ Embedded(f)
  /\ AppendRaw(f)
  /\ UNCHANGED <<ingestionLog, ingestVars, workerVars>>

PipelineNext ==
  \/ IngestNext /\ UNCHANGED workerVars
  \/ WorkerNext /\ UNCHANGED ingestVars
  \/ \E f \in Filings : Replay(f)

PipelineSpec == PipelineInit /\ [][PipelineNext]_pipelineVars

-----------------------------------------------------------------------------
(* A copy of f the group has not committed past. *)
Pending(f) ==
  \E p \in Partitions : \E o \in 1..Len(rawTopic[p]) :
    o > committed[p] /\ rawTopic[p][o] = f

(* A row in ingestion_log makes every later run skip the filing, so it     *)
(* must not outlive the work: a recorded filing is embedded, or has no     *)
(* chunks, or is still ahead of the committed offset, or left a dead       *)
(* letter -- the one way out being a dead letter dropped unsent.           *)
NoFilingLost ==
  \A f \in Filings : Recorded(f) =>
    Embedded(f) \/ Empty(f) \/ Pending(f) \/ DeadLettered(f) \/ f \in dlqLost

StageOf(f) ==
  CASE Embedded(f) -> "embedded"
    [] ~ Embedded(f) /\ ChunksOf[f] \cap documentChunks # {} -> "stored"
    [] ~ Embedded(f) /\ ChunksOf[f] \cap documentChunks = {} /\ Recorded(f) -> "recorded"
    [] ~ Recorded(f) /\ ChunksOf[f] \cap documentChunks = {} /\ OnTopic(f) -> "onTopic"
    [] OTHER -> "new"

Lifecycle == INSTANCE FilingLifecycle WITH stage <- [f \in Filings |-> StageOf(f)]

(* Redelivered, republished or replayed, a filing only ever moves forward  *)
(* through the stages of FilingLifecycle, one at a time: it is recorded    *)
(* only after delivery, retrievable only once recorded, EMBEDDED only once *)
(* retrievable, and no later run takes any of that back.                   *)
ImplementsLifecycle == Lifecycle!Spec

(* A filing whose message overtakes its own ingestion_log row burns its    *)
(* retries on the foreign key and is dead-lettered, then recorded, and     *)
(* ingestion skips it for ever.  Replaying dead letters closes that gap:   *)
(* once failures cease every recorded filing that has chunks is embedded.  *)
RecordedIsEmbedded ==
  \A f \in Filings : Recorded(f) ~> Embedded(f) \/ Empty(f) \/ f \in dlqLost
=============================================================================
