------------------------- MODULE MCPipelineRecovery -------------------------
(***************************************************************************)
(* FilingPipeline with at most MaxFailures failures of any kind, of either *)
(* service, after which everything answers, ingestion is requested again   *)
(* and again, and an operator replays the dead letters of recorded         *)
(* filings.  An attempt that fails on the foreign key is no failure: it is *)
(* what the code does when the message comes before the row, and it may    *)
(* happen at any time.  MaxTopic is large enough for one copy of a filing, *)
(* one more per failure, and a replay.                                     *)
(***************************************************************************)
EXTENDS MCFilingPipeline

CONSTANT MaxFailures   \* bound: failures before the environment recovers

VARIABLE failures

recoveryVars == <<pipelineVars, failures>>

(* The step leaves out a filing EDGAR lists. *)
FetchIncomplete(r) == FetchFilings(r) /\ todo'[r] # FilingsOf[ticker[r]]

IngestFailure ==
  \/ \E r \in Requests :
        \/ FetchIncomplete(r) \/ FetchRaises(r) \/ FactsRaise(r) \/ CheckRaises(r)
        \/ ProduceRaises(r) \/ FlushTimesOut(r) \/ RecordRaises(r)
        \/ LoseOwnAck(r) \/ RejectOwn(r)
  \/ \E i \in Ingesters : LoseStaleAck(i) \/ IngesterCrash(i)

LostCommit(w) ==
  /\ step[w] = "commit"
  /\ committed[part[w]] # off[w]
  /\ UNCHANGED committed
  /\ Commit(w)

WorkerFailure ==
  \/ \E w \in Workers :
        \/ AttemptFails(w) /\ (step[w] # "process" \/ ForeignKeyHolds(InHand(w)))
        \/ PublishToDlqRaises(w) \/ DropOutbox(w) \/ LostCommit(w) \/ WorkerCrash(w)
  \/ \E p \in Partitions : Rebalance(p)

Failure ==
  \/ IngestFailure /\ UNCHANGED workerVars
  \/ WorkerFailure /\ UNCHANGED ingestVars

(* The operator replays what ingestion will not retry, once the workers    *)
(* have caught up; whether the last commit arrived does not matter to it.  *)
ReplayRecorded(f) ==
  /\ Recorded(f)
  /\ \A p \in Partitions : position[p] = Len(rawTopic[p])
  /\ Replay(f)

NoFailure == ~ Failure /\ UNCHANGED failures

HealthyHandler(r) == HandlerStep(r) /\ UNCHANGED workerVars /\ NoFailure
HealthyWorker(w) == WorkerStep(w) /\ UNCHANGED ingestVars /\ NoFailure
HealthyDelivery(w) == DeliverOutbox(w) /\ UNCHANGED ingestVars /\ NoFailure
HealthyAssignment(p) == FirstAssignment(p) /\ UNCHANGED ingestVars /\ NoFailure
HealthyReplay(f) == ReplayRecorded(f) /\ UNCHANGED failures

RecoveryInit == PipelineInit /\ failures = 0

RecoveryNext ==
  \/ IngestNext /\ UNCHANGED workerVars /\ NoFailure
  \/ WorkerNext /\ UNCHANGED ingestVars /\ NoFailure
  \/ \E f \in Filings : HealthyReplay(f)
  \/ Failure /\ failures < MaxFailures /\ failures' = failures + 1

RecoverySpec ==
  /\ RecoveryInit
  /\ [][RecoveryNext]_recoveryVars
  /\ \A r \in Requests :
        /\ SF_recoveryVars(HealthyHandler(r))
        /\ SF_recoveryVars(PostIngest(r) /\ UNCHANGED <<workerVars, failures>>)
        /\ WF_recoveryVars(AckOwn(r) /\ UNCHANGED <<workerVars, failures>>)
  /\ \A i \in Ingesters :
        WF_recoveryVars((AckStale(i) \/ ExpireStale(i)) /\ UNCHANGED <<workerVars, failures>>)
  /\ \A w \in Workers :
        WF_recoveryVars(HealthyWorker(w)) /\ WF_recoveryVars(HealthyDelivery(w))
  /\ \A p \in Partitions : WF_recoveryVars(HealthyAssignment(p))
  /\ \A f \in Filings : WF_recoveryVars(HealthyReplay(f))
=============================================================================
