----------------------------- MODULE Ingestion -----------------------------
(***************************************************************************)
(* The ingestion service: POST /v1/ingest walks a list of tickers; for     *)
(* each it downloads the 10-K filings from EDGAR, publishes every filing   *)
(* that is not in ingestion_log yet to filings.raw, waits for the broker's *)
(* acknowledgement, and only then writes the ingestion_log row.            *)
(*                                                                         *)
(* A handler is a coroutine of one asyncio event loop per process          *)
(* (Ingester).  It gives the loop up only where it awaits EDGAR; the       *)
(* publishing of a ticker's filings is synchronous code, the blocking      *)
(* flush of librdkafka included.  Several handlers interleave at the       *)
(* awaits, several processes (a rolling update) interleave everywhere,     *)
(* and librdkafka's background thread delivers messages at any time.       *)
(***************************************************************************)
EXTENDS FilingStores

CONSTANTS
  Ingesters,     \* processes of the service, each with its librdkafka producer
  Requests,      \* handler activations of POST /v1/ingest
  HostOf,        \* the process a request is served by
  Tickers,
  TickerLists,   \* the bodies posted: non-empty sequences of tickers
  FilingsOf,     \* the 10-K filings EDGAR lists for a ticker
  TooLarge       \* filings whose payload exceeds MAX_RAW_BYTES

ASSUME IngestionAssumption ==
  /\ HostOf \in [Requests -> Ingesters]
  /\ None \notin Tickers
  /\ TickerLists \subseteq Seq(Tickers) \ {<<>>}
  /\ FilingsOf \in [Tickers -> SUBSET Filings]
  /\ TooLarge \subseteq Filings

VARIABLES
  phase,      \* where the handler of a request is
  tickers,    \* tickers its outer loop has still to visit
  ticker,     \* the ticker being ingested
  todo,       \* filings of that ticker the inner loop has still to visit
  current,    \* the filing inside _publish_single_filing
  own,        \* fate of the message of the current publish_filing call
  stale,      \* stale[i]: messages of timed-out calls still in i's librdkafka queue
  counted,    \* the response's three counters: which filing counted as what
  processed,  \* the response's tickers_processed
  errors,     \* tickers for which "Error processing ..." was appended to errors
  fetched     \* history: every filing EDGAR handed to this request

handlerVars == <<phase, tickers, ticker, todo, current>>
responseVars == <<counted, processed, errors>>
ingestVars == <<handlerVars, own, stale, responseVars, fetched>>
vars == <<storeVars, ingestVars>>

Phases == {"idle", "next", "fetch", "publish", "produce", "flush", "record",
           "facts", "done"}
Outcomes == {"published", "skipped", "failed"}
Fates == {"none", "queued", "acked", "rejected"}

IngestTypeOK ==
  /\ StoresTypeOK
  /\ phase \in [Requests -> Phases]
  /\ tickers \in [Requests -> Seq(Tickers)]
  /\ ticker \in [Requests -> Tickers \cup {None}]
  /\ \A r \in Requests : phase[r] \notin {"idle", "next", "done"} => ticker[r] # None
  /\ todo \in [Requests -> SUBSET Filings]
  /\ current \in [Requests -> Filings \cup {None}]
  /\ \A r \in Requests : phase[r] \in {"produce", "flush", "record"} => current[r] # None
  /\ own \in [Requests -> Fates]
  /\ \A r \in Requests : own[r] # "none" => phase[r] = "flush"
  /\ stale \in [Ingesters -> SUBSET Filings]
  /\ counted \in [Requests -> SUBSET (Outcomes \X Filings)]
  /\ processed \in [Requests -> SUBSET Tickers]
  /\ errors \in [Requests -> SUBSET Tickers]
  /\ fetched \in [Requests -> SUBSET Filings]

IngestInit ==
  /\ phase = [r \in Requests |-> "idle"]
  /\ tickers = [r \in Requests |-> <<>>]
  /\ ticker = [r \in Requests |-> None]
  /\ todo = [r \in Requests |-> {}]
  /\ current = [r \in Requests |-> None]
  /\ own = [r \in Requests |-> "none"]
  /\ stale = [i \in Ingesters |-> {}]
  /\ counted = [r \in Requests |-> {}]
  /\ processed = [r \in Requests |-> {}]
  /\ errors = [r \in Requests |-> {}]
  /\ fetched = [r \in Requests |-> {}]

-----------------------------------------------------------------------------
(* The event loop: while a handler is inside the synchronous publish loop, *)
(* no other handler of its process runs.                                   *)

Synchronous == {"publish", "produce", "flush", "record"}

(* Faulty variant: publish_filing awaited on a worker thread. *)
AlwaysHasLoop(r) == TRUE

HasLoop(r) ==
  \A q \in Requests \ {r} : HostOf[q] = HostOf[r] => phase[q] \notin Synchronous

At(r, ph) == phase[r] = ph /\ HasLoop(r)

Goto(r, ph) == phase' = [phase EXCEPT ![r] = ph]

(* `except Exception` around a ticker: its remaining filings are skipped. *)
TickerError(r) ==
  /\ Goto(r, "next")
  /\ errors' = [errors EXCEPT ![r] = @ \cup {ticker[r]}]
  /\ ticker' = [ticker EXCEPT ![r] = None]
  /\ todo' = [todo EXCEPT ![r] = {}]
  /\ current' = [current EXCEPT ![r] = None]
  /\ UNCHANGED <<tickers, counted, processed, fetched>>

(* Faulty variant: a failed publish retried in place, its filing dropped. *)
ReturnedToProduce(r, outcome) ==
  /\ Goto(r, IF outcome = "failed" THEN "produce" ELSE "publish")
  /\ counted' = [counted EXCEPT ![r] = @ \cup {<<outcome, current[r]>>}]
  /\ current' = [current EXCEPT ![r] = None]
  /\ UNCHANGED <<tickers, ticker, todo, processed, errors, fetched>>

(* _publish_single_filing returned `outcome` for the current filing. *)
Returned(r, outcome) ==
  /\ Goto(r, "publish")
  /\ counted' = [counted EXCEPT ![r] = @ \cup {<<outcome, current[r]>>}]
  /\ current' = [current EXCEPT ![r] = None]
  /\ UNCHANGED <<tickers, ticker, todo, processed, errors, fetched>>

-----------------------------------------------------------------------------
(* The request and its outer loop.                                         *)

PostIngest(r) ==
  /\ phase[r] \in {"idle", "done"}
  /\ HasLoop(r)
  /\ \E ts \in TickerLists : tickers' = [tickers EXCEPT ![r] = ts]
  /\ Goto(r, "next")
  /\ counted' = [counted EXCEPT ![r] = {}]
  /\ processed' = [processed EXCEPT ![r] = {}]
  /\ errors' = [errors EXCEPT ![r] = {}]
  /\ fetched' = [fetched EXCEPT ![r] = {}]
  /\ UNCHANGED <<storeVars, ticker, todo, current, own, stale>>

NextTicker(r) ==
  /\ At(r, "next")
  /\ tickers[r] # <<>>
  /\ ticker' = [ticker EXCEPT ![r] = Head(tickers[r])]
  /\ tickers' = [tickers EXCEPT ![r] = Tail(@)]
  /\ Goto(r, "fetch")
  /\ UNCHANGED <<storeVars, todo, current, own, stale, responseVars, fetched>>

(* The final flush(10 s) only waits; the response is then returned. *)
Finish(r) ==
  /\ At(r, "next")
  /\ tickers[r] = <<>>
  /\ Goto(r, "done")
  /\ UNCHANGED <<storeVars, tickers, ticker, todo, current, own, stale,
                 responseVars, fetched>>

(* get_filings_for_ticker returns the filings whose document could be      *)
(* fetched and parsed: any subset of what EDGAR lists, and none when the   *)
(* ticker or the submissions index cannot be resolved.                     *)
FetchFilings(r) ==
  /\ At(r, "fetch")
  /\ \E fs \in SUBSET FilingsOf[ticker[r]] :
        /\ todo' = [todo EXCEPT ![r] = fs]
        /\ fetched' = [fetched EXCEPT ![r] = @ \cup fs]
  /\ Goto(r, "publish")
  /\ UNCHANGED <<storeVars, tickers, ticker, current, own, stale, responseVars>>

FetchRaises(r) ==
  /\ At(r, "fetch")
  /\ TickerError(r)
  /\ UNCHANGED <<storeVars, own, stale>>

EndFilings(r) ==
  /\ At(r, "publish")
  /\ todo[r] = {}
  /\ Goto(r, "facts")
  /\ UNCHANGED <<storeVars, tickers, ticker, todo, current, own, stale,
                 responseVars, fetched>>

(* _ingest_company_facts: the facts themselves are another component. *)
StoreFacts(r) ==
  /\ At(r, "facts")
  /\ Goto(r, "next")
  /\ processed' = [processed EXCEPT ![r] = @ \cup {ticker[r]}]
  /\ ticker' = [ticker EXCEPT ![r] = None]
  /\ UNCHANGED <<storeVars, tickers, todo, current, own, stale, counted, errors,
                 fetched>>

FactsRaise(r) ==
  /\ At(r, "facts")
  /\ TickerError(r)
  /\ UNCHANGED <<storeVars, own, stale>>

-----------------------------------------------------------------------------
(* _publish_single_filing: the duplicate check, the publish, the record.   *)

(* Faulty variant: a filing that was published before is skipped, too. *)
SkipDuplicateOnTopic(r) ==
  /\ At(r, "publish")
  /\ \E f \in todo[r] :
        /\ Recorded(f) \/ OnTopic(f)
        /\ todo' = [todo EXCEPT ![r] = @ \ {f}]
        /\ counted' = [counted EXCEPT ![r] = @ \cup {<<"skipped", f>>}]
  /\ UNCHANGED <<storeVars, phase, tickers, ticker, current, own, stale,
                 processed, errors, fetched>>

SkipDuplicate(r) ==
  /\ At(r, "publish")
  /\ \E f \in todo[r] :
        /\ Recorded(f)
        /\ todo' = [todo EXCEPT ![r] = @ \ {f}]
        /\ counted' = [counted EXCEPT ![r] = @ \cup {<<"skipped", f>>}]
  /\ UNCHANGED <<storeVars, phase, tickers, ticker, current, own, stale,
                 processed, errors, fetched>>

CheckNew(r) ==
  /\ At(r, "publish")
  /\ \E f \in todo[r] :
        /\ ~ Recorded(f)
        /\ todo' = [todo EXCEPT ![r] = @ \ {f}]
        /\ current' = [current EXCEPT ![r] = f]
  /\ Goto(r, "produce")
  /\ UNCHANGED <<storeVars, tickers, ticker, own, stale, responseVars, fetched>>

CheckRaises(r) ==
  /\ At(r, "publish")
  /\ todo[r] # {}
  /\ TickerError(r)
  /\ UNCHANGED <<storeVars, own, stale>>

ProduceTooLarge(r) ==
  /\ At(r, "produce")
  /\ current[r] \in TooLarge
  /\ Returned(r, "skipped")
  /\ UNCHANGED <<storeVars, own, stale>>

(* Faulty variant: a full producer queue reported like an oversized filing. *)
ProduceRaisesSkipped(r) ==
  /\ At(r, "produce")
  /\ current[r] \notin TooLarge
  /\ Returned(r, "skipped")
  /\ UNCHANGED <<storeVars, own, stale>>

(* produce() raises BufferError or KafkaException. *)
ProduceRaises(r) ==
  /\ At(r, "produce")
  /\ current[r] \notin TooLarge
  /\ Returned(r, "failed")
  /\ UNCHANGED <<storeVars, own, stale>>

Produce(r) ==
  /\ At(r, "produce")
  /\ current[r] \notin TooLarge
  /\ own' = [own EXCEPT ![r] = "queued"]
  /\ Goto(r, "flush")
  /\ UNCHANGED <<storeVars, tickers, ticker, todo, current, stale, responseVars,
                 fetched>>

(* What flush() returns: the length of the whole queue of the process, the *)
(* messages of earlier calls that timed out included.                      *)
Remaining(r) == own[r] = "queued" \/ stale[HostOf[r]] # {}

(* Faulty variant: flush() with no timeout. *)
FlushNeverTimesOut(r) == FALSE /\ UNCHANGED vars

FlushTimesOut(r) ==
  /\ At(r, "flush")
  /\ Remaining(r)
  /\ Returned(r, "failed")
  /\ stale' = [stale EXCEPT ![HostOf[r]] =
                 IF own[r] = "queued" THEN @ \cup {current[r]} ELSE @]
  /\ own' = [own EXCEPT ![r] = "none"]
  /\ UNCHANGED storeVars

FlushRejected(r) ==
  /\ At(r, "flush")
  /\ ~ Remaining(r)
  /\ own[r] = "rejected"
  /\ Returned(r, "failed")
  /\ own' = [own EXCEPT ![r] = "none"]
  /\ UNCHANGED <<storeVars, stale>>

(* Faulty variant: the delivery_errors list is not consulted. *)
FlushDeliveredUnchecked(r) ==
  /\ At(r, "flush")
  /\ ~ Remaining(r)
  /\ own' = [own EXCEPT ![r] = "none"]
  /\ Goto(r, "record")
  /\ UNCHANGED <<storeVars, tickers, ticker, todo, current, stale, responseVars,
                 fetched>>

FlushDelivered(r) ==
  /\ At(r, "flush")
  /\ ~ Remaining(r)
  /\ own[r] = "acked"
  /\ own' = [own EXCEPT ![r] = "none"]
  /\ Goto(r, "record")
  /\ UNCHANGED <<storeVars, tickers, ticker, todo, current, stale, responseVars,
                 fetched>>

RecordIngestion(r) ==
  /\ At(r, "record")
  /\ InsertPublished(current[r])
  /\ Returned(r, "published")
  /\ UNCHANGED <<rawTopic, own, stale>>

(* The INSERT fails, or it is applied and the connection fails after it. *)
RecordRaises(r) ==
  /\ At(r, "record")
  /\ InsertPublished(current[r]) \/ UNCHANGED ingestionLog
  /\ TickerError(r)
  /\ UNCHANGED <<rawTopic, own, stale>>

-----------------------------------------------------------------------------
(* librdkafka and the broker.  Without idempotence a message whose         *)
(* acknowledgement is lost is appended and stays queued: it may be         *)
(* appended again, or expire (message.timeout.ms) although it is there.    *)

AckOwn(r) ==
  /\ own[r] = "queued"
  /\ AppendRaw(current[r])
  /\ own' = [own EXCEPT ![r] = "acked"]
  /\ UNCHANGED <<ingestionLog, handlerVars, stale, responseVars, fetched>>

LoseOwnAck(r) ==
  /\ own[r] = "queued"
  /\ AppendRaw(current[r])
  /\ UNCHANGED <<ingestionLog, ingestVars>>

RejectOwn(r) ==
  /\ own[r] = "queued"
  /\ own' = [own EXCEPT ![r] = "rejected"]
  /\ UNCHANGED <<storeVars, handlerVars, stale, responseVars, fetched>>

AckStale(i) ==
  /\ \E f \in stale[i] :
        /\ AppendRaw(f)
        /\ stale' = [stale EXCEPT ![i] = @ \ {f}]
  /\ UNCHANGED <<ingestionLog, handlerVars, own, responseVars, fetched>>

LoseStaleAck(i) ==
  /\ \E f \in stale[i] : AppendRaw(f)
  /\ UNCHANGED <<ingestionLog, ingestVars>>

ExpireStale(i) ==
  /\ \E f \in stale[i] : stale' = [stale EXCEPT ![i] = @ \ {f}]
  /\ UNCHANGED <<storeVars, handlerVars, own, responseVars, fetched>>

(* The process dies or is replaced: its handlers and its queue are gone,   *)
(* a response already returned stays with its client.                      *)
IngesterCrash(i) ==
  LET lost == {r \in Requests : HostOf[r] = i /\ phase[r] # "done"}
      Reset(fn, val) == [r \in Requests |-> IF r \in lost THEN val ELSE fn[r]]
  IN  /\ phase' = Reset(phase, "idle")
      /\ tickers' = Reset(tickers, <<>>)
      /\ ticker' = Reset(ticker, None)
      /\ todo' = Reset(todo, {})
      /\ current' = Reset(current, None)
      /\ own' = Reset(own, "none")
      /\ stale' = [stale EXCEPT ![i] = {}]
      /\ counted' = Reset(counted, {})
      /\ processed' = Reset(processed, {})
      /\ errors' = Reset(errors, {})
      /\ fetched' = Reset(fetched, {})
      /\ UNCHANGED storeVars

-----------------------------------------------------------------------------
HandlerStep(r) ==
  \/ NextTicker(r) \/ Finish(r) \/ FetchFilings(r) \/ FetchRaises(r)
  \/ EndFilings(r) \/ StoreFacts(r) \/ FactsRaise(r)
  \/ SkipDuplicate(r) \/ CheckNew(r) \/ CheckRaises(r)
  \/ ProduceTooLarge(r) \/ ProduceRaises(r) \/ Produce(r)
  \/ FlushTimesOut(r) \/ FlushRejected(r) \/ FlushDelivered(r)
  \/ RecordIngestion(r) \/ RecordRaises(r)

IngestNext ==
  \/ \E r \in Requests :
        PostIngest(r) \/ HandlerStep(r) \/ AckOwn(r) \/ LoseOwnAck(r) \/ RejectOwn(r)
  \/ \E i \in Ingesters :
        AckStale(i) \/ LoseStaleAck(i) \/ ExpireStale(i) \/ IngesterCrash(i)

Init == StoresInit /\ IngestInit

Spec == Init /\ [][IngestNext]_vars

(* A handler that can run does run: the loop serves its ready coroutines   *)
(* in turn (strong fairness, for the loop is taken and released by others) *)
(* and every blocking call has a timeout.  Nothing is assumed of EDGAR,    *)
(* Kafka or Postgres: answering badly is a handler step too.               *)
FairSpec == Spec /\ \A r \in Requests : SF_vars(HandlerStep(r))

-----------------------------------------------------------------------------
(* A row of ingestion_log suppresses the filing on every later run, so it  *)
(* may exist only once a copy of the filing is on filings.raw: whatever    *)
(* fails, times out, crashes or overlaps, no filing is recorded that the   *)
(* embedding workers will not see (_publish_single_filing's docstring).    *)
RecordedWasDelivered == \A f \in Filings : Recorded(f) => OnTopic(f)

(* What the response of request r, or ingestion_log, says of filing f. *)
Accounted(r, f) ==
  \/ Recorded(f)
  \/ f \in TooLarge
  \/ <<"failed", f>> \in counted[r]
  \/ \E t \in errors[r] : f \in FilingsOf[t]

(* No filing vanishes from a response.  Every filing EDGAR handed to a     *)
(* finished request is in ingestion_log, or too large to publish, or       *)
(* counted in filings_failed, or belongs to a ticker listed under errors:  *)
(* a caller who sees neither failures nor errors has everything ingested.  *)
EveryFilingAccounted ==
  \A r \in Requests : phase[r] = "done" => \A f \in fetched[r] : Accounted(r, f)

(* The duplicate check, the publish and the record are three separate      *)
(* calls; within one process no other handler can slip between them, so    *)
(* publish_filing is never called for a filing that has a row (FR-4).      *)
NeverRepublishRecorded ==
  [][\A r \in Requests :
       own[r] = "none" /\ own'[r] = "queued" => ~ Recorded(current[r])]_vars

(* Whatever EDGAR, Kafka and Postgres do, a request gets its response, or  *)
(* is lost with its process: no blocking call holds the loop for ever.     *)
RequestsEnd ==
  \A r \in Requests :
    phase[r] \notin {"idle", "done"} ~> phase[r] \in {"idle", "done"}

(* A failed filing is left unrecorded "on purpose: the next ingest run     *)
(* retries this filing" (_publish_single_filing).  Once failures cease and *)
(* as long as ingestion is requested again, every filing EDGAR delivered   *)
(* once is recorded: nothing left behind by a failure blocks the retry.    *)
RetryIngests ==
  \A r \in Requests : \A f \in Filings \ TooLarge :
    f \in fetched[r] ~> Recorded(f)

(* The strengthening of RecordedWasDelivered that every step preserves.    *)
DeliveryInv ==
  /\ IngestTypeOK
  /\ RecordedWasDelivered
  /\ \A r \in Requests : own[r] = "acked" => OnTopic(current[r])
  /\ \A r \in Requests : phase[r] = "record" => OnTopic(current[r])

(* The strengthening of EveryFilingAccounted: a filing not accounted for   *)
(* yet is still in the hands of the publish loop, of whose filings the     *)
(* failure of the current ticker would take account.                       *)
AccountOK(r) ==
  /\ phase[r] = "idle" => fetched[r] = {}
  /\ phase[r] \notin Synchronous => todo[r] = {}
  /\ phase[r] \notin Synchronous \ {"publish"} => current[r] = None
  /\ \A f \in todo[r] \cup ({current[r]} \ {None}) : f \in FilingsOf[ticker[r]]
  /\ \A f \in fetched[r] : Accounted(r, f) \/ f \in todo[r] \/ f = current[r]

AccountInv == IngestTypeOK /\ \A r \in Requests : AccountOK(r)

(* The strengthening of NeverRepublishRecorded, for one process: nobody    *)
(* records anything between a handler's duplicate check and its produce.   *)
CheckInv ==
  /\ IngestTypeOK
  /\ \A q, r \in Requests :
       phase[q] \in Synchronous /\ phase[r] \in Synchronous /\ HostOf[q] = HostOf[r]
         => q = r
  /\ \A r \in Requests : phase[r] = "produce" => ~ Recorded(current[r])
=============================================================================
