-------------------------- MODULE IngestionProofs --------------------------
(***************************************************************************)
(* RecordedWasDelivered, EveryFilingAccounted and NeverRepublishRecorded,  *)
(* for every number of processes, requests, filings and partitions.  The   *)
(* first is not inductive: what keeps it is that a handler about to record *)
(* has its filing on the topic, which in turn holds because "acked" is     *)
(* said only of a message that was appended, and the topic never loses     *)
(* one (DeliveryInv).  AccountInv says where a fetched filing is before it *)
(* is accounted for.  CheckInv says that nothing runs between a check and  *)
(* the publication it allows, which takes a single process.                *)
(***************************************************************************)
EXTENDS Ingestion, FilingStoresProofs

USE DEF Phases, Outcomes, Fates

(* All the workers ever see of this service are store steps. *)
LEMMA IngestStoreStep ==
  ASSUME IngestTypeOK, IngestNext
  PROVE  StoreStep
<1> USE DEF StoreStep, IngestTypeOK, storeVars, Messages
<1>1. ASSUME NEW r \in Requests, HandlerStep(r)
      PROVE  StoreStep
  <2>1. CASE RecordIngestion(r)
    BY <2>1 DEF RecordIngestion, At
  <2>2. CASE RecordRaises(r)
    BY <2>2 DEF RecordRaises, At
  <2>3. CASE \/ NextTicker(r) \/ Finish(r) \/ FetchFilings(r) \/ FetchRaises(r)
             \/ EndFilings(r) \/ StoreFacts(r) \/ FactsRaise(r)
             \/ SkipDuplicate(r) \/ CheckNew(r) \/ CheckRaises(r)
             \/ ProduceTooLarge(r) \/ ProduceRaises(r) \/ Produce(r)
             \/ FlushTimesOut(r) \/ FlushRejected(r) \/ FlushDelivered(r)
    BY <2>3 DEF NextTicker, Finish, FetchFilings, FetchRaises, EndFilings,
         StoreFacts, FactsRaise, SkipDuplicate, CheckNew, CheckRaises,
         ProduceTooLarge, ProduceRaises, Produce, FlushTimesOut, FlushRejected,
         FlushDelivered
  <2> QED
    BY <1>1, <2>1, <2>2, <2>3 DEF HandlerStep
<1>2. ASSUME NEW r \in Requests, AckOwn(r) \/ LoseOwnAck(r)
      PROVE  StoreStep
  <2>1. current[r] \in Filings /\ AppendRaw(current[r]) /\ UNCHANGED ingestionLog
    BY <1>2 DEF AckOwn, LoseOwnAck
  <2> QED
    BY <2>1
<1>3. ASSUME NEW r \in Requests, PostIngest(r) \/ RejectOwn(r)
      PROVE  StoreStep
  BY <1>3 DEF PostIngest, RejectOwn
<1>4. ASSUME NEW i \in Ingesters, AckStale(i) \/ LoseStaleAck(i)
      PROVE  StoreStep
  BY <1>4 DEF AckStale, LoseStaleAck
<1>5. ASSUME NEW i \in Ingesters, ExpireStale(i) \/ IngesterCrash(i)
      PROVE  StoreStep
  BY <1>5 DEF ExpireStale, IngesterCrash
<1> QED
  BY <1>1, <1>2, <1>3, <1>4, <1>5 DEF IngestNext

(* The initial state has the right types. *)
LEMMA IngestTypeInit == Init => IngestTypeOK
  BY StoresAssumption, IngestionAssumption
  DEF Init, StoresInit, IngestInit, IngestTypeOK, StoresTypeOK, Statuses

(* What a handler does once its ticker failed, or its filing is decided.   *)
LEMMA TickerErrorTypes ==
  ASSUME IngestTypeOK, NEW r \in Requests, phase[r] # "flush", TickerError(r),
         UNCHANGED <<own, stale>>, StoresTypeOK',
         phase[r] \notin {"idle", "next", "done"}
  PROVE  IngestTypeOK'
  BY DEF IngestTypeOK, TickerError, Goto

(* The same when _publish_single_filing has returned an outcome.           *)
LEMMA ReturnedTypes ==
  ASSUME IngestTypeOK, NEW r \in Requests, NEW outcome \in Outcomes,
         Returned(r, outcome), phase[r] \in {"produce", "flush", "record"},
         StoresTypeOK',
         own' = [own EXCEPT ![r] = "none"],
         stale' \in [Ingesters -> SUBSET Filings]
  PROVE  IngestTypeOK'
  BY DEF IngestTypeOK, Returned, Goto

(* Type correctness is preserved by every step. *)
LEMMA IngestTypeStep ==
  ASSUME IngestTypeOK, IngestNext
  PROVE  IngestTypeOK'
<1>1. StoresTypeOK /\ StoresTypeOK'
  BY IngestStoreStep, StoreStepKeeps DEF IngestTypeOK
<1>2. ASSUME NEW r \in Requests, HandlerStep(r)
      PROVE  IngestTypeOK'
  <2>1. CASE NextTicker(r)
    <3>1. tickers[r] \in Seq(Tickers) /\ tickers[r] # <<>>
      BY <2>1 DEF IngestTypeOK, NextTicker
    <3>2. Head(tickers[r]) \in Tickers /\ Tail(tickers[r]) \in Seq(Tickers)
      BY <3>1
    <3>3. Head(tickers[r]) # None
      BY <3>2, IngestionAssumption
    <3> QED
      BY <1>1, <2>1, <3>2, <3>3 DEF IngestTypeOK, NextTicker, At, Goto, responseVars
  <2>8. CASE Finish(r)
    BY <1>1, <2>8 DEF IngestTypeOK, Finish, At, Goto, responseVars
  <2>2. CASE FetchFilings(r)
    <3>1. ticker[r] \in Tickers
      BY <2>2 DEF IngestTypeOK, FetchFilings, At
    <3>2. FilingsOf[ticker[r]] \subseteq Filings
      BY <3>1, IngestionAssumption
    <3>3. PICK fs \in SUBSET Filings :
            /\ todo' = [todo EXCEPT ![r] = fs]
            /\ fetched' = [fetched EXCEPT ![r] = @ \cup fs]
      BY <2>2, <3>2 DEF FetchFilings
    <3>4. todo' \in [Requests -> SUBSET Filings] /\ fetched' \in [Requests -> SUBSET Filings]
      BY <3>3 DEF IngestTypeOK
    <3> QED
      BY <1>1, <2>2, <3>4 DEF IngestTypeOK, FetchFilings, At, Goto, responseVars
  <2>3. CASE FetchRaises(r) \/ FactsRaise(r) \/ CheckRaises(r) \/ RecordRaises(r)
    <3>1. /\ TickerError(r)
          /\ UNCHANGED <<own, stale>>
          /\ phase[r] \in {"fetch", "facts", "publish", "record"}
      BY <2>3 DEF FetchRaises, FactsRaise, CheckRaises, RecordRaises, At
    <3> QED
      BY <1>1, <3>1, TickerErrorTypes
  <2>4. CASE EndFilings(r)
    BY <1>1, <2>4 DEF IngestTypeOK, EndFilings, At, Goto, responseVars
  <2>10. CASE StoreFacts(r)
    <3>1. ticker[r] \in Tickers
      BY <2>10 DEF IngestTypeOK, StoreFacts, At
    <3>2. processed' \in [Requests -> SUBSET Tickers]
      BY <2>10, <3>1 DEF IngestTypeOK, StoreFacts
    <3> QED
      BY <1>1, <2>10, <3>2 DEF IngestTypeOK, StoreFacts, At, Goto
  <2>5. CASE SkipDuplicate(r)
    <3>1. PICK f \in Filings :
            /\ todo' = [todo EXCEPT ![r] = @ \ {f}]
            /\ counted' = [counted EXCEPT ![r] = @ \cup {<<"skipped", f>>}]
      BY <2>5 DEF SkipDuplicate, IngestTypeOK
    <3>2. counted' \in [Requests -> SUBSET (Outcomes \X Filings)]
      BY <3>1 DEF IngestTypeOK
    <3>3. todo' \in [Requests -> SUBSET Filings]
      BY <3>1 DEF IngestTypeOK
    <3>4. UNCHANGED <<phase, tickers, ticker, current, own, stale, processed, errors,
                      fetched>>
      BY <2>5 DEF SkipDuplicate
    <3> QED
      BY <1>1, <3>2, <3>3, <3>4 DEF IngestTypeOK
  <2>9. CASE CheckNew(r)
    <3>1. None \notin Filings
      BY StoresAssumption DEF Messages
    <3>2. PICK f \in Filings :
            /\ todo' = [todo EXCEPT ![r] = @ \ {f}]
            /\ current' = [current EXCEPT ![r] = f]
      BY <2>9 DEF CheckNew, IngestTypeOK
    <3>3. todo' \in [Requests -> SUBSET Filings]
      BY <3>2 DEF IngestTypeOK
    <3>4. current' \in [Requests -> Filings \cup {None}]
      BY <3>2 DEF IngestTypeOK
    <3>5. /\ phase' = [phase EXCEPT ![r] = "produce"]
          /\ phase[r] = "publish"
          /\ UNCHANGED <<tickers, ticker, own, stale, counted, processed, errors, fetched>>
      BY <2>9 DEF CheckNew, At, Goto, responseVars
    <3>6. \A q \in Requests :
            phase'[q] \in {"produce", "flush", "record"} => current'[q] # None
      BY <3>1, <3>2, <3>5 DEF IngestTypeOK
    <3> QED
      BY <1>1, <3>3, <3>4, <3>5, <3>6 DEF IngestTypeOK
  <2>6. CASE \/ ProduceTooLarge(r) \/ ProduceRaises(r) \/ FlushTimesOut(r)
             \/ FlushRejected(r) \/ RecordIngestion(r)
    <3>1. phase[r] \in {"produce", "flush", "record"}
      BY <2>6 DEF ProduceTooLarge, ProduceRaises, FlushTimesOut, FlushRejected,
           RecordIngestion, At
    <3>2. \/ Returned(r, "skipped") \/ Returned(r, "failed") \/ Returned(r, "published")
      BY <2>6 DEF ProduceTooLarge, ProduceRaises, FlushTimesOut, FlushRejected,
           RecordIngestion
    <3>3. own' = [own EXCEPT ![r] = "none"]
      BY <2>6 DEF ProduceTooLarge, ProduceRaises, FlushTimesOut, FlushRejected,
           RecordIngestion, At, IngestTypeOK
    <3>4. stale' \in [Ingesters -> SUBSET Filings]
      BY <2>6 DEF ProduceTooLarge, ProduceRaises, FlushTimesOut, FlushRejected,
           RecordIngestion, At, IngestTypeOK
    <3>5. CASE Returned(r, "skipped")
      BY <1>1, <3>1, <3>3, <3>4, <3>5, ReturnedTypes
    <3>6. CASE Returned(r, "failed")
      BY <1>1, <3>1, <3>3, <3>4, <3>6, ReturnedTypes
    <3>7. CASE Returned(r, "published")
      BY <1>1, <3>1, <3>3, <3>4, <3>7, ReturnedTypes
    <3> QED
      BY <3>2, <3>5, <3>6, <3>7
  <2>7. CASE Produce(r) \/ FlushDelivered(r)
    BY <1>1, <2>7 DEF IngestTypeOK, Produce, FlushDelivered, At, Goto, responseVars
  <2> QED
    BY <1>2, <2>1, <2>2, <2>3, <2>4, <2>5, <2>6, <2>7, <2>8, <2>9,
       <2>10     DEF HandlerStep
<1>3. ASSUME NEW r \in Requests, PostIngest(r)
      PROVE  IngestTypeOK'
  BY <1>1, <1>3, IngestionAssumption DEF IngestTypeOK, PostIngest, Goto
<1>4. ASSUME NEW r \in Requests, AckOwn(r) \/ LoseOwnAck(r) \/ RejectOwn(r)
      PROVE  IngestTypeOK'
  BY <1>1, <1>4 DEF IngestTypeOK, AckOwn, LoseOwnAck, RejectOwn, ingestVars,
       handlerVars, responseVars
<1>5. ASSUME NEW i \in Ingesters, AckStale(i) \/ LoseStaleAck(i) \/ ExpireStale(i)
      PROVE  IngestTypeOK'
  BY <1>1, <1>5 DEF IngestTypeOK, AckStale, LoseStaleAck, ExpireStale, ingestVars,
       handlerVars, responseVars
<1>6. ASSUME NEW i \in Ingesters, IngesterCrash(i)
      PROVE  IngestTypeOK'
  BY <1>1, <1>6 DEF IngestTypeOK, IngesterCrash
<1> QED
  BY <1>2, <1>3, <1>4, <1>5, <1>6 DEF IngestNext

(* The variables keep their types for every value of the constants. *)
THEOREM IngestTypeCorrect == Spec => []IngestTypeOK
<1>1. IngestTypeOK /\ [IngestNext]_vars => IngestTypeOK'
  <2>1. CASE IngestNext
    BY <2>1, IngestTypeStep
  <2>2. CASE UNCHANGED vars
    BY <2>2 DEF IngestTypeOK, StoresTypeOK, vars, storeVars, ingestVars, handlerVars,
         responseVars
  <2> QED
    BY <2>1, <2>2
<1> QED
  BY <1>1, IngestTypeInit, PTL DEF Spec

-----------------------------------------------------------------------------
(* A handler touches nobody else's message or phase; it acknowledges none  *)
(* itself, and starts to record only what was acknowledged.                *)
LEMMA HandlerFrame ==
  ASSUME IngestTypeOK, NEW r \in Requests, HandlerStep(r)
  PROVE  /\ \A q \in Requests \ {r} :
              own'[q] = own[q] /\ current'[q] = current[q] /\ phase'[q] = phase[q]
         /\ own'[r] # "acked"
         /\ phase'[r] = "record" => own[r] = "acked" /\ current'[r] = current[r]
<1> USE DEF IngestTypeOK, At, Goto
<1>1. CASE FlushDelivered(r)
  BY <1>1 DEF FlushDelivered
<1>2. CASE NextTicker(r) \/ Finish(r) \/ FetchFilings(r) \/ EndFilings(r) \/ StoreFacts(r)
  BY <1>2 DEF NextTicker, Finish, FetchFilings, EndFilings, StoreFacts
<1>3. CASE FetchRaises(r) \/ FactsRaise(r) \/ CheckRaises(r) \/ RecordRaises(r)
  BY <1>3 DEF FetchRaises, FactsRaise, CheckRaises, RecordRaises, TickerError
<1>4. CASE SkipDuplicate(r) \/ CheckNew(r) \/ Produce(r)
  BY <1>4 DEF SkipDuplicate, CheckNew, Produce
<1>5. CASE ProduceTooLarge(r) \/ ProduceRaises(r) \/ RecordIngestion(r)
  BY <1>5 DEF ProduceTooLarge, ProduceRaises, RecordIngestion, Returned
<1>6. CASE FlushTimesOut(r) \/ FlushRejected(r)
  BY <1>6 DEF FlushTimesOut, FlushRejected, Returned
<1> QED
  BY <1>1, <1>2, <1>3, <1>4, <1>5, <1>6 DEF HandlerStep

(* What it takes for a message to become acknowledged, or for a handler to *)
(* start recording.                                                        *)
LEMMA AcknowledgedOrAppended ==
  ASSUME IngestTypeOK, IngestNext, NEW q \in Requests
  PROVE  /\ own'[q] = "acked" =>
              /\ current'[q] = current[q]
              /\ own[q] = "acked" \/ AckOwn(q)
         /\ phase'[q] = "record" =>
              /\ current'[q] = current[q]
              /\ phase[q] = "record" \/ own[q] = "acked"
<1> USE DEF IngestTypeOK
<1> DEFINE Acknowledged ==
      own'[q] = "acked" =>
        /\ current'[q] = current[q]
        /\ own[q] = "acked" \/ AckOwn(q)
    Recording ==
      phase'[q] = "record" =>
        /\ current'[q] = current[q]
        /\ phase[q] = "record" \/ own[q] = "acked"
<1>1. ASSUME NEW r \in Requests, HandlerStep(r)
      PROVE  Acknowledged /\ Recording
  <2>1. CASE q = r
    BY <1>1, <2>1, HandlerFrame
  <2>2. CASE q # r
    BY <1>1, <2>2, HandlerFrame
  <2> QED
    BY <2>1, <2>2
<1>2. ASSUME NEW r \in Requests, PostIngest(r)
      PROVE  Acknowledged /\ Recording
  BY <1>2 DEF PostIngest, Goto
<1>3. ASSUME NEW r \in Requests, AckOwn(r)
      PROVE  Acknowledged /\ Recording
  <2>1. CASE q = r
    BY <1>3, <2>1 DEF AckOwn, handlerVars
  <2>2. CASE q # r
    BY <1>3, <2>2 DEF AckOwn, handlerVars
  <2> QED
    BY <2>1, <2>2
<1>4. ASSUME NEW r \in Requests, LoseOwnAck(r) \/ RejectOwn(r)
      PROVE  Acknowledged /\ Recording
  BY <1>4 DEF LoseOwnAck, RejectOwn, ingestVars, handlerVars
<1>5. ASSUME NEW i \in Ingesters, AckStale(i) \/ LoseStaleAck(i) \/ ExpireStale(i)
      PROVE  Acknowledged /\ Recording
  BY <1>5 DEF AckStale, LoseStaleAck, ExpireStale, ingestVars, handlerVars
<1>6. ASSUME NEW i \in Ingesters, IngesterCrash(i)
      PROVE  Acknowledged /\ Recording
  BY <1>6 DEF IngesterCrash
<1>7. Acknowledged /\ Recording
  BY <1>1, <1>2, <1>3, <1>4, <1>5, <1>6 DEF IngestNext
<1> QED
  BY <1>7

(* The initial state satisfies the strengthened invariant.                 *)
LEMMA DeliveryInit == Init => DeliveryInv
<1> SUFFICES ASSUME Init PROVE DeliveryInv
  OBVIOUS
<1>1. IngestTypeOK
  BY IngestTypeInit
<1>2. RecordedWasDelivered
  BY DEF Init, StoresInit, RecordedWasDelivered, Recorded
<1> QED
  BY <1>1, <1>2 DEF DeliveryInv, Init, IngestInit

(* DeliveryInv is inductive.  Rows appear only in RecordIngestion and      *)
(* RecordRaises, for a filing already on the topic; "record" is entered    *)
(* only by FlushDelivered, on an acknowledged message; "acked" is said     *)
(* only by AckOwn, which appends.                                          *)
LEMMA DeliveryStep ==
  ASSUME DeliveryInv, IngestNext
  PROVE  DeliveryInv'
<1>1. IngestTypeOK /\ IngestTypeOK'
  BY IngestTypeStep DEF DeliveryInv
<1>2. \A f \in Filings : OnTopic(f) => OnTopic(f)'
  BY <1>1, IngestStoreStep, StoreStepKeeps DEF IngestTypeOK
<1>3. \A q \in Requests : own[q] = "acked" \/ phase[q] = "record" => current[q] \in Filings
  BY <1>1 DEF IngestTypeOK
<1>4. RecordedWasDelivered'
  <2> SUFFICES ASSUME NEW f \in Filings, Recorded(f)'
               PROVE  OnTopic(f)'
    BY DEF RecordedWasDelivered
  <2>1. CASE Recorded(f)
    BY <1>2, <2>1 DEF DeliveryInv, RecordedWasDelivered
  <2>2. CASE ~ Recorded(f)
    <3>1. ingestionLog'[f] # ingestionLog[f]
      BY <2>2 DEF Recorded
    <3>2. PICK r \in Requests :
            /\ At(r, "record")
            /\ InsertPublished(current[r]) \/ UNCHANGED ingestionLog
      BY <3>1 DEF IngestNext, HandlerStep, PostIngest, NextTicker, Finish, FetchFilings,
           FetchRaises, EndFilings, StoreFacts, FactsRaise, SkipDuplicate, CheckNew,
           CheckRaises, ProduceTooLarge, ProduceRaises, Produce, FlushTimesOut,
           FlushRejected, FlushDelivered, RecordIngestion, RecordRaises, AckOwn,
           LoseOwnAck, RejectOwn, AckStale, LoseStaleAck, ExpireStale, IngesterCrash,
           storeVars
    <3>3. f = current[r]
      BY <1>1, <3>1, <3>2 DEF InsertPublished, IngestTypeOK, StoresTypeOK
    <3>4. OnTopic(f)
      BY <3>2, <3>3 DEF At, DeliveryInv
    <3> QED
      BY <1>2, <3>4
  <2> QED
    BY <2>1, <2>2
<1>5. ASSUME NEW q \in Requests, own'[q] = "acked"
      PROVE  OnTopic(current[q])'
  <2>1. /\ current'[q] = current[q]
        /\ own[q] = "acked" \/ AckOwn(q)
    BY <1>1, <1>5, AcknowledgedOrAppended
  <2>2. PICK f \in Filings : f = current[q]
    BY <1>1, <1>5, <2>1 DEF IngestTypeOK
  <2>3. OnTopic(f)'
    <3>1. CASE own[q] = "acked"
      BY <1>2, <2>2, <3>1 DEF DeliveryInv
    <3>2. CASE AckOwn(q)
      <4>1. AppendRaw(f)
        BY <2>2, <3>2 DEF AckOwn
      <4> QED
        BY <1>1, <4>1, AppendKeepsMessages DEF Messages, IngestTypeOK
    <3> QED
      BY <2>1, <2>2, <3>1, <3>2
  <2> QED
    BY <2>1, <2>2, <2>3 DEF OnTopic
<1>6. ASSUME NEW q \in Requests, phase'[q] = "record"
      PROVE  OnTopic(current[q])'
  <2>1. /\ current'[q] = current[q]
        /\ phase[q] = "record" \/ own[q] = "acked"
    BY <1>1, <1>6, AcknowledgedOrAppended
  <2>2. PICK f \in Filings : f = current[q]
    BY <1>3, <2>1
  <2>3. OnTopic(f)'
    BY <1>2, <2>1, <2>2 DEF DeliveryInv
  <2> QED
    BY <2>1, <2>2, <2>3 DEF OnTopic
<1> QED
  BY <1>1, <1>4, <1>5, <1>6 DEF DeliveryInv

(* A filing that has an ingestion_log row was delivered to filings.raw.    *)
THEOREM RecordedWasDeliveredCorrect == Spec => []RecordedWasDelivered
<1>1. DeliveryInv /\ [IngestNext]_vars => DeliveryInv'
  <2>1. CASE IngestNext
    BY <2>1, DeliveryStep
  <2>2. CASE UNCHANGED vars
    BY <2>2 DEF DeliveryInv, RecordedWasDelivered, Recorded, OnTopic, IngestTypeOK,
         StoresTypeOK, vars, storeVars, ingestVars, handlerVars, responseVars
  <2> QED
    BY <2>1, <2>2
<1>2. DeliveryInv => RecordedWasDelivered
  BY DEF DeliveryInv
<1> QED
  BY <1>1, <1>2, DeliveryInit, PTL DEF Spec

-----------------------------------------------------------------------------
(* What a request's response is made of. *)
Touches(q) ==
  << phase[q], ticker[q], todo[q], current[q], counted[q], errors[q], fetched[q] >>

(* A handler works on its own request alone. *)
LEMMA HandlerTouchesOwn ==
  ASSUME IngestTypeOK, NEW r \in Requests, HandlerStep(r), NEW q \in Requests \ {r}
  PROVE  Touches(q)' = Touches(q)
<1> USE DEF IngestTypeOK, At, Goto, Touches, responseVars
<1>1. CASE NextTicker(r) \/ Finish(r) \/ FetchFilings(r) \/ EndFilings(r) \/ StoreFacts(r)
  BY <1>1 DEF NextTicker, Finish, FetchFilings, EndFilings, StoreFacts
<1>2. CASE FetchRaises(r) \/ FactsRaise(r) \/ CheckRaises(r) \/ RecordRaises(r)
  BY <1>2 DEF FetchRaises, FactsRaise, CheckRaises, RecordRaises, TickerError
<1>3. CASE SkipDuplicate(r) \/ CheckNew(r) \/ Produce(r) \/ FlushDelivered(r)
  BY <1>3 DEF SkipDuplicate, CheckNew, Produce, FlushDelivered
<1>4. CASE ProduceTooLarge(r) \/ ProduceRaises(r) \/ RecordIngestion(r)
  BY <1>4 DEF ProduceTooLarge, ProduceRaises, RecordIngestion, Returned
<1>5. CASE FlushTimesOut(r) \/ FlushRejected(r)
  BY <1>5 DEF FlushTimesOut, FlushRejected, Returned
<1> QED
  BY <1>1, <1>2, <1>3, <1>4, <1>5 DEF HandlerStep

(* What was accounted for stays so while the request is not touched. *)
LEMMA AccountKept ==
  ASSUME NEW q \in Requests, AccountOK(q), Touches(q)' = Touches(q), IngestTypeOK,
         \A f \in Filings : Recorded(f) => Recorded(f)'
  PROVE  AccountOK(q)'
  BY DEF AccountOK, Accounted, Touches, IngestTypeOK

(* The failure of a ticker accounts for all its filings. *)
LEMMA TickerErrorAccounts ==
  ASSUME IngestTypeOK, NEW r \in Requests, AccountOK(r), TickerError(r),
         \A f \in Filings : Recorded(f) => Recorded(f)'
  PROVE  AccountOK(r)'
<1>1. /\ phase'[r] = "next" /\ todo'[r] = {} /\ current'[r] = None
      /\ errors'[r] = errors[r] \cup {ticker[r]}
      /\ counted'[r] = counted[r] /\ fetched'[r] = fetched[r]
  BY DEF TickerError, Goto, IngestTypeOK
<1>2. ASSUME NEW f \in fetched[r]
      PROVE  Accounted(r, f)'
  <2>1. f \in Filings
    BY DEF IngestTypeOK
  <2>2. CASE Accounted(r, f)
    BY <1>1, <2>1, <2>2 DEF Accounted
  <2>3. CASE f \in todo[r] \/ f = current[r]
    <3>1. f # None
      BY <2>1, StoresAssumption DEF Messages
    <3>2. f \in FilingsOf[ticker[r]]
      BY <2>3, <3>1 DEF AccountOK
    <3> QED
      BY <1>1, <3>2 DEF Accounted
  <2> QED
    BY <2>2, <2>3 DEF AccountOK
<1> QED
  BY <1>1, <1>2 DEF AccountOK, Synchronous

(* An outcome accounts for the filing in hand: "skipped" is said of a      *)
(* filing that is too large, "published" of one that has its row.          *)
LEMMA ReturnedAccounts ==
  ASSUME IngestTypeOK, NEW r \in Requests, AccountOK(r), NEW outcome, Returned(r, outcome),
         phase[r] \in {"produce", "flush", "record"},
         outcome = "failed" \/ current[r] \in TooLarge \/ ingestionLog'[current[r]] # "absent",
         \A f \in Filings : Recorded(f) => Recorded(f)'
  PROVE  AccountOK(r)'
<1>1. /\ phase'[r] = "publish" /\ todo'[r] = todo[r] /\ current'[r] = None
      /\ counted'[r] = counted[r] \cup {<<outcome, current[r]>>}
      /\ errors'[r] = errors[r] /\ fetched'[r] = fetched[r] /\ ticker'[r] = ticker[r]
  BY DEF Returned, Goto, IngestTypeOK
<1>2. ASSUME NEW f \in fetched[r]
      PROVE  Accounted(r, f)' \/ f \in todo'[r]
  <2>1. f \in Filings
    BY DEF IngestTypeOK
  <2>2. CASE Accounted(r, f)
    BY <1>1, <2>1, <2>2 DEF Accounted
  <2>3. CASE f \in todo[r]
    BY <1>1, <2>3
  <2>4. CASE f = current[r]
    BY <1>1, <2>4 DEF Accounted, Recorded
  <2> QED
    BY <2>2, <2>3, <2>4 DEF AccountOK
<1> QED
  BY <1>1, <1>2 DEF AccountOK, Synchronous

(* A step of a handler keeps account of its own filings: a filing leaves   *)
(* the publish loop only through one of the outcomes.                      *)
LEMMA HandlerAccounts ==
  ASSUME IngestTypeOK, NEW r \in Requests, AccountOK(r), HandlerStep(r),
         \A f \in Filings : Recorded(f) => Recorded(f)'
  PROVE  AccountOK(r)'
<1> USE DEF At, Goto
<1>1. CASE FetchRaises(r) \/ FactsRaise(r) \/ CheckRaises(r) \/ RecordRaises(r)
  BY <1>1, TickerErrorAccounts DEF FetchRaises, FactsRaise, CheckRaises, RecordRaises
<1>2. CASE ProduceRaises(r) \/ FlushTimesOut(r) \/ FlushRejected(r)
  BY <1>2, ReturnedAccounts DEF ProduceRaises, FlushTimesOut, FlushRejected
<1>3. CASE ProduceTooLarge(r)
  BY <1>3, ReturnedAccounts DEF ProduceTooLarge
<1>4. CASE RecordIngestion(r)
  <2>1. current[r] \in Filings
    BY <1>4 DEF RecordIngestion, IngestTypeOK
  <2>2. ingestionLog'[current[r]] # "absent"
    BY <1>4, <2>1 DEF RecordIngestion, InsertPublished, IngestTypeOK, StoresTypeOK
  <2> QED
    BY <1>4, <2>2, ReturnedAccounts DEF RecordIngestion
<1>5. CASE NextTicker(r) \/ Finish(r) \/ StoreFacts(r)
  <2>1. /\ phase[r] \in {"next", "facts"} /\ phase'[r] \in {"fetch", "done", "next"}
        /\ todo'[r] = todo[r] /\ current'[r] = current[r]
        /\ counted'[r] = counted[r] /\ errors'[r] = errors[r] /\ fetched'[r] = fetched[r]
    BY <1>5 DEF NextTicker, Finish, StoreFacts, IngestTypeOK, responseVars
  <2>2. todo[r] = {} /\ current[r] = None
    BY <2>1 DEF AccountOK, Synchronous
  <2>3. \A f \in fetched[r] : Accounted(r, f)' \/ f \in todo'[r] \/ f = current'[r]
    BY <2>1 DEF AccountOK, Accounted, IngestTypeOK
  <2> QED
    BY <2>1, <2>2, <2>3 DEF AccountOK, Synchronous
<1>6. CASE FetchFilings(r)
  <2>1. PICK fs \in SUBSET FilingsOf[ticker[r]] :
          todo'[r] = fs /\ fetched'[r] = fetched[r] \cup fs
    BY <1>6 DEF FetchFilings, IngestTypeOK
  <2>2. /\ phase[r] = "fetch" /\ phase'[r] = "publish" /\ current'[r] = current[r]
        /\ ticker'[r] = ticker[r] /\ counted'[r] = counted[r] /\ errors'[r] = errors[r]
    BY <1>6 DEF FetchFilings, IngestTypeOK, responseVars
  <2>3. todo[r] = {} /\ current[r] = None
    BY <2>2 DEF AccountOK, Synchronous
  <2>4. \A f \in fetched'[r] : Accounted(r, f)' \/ f \in todo'[r] \/ f = current'[r]
    BY <2>1, <2>2, <2>3 DEF AccountOK, Accounted, IngestTypeOK
  <2> QED
    BY <2>1, <2>2, <2>3, <2>4 DEF AccountOK, Synchronous
<1>7. CASE EndFilings(r) \/ Produce(r) \/ FlushDelivered(r)
  <2>1. /\ phase[r] \in Synchronous /\ phase'[r] \in {"facts", "flush", "record"}
        /\ phase'[r] = "facts" => todo[r] = {} /\ current[r] = None
        /\ todo'[r] = todo[r] /\ current'[r] = current[r] /\ ticker'[r] = ticker[r]
        /\ counted'[r] = counted[r] /\ errors'[r] = errors[r] /\ fetched'[r] = fetched[r]
    BY <1>7 DEF EndFilings, Produce, FlushDelivered, IngestTypeOK, responseVars,
         AccountOK, Synchronous
  <2>2. \A f \in fetched[r] : Accounted(r, f)' \/ f \in todo'[r] \/ f = current'[r]
    BY <2>1 DEF AccountOK, Accounted, IngestTypeOK
  <2> QED
    BY <2>1, <2>2 DEF AccountOK, Synchronous
<1>8. CASE SkipDuplicate(r)
  <2>1. PICK g \in todo[r] :
          /\ Recorded(g)
          /\ todo'[r] = todo[r] \ {g} /\ counted'[r] = counted[r] \cup {<<"skipped", g>>}
    BY <1>8 DEF SkipDuplicate, IngestTypeOK
  <2>2. /\ phase[r] = "publish" /\ phase'[r] = "publish" /\ current'[r] = current[r]
        /\ ticker'[r] = ticker[r] /\ errors'[r] = errors[r] /\ fetched'[r] = fetched[r]
    BY <1>8 DEF SkipDuplicate
  <2>3. \A f \in fetched[r] : Accounted(r, f)' \/ f \in todo'[r] \/ f = current'[r]
    BY <2>1, <2>2 DEF AccountOK, Accounted, IngestTypeOK
  <2> QED
    BY <2>1, <2>2, <2>3 DEF AccountOK, Synchronous
<1>9. CASE CheckNew(r)
  <2>1. PICK g \in todo[r] : todo'[r] = todo[r] \ {g} /\ current'[r] = g
    BY <1>9 DEF CheckNew, IngestTypeOK
  <2>2. /\ phase[r] = "publish" /\ phase'[r] = "produce" /\ ticker'[r] = ticker[r]
        /\ counted'[r] = counted[r] /\ errors'[r] = errors[r] /\ fetched'[r] = fetched[r]
    BY <1>9 DEF CheckNew, IngestTypeOK, responseVars
  <2>3. \A f \in fetched[r] : f # None /\ (Recorded(f) => Recorded(f)')
    BY StoresAssumption DEF IngestTypeOK, Messages
  <2>4. \A f \in fetched[r] : Accounted(r, f)' \/ f \in todo'[r] \/ f = current'[r]
    BY <2>1, <2>2, <2>3 DEF AccountOK, Accounted, Synchronous
  <2> QED
    BY <2>1, <2>2, <2>4 DEF AccountOK, Synchronous
<1> QED
  BY <1>1, <1>2, <1>3, <1>4, <1>5, <1>6, <1>7, <1>8, <1>9 DEF HandlerStep

(* AccountInv is inductive. *)
LEMMA AccountStep ==
  ASSUME AccountInv, IngestNext
  PROVE  AccountInv'
<1>1. IngestTypeOK /\ IngestTypeOK'
  BY IngestTypeStep DEF AccountInv
<1>2. \A f \in Filings : Recorded(f) => Recorded(f)'
  BY <1>1, IngestStoreStep, StoreStepKeeps DEF IngestTypeOK, Recorded
<1>3. ASSUME NEW r \in Requests, HandlerStep(r), NEW q \in Requests
      PROVE  AccountOK(q)'
  <2>1. CASE q = r
    BY <1>1, <1>2, <1>3, <2>1, HandlerAccounts DEF AccountInv
  <2>2. CASE q # r
    BY <1>1, <1>2, <1>3, <2>2, HandlerTouchesOwn, AccountKept DEF AccountInv
  <2> QED
    BY <2>1, <2>2
<1>4. ASSUME NEW r \in Requests, PostIngest(r), NEW q \in Requests
      PROVE  AccountOK(q)'
  <2>1. CASE q = r
    <3>1. /\ phase[r] \in {"idle", "done"} /\ phase'[r] = "next"
          /\ todo'[r] = todo[r] /\ current'[r] = current[r] /\ fetched'[r] = {}
      BY <1>1, <1>4 DEF PostIngest, Goto, IngestTypeOK
    <3> QED
      BY <2>1, <3>1 DEF AccountInv, AccountOK, Synchronous
  <2>2. CASE q # r
    <3>1. Touches(q)' = Touches(q)
      BY <1>1, <1>4, <2>2 DEF PostIngest, Goto, Touches, IngestTypeOK
    <3> QED
      BY <1>1, <1>2, <3>1, AccountKept DEF AccountInv
  <2> QED
    BY <2>1, <2>2
<1>5. ASSUME NEW r \in Requests, AckOwn(r) \/ LoseOwnAck(r) \/ RejectOwn(r),
             NEW q \in Requests
      PROVE  AccountOK(q)'
  <2>1. Touches(q)' = Touches(q)
    BY <1>5 DEF AckOwn, LoseOwnAck, RejectOwn, ingestVars, handlerVars, responseVars, Touches
  <2> QED
    BY <1>1, <1>2, <2>1, AccountKept DEF AccountInv
<1>6. ASSUME NEW i \in Ingesters, AckStale(i) \/ LoseStaleAck(i) \/ ExpireStale(i),
             NEW q \in Requests
      PROVE  AccountOK(q)'
  <2>1. Touches(q)' = Touches(q)
    BY <1>6 DEF AckStale, LoseStaleAck, ExpireStale, ingestVars, handlerVars, responseVars,
         Touches
  <2> QED
    BY <1>1, <1>2, <2>1, AccountKept DEF AccountInv
<1>7. ASSUME NEW i \in Ingesters, IngesterCrash(i), NEW q \in Requests
      PROVE  AccountOK(q)'
  <2>1. CASE HostOf[q] = i /\ phase[q] # "done"
    <3>1. phase'[q] = "idle" /\ todo'[q] = {} /\ current'[q] = None /\ fetched'[q] = {}
      BY <1>7, <2>1 DEF IngesterCrash
    <3> QED
      BY <3>1 DEF AccountOK
  <2>2. CASE ~ (HostOf[q] = i /\ phase[q] # "done")
    <3>1. Touches(q)' = Touches(q)
      BY <1>7, <2>2 DEF IngesterCrash, Touches
    <3> QED
      BY <1>1, <1>2, <3>1, AccountKept DEF AccountInv
  <2> QED
    BY <2>1, <2>2
<1> QED
  BY <1>1, <1>3, <1>4, <1>5, <1>6, <1>7 DEF AccountInv, IngestNext

(* Every filing EDGAR handed to a finished request is accounted for.       *)
THEOREM EveryFilingAccountedCorrect == Spec => []EveryFilingAccounted
<1>1. Init => AccountInv
  BY IngestTypeInit DEF Init, IngestInit, AccountInv, AccountOK
<1>2. AccountInv /\ [IngestNext]_vars => AccountInv'
  <2>1. CASE IngestNext
    BY <2>1, AccountStep
  <2>2. CASE UNCHANGED vars
    BY <2>2 DEF AccountInv, AccountOK, Accounted, Recorded, IngestTypeOK, StoresTypeOK,
         vars, storeVars, ingestVars, handlerVars, responseVars
  <2> QED
    BY <2>1, <2>2
<1>3. AccountInv => EveryFilingAccounted
  <2> SUFFICES ASSUME AccountInv, NEW r \in Requests, phase[r] = "done",
                      NEW f \in fetched[r]
               PROVE  Accounted(r, f)
    BY DEF EveryFilingAccounted
  <2>1. todo[r] = {} /\ current[r] = None
    BY DEF AccountInv, AccountOK, Synchronous
  <2>2. f # None
    BY StoresAssumption DEF AccountInv, IngestTypeOK, Messages
  <2> QED
    BY <2>1, <2>2 DEF AccountInv, AccountOK
<1> QED
  BY <1>1, <1>2, <1>3, PTL DEF Spec

-----------------------------------------------------------------------------
(* Every request is served by one process, as the service is deployed.     *)
OneProcess == \A q, r \in Requests : HostOf[q] = HostOf[r]

(* Who is in the publish loop, what for, and what that took. *)
LEMMA HandlerEnters ==
  ASSUME IngestTypeOK, NEW r \in Requests, HandlerStep(r)
  PROVE  /\ HasLoop(r)
         /\ phase'[r] = "produce" => current'[r] \in Filings /\ ~ Recorded(current'[r])
         /\ phase'[r] = "produce" => UNCHANGED ingestionLog
         /\ ~ (ingestionLog' = ingestionLog) => phase[r] \in Synchronous
         /\ own'[r] = "queued" /\ own[r] = "none" => phase[r] = "produce"
<1> USE DEF IngestTypeOK, At, Goto, Synchronous
<1>1. CASE CheckNew(r)
  BY <1>1 DEF CheckNew, storeVars
<1>2. CASE NextTicker(r) \/ Finish(r) \/ FetchFilings(r) \/ EndFilings(r) \/ StoreFacts(r)
  BY <1>2 DEF NextTicker, Finish, FetchFilings, EndFilings, StoreFacts, storeVars
<1>3. CASE FetchRaises(r) \/ FactsRaise(r) \/ CheckRaises(r) \/ RecordRaises(r)
  BY <1>3 DEF FetchRaises, FactsRaise, CheckRaises, RecordRaises, TickerError, storeVars
<1>4. CASE SkipDuplicate(r) \/ Produce(r) \/ FlushDelivered(r)
  BY <1>4 DEF SkipDuplicate, Produce, FlushDelivered, storeVars
<1>5. CASE ProduceTooLarge(r) \/ ProduceRaises(r) \/ RecordIngestion(r)
  BY <1>5 DEF ProduceTooLarge, ProduceRaises, RecordIngestion, Returned, storeVars
<1>6. CASE FlushTimesOut(r) \/ FlushRejected(r)
  BY <1>6 DEF FlushTimesOut, FlushRejected, Returned, storeVars
<1> QED
  BY <1>1, <1>2, <1>3, <1>4, <1>5, <1>6 DEF HandlerStep

(* CheckInv is inductive when there is one process: a handler steps only   *)
(* while nobody else is in the publish loop, so the row it may insert      *)
(* changes the verdict of no check that still counts.                      *)
LEMMA CheckStep ==
  ASSUME OneProcess, CheckInv, IngestNext
  PROVE  CheckInv'
<1>1. IngestTypeOK /\ IngestTypeOK'
  BY IngestTypeStep DEF CheckInv
<1> DEFINE
      Alone == \A q, r \in Requests :
        phase'[q] \in Synchronous /\ phase'[r] \in Synchronous /\ HostOf[q] = HostOf[r]
          => q = r
      Checked == \A r \in Requests :
        phase'[r] = "produce" => ~ (ingestionLog'[current'[r]] # "absent")
<1>2. ASSUME UNCHANGED <<phase, current, ingestionLog>>
      PROVE  Alone /\ Checked
  BY <1>2 DEF CheckInv, Recorded
<1>3. ASSUME NEW r \in Requests, HandlerStep(r)
      PROVE  Alone /\ Checked
  <2>1. \A q \in Requests \ {r} :
          /\ phase[q] \notin Synchronous
          /\ phase'[q] = phase[q]
    BY <1>1, <1>3, HandlerEnters, HandlerFrame DEF OneProcess, HasLoop
  <2>2. Alone
    BY <2>1
  <2>3. Checked
    BY <1>1, <1>3, <2>1, HandlerEnters DEF Recorded, Synchronous
  <2> QED
    BY <2>2, <2>3
<1>4. ASSUME NEW r \in Requests, PostIngest(r)
      PROVE  Alone /\ Checked
  <2>1. /\ phase' = [phase EXCEPT ![r] = "next"] /\ UNCHANGED <<current, ingestionLog>>
    BY <1>4 DEF PostIngest, Goto, storeVars
  <2>2. Alone
    BY <1>1, <2>1 DEF CheckInv, IngestTypeOK, Synchronous
  <2>3. Checked
    BY <1>1, <2>1 DEF CheckInv, IngestTypeOK, Recorded
  <2> QED
    BY <2>2, <2>3
<1>5. ASSUME NEW r \in Requests, AckOwn(r) \/ LoseOwnAck(r) \/ RejectOwn(r)
      PROVE  UNCHANGED <<phase, current, ingestionLog>>
  BY <1>5 DEF AckOwn, LoseOwnAck, RejectOwn, ingestVars, handlerVars, storeVars
<1>6. ASSUME NEW i \in Ingesters, AckStale(i) \/ LoseStaleAck(i) \/ ExpireStale(i)
      PROVE  UNCHANGED <<phase, current, ingestionLog>>
  BY <1>6 DEF AckStale, LoseStaleAck, ExpireStale, ingestVars, handlerVars, storeVars
<1>7. ASSUME NEW i \in Ingesters, IngesterCrash(i)
      PROVE  Alone /\ Checked
  <2>1. /\ ingestionLog' = ingestionLog
        /\ \A q \in Requests :
             phase'[q] = "idle" \/ (phase'[q] = phase[q] /\ current'[q] = current[q])
    BY <1>7 DEF IngesterCrash, storeVars
  <2>2. Alone
    BY <2>1 DEF CheckInv, Synchronous
  <2>3. Checked
    BY <2>1 DEF CheckInv, Recorded
  <2> QED
    BY <2>2, <2>3
<1>8. Alone /\ Checked
  BY <1>2, <1>3, <1>4, <1>5, <1>6, <1>7 DEF IngestNext
<1> QED
  BY <1>1, <1>8 DEF CheckInv, Recorded

(* What a handler queues is the filing it has just checked.                *)
LEMMA QueuedWasChecked ==
  ASSUME CheckInv, [IngestNext]_vars, NEW q \in Requests, own[q] = "none", own'[q] = "queued"
  PROVE  ~ Recorded(current[q])
<1>1. IngestTypeOK
  BY DEF CheckInv
<1>2. ASSUME NEW r \in Requests, HandlerStep(r)
      PROVE  phase[q] = "produce"
  <2>1. CASE q = r
    BY <1>1, <1>2, <2>1, HandlerEnters
  <2>2. CASE q # r
    BY <1>1, <1>2, <2>2, HandlerFrame
  <2> QED
    BY <2>1, <2>2
<1>3. ASSUME NEW r \in Requests,
             PostIngest(r) \/ AckOwn(r) \/ LoseOwnAck(r) \/ RejectOwn(r)
      PROVE  FALSE
  BY <1>1, <1>3 DEF PostIngest, AckOwn, LoseOwnAck, RejectOwn, ingestVars, IngestTypeOK
<1>4. ASSUME NEW i \in Ingesters,
             AckStale(i) \/ LoseStaleAck(i) \/ ExpireStale(i) \/ IngesterCrash(i)
      PROVE  FALSE
  <2>1. CASE IngesterCrash(i)
    BY <2>1 DEF IngesterCrash
  <2>2. CASE AckStale(i) \/ LoseStaleAck(i) \/ ExpireStale(i)
    BY <2>2 DEF AckStale, LoseStaleAck, ExpireStale, ingestVars
  <2> QED
    BY <1>4, <2>1, <2>2
<1>5. CASE UNCHANGED vars
  BY <1>5 DEF vars, ingestVars
<1>6. CASE IngestNext
  <2>1. CASE \E r \in Requests : HandlerStep(r)
    BY <1>2, <2>1 DEF CheckInv
  <2>2. CASE \E r \in Requests :
               PostIngest(r) \/ AckOwn(r) \/ LoseOwnAck(r) \/ RejectOwn(r)
    BY <1>3, <2>2
  <2>3. CASE \E i \in Ingesters :
               AckStale(i) \/ LoseStaleAck(i) \/ ExpireStale(i) \/ IngesterCrash(i)
    BY <1>4, <2>3
  <2> QED
    BY <1>6, <2>1, <2>2, <2>3 DEF IngestNext
<1> QED
  BY <1>5, <1>6

(* With one process, publish_filing is never called for a recorded filing. *)
THEOREM NeverRepublishRecordedCorrect ==
  ASSUME OneProcess
  PROVE  Spec => NeverRepublishRecorded
<1>1. Init => CheckInv
  BY IngestTypeInit DEF Init, IngestInit, CheckInv, Synchronous
<1>2. CheckInv /\ [IngestNext]_vars => CheckInv'
  <2>1. CASE IngestNext
    BY <2>1, CheckStep
  <2>2. CASE UNCHANGED vars
    BY <2>2 DEF CheckInv, Recorded, IngestTypeOK, StoresTypeOK,
         vars, storeVars, ingestVars, handlerVars, responseVars
  <2> QED
    BY <2>1, <2>2
<1>3. CheckInv /\ [IngestNext]_vars =>
        [\A r \in Requests :
           own[r] = "none" /\ own'[r] = "queued" => ~ Recorded(current[r])]_vars
  BY QueuedWasChecked
<1> QED
  BY <1>1, <1>2, <1>3, PTL DEF Spec, NeverRepublishRecorded
=============================================================================
