# FinDocRAG in TLA+

FinDocRAG ingests SEC 10-K filings and answers questions about them. Three Python
services share one Kafka cluster and one Postgres database. This directory holds TLA+
models of the services, TLC configurations that check them on small instances, and proofs
that TLAPS checks for every instance. Paths below are relative to the repository
(`services/...`, `db/...`, `docs/...`).

- [Inventory](#inventory)
- [How the parts interact](#how-the-parts-interact)
- [Modules](#modules)
- [Model and code](#model-and-code)
- [Runs](#runs)
- [Fairness](#fairness)
- [Proofs](#proofs)
- [Where code and documents disagree](#where-code-and-documents-disagree)
- [Not modelled](#not-modelled)
- [Plan](#plan)

## Inventory

| Component | Source | State | Operations |
|---|---|---|---|
| Ingestion service | `ingestion/src/main.py` | per request: tickers to do, current filing, counters, errors | `POST /v1/ingest`, health, start, stop |
| Filing producer | `ingestion/src/kafka_producer.py` | librdkafka's queue, the delivery result of the current call | `publish_filing`: size test, `produce`, `flush`, callback |
| Ingestion database | `ingestion/src/db.py`, `db/migrations/` | `ingestion_log`, `financial_facts` | `is_already_ingested`, `record_ingestion`, `store_financial_facts` |
| SEC EDGAR client | `ingestion/src/edgar_client.py` | semaphore, ticker-to-CIK cache | `resolve_cik`, `list_10k_filings`, `fetch_filing_document`, `fetch_company_facts`, `get_filings_for_ticker`, retries |
| HTML parser | `ingestion/src/html_parser.py` | none | `extract_text` |
| XBRL extraction | `ingestion/src/facts.py` | none | `extract_annual_facts` |
| Embedding worker | `embedding-worker/src/main.py` | consumer position, committed offset, message in hand, producer queue | poll, parse, attempt, retry, dead-letter, commit; health, start, stop |
| Chunk store | `embedding-worker/src/store.py` | a shared connection and its transaction; `document_chunks`, `ingestion_log.status` | `store_chunks`, `update_ingestion_status` |
| Chunker | `embedding-worker/src/chunker.py` | none (locals of `chunk_filing`) | sections, paragraphs, packing, windows, ids |
| Embedder | `embedding-worker/src/embedder.py` | the model | `embed_texts` |
| Drift detector | `embedding-worker/src/drift_detector.py` | none | a read-only batch job |
| Query service | `query-api/src/main.py`, `rag/retriever.py` | shared connection and its session, two locks, a flag | query, documents, health |
| Fusion and re-ranking | `rag/retriever.py` | none | `_fuse_rrf`, `_apply_mmr` |
| Document list | `rag/retriever.py` | none | `list_documents` |
| Facts lookup | `rag/facts.py` | a shared connection, without a lock | `facts_for_question` |
| Generator, prompts, LLM backends | `rag/generator.py`, `rag/prompts.py`, `llm/*` | none between calls | `answer`, `generate` |
| Authentication, rate limit, models | `query-api/src/auth.py`, `models.py` | none | |
| Metrics, configuration, deployment, evaluation | `*/metrics.py`, `ingestion/src/config.py`, `helm/`, `docker-compose.yml`, `eval/run_eval.py` | counters nothing reads | |

What makes each of them correct:

- **Ingestion**: a row of `ingestion_log` makes every later request skip its filing, so it may
  exist only when the message is on `filings.raw`; every filing fetched is accounted for in
  the response; a failed filing is retried by the next request; requests end.
- **Worker**: an offset is committed only past messages that were handled (stored, empty, or
  routed to the dead letters); EMBEDDED means that all chunks are there; a message on
  `filings.embedded` is true; no message blocks its partition.
- **Both together**: a filing moves through *on the topic, recorded, stored, embedded* one
  stage at a time and never back; a recorded filing is never silently lost.
- **EDGAR client**: a ticker is "unknown" only if the SEC does not list it; a result lacks
  exactly the filings that failed, and one that does not parse is skipped; calls end; the rate limit holds.
- **Chunker**: every token of a filing is in a chunk, of the right section; no chunk is larger than the chunk size;
  packing is greedy; ids differ.
- **Query service**: each vector query runs under its own session settings; one connection, no
  leak; an outage of Postgres heals by itself, so that what fails later was refused; locks are released on every path.
- **Facts**: the most recently filed value wins and is never undone; the preferred concept wins; threads that
  replace the connection do not cost each other their figures.
- **Chunk store**: a filing's chunks are durable all at once and before its status, whatever the health probe does on
  the same connection.
- **Ranking**: the nearest chunk is never lost, what both searches agree on is not reversed, a more relevant chunk is passed over
  only for being redundant.
- **Document list**: a client that pages to the end has seen every filing, up to filings that share a date.

## How the parts interact

    client --POST /v1/ingest--> ingestion --HTTP--> SEC EDGAR
                                   | 1. is_already_ingested?        Postgres: ingestion_log
                                   | 2. produce, flush, acknowledged Kafka: filings.raw
                                   | 3. record_ingestion            Postgres: ingestion_log
                                   | 4. XBRL facts                  Postgres: financial_facts
    Kafka: filings.raw --> embedding worker(s), one group
                                   | 5. chunk, embed, store_chunks  Postgres: document_chunks (FK to 3)
                                   | 6. status EMBEDDED             Postgres: ingestion_log
                                   | 7. confirmation                Kafka: filings.embedded
                                   |    or the dead letter          Kafka: filings.dlq
                                   | 8. commit of the offset
    client --query--> query API --> Postgres (vector, lexical, facts) --> LLM

The hard behaviour is where these steps meet. Steps 2 and 3 are not atomic, so a worker can
reach step 5 between them and fail on the foreign key until its retries are spent. A flush
that times out leaves its message in the producer's queue, from where it is delivered later.
Steps 5 and 6 are two transactions. The commit is asynchronous, and a worker that has lost its
partition goes on with its message. Anything may crash between any two steps. In the query
API, worker threads share one database session, and another for facts without a lock; in the worker, the
health probe shares the consumer thread's. `PROJECT.json` lists these hazards line by
line with the properties that watch them.

## Modules

| Module | Models | Extends |
|---|---|---|
| `FilingStores` | `ingestion_log` and `filings.raw`, shared by the services | |
| `Ingestion` | ingestion service, producer, duplicate check and record | `FilingStores` |
| `EmbeddingWorker` | worker, chunk store, consumer group | `FilingStores` |
| `FilingPipeline` | both services and dead-letter replay | `Ingestion`, `EmbeddingWorker` |
| `FilingLifecycle` | abstract: the stages of a filing | |
| `EdgarClient` | EDGAR client | |
| `Chunker` | `chunk_filing` | |
| `QueryService` | query API threads and their Postgres connection | |
| `FinancialFacts` | extraction, upsert and lookup of XBRL facts | |
| `FactsConnection` | the connection of `FactsRepository`, shared without a lock | |
| `StoreConnection` | the connection of `ChunkStore`, shared with the health probe | |
| `Retrieval` | fusion, cut and re-ranking of search results | |
| `Documents` | `GET /v1/documents`, page after page | |
| `*Proofs` | theorems about the module they are named after; `ConnectionProofs` is about `FactsConnection` and `StoreConnection`, `QueryServiceProofs` also about `Documents` and `Retrieval`, `LoopProofs` about `EdgarClient` and `Chunker` | |
| `MC*` | instances for TLC; `MCPipelineRecovery` adds a bound on failures, `MCEdgarRate` counts requests per second, `MCSideBySide` holds five parts that share no state | |

An operator whose comment begins "Faulty variant" stands before the definition it distorts. It
is used by no specification; it is there so that one can put it in the definition's place and
see the property fail that guards against it.

## Model and code

### FilingStores

`ingestionLog[f]` is the `status` of f's row or `None` without one; `InsertPublished` is
`INSERT ... ON CONFLICT DO NOTHING`. `rawTopic[p]` is partition p as the sequence of messages
appended. Filings are keyed, so a filing's copies share a partition. `MaxTopic` bounds the
messages of a partition (`RoomFor`); it is in the guards of the appending actions, so with the
bound reached a delivery does not happen, which is a failure the code handles. Retention is not
modelled: the topic keeps messages longer than workers lag.

### Ingestion

One handler per element of `Requests`, on the process `HostOf[r]`. `phase[r]` is where the
coroutine stands: the ticker loop (`next`), an await of EDGAR (`fetch`, `facts`), and the synchronous
part (`publish`, `produce`, `flush`, `record`) during which `HasLoop` keeps the other handlers of
that process out, as the event loop does: `_publish_single_filing` has no await. Handlers of different
processes interleave anywhere.

`own[r]` is the fate of the message of the current `publish_filing` call: queued, acknowledged or
rejected, by steps of librdkafka's thread. If `flush` returns with messages left in the
queue, own or stale (`Remaining`), the call fails and its message joins `stale[i]`, from where
it may still be delivered, at any time, or expire. An append whose acknowledgement is lost
(`LoseOwnAck`, `LoseStaleAck`) is retried by librdkafka and appended twice. `stale[i]` is a set: two stale
copies of a filing are one, and the second append is what `LoseStaleAck` allows.

Each call to Postgres may raise instead (`CheckRaises`, `RecordRaises`, `FactsRaise`), as may `produce`
and EDGAR; the exception abandons the ticker (`TickerError`). `FetchFilings` returns any subset of the
ticker's filings, for EDGAR's client skips what it cannot fetch. They are visited in any order.
`IngesterCrash` stands for death and for shutdown; a graceful shutdown is weaker, and its steps are
those of a request that ends, followed by the crash of an idle process. The `503` answers for "not
initialized" cannot occur once `lifespan` has run, and an empty list of tickers is refused before
anything happens; neither is a step. `counted`, `processed`, `errors` are the response;
`fetched` is a history variable for the properties and steers nothing.

### EmbeddingWorker

The group coordinator is `owner[p]`, `position[p]` and `committed[p]`. `Poll` takes the next message of
a partition the worker owns; a malformed one goes straight to the dead-letter step. `step[w]`
then follows `_process_filing`: `process` (chunk, embed and `store_chunks`, one transaction, guarded by the
foreign key), `status` (the second transaction), `confirm` (a message queued on the producer), and any of them
may fail (`AttemptFails`), which starts the attempt again or, with the retries spent, leads to
`dlq`. Chunking and embedding change nothing outside, so their failure is one with that of the
transaction after them. `PublishToDlq` queues the dead letter in `outbox[w]`; `DeliverOutbox` and `DropOutbox` are
librdkafka's. `PublishToDlqRaises` is the swallowed exception. `Commit` stores the offset, or
loses it: the commit is asynchronous, and the coordinator accepts one from a member that is about to
lose its partition. `Rebalance` and `Assign` move a partition between workers while the previous owner keeps its
message in hand. A consumer error returned by `poll` changes nothing and is no step.

`StoreChunks` and `UpdateStatus` are atomic here. `StoreConnection` is where that is justified, and where the one case in which it fails is
described.

Pauses between attempts, and the fact that shutdown cuts them short, need no modelling where an
attempt may fail at any time.

### FilingPipeline and FilingLifecycle

The composition interleaves the two services over the shared stores. `Replay` is the operator's
documented step of republishing a dead letter (`docs/technical-design-document.md:683`).
`FilingLifecycle` is what the services promise together: each filing goes
`new, onTopic, recorded, stored, embedded`. `StageOf` reads the stage off the stores, and
`ImplementsLifecycle` says that the pipeline implements it.

### EdgarClient

Callers are coroutines that ask for filings or for company facts. `pc[c]` names the await a call is at, `goal[c]` what
the call in progress is for. Time is counted in ticks of `1/RateLimit` seconds, the length of the pause a permit
holder makes after a good answer; `rest[c]` is what is left of a pause or a backoff. `ClientError` is any answer
that `_with_retries` catches; it frees the permit without a pause. The ticker map is read whole (`MapLoaded`) or
breaks off (`MapRaises`), leaving one of `BrokenMaps` in the cache; the runs let it leave nothing. A submissions document of
another shape raises too (`SubmissionsRaise`).
`extract_text` is text (`DocumentParsed`), nothing (`DocumentEmpty`) or an exception (`DocumentRaises`).

`listing[c]` is what `list_10k_filings` returned; `filings[c]` and `failed[c]` name filings by their place in it, as two entries of EDGAR's
parallel arrays may be equal in all that is kept of them. `ListFilings` is the loop over those arrays, one entry per step of a recursive
function on the number of entries read.

### Chunker

A document is a sequence of paragraphs, of which only the number of tokens matters; one that reads as an item header has the item's number.
Headers and paragraphs are separated by blank lines and known by their place, and spans are measured in tokens instead of characters. `Counted` is what `pack_paragraphs` adds up for a
group, one token a joiner; `Joined` is what `split_by_token_window` finds when it encodes the joined text. The two differ, as byte-pair encoding is not additive: `joint` is the number of
tokens that joining a paragraph to the one before adds, none when the newlines merge with the end of the text before, several when that end is split anew. (That it never takes tokens away is the
one assumption; a joint that did would only make joined texts shorter.) So a group that was packed to fit may be cut into windows, and `PackingGreedy` speaks of the counts. `best`
keeps one header per item while the document is scanned; `cut` is the header up to which it has been split. A chunk
keeps its group of paragraphs and the window of tokens taken from it, so that the
properties can tell where each token went. Ids are numbers: the digits of the item followed by those of the index,
in base `Radix`. Each pass of a loop in the code is one step.

### QueryService

Threads serve questions and health probes. `conns` is every connection opened: whether Postgres's end is
`alive`, whether the driver knows it to be `closed`, and the two session settings. `conn`, `connLock`, `searchLock` and `unsupported` are the
retriever's fields. A thread picks a cursor (`GetConn`), reconnecting under the lock, and keeps it even when another thread
replaces the connection. A statement may fail because its connection is broken, which the driver then knows, or be refused by a server that is up (a filter that is no date, an
embedding of another dimension, a cancelled statement), after which the connection goes on in autocommit; a connection may be refused by a server that is up (`ConnectFails`). `connect()` assigns
`self._conn` before it calls `register_vector`, so a registration that fails leaves a connection that later requests use; this does no harm, since with
the pinned `pgvector==0.3.*` (`query-api/requirements.txt:7`) the type is registered for the whole process and the first connection has done it. `LegFails` says what a failure means in each leg: HTTP 500 in the vector leg, no rows in the
lexical one, 503 for the probe. The lock of the embedding model is taken and released around one call that touches nothing else and is
left out, and fusion, re-ranking, prompt and the LLM's answer are the one step `Generate`. A connect that hangs
is not modelled (`psycopg2.connect` is called without a timeout). Outages are bounded by `MaxOutages`.

### FinancialFacts

One company. `Documents` are the successive versions of its companyfacts document, as sequences of items with concept, period,
filing date, value and whether `_is_annual_period` and the form tests accept the item. A request fetches the current version,
extracts its annual items and upserts them one statement at a time, interleaved with other requests; a failure
leaves the rows written so far. `ExtractAnnualFacts` says which entries remain in `best` at the end of its loop; `pending[r]` is the set of those not yet
stored, and `StoreFact` takes them in the order of the code's `sorted` (`SortedBefore`). A lookup reads the rows of a concept group in one statement, newest year first and in any order within
a year.

### FactsConnection

`conns` is every connection opened, with the state of its transaction; `conn` is `FactsRepository._conn`. `connect()` is two steps, because it
publishes the connection before it sets autocommit, and sets it on whatever `self._conn` is by then (`rag/facts.py:129`). psycopg2 refuses
the setting inside a transaction, and a statement without autocommit opens one. A connection that is replaced is closed by
CPython once the last cursor on it is gone, so a replaced connection leaks nothing and is not tracked. `clean[t]` and `reconnected[t]` are history:
whether anything but other threads' reconnections has disturbed the lookup.

The scenario behind `UnsetOnlyIfOvertaken`: a thread reconnects, another runs its statement before autocommit is set, setting it raises, and the
first question goes without figures. Later lookups work, inside one long transaction; but as soon as one statement fails, Postgres refuses all others,
nothing rolls back, and no question gets figures until the connection breaks or the process restarts.

### StoreConnection

The consumer thread writes a filing by two transactions (`task`), each a `_get_conn`, statements, and a commit or rollback on the connection it
got. `execute_values` sends the rows in pages, so `store_chunks` is several `INSERT`s (`Pages`). The probe takes the same route up to its one statement, and never ends the
transaction that statement is in. Either replaces a connection that the driver knows to be closed. `Cancelled` is any statement that Postgres refuses on a live
connection; it aborts the transaction. A commit of an aborted transaction rolls back without an exception (`Committed`), as Postgres answers `COMMIT` with
`ROLLBACK` and psycopg2 does not look. `CommitUnanswered` is a commit that succeeds and whose answer is lost: the attempt is repeated and
`ON CONFLICT DO NOTHING` absorbs it. `durable` is a set for the same reason. `spoilt` records the one exception: a statement of the probe has failed inside the consumer's transaction.

### Retrieval

One request at a time, as nothing is shared: its inputs are the two rankings. They are arbitrary sequences of chunks, for the HNSW index is approximate, the
lexical leg ranks by words or returns nothing, and the table changes between the statements. `FuseRrf` is `_fuse_rrf` and the cut to `candidate_k`: the keys of `rrf_scores` (`Seen`) in the one order that agrees with `RankedBefore`. Ties keep the order in which the code
first sees a chunk (`SeenBefore`), as `sorted` is stable and dictionaries keep insertion order. `SelectChunk` is one pass of `_apply_mmr`'s loop, and `Remaining` the places of the candidates its list `remaining` still holds. Scores are exact: reciprocals are multiples of `1/Scale`, similarities
integers, and `lambda_mmr` is its default of one half. What floating point does to near-ties is left out.

### Documents

A client asks for pages until it gets a short one; it is outside the repository. `Count` and `Page` are two statements of an autocommit session, with
`RecordFiling` anywhere in between. `Page` takes any order that agrees with `ORDER BY filing_date DESC`, as the query names no tie-breaker.

## Runs

| Run | Instance | Checks |
|---|---|---|
| `MCIngestionOneProcess` | 1 process, 2 requests, each for one of 2 tickers, with 2 filings and 1 too large; 2 messages a partition | `IngestTypeOK`, `RecordedWasDelivered`, `EveryFilingAccounted`, `NeverRepublishRecorded`, `RequestsEnd` |
| `MCWorkersOnePartition` | 2 workers, 1 partition, 2 copies of a filing, 1 retry | `WorkerTypeOK`, `CommittedMeansHandled`, `EmbeddedHasAllChunks`, `ConfirmationTruthful` |
| `MCWorkersPoison` | 1 worker, 1 partition, 2 messages of 3 kinds: filing, empty filing, malformed message; 1 retry | `EveryMessageHandled` |
| `MCWorkersLoss` | 1 worker, 1 message | `NoMessageLoss`, violated |
| `MCPipelineTwoProcesses` | 2 ingestion processes, 2 requests, 1 worker, 1 filing | `NoFilingLost`, `ImplementsLifecycle` |
| `MCPipelineRecovery` | 1 request for 2 companies (one without filings), 1 worker, 1 filing, 3 failures, requests and replay repeated | `RecordedIsEmbedded`, `RetryIngests` |
| `MCEdgarClient` | 2 callers, 1 permit, 3 tickers, 6 list entries | `EdgarTypeOK`, `UnknownMeansUnlisted`, `OnlyFailedFilingsMissing`, `CallsEnd` |
| `MCEdgarParse` | 1 caller, the same listings | `FilingsThatFailAreSkipped`, violated |
| `MCEdgarRate` | 2 callers, 2 permits | `RateRespected`, violated |
| `MCChunker` | all documents of up to 3 headers, 2 items and 6 texts | `ChunkerTypeOK`, `EveryTokenInItsSection`, `PackingGreedy`, `AscendingIdsUnique` |
| `MCQueryService` | 2 threads, 2 values of `candidate_k`, 2 outages | `SelectTuned`, `OneConnection`, `OutagesHeal`, `QueriesEnd` |
| `MCSideBySide` | 4 chunks, pools of 2 to 4; 4 filings, pages of 1 or 2; 2 requests that store and 1 thread that reads 3 versions of 3 concepts in 3 periods; 3 threads on the facts connection, 1 outage, 1 error; 1 filing of 2 `INSERT`s, 2 outages, 1 error | `NearestKept`, `AgreementRanksFirst`, `PassedOverForRedundancy`, `FilingsListed`, `ShortPageIsLast`, `FactsTypeOK`, `RowsAsReported`, `StoredVersionHolds`, `FiguresNeverOlder`, `PriorityWins`, `OnlyReconnectsFail`, `UnsetOnlyIfOvertaken`, `StoredBeforeEmbedded` |

Why the instances are large enough:

- **Ingestion.** Two requests are the least that overlap, two filings the least of which one can be stale while the next is
  flushed, two messages the least that make a duplicate. The recovery run has room for a copy of each filing and one per failure
  (`MaxTopic = 5`), so the bound never causes the failure it observes; three failures are enough for a failure, another during the
  retry and one that leaves a stale message behind.
- **Worker.** Two copies of a filing and two workers reach each order of zombie, new owner, lost and late commit, one retry
  distinguishes first, repeated and last attempt. `MCWorkersPoison` checks liveness, which the symmetric run cannot (`SYMMETRY` and liveness do not mix): any two
  messages of a filing with chunks, a filing without and a malformed one, or one of them twice, stand behind each other in the partition, so
  that one which is never processed has another waiting for it. One partition is enough for that, as partitions share nothing but the worker, which takes one message
  at a time from any of them; two partitions of two messages each are more than TLC can check for liveness in minutes. The worker's proofs are for any number of both.
- **Pipeline.** Two processes are what gets a filing published twice and recorded in between. `MCView` leaves out the
  response and history variables, which no pipeline step or property reads.
- **EDGAR.** Two callers and one permit make them wait for each other in every order; two retries distinguish first,
  middle and last; the submissions list has entries of each kind the filter drops.
- **Chunker.** `MaxTokens = 6` and `Overlap = 1` make texts of one, two and three windows with both kinds of ends. One text is three paragraphs that fit by their counts
  and come to seven tokens when joined, one whose joints cost nothing. Items 1 and 3 in base 2 are `1` and
  `11`, as Items 1 and 11 in base 10.
- **QueryService.** Two threads are enough for one to hold a cursor that the other makes obsolete. The second outage hits
  while the first is being repaired.
- **MCSideBySide.** `Retrieval`: pools smaller than, as large as and larger than what the legs return; `RrfK = 1` makes ranks differ as
  far as they can, so that sums of two low ranks and single high ranks cross and tie; the embeddings are two near-duplicate pairs. `Documents`: four filings, two of one date, make
  a page end inside a date and before one. `FactsConnection`: three threads are one that reconnects, one that overtakes it and a bystander. `StoreConnection`: two pages tell a half-written
  filing from a whole one; the second outage hits while the first is being repaired or makes the commit's answer late. `FinancialFacts`: two requests
  are the least of which one can be late, three versions are new, restated, and with a renamed tag. The last two periods end in one calendar year, and a question about two groups and two years meets the cap.

## Fairness

- `RequestsEnd`, `RetryIngests`: strong fairness of a handler's steps. The event loop serves ready coroutines in turn, but
  whether one can run changes with others taking and leaving the loop, hence strong. A step may be a failing one; only `MCPipelineRecovery`
  assumes that after `MaxFailures` failures steps succeed, that librdkafka delivers or expires what it holds, and that requests are repeated.
- `EveryMessageHandled`: weak fairness of each worker's loop and of the assignment of an unowned partition, and
  `<>[][~Disruption]`: rebalances and crashes come to an end, as a group that never settles handles nothing. Attempts may
  fail for ever.
- `RecordedIsEmbedded`: weak fairness of workers, delivery, assignment and of the operator's replay, after the bounded failures.
- `CallsEnd`: time passes, and strong fairness of a caller: `asyncio.Semaphore` is first come, first served, and requests
  have a total timeout.
- `QueriesEnd`: strong fairness of threads, for a lock that is repeatedly free is eventually obtained. Nothing is assumed of Postgres.

Runs whose properties are safety use the specification without fairness.

## Proofs

TLAPS checks every theorem to the last leaf, from the assumptions on constants named in the modules
(`StoresAssumption` and the like), for any number of filings, processes, requests, partitions, workers, chunks, retries, threads, outages and pages.

| Theorem | Says |
|---|---|
| `IngestTypeCorrect` | `Spec => []IngestTypeOK` |
| `RecordedWasDeliveredCorrect` | `Spec => []RecordedWasDelivered` |
| `EveryFilingAccountedCorrect` | `Spec => []EveryFilingAccounted` |
| `NeverRepublishRecordedCorrect` | `OneProcess` implies `Spec => NeverRepublishRecorded` |
| `WorkerTypeCorrect` | `WorkerSpec => []WorkerTypeOK` |
| `CommittedMeansHandledCorrect` | `WorkerSpec => []CommittedMeansHandled` |
| `EmbeddedHasAllChunksCorrect` | `WorkerSpec => []EmbeddedHasAllChunks` |
| `ConfirmationTruthfulCorrect` | `WorkerSpec => []ConfirmationTruthful` |
| `NoFilingLostCorrect` | `PipelineSpec => []NoFilingLost` |
| `ImplementsLifecycleCorrect` | `PipelineSpec => ImplementsLifecycle` |
| `SelectTunedCorrect` | `QuerySpec => []SelectTuned` |
| `OneConnectionCorrect` | `QuerySpec => []OneConnection` |
| `OutagesHealCorrect` | `QuerySpec => []OutagesHeal` |
| `OnlyReconnectsFailCorrect` | `FactsConnSpec => []OnlyReconnectsFail` |
| `UnsetOnlyIfOvertakenCorrect` | `FactsConnSpec => []UnsetOnlyIfOvertaken` |
| `StoredBeforeEmbeddedCorrect` | `StoreConnSpec => []StoredBeforeEmbedded` |
| `EdgarTypeCorrect` | `EdgarSpec => []EdgarTypeOK` |
| `PermitsBound` | `EdgarSpec => []` at most `RateLimit` callers hold a permit |
| `ListFilingsCorrect` | `ListFilings(es)` is the first `MaxFilings` eligible entries of `es`, in order |
| `OnlyFailedFilingsMissingCorrect` | `EdgarSpec => []OnlyFailedFilingsMissing` |
| `UnknownMeansUnlistedCorrect` | `WholeMaps` implies `EdgarSpec => []UnknownMeansUnlisted` |
| `ChunkerTypeCorrect` | `ChunkerSpec => []ChunkerTypeOK` |
| `EveryTokenInItsSectionCorrect` | `ChunkerSpec => []EveryTokenInItsSection` |
| `PackingGreedyCorrect` | `ChunkerSpec => []PackingGreedy` |
| `AscendingIdsUniqueCorrect` | `ChunkerSpec => []AscendingIdsUnique` |
| `FilingsListedCorrect` | `DocumentsSpec => []FilingsListed` |
| `ShortPageIsLastCorrect` | `DocumentsSpec => []ShortPageIsLast` |
| `NearestKeptCorrect` | `RetrievalSpec => []NearestKept` |
| `AgreementRanksFirstCorrect` | `RetrievalSpec => []AgreementRanksFirst` |
| `PassedOverForRedundancyCorrect` | `RetrievalSpec => []PassedOverForRedundancy` |
| `FactsTypeCorrect` | `FactsSpec => []FactsTypeOK` |
| `RowsAsReportedCorrect` | `FactsSpec => []RowsAsReported` |
| `StoredVersionHoldsCorrect` | `FactsSpec => []StoredVersionHolds` |
| `FiguresNeverOlderCorrect` | `FactsSpec => FiguresNeverOlder` |
| `PriorityWinsCorrect` | `FactsSpec => PriorityWins` |

**Ingestion.** `RecordedWasDelivered` alone is not inductive: `RecordIngestion` needs to know that the message was
delivered. `DeliveryInv` adds it at the two places where the code relies on it, an acknowledged own message and the record phase. The
step from one to the other is `FlushDelivered`, which is where the code tests the callback's result. The topic only
grows (`OnTopicStable`), so what was delivered stays so.

`EveryFilingAccounted` is about requests that have left a ticker behind. `AccountInv` says what becomes of a filing before: each one fetched is accounted
for, or still to be visited, or the current one; outside the publish loop nothing is left to visit, so that the end of the loop accounts for all.
`TickerErrorAccounts` is the step that a test would hardly reach: an exception anywhere drops the filings not visited, and the ticker's error stands for them.

`NeverRepublishRecorded` holds because nothing runs between the duplicate check and `produce`, so its theorem assumes `OneProcess`; with two processes
it is false, as the pipeline's run shows that a filing may be published twice. `CheckInv` is the argument: at most one handler of a process is in the
synchronous part (`HasLoop` is its guard), and one about to call `produce` has a filing without a row.

**Worker.** `CommittedMeansHandled` is about offsets, and a commit is made by a worker that knows only its own message. `WorkerInv`
therefore says also: an owner's partition is handled up to its position except for the message in its hands (`OwnerCaughtUp`);
all messages before the one in a worker's hands are handled, even if it has lost the partition since (`EarlierHandled`), which is
what makes late commits harmless; what a worker knows of its message at each step (`InHandFacts`), chunks stored before the status is
set, the row EMBEDDED before the confirmation, the message handled before the commit; and chunks have a row (`ChunksHaveRow`), the
foreign key. All facts are about stores that only grow (`MonotoneStores`), so that other workers' steps keep them (`FactsKept`) and only the
worker's own steps teach it new ones (`FactsLearnt`).

**Pipeline.** A step of ingestion changes the stores in one of three ways, which `StoreStep` names: append, insert a row, nothing; each keeps `WorkerInv`
(`WorkerInvStores`). The pipeline's invariant is the conjunction of both services'. `NoFilingLost` follows: a recorded
filing is on the topic, either past the committed offset or handled. For the refinement, `StageFacts` collects what the invariant says of a stage,
`SameStage` shows that a step that leaves a filing's facts alone leaves its stage, and `OneFilingAdvances` that a step which changes one
filing's facts by one stage is a step of `FilingLifecycle`.

**Query service.** All three follow from `QueryInv`. At its bottom is `OnlyCurrentAlive`: a connection other than the current one is dead, and the
current one is marked closed only after it died; it holds because the thread that replaces the connection holds `connLock` and found it closed
(`ReplacedWhenClosed`). `OneConnection` is a consequence. `SelectTuned` needs its own first half, `ScanTuned`, and that a tuning thread holds
`searchLock` (in `QueryTypeOK`): another thread cannot be tuning, and one that reconnects leaves a dead cursor, whose
statement fails. `OutagesHeal` needs `CleanThread`, what a request knows that no outage has hit: Postgres is up, the current connection is alive or
known to be closed, and the thread's own cursor is alive. What is left to fail is a refusal (`refused`), which the theorem allows: it is about outages.

`QueryTypeOK` is proved as a part of `QueryInv`.

**Facts connection.** `UnsetOnlyIfOvertaken` is inductive with the types: a transaction on the current connection ends only with the connection, and an opener
that finds none sets autocommit. `OnlyReconnectsFail` needs `Lookups`: whatever
other threads do, an undisturbed lookup that has not reconnected sees Postgres up, the current connection alive or known to be closed, no aborted
transaction, and at its own statement a session that answers (`Undisturbed`).

**Store connection.** Four facts make `StoredBeforeEmbedded` inductive. A closed connection is dead (`ClosedIsDead`), so an opener never leaves a
live one with unfinished work behind. A live session that is not the consumer's holds no writes (`NothingLeftOver`), so a commit makes
durable only what its own transaction wrote. What the consumer has written is in the session it began on, and if that session is
aborted, either nothing has been written yet, so that the next statement raises, or the probe did it (`ConsumerWrites`). The
status is only written after the chunks are durable (`StatusAfterChunks`). The probe may therefore replace the connection, or
fail on it while the consumer is elsewhere, without harm (`ProbeKeepsInv`).

**EDGAR client.** `PermitInv` counts: the free permits and the callers that hold one are `RateLimit` together, so no error path keeps or
returns one too many (`PermitsBalance`); that `permits` never leaves its range, part of the type invariant, needs it. `ResultInv` says what a call knows in the middle of its loop: the places
in the result are those visited without the failed ones, and are ascending. `UnknownMeansUnlisted` follows from `CacheInv`, the cache is empty or complete, and so assumes `WholeMaps`: an entry that does
not convert leaves the cache half filled, and then the property is false (see the hazards). `ListFilingsCorrect` is about a loop over data of any length. The library's induction theorems cannot be instantiated with a
predicate here, but well-foundedness of the order on natural numbers can be cited, and gives induction over a set of numbers (`LeastElement`, `InductionOnSets`) and
recursion over them (`RecursionOnNat`); `NextEntry` is the loop's body.

**Chunker.** The argument follows the loops, for documents of any length and every chunk size, overlap and radix (`ChunkerInv`; TLC has checked it on the instance of `MCChunker`). Of the headers scanned, `best` has each item's
longest (`ScanInv`), so that after the scan these are the section headers of the reference definition (`HeadersKept`). The text up to the cut is in sections, each paragraph in the one it stands in
(`SplitInv`, `SectionAfter`). The count of the group being packed is what `Counted` says of it (`PackInv`), so a group of several paragraphs fits by its counts and the next paragraph did not. A paragraph of the section at hand is in a chunk
or on its way to one (`NoneLost`), which the windows of a group settle when they have passed its end: they overlap or touch, and each token lies in its group's text after the
paragraphs before it (`EmitInv`, `PlaceOfParagraph`, `WindowsCover`). The assumption `Overlap < MaxTokens` is what makes the windows advance. For ids, a later index has at least as many digits (`ShiftGrows`), so in
ascending sections the number of a later chunk is larger. What `Total` sums is only known through `RecursionOnNat`, as for `ListFilings`.

**Facts store.** `RowsAsReported` is inductive with the types. `StoredVersionHolds` is not: a request that has stored half of its document leaves a table half up to date.
`StoringInv` says what the other half waits for: of each annual figure of the version it has fetched, a request still has the latest entry to store, or the
table has that entry or a later one. It starts with `LatestKept` (extraction keeps the entry filed last, for documents of every length: of a finite set, an entry nothing supersedes) and is kept by other
requests' upserts because rows never go back (`RowsNeverOlder`, from the upsert's `WHERE`), which is `FiguresNeverOlder` itself.
`PriorityWins` is about a loop over the rows of a lookup, in any order the database may return those of a year. `Chosen` is its loop invariant: after the first
n rows, there is for each of their years a row of that year, and none among them is preferred to it (`ChosenStep`; `UpTo` is the induction over n, `Recursion` gives the loop its
values, and both rest on the well-foundedness cited above). At the end those are all rows of the group, since a sequence of distinct rows as long as their set has each
(`EveryRowComes`, by the pigeonhole principle for finite sets: the type invariant says the table is finite). The latest year is a maximum because the rows come by descending year (`LookupFinds`),
and the cap only cuts at the end (`CappedPrefix`).

**Document list.** `FilingsListed` is about a client that has reached its short page. `ListingInv` says what holds on the way: a filing with a date of its own, there when the client began, has been listed, or at least as many
filings come before it as the client has asked for (`Covered`). Rows are only added, so that number only grows (`ListGrows`), and a page cut from an
order of the table shows all up to its end (`PlaceInOrder`, `PageStep`). For `ShortPageIsLast` it says that `total` is no more than what the table holds by the second statement.

**Ranking.** Two facts about fusion do the work. A share falls with the rank (`ShareFalls`, monotony of integer division), so a chunk both legs put before another is never fused after it
(`AgreedRanked`), ties included. And only what the vector leg has returned too can be fused before its first row (`BeforeNearest`); these are fewer than `candidate_k`, so that row survives the
cut. MMR's picks are judged by the prefix chosen before them, which later picks leave alone. The proofs hold for rankings of every length and all constants, `RrfK` and the multiplier included.

Only model-checked: liveness (TLAPS has no proof rules here for fairness and ENABLED).

## Where code and documents disagree

Found by a run:

- **`MCWorkersLoss`.** ADR-010 (`docs/design-decisions.md:433`) says "No message loss". `_publish_to_dlq` queues the dead letter without a
  delivery callback and swallows exceptions (`embedding-worker/src/main.py:152`), and the offset is committed all the same.
  `CommittedMeansHandled`, which holds, counts such a message as handled; `NoFilingLost` names it (`dlqLost`).
- **`MCEdgarParse`.** FR-5 (`docs/technical-design-document.md:129`): "log and skip filings that fail to parse, without halting the ingestion of remaining filings", repeated at
  `edgar_client.py:316`. A download that fails is skipped, and so is a document without text; but `extract_text` is called outside any `try` (`edgar_client.py:350`), and an
  exception in it ends the call: the ticker's other filings are not returned, those after it not even asked for, and the request reports the ticker as an error
  (`DocumentRaises`). `OnlyFailedFilingsMissing`, which holds, is about calls that return.
- **`MCEdgarRate`.** `edgar_client.py:70` promises the SEC's ten requests a second. Each of the ten permits paces only itself, so ten callers make up to
  a hundred; a failed request is followed by no pause. A single ingest request does one thing at a time and stays within the limit.

Noticed while modelling:

- "Structured XBRL facts (best-effort — never fails the ticker)" (`ingestion/src/main.py:330`), but a database error in
  `store_financial_facts` is inside the ticker's `try` and becomes a ticker error (`FactsRaise`, `TickerError`).
- "'failed' (Kafka did not acknowledge the message)" (`ingestion/src/main.py:202`), but `flush` counts the whole queue (`kafka_producer.py:158`): an
  acknowledged filing is reported as failed while an older message is stuck (`FlushTimesOut` with `own = "acked"`). It is published again by the
  next request; the worker's idempotent store absorbs the copy.
- "Kafka unavailable: ingestion service returns HTTP 503" (`docs/technical-design-document.md`, section 7.4); the code answers 200 with the
  filings counted as failed.
- `_iterative_scan_unsupported` is set "the first time pgvector rejects the iterative-scan GUC" (`rag/retriever.py:201`), and also when the connection
  breaks between the two `SET`s (`SetIterativeScanFails` with a dead connection): ask with a filter, `SET hnsw.ef_search`, Postgres
  stops. The setting then stays off for the life of the process.
- `_transaction` "commits on success, rolls back on error" (`embedding-worker/src/store.py:60`). A commit after the health probe's `SELECT 1` has failed inside the transaction rolls back
  without an error: `Write` of each page, probe `Cancelled`, `CommitStore`, and the next transaction sets EMBEDDED for a filing without
  chunks. It takes a probe's statement to fail on a live connection (cancelled by an administrator, say); a lost connection does not do it.
- "Build a single-statement batch INSERT using execute_values so that cursor.rowcount reflects the total number of rows actually inserted" (`embedding-worker/src/store.py:85`), but `execute_values` sends
  a statement per hundred rows by default and `rowcount` is that of the last. Only the log and the return value, which no caller uses, are wrong.
- The probe and `register_vector` leave a transaction open. An idle worker is idle in that transaction, and the next filing's `created_at`, by default `NOW()`, is the
  time it began; the drift detector selects by that column (`embedding-worker/src/drift_detector.py:130`).
- `_fuse_rrf` gives the pool's last places to the vector leg on ties, so that the lexical leg's first row can be cut by a vector leg of
  as many rows as the pool, all ranked better by the sum or the tie; `NearestKept` holds for the vector leg only.
- That a chunk found by both legs comes before one found by one (as in `query-api/tests/test_retriever.py:378`) is no rule: at the default constants a first place
  outweighs two places beyond rank 62, which pools of more than 62 candidates (`top_k` of 16 and above) contain. What always holds is `AgreementRanksFirst`.
- "Only paragraphs that alone exceed 512 tokens are split" (`embedding-worker/src/chunker.py:12`) supposes that a joiner costs one token and changes nothing around it. A packed group whose
  joined text is encoded to more than was counted is cut into windows all the same (`Window` of a group of several paragraphs). Whether a filing has such a group depends on the tokenizer, so this is
  no finding, and no property claims the sentence.
- `_cosine_distance` promises a value in [0, 1] (`embedding-worker/src/drift_detector.py:84`); for opposite vectors it is 2.
- `split_by_token_window` may emit a last window that lies wholly inside the one before it, when the text ends less than the overlap after a window's
  end. No token is lost; a chunk is redundant.
- `hnsw.iterative_scan` is never reset, so unfiltered queries run with it once a filtered one has run in the session. `SelectTuned` does not forbid it.

## Not modelled

- Text: how HTML becomes text, regular expressions for metrics and years, prompts, chunk ids as hashes (collisions of SHA-256 aside, ids are their inputs).
- Numbers: embeddings and floating-point scores; the drift detector, which reads two averages and writes nothing another part reads.
- Authentication, request limits, metrics, configuration, deployment and the evaluation script: no state that another
  step reads, or a library's.
- Migrations while services run.

## Plan

The order was by what the system can least afford to get wrong. Done: the pipeline and its proofs, the query service and its
proofs, then EDGAR client, chunker and facts, each with its run; then the connections of facts repository and chunk store, which are shared without a lock,
with their proofs, ranking, and the document list. Every component with state or an algorithm of its own has a module.

Every invariant and action property of a passing run is proved (`NeverRepublishRecorded` for one process, `UnknownMeansUnlisted` for maps whose
entries all convert); of the plan nothing is left.

To check by hand: `tlc -config MCIngestionOneProcess.cfg MCIngestion`, and so on with each run's module and configuration;
`tlapm IngestionProofs.tla` and so on for the proofs.
