----------------------------- MODULE EdgarClient -----------------------------
(***************************************************************************)
(* The SEC EDGAR client of the ingestion service.  Every POST /v1/ingest   *)
(* handler is a caller; callers share one EdgarClient, its semaphore and   *)
(* its ticker map, on one event loop, and interleave at every await.       *)
(*                                                                         *)
(* A call resolves a ticker through the map (downloaded when the cache is  *)
(* empty), lists the company's 10-Ks and downloads their documents one by  *)
(* one, or downloads the company's XBRL facts.  Each download holds a      *)
(* semaphore permit while it is on the wire and for 1/RateLimit seconds    *)
(* after a good answer, and is retried with exponential backoff.           *)
(*                                                                         *)
(* Time is counted in ticks of 1/RateLimit seconds.                        *)
(***************************************************************************)
EXTENDS Naturals, Sequences, FiniteSets

CONSTANTS
  Callers,
  Symbols,      \* tickers a request may name
  Listed,       \* those in company_tickers.json
  BrokenMaps,   \* what a map that cannot be read to its end leaves in the cache
  Submissions,  \* Submissions[s]: the parallel arrays of the company, zipped
  Since,        \* filings_since
  MaxFilings,   \* max_filings_per_ticker
  RateLimit,    \* rate_limit_rps
  MaxRetries,   \* attempts per download
  None          \* an empty field of a submission, or no ticker

Entries == UNION { {Submissions[s][i] : i \in DOMAIN Submissions[s]} : s \in Listed }

ASSUME EdgarAssumption ==
  /\ Listed \subseteq Symbols
  /\ Listed # {}
  /\ BrokenMaps \subseteq SUBSET Listed
  /\ None \notin Symbols
  /\ DOMAIN Submissions = Listed
  /\ \A s \in Listed : Submissions[s] \in Seq(Entries)
  /\ MaxFilings \in Nat \ {0}
  /\ RateLimit \in Nat \ {0}
  /\ MaxRetries \in Nat \ {0}

VARIABLES
  cache,      \* tickers in _cik_cache
  permits,    \* free permits of the semaphore
  pc,         \* where a caller is
  goal,       \* what it was called for: "filings" or "facts"
  symbol,     \* its ticker
  request,    \* what it is downloading
  attempt,    \* attempt number of that download
  rest,       \* ticks it has still to sleep
  listing,    \* the filings list_10k_filings returned
  visited,    \* how many of them have been dealt with
  filings,    \* the places in the listing of those in the result
  failed      \* history: of those whose own document could not be had

callVars == <<goal, symbol, request, attempt, listing, visited, filings, failed>>
edgarVars == <<cache, permits, pc, rest, callVars>>

Downloads == {"map", "submissions", "document", "facts"}
Ended == {"idle", "returned", "unknown", "raised"}
Holding == {"wire", "pause"}

EdgarTypeOK ==
  /\ cache \subseteq Listed
  /\ permits \in 0..RateLimit
  /\ pc \in [Callers -> Ended \cup Holding \cup {"resolve", "ask", "backoff"}]
  /\ goal \in [Callers -> {"filings", "facts"}]
  /\ symbol \in [Callers -> Symbols \cup {None}]
  /\ request \in [Callers -> Downloads]
  /\ attempt \in [Callers -> 1..MaxRetries]
  /\ rest \in [Callers -> Nat]
  /\ listing \in [Callers -> Seq(Entries)]
  /\ visited \in [Callers -> Nat]
  /\ \A c \in Callers : visited[c] \in 0..Len(listing[c])
  /\ filings \in [Callers -> Seq(Nat)]
  /\ failed \in [Callers -> SUBSET Nat]
  /\ \A c \in Callers : pc[c] \notin {"idle", "resolve", "unknown"} /\ request[c] # "map" =>
        symbol[c] \in Listed

EdgarInit ==
  /\ cache = {}
  /\ permits = RateLimit
  /\ pc = [c \in Callers |-> "idle"]
  /\ goal = [c \in Callers |-> "filings"]
  /\ symbol = [c \in Callers |-> None]
  /\ request = [c \in Callers |-> "map"]
  /\ attempt = [c \in Callers |-> 1]
  /\ rest = [c \in Callers |-> 0]
  /\ listing = [c \in Callers |-> <<>>]
  /\ visited = [c \in Callers |-> 0]
  /\ filings = [c \in Callers |-> <<>>]
  /\ failed = [c \in Callers |-> {}]

-----------------------------------------------------------------------------
(* list_10k_filings: complete 10-K entries since the cut-off, in EDGAR's   *)
(* order (newest first), no more than MaxFilings.                          *)
Eligible(e) ==
  /\ e.form = "10-K"
  /\ e.filingDate >= Since
  /\ e.accession # None
  /\ e.primaryDocument # None

ListFilings(es) ==
  LET listed[n \in 0..Len(es)] ==
        IF n = 0 THEN <<>>
        ELSE LET before == listed[n - 1]
             IN  IF Eligible(es[n]) /\ Len(before) < MaxFilings
                   THEN Append(before, es[n]) ELSE before
  IN  listed[Len(es)]

(* Seconds to wait after the n-th attempt: 2 ** n. *)
Wait[n \in Nat] == IF n = 0 THEN 1 ELSE 2 * Wait[n - 1]

Goto(c, l) == pc' = [pc EXCEPT ![c] = l]

(* The first attempt of a download. *)
Ask(c, r) ==
  /\ Goto(c, "ask")
  /\ request' = [request EXCEPT ![c] = r]
  /\ attempt' = [attempt EXCEPT ![c] = 1]

Release == permits' = permits + 1

(* The document after entry n of the listing fs, or the result. *)
NextDocument(c, fs, n) ==
  /\ visited' = [visited EXCEPT ![c] = n]
  /\ IF n < Len(fs)
       THEN Ask(c, "document")
       ELSE Goto(c, "returned") /\ UNCHANGED <<request, attempt>>

-----------------------------------------------------------------------------
Call(c) ==
  /\ pc[c] \in Ended
  /\ \E s \in Symbols, g \in {"filings", "facts"} :
        /\ symbol' = [symbol EXCEPT ![c] = s]
        /\ goal' = [goal EXCEPT ![c] = g]
  /\ Goto(c, "resolve")
  /\ listing' = [listing EXCEPT ![c] = <<>>]
  /\ visited' = [visited EXCEPT ![c] = 0]
  /\ filings' = [filings EXCEPT ![c] = <<>>]
  /\ failed' = [failed EXCEPT ![c] = {}]
  /\ UNCHANGED <<cache, permits, rest, request, attempt>>

(* resolve_cik: any entry in the cache means the whole map is there. *)
NeedMap(c) ==
  /\ pc[c] = "resolve"
  /\ cache = {}
  /\ Ask(c, "map")
  /\ UNCHANGED <<cache, permits, rest, goal, symbol, listing, visited, filings, failed>>

Resolved(c) ==
  /\ pc[c] = "resolve"
  /\ symbol[c] \in cache
  /\ Ask(c, IF goal[c] = "facts" THEN "facts" ELSE "submissions")
  /\ UNCHANGED <<cache, permits, rest, goal, symbol, listing, visited, filings, failed>>

UnknownTicker(c) ==
  /\ pc[c] = "resolve"
  /\ cache # {} /\ symbol[c] \notin cache
  /\ Goto(c, "unknown")
  /\ UNCHANGED <<cache, permits, rest, callVars>>

-----------------------------------------------------------------------------
(* One attempt of a download.                                              *)

Send(c) ==
  /\ pc[c] = "ask"
  /\ permits > 0
  /\ permits' = permits - 1
  /\ Goto(c, "wire")
  /\ UNCHANGED <<cache, rest, callVars>>

GoodAnswer(c) ==
  /\ pc[c] = "wire"
  /\ Goto(c, "pause")
  /\ rest' = [rest EXCEPT ![c] = 1]
  /\ UNCHANGED <<cache, permits, callVars>>

(* Faulty variant: one attempt more than max_retries. *)
ClientErrorOnceMore(c) ==
  /\ pc[c] = "wire"
  /\ attempt[c] <= MaxRetries
  /\ Release
  /\ Goto(c, "backoff")
  /\ rest' = [rest EXCEPT ![c] = Wait[attempt[c]] * RateLimit]
  /\ attempt' = [attempt EXCEPT ![c] = @ + 1]
  /\ UNCHANGED <<cache, goal, symbol, request, listing, visited, filings, failed>>

(* Faulty variant: the permit is released after a good answer only. *)
ClientErrorKeepsPermit(c) ==
  /\ pc[c] = "wire"
  /\ attempt[c] < MaxRetries
  /\ Goto(c, "backoff")
  /\ rest' = [rest EXCEPT ![c] = Wait[attempt[c]] * RateLimit]
  /\ attempt' = [attempt EXCEPT ![c] = @ + 1]
  /\ UNCHANGED <<cache, permits, goal, symbol, request, listing, visited, filings, failed>>

(* aiohttp.ClientError: leaving the block releases the permit at once. *)
ClientError(c) ==
  /\ pc[c] = "wire"
  /\ attempt[c] < MaxRetries
  /\ Release
  /\ Goto(c, "backoff")
  /\ rest' = [rest EXCEPT ![c] = Wait[attempt[c]] * RateLimit]
  /\ attempt' = [attempt EXCEPT ![c] = @ + 1]
  /\ UNCHANGED <<cache, goal, symbol, request, listing, visited, filings, failed>>

EndBackoff(c) ==
  /\ pc[c] = "backoff"
  /\ rest[c] = 0
  /\ Goto(c, "ask")
  /\ UNCHANGED <<cache, permits, rest, callVars>>

(* Faulty variant: the loop over the entries ends at a failed document. *)
GiveUpDocumentStops(c) ==
  /\ pc[c] = "wire"
  /\ request[c] = "document"
  /\ Release
  /\ failed' = [failed EXCEPT ![c] = @ \cup {visited[c] + 1}]
  /\ Goto(c, "returned")
  /\ UNCHANGED <<cache, rest, goal, symbol, request, attempt, listing, visited, filings>>

(* The last attempt's ClientError, or any other exception on any attempt:  *)
(* this filing is skipped (FR-5), the others go on.                        *)
GiveUpDocument(c) ==
  /\ pc[c] = "wire"
  /\ request[c] = "document"
  /\ Release
  /\ failed' = [failed EXCEPT ![c] = @ \cup {visited[c] + 1}]
  /\ NextDocument(c, listing[c], visited[c] + 1)
  /\ UNCHANGED <<cache, rest, goal, symbol, listing, filings>>

(* The same for the map, the submissions or the facts: nothing to return. *)
GiveUp(c) ==
  /\ pc[c] = "wire"
  /\ request[c] # "document"
  /\ Release
  /\ Goto(c, "returned")
  /\ UNCHANGED <<cache, rest, callVars>>

-----------------------------------------------------------------------------
(* What is done with an answer once the pause is over.                     *)

Awake(c, r) == pc[c] = "pause" /\ rest[c] = 0 /\ request[c] = r

(* Faulty variant: the map is added entry by entry, with awaits between. *)
MapStreams(c) ==
  /\ Awake(c, "map")
  /\ \E s \in Listed :
        /\ cache' = cache \cup {s}
        /\ IF cache' = Listed THEN Goto(c, "resolve") /\ Release
                              ELSE UNCHANGED <<pc, permits>>
  /\ UNCHANGED <<rest, callVars>>

MapLoaded(c) ==
  /\ Awake(c, "map")
  /\ cache' = Listed
  /\ Goto(c, "resolve")
  /\ Release
  /\ UNCHANGED <<rest, callVars>>

(* The JSON is no ticker map, or breaks off being one at some entry: the   *)
(* entries before it stay in the cache.                                    *)
MapRaises(c) ==
  /\ Awake(c, "map")
  /\ \E S \in BrokenMaps : cache' = cache \cup S
  /\ Goto(c, "raised")
  /\ Release
  /\ UNCHANGED <<rest, callVars>>

SubmissionsListed(c) ==
  /\ Awake(c, "submissions")
  /\ Release
  /\ LET fs == ListFilings(Submissions[symbol[c]]) IN
        /\ listing' = [listing EXCEPT ![c] = fs]
        /\ NextDocument(c, fs, 0)
  /\ UNCHANGED <<cache, rest, goal, symbol, filings, failed>>

(* The JSON is no submissions document. *)
SubmissionsRaise(c) ==
  /\ Awake(c, "submissions")
  /\ Release
  /\ Goto(c, "raised")
  /\ UNCHANGED <<cache, rest, callVars>>

DocumentParsed(c) ==
  /\ Awake(c, "document")
  /\ Release
  /\ filings' = [filings EXCEPT ![c] = Append(@, visited[c] + 1)]
  /\ NextDocument(c, listing[c], visited[c] + 1)
  /\ UNCHANGED <<cache, rest, goal, symbol, listing, failed>>

(* extract_text returns no text. *)
DocumentEmpty(c) ==
  /\ Awake(c, "document")
  /\ Release
  /\ failed' = [failed EXCEPT ![c] = @ \cup {visited[c] + 1}]
  /\ NextDocument(c, listing[c], visited[c] + 1)
  /\ UNCHANGED <<cache, rest, goal, symbol, listing, filings>>

(* extract_text raises: not caught here, the filings got so far and those  *)
(* still to come are lost.                                                 *)
DocumentRaises(c) ==
  /\ Awake(c, "document")
  /\ Release
  /\ Goto(c, "raised")
  /\ UNCHANGED <<cache, rest, callVars>>

FactsArrive(c) ==
  /\ Awake(c, "facts")
  /\ Release
  /\ Goto(c, "returned")
  /\ UNCHANGED <<cache, rest, callVars>>

Tick ==
  /\ \E c \in Callers : rest[c] > 0
  /\ rest' = [c \in Callers |-> IF rest[c] > 0 THEN rest[c] - 1 ELSE 0]
  /\ UNCHANGED <<cache, permits, pc, callVars>>

-----------------------------------------------------------------------------
CallerStep(c) ==
  \/ NeedMap(c) \/ Resolved(c) \/ UnknownTicker(c)
  \/ Send(c) \/ GoodAnswer(c) \/ ClientError(c) \/ EndBackoff(c)
  \/ GiveUpDocument(c) \/ GiveUp(c)
  \/ MapLoaded(c) \/ MapRaises(c) \/ SubmissionsListed(c) \/ SubmissionsRaise(c)
  \/ DocumentParsed(c) \/ DocumentEmpty(c) \/ DocumentRaises(c) \/ FactsArrive(c)

EdgarNext == Tick \/ \E c \in Callers : Call(c) \/ CallerStep(c)

EdgarSpec == EdgarInit /\ [][EdgarNext]_edgarVars

(* The semaphore wakes its waiters in turn, requests have a total timeout, *)
(* and sleeps end.                                                         *)
EdgarFairSpec ==
  /\ EdgarSpec
  /\ WF_edgarVars(Tick)
  /\ \A c \in Callers : SF_edgarVars(CallerStep(c))

-----------------------------------------------------------------------------
(* A caller decides "unknown ticker", and the request then reports the     *)
(* ticker as processed with no filings, only for a ticker the SEC does not *)
(* list: no caller sees a map that another is still loading.  (For maps    *)
(* that are read whole or not at all, BrokenMaps = {{}}.)                  *)
UnknownMeansUnlisted ==
  \A c \in Callers : pc[c] = "unknown" => symbol[c] \notin Listed

Places(ps) == {ps[i] : i \in DOMAIN ps}

Ascending(ps) == \A i, j \in DOMAIN ps : i < j => ps[i] < ps[j]

(* get_filings_for_ticker, when it returns: the result is the listing, in  *)
(* its order, without exactly the filings whose own document could not be  *)
(* had or came to no text, whatever failed before and after them.  (It     *)
(* need not return: see FilingsThatFailAreSkipped.)                        *)
OnlyFailedFilingsMissing ==
  \A c \in Callers : pc[c] = "returned" =>
    /\ Places(filings[c]) = DOMAIN listing[c] \ failed[c]
    /\ Ascending(filings[c])

(* FR-5: "The system SHALL log and skip filings that fail to parse,        *)
(* without halting the ingestion of remaining filings".  A call that ends  *)
(* has dealt with every filing it listed.                                  *)
FilingsThatFailAreSkipped ==
  \A c \in Callers : pc[c] \in Ended => visited[c] = Len(listing[c])

(* Retries, backoff and a shared semaphore: every call ends, whatever EDGAR *)
(* answers to it and to the others, for no outcome keeps a permit.          *)
CallsEnd == \A c \in Callers : pc[c] \notin Ended ~> pc[c] \in Ended

-----------------------------------------------------------------------------
(* The strengthenings of the type invariant and of OnlyFailedFilingsMissing *)
(* that every step preserves.                                               *)

Holders == {c \in Callers : pc[c] \in Holding}

(* A permit is free, or with one caller on the wire or in its pause. *)
PermitInv ==
  /\ EdgarTypeOK
  /\ IsFiniteSet(Holders)
  /\ permits + Cardinality(Holders) = RateLimit

(* The result so far is the part of the listing already visited, without    *)
(* the failed; there is a listing only while its documents are downloaded.  *)
ResultOK(c) ==
  /\ pc[c] \notin Ended /\ (pc[c] = "resolve" \/ request[c] # "document") =>
       listing[c] = <<>>
  /\ pc[c] \notin Ended \cup {"resolve"} /\ request[c] = "document" =>
       visited[c] < Len(listing[c])
  /\ pc[c] = "returned" => visited[c] = Len(listing[c])
  /\ Places(filings[c]) = (1..visited[c]) \ failed[c]
  /\ failed[c] \subseteq 1..visited[c]
  /\ Ascending(filings[c])

ResultInv == PermitInv /\ \A c \in Callers : ResultOK(c)

(* The strengthening of UnknownMeansUnlisted, for maps read whole or not at *)
(* all: the cache is empty or complete.                                     *)
CacheInv ==
  /\ cache \in {{}, Listed}
  /\ UnknownMeansUnlisted
=============================================================================
