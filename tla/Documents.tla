----------------------------- MODULE Documents -----------------------------
(***************************************************************************)
(* GET /v1/documents: pages of ingestion_log, for a client that asks for   *)
(* one after another until it gets a short one.  list_documents counts the *)
(* rows and reads the page by two statements of an autocommit session, and *)
(* ingestion inserts rows at any time, between the two as well.  Rows are  *)
(* never deleted, and a row keeps its filing date.                         *)
(***************************************************************************)
EXTENDS Integers, SequencesExt

CONSTANTS
  Filings, DateOf, TickerOf,
  Limits,       \* page sizes clients ask for
  MaxOffset,    \* bound: how far a client pages
  NoTicker      \* no ticker filter

ASSUME DocumentsAssumption ==
  /\ DateOf \in [Filings -> Nat]
  /\ NoTicker \notin {TickerOf[f] : f \in Filings}
  /\ Limits \subseteq Nat \ {0} /\ Limits # {} /\ MaxOffset \in Nat

VARIABLES
  log,                     \* filings that have a row in ingestion_log
  phase,                   \* of the client's request
  ticker, limit, offset,   \* its parameters
  total, rows,             \* its response
  listed, logAtStart       \* the client: filings it has seen; history

documentsVars == <<log, phase, ticker, limit, offset, total, rows, listed, logAtStart>>
clientVars == <<ticker, limit, offset, listed, logAtStart>>

DocumentsInit ==
  /\ log = {}
  /\ phase = "idle"
  /\ ticker = NoTicker /\ limit = (CHOOSE n \in Limits : TRUE) /\ offset = 0
  /\ total = 0 /\ rows = <<>>
  /\ listed = {} /\ logAtStart = {}

Matching(S) == {f \in S : ticker \in {NoTicker, TickerOf[f]}}

(* Faulty variant: no ORDER BY. *)
OrderedAnyhow(order) == TRUE

(* ORDER BY filing_date DESC leaves the order within a date open. *)
Ordered(order) ==
  \A i, j \in DOMAIN order : i < j => DateOf[order[i]] >= DateOf[order[j]]

-----------------------------------------------------------------------------
(* The client *)

StartListing ==
  /\ phase \in {"idle", "listed"}
  /\ phase' = "count"
  /\ ticker' \in {TickerOf[f] : f \in Filings} \cup {NoTicker}
  /\ limit' \in Limits
  /\ offset' = 0
  /\ listed' = {} /\ logAtStart' = log
  /\ UNCHANGED <<log, total, rows>>

NextPage ==
  /\ phase = "answered"
  /\ Len(rows) = limit
  /\ offset + limit <= MaxOffset
  /\ phase' = "count"
  /\ offset' = offset + limit
  /\ UNCHANGED <<log, ticker, limit, total, rows, listed, logAtStart>>

EndListing ==
  /\ phase = "answered"
  /\ Len(rows) < limit
  /\ phase' = "listed"
  /\ UNCHANGED <<log, total, rows, clientVars>>

-----------------------------------------------------------------------------
(* list_documents *)

(* Faulty variant: the count forgets the filter. *)
CountUnfiltered ==
  /\ phase = "count"
  /\ phase' = "page"
  /\ total' = Cardinality(log)
  /\ UNCHANGED <<log, rows, clientVars>>

Count ==
  /\ phase = "count"
  /\ phase' = "page"
  /\ total' = Cardinality(Matching(log))
  /\ UNCHANGED <<log, rows, clientVars>>

Page ==
  /\ phase = "page"
  /\ phase' = "answered"
  /\ \E order \in SetToSeqs(Matching(log)) :
        /\ Ordered(order)
        /\ rows' = SubSeq(order, offset + 1, Min({offset + limit, Len(order)}))
        /\ listed' = listed \cup ToSet(rows')
  /\ UNCHANGED <<log, total, ticker, limit, offset, logAtStart>>

(* Either statement fails: HTTP 500, and the client asks again. *)
ListFails ==
  /\ phase \in {"count", "page"}
  /\ phase' = "count"
  /\ UNCHANGED <<log, total, rows, clientVars>>

(* Ingestion records a filing. *)
RecordFiling(f) ==
  /\ f \notin log
  /\ log' = log \cup {f}
  /\ UNCHANGED <<phase, total, rows, clientVars>>

DocumentsNext ==
  \/ StartListing \/ NextPage \/ EndListing
  \/ Count \/ Page \/ ListFails
  \/ \E f \in Filings : RecordFiling(f)

DocumentsSpec == DocumentsInit /\ [][DocumentsNext]_documentsVars

-----------------------------------------------------------------------------
(* f shares its date with no other filing of the list. *)
OwnDate(f) == \A g \in Matching(log) \ {f} : DateOf[g] # DateOf[f]

(* A client that pages until a short page has seen each filing that was    *)
(* there when it began and that shares its date with no other, whatever is *)
(* recorded meanwhile: new rows only push a filing to later pages.  Of the *)
(* filings of one date it may miss some, for their order may differ        *)
(* between two pages.                                                      *)
FilingsListed ==
  phase = "listed" => \A f \in Matching(logAtStart) : OwnDate(f) => f \in listed

(* A short page is the last one by the total of its own response, although *)
(* the two come from different statements: the total never promises more   *)
(* than the page that ends the listing.                                    *)
ShortPageIsLast ==
  phase = "answered" /\ Len(rows) < limit => total <= offset + Len(rows)

-----------------------------------------------------------------------------
(* Filings of the list that come before f. *)
Newer(f) == {g \in Matching(log) : DateOf[g] > DateOf[f]}

(* Places of the list that the client's pages have covered. *)
Covered == IF phase = "answered" THEN offset + limit ELSE offset

(* The strengthening of both.  What was counted is still there when the    *)
(* page is read, and a filing the client has not seen has at least as many *)
(* before it as places are covered.                                        *)
ListingInv ==
  /\ phase \in {"idle", "count", "page", "answered", "listed"}
  /\ limit \in Nat \ {0} /\ offset \in Nat /\ total \in Nat
  /\ log \subseteq Filings /\ IsFiniteSet(log) /\ logAtStart \subseteq log
  /\ phase = "page" => total <= Cardinality(Matching(log))
  /\ phase = "answered" => Len(rows) \in Nat
  /\ ShortPageIsLast
  /\ phase \in {"count", "page", "answered"} =>
       \A f \in Matching(logAtStart) :
         OwnDate(f) => f \in listed \/ Cardinality(Newer(f)) >= Covered
  /\ phase = "listed" \/ (phase = "answered" /\ Len(rows) < limit) =>
       \A f \in Matching(logAtStart) : OwnDate(f) => f \in listed
=============================================================================
