---------------------------- MODULE MCSideBySide ----------------------------
(***************************************************************************)
(* Instances of five parts that share no state: Retrieval, Documents and   *)
(* FactsConnection of the query API, the figures of FinancialFacts, and    *)
(* the worker's StoreConnection.  None of them writes what another reads,  *)
(* so one run checks them side by side: a behaviour is about one part, and *)
(* the others stay where they start.                                       *)
(***************************************************************************)
EXTENDS Retrieval, Documents, FinancialFacts, FactsConnection, StoreConnection

CONSTANTS c1, c2, c3, c4, f1, f2, f3, f4, a, b, t1, t2, t3, r1, r2, p1, p2

VARIABLE part

sideBySideVars ==
  <<retrievalVars, documentsVars, factsVars, factsConnVars, storeConnVars, part>>

(* Two pairs of chunks on either side of the first question, as near to it *)
(* by twos; a second question next to two chunks, away from the others.    *)
MCEmbeddingOf == c1 :> <<4, 3>> @@ c2 :> <<3, 4>> @@ c3 :> <<4, -3>> @@ c4 :> <<3, -4>>
MCQueries == {<<5, 0>>, <<3, 4>>}

(* Two filings of one date. *)
MCDateOf == f1 :> 1 @@ f2 :> 2 @@ f3 :> 2 @@ f4 :> 3
MCTickerOf == f1 :> a @@ f2 :> a @@ f3 :> b @@ f4 :> a

(* Revenue (concept 2, later tagged as concept 1, which the query prefers)  *)
(* and income (3) in three fiscal years, the last two of which end in one   *)
(* calendar year: a first 10-K; one that restates it and adds a year, with  *)
(* a quarter; and one that changes the tag and adds a year.                 *)
Entry(c, e, f, v) == [concept |-> c, end |-> e, filed |-> f, value |-> v, annual |-> TRUE]
First == <<Entry(2, 1, 1, 10), Entry(3, 1, 1, 20)>>
Second ==
  <<Entry(2, 2, 2, 11), Entry(2, 1, 2, 12), [Entry(3, 1, 2, 21) EXCEPT !.annual = FALSE]>>
Third == <<Entry(1, 2, 3, 13), Entry(1, 3, 3, 14), Entry(2, 1, 1, 10)>>
MCDocuments == <<First, First \o Second, First \o Second \o Third>>
MCYearOf == <<1, 2, 2>>
MCGroups == {<<1, 2>>, <<3>>}
MCQuestions ==
  [groups : {<<<<1, 2>>>>, <<<<3>>, <<1, 2>>>>}, years : {<<>>, <<1, 2>>}]

SideBySideInit ==
  /\ RetrievalInit /\ DocumentsInit /\ FactsInit /\ FactsConnInit /\ StoreConnInit
  /\ part \in {"retrieve", "list_documents", "financial_facts", "facts_for_question",
               "store_chunks"}

SideBySideNext ==
  /\ UNCHANGED part
  /\ \/ /\ part = "retrieve"
        /\ RetrievalNext
        /\ UNCHANGED <<documentsVars, factsVars, factsConnVars, storeConnVars>>
     \/ /\ part = "list_documents"
        /\ DocumentsNext
        /\ UNCHANGED <<retrievalVars, factsVars, factsConnVars, storeConnVars>>
     \/ /\ part = "facts_for_question"
        /\ FactsConnNext
        /\ UNCHANGED <<retrievalVars, documentsVars, factsVars, storeConnVars>>
     \/ /\ part = "store_chunks"
        /\ StoreConnNext
        /\ UNCHANGED <<retrievalVars, documentsVars, factsVars, factsConnVars>>
     \/ /\ part = "financial_facts"
        /\ FactsNext
        /\ UNCHANGED <<retrievalVars, documentsVars, factsConnVars, storeConnVars>>

SideBySideSpec == SideBySideInit /\ [][SideBySideNext]_sideBySideVars
=============================================================================
