-------------------------- MODULE MCFilingPipeline --------------------------
(* Instances of FilingPipeline for TLC. *)
EXTENDS FilingPipeline, TLC

CONSTANTS f1, f2, t1, t2, i1, i2, r1, r2, c1, c2, w1, w2, p1

MCPartitionOf == [m \in Messages |-> p1]
MCOneProcess == [r \in Requests |-> i1]
MCTwoProcesses == r1 :> i1 @@ r2 :> i2
MCTickerLists == {<<t1>>}
MCBothTickers == {<<t2, t1>>}

(* The second company lists no 10-K. *)
MCFilingsOf == [t \in Tickers |-> IF t = t1 THEN {f1} ELSE {}]
MCChunksOf == [f \in Filings |-> IF f = f1 THEN {c1, c2} ELSE {}]

(* The response and the history of a request steer no step of the pipeline. *)
MCView == <<storeVars, handlerVars, own, stale, workerVars>>
=============================================================================
