---------------------------- MODULE MCIngestion ----------------------------
(* Instances of Ingestion for TLC. *)
EXTENDS Ingestion, TLC

CONSTANTS f1, f2, f3, t1, t2, i1, r1, r2, p1

MCPartitionOf == [m \in Messages |-> p1]

(* Every handler in the one process. *)
MCOneProcess == [r \in Requests |-> i1]

(* Two companies, the second with f3 alone. *)
MCEitherTicker == {<<t1>>, <<t2>>}
MCFilingsOf == [t \in Tickers |-> IF t = t1 THEN {f1, f2} ELSE {f3}]
=============================================================================
