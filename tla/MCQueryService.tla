--------------------------- MODULE MCQueryService ---------------------------
(* Instances of QueryService for TLC. *)
EXTENDS QueryService

CONSTANTS t1, t2
=============================================================================
