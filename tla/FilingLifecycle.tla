-------------------------- MODULE FilingLifecycle --------------------------
(***************************************************************************)
(* What the two services promise about a filing, with no processes, no     *)
(* offsets and no failures in sight: it reaches the topic, then it has an  *)
(* ingestion_log row, then its chunks can be retrieved, then the row says  *)
(* EMBEDDED.  A stage is never skipped and never taken back.               *)
(***************************************************************************)
CONSTANT Filings

VARIABLE stage

Stages == {"new", "onTopic", "recorded", "stored", "embedded"}

(* The stage after s. *)
After(s) == CASE s = "new"      -> "onTopic"
              [] s = "onTopic"  -> "recorded"
              [] s = "recorded" -> "stored"
              [] s = "stored"   -> "embedded"

Advance(f) ==
  /\ stage[f] # "embedded"
  /\ stage' = [stage EXCEPT ![f] = After(@)]

Init == stage = [f \in Filings |-> "new"]

Next == \E f \in Filings : Advance(f)

Spec == Init /\ [][Next]_stage
=============================================================================
