----------------------------- MODULE MCEdgarRate -----------------------------
(* EdgarClient with the requests it sent in the last second: two callers    *)
(* and two permits (rate_limit_rps = 2), so that a second has two ticks.    *)
EXTENDS MCEdgarClient, SequencesExt

VARIABLE recent  \* recent[i]: requests sent in the i-th last tick

rateVars == <<edgarVars, recent>>

RateInit == EdgarInit /\ recent = [i \in 1..RateLimit |-> 0]

RateNext ==
  \/ /\ Tick
     /\ recent' = [i \in 1..RateLimit |-> IF i = 1 THEN 0 ELSE recent[i - 1]]
  \/ \E c \in Callers :
       \/ Send(c) /\ recent' = [recent EXCEPT ![1] = @ + 1]
       \/ (Call(c) \/ CallerStep(c)) /\ ~Send(c) /\ UNCHANGED recent

RateSpec == RateInit /\ [][RateNext]_rateVars

(* NFR-4, as the EdgarClient docstring words it: "Rate-limited via an       *)
(* asyncio.Semaphore to respect SEC's 10 req/s policy".  No second sees     *)
(* more than RateLimit requests.                                            *)
RateRespected == FoldSeq(+, 0, recent) <= RateLimit
=============================================================================
