---------------------------- MODULE MCEdgarClient ----------------------------
(* Instances of EdgarClient for TLC: two companies the SEC lists, one with  *)
(* two filings to fetch among entries that do not count, one with none, and *)
(* a ticker it does not list.                                               *)
EXTENDS EdgarClient, TLC

CONSTANTS aapl, msft, nope, c1, c2, a1, a2, a3

Entry(form, date, accession, doc) ==
  [form |-> form, filingDate |-> date, accession |-> accession, primaryDocument |-> doc]

MCSubmissions ==
  aapl :> << Entry("10-Q", 5, a1, a1), Entry("10-K", 4, None, a1), Entry("10-K", 4, a1, a1),
             Entry("10-K", 3, a2, a2), Entry("10-K", 2, a3, a3), Entry("10-K", 1, a3, a3) >>
  @@ msft :> << Entry("10-K", 1, a1, a1) >>

(* A ticker map is read whole or not at all. *)
MCBrokenMaps == {{}}
=============================================================================
