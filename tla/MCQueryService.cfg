\* Two threads, a question within the default ef_search and one beyond, two outages.
CONSTANTS
  t1 = t1  t2 = t2
  None = None
  Threads = {t1, t2}
  CandidateKs = {20, 60}
  MinEfSearch = 40
  IterativeSupported = TRUE
  MaxOutages = 2
SPECIFICATION QueryFairSpec
INVARIANTS SelectTuned OneConnection OutagesHeal
PROPERTIES QueriesEnd
