\* Four chunks, pools of two to four candidates; four filings, pages of one or two; three versions of the figures, two requests, one reader; three threads, one outage and one error; a filing of two INSERTs, two outages and one error.
CONSTANTS
  c1 = c1  c2 = c2  c3 = c3  c4 = c4
  Chunks = {c1, c2, c3, c4}
  EmbeddingOf <- MCEmbeddingOf
  Queries <- MCQueries
  TopKs = {1, 2, 3}
  CandidateMultiplier = 2
  MaxCandidates = 4
  RrfK = 1
  Scale = 60
  f1 = f1  f2 = f2  f3 = f3  f4 = f4  a = a  b = b
  Filings = {f1, f2, f3, f4}
  DateOf <- MCDateOf
  TickerOf <- MCTickerOf
  NoTicker = NoTicker
  Limits = {1, 2}
  MaxOffset = 4
  r1 = r1  r2 = r2
  Requests = {r1, r2}
  Readers = {t1}
  Documents <- MCDocuments
  YearOf <- MCYearOf
  Groups <- MCGroups
  Questions <- MCQuestions
  MaxFacts = 2
  t1 = t1  t2 = t2  t3 = t3
  Threads = {t1, t2, t3}
  MaxGroups = 2
  MaxOutages = 1
  MaxErrors = 1
  p1 = p1  p2 = p2
  Pages = {p1, p2}
  MaxStops = 2
  MaxCancels = 1
SPECIFICATION SideBySideSpec
INVARIANTS NearestKept AgreementRanksFirst PassedOverForRedundancy FilingsListed ShortPageIsLast FactsTypeOK RowsAsReported StoredVersionHolds  UnsetOnlyIfOvertaken StoredBeforeEmbedded
PROPERTIES FiguresNeverOlder PriorityWins
