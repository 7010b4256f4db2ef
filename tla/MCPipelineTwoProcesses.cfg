\* Two processes with one request each, one worker.
CONSTANTS
  f1 = f1  f2 = f2  t1 = t1  t2 = t2  i1 = i1  i2 = i2  r1 = r1  r2 = r2
  c1 = c1  c2 = c2  w1 = w1  w2 = w2  p1 = p1
  None = None
  Filings = {f1}
  Malformed = {}
  Partitions = {p1}
  PartitionOf <- MCPartitionOf
  MaxTopic = 2
  Ingesters = {i1, i2}
  Requests = {r1, r2}
  HostOf <- MCTwoProcesses
  Tickers = {t1}
  TickerLists <- MCTickerLists
  FilingsOf <- MCFilingsOf
  TooLarge = {}
  Workers = {w1}
  ChunksOf <- MCChunksOf
  MaxRetries = 0
VIEW MCView
SPECIFICATION PipelineSpec
INVARIANTS NoFilingLost
PROPERTIES ImplementsLifecycle
