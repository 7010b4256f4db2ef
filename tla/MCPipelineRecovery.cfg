\* One request for two companies, one of them without 10-Ks, and one worker; three failures anywhere.
CONSTANTS
  f1 = f1  f2 = f2  t1 = t1  t2 = t2  i1 = i1  i2 = i2  r1 = r1  r2 = r2
  c1 = c1  c2 = c2  w1 = w1  w2 = w2  p1 = p1
  None = None
  Filings = {f1}
  Malformed = {}
  Partitions = {p1}
  PartitionOf <- MCPartitionOf
  MaxTopic = 5
  Ingesters = {i1}
  Requests = {r1}
  HostOf <- MCOneProcess
  Tickers = {t1, t2}
  TickerLists <- MCBothTickers
  FilingsOf <- MCFilingsOf
  TooLarge = {}
  Workers = {w1}
  ChunksOf <- MCChunksOf
  MaxRetries = 1
  MaxFailures = 3
SPECIFICATION RecoverySpec
PROPERTIES RecordedIsEmbedded RetryIngests
