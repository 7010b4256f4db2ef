\* Two overlapping requests in one process, each for one of two companies, whose filings are two and one too large.
CONSTANTS
  f1 = f1  f2 = f2  f3 = f3  t1 = t1  t2 = t2  i1 = i1  r1 = r1  r2 = r2  p1 = p1
  None = None
  Filings = {f1, f2, f3}
  Malformed = {}
  Partitions = {p1}
  PartitionOf <- MCPartitionOf
  MaxTopic = 2
  Ingesters = {i1}
  Requests = {r1, r2}
  HostOf <- MCOneProcess
  Tickers = {t1, t2}
  TickerLists <- MCEitherTicker
  FilingsOf <- MCFilingsOf
  TooLarge = {f3}
SPECIFICATION FairSpec
INVARIANTS IngestTypeOK RecordedWasDelivered EveryFilingAccounted
PROPERTIES NeverRepublishRecorded RequestsEnd
