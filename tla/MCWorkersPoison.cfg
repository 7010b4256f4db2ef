\* A poison message before others: of a filing with chunks, an empty one and a
\* malformed message, any two, or one twice, follow each other in one partition.
CONSTANTS
  f1 = f1  f2 = f2  junk = junk  c1 = c1  c2 = c2  w1 = w1  w2 = w2  p1 = p1
  None = None
  Filings = {f1, f2}
  Malformed = {junk}
  Partitions = {p1}
  PartitionOf <- MCOnePartition
  MaxTopic = 2
  Workers = {w1}
  ChunksOf <- MCChunksOf
  MaxRetries = 1
SPECIFICATION WorkerFairSpec
PROPERTIES EveryMessageHandled
