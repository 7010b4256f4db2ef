\* design-decisions.md:433 against a dead letter that is dropped unsent.
CONSTANTS
  f1 = f1  f2 = f2  junk = junk  c1 = c1  c2 = c2  w1 = w1  w2 = w2  p1 = p1
  None = None
  Filings = {f1}
  Malformed = {}
  Partitions = {p1}
  PartitionOf <- MCOnePartition
  MaxTopic = 1
  Workers = {w1}
  ChunksOf <- MCChunksOf
  MaxRetries = 0
SPECIFICATION WorkerSpec
INVARIANTS NoMessageLoss
