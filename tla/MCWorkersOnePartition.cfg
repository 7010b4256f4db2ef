\* Two workers contend for one partition holding two copies of a filing.
CONSTANTS
  f1 = f1  f2 = f2  junk = junk  c1 = c1  c2 = c2  w1 = w1  w2 = w2  p1 = p1
  None = None
  Filings = {f1}
  Malformed = {}
  Partitions = {p1}
  PartitionOf <- MCOnePartition
  MaxTopic = 2
  Workers = {w1, w2}
  ChunksOf <- MCChunksOf
  MaxRetries = 1
SYMMETRY MCSymmetry
SPECIFICATION WorkerSpec
INVARIANTS WorkerTypeOK CommittedMeansHandled EmbeddedHasAllChunks ConfirmationTruthful
