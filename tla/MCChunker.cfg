\* Items 1 and 3, whose binary numbers are a digit and the same digit twice.
CONSTANTS
  MaxTokens = 6
  Overlap = 1
  Radix = 2
  Items = {1, 3}
  MaxMarks = 3
  Docs <- MCDocs
SPECIFICATION ChunkerSpec
INVARIANTS ChunkerTypeOK EveryTokenInItsSection PackingGreedy AscendingIdsUnique
