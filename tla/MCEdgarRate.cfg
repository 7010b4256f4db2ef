\* Two callers and two permits: a second is two ticks.
CONSTANTS
  aapl = aapl  msft = msft  nope = nope  c1 = c1  c2 = c2  a1 = a1  a2 = a2  a3 = a3
  None = None
  Callers = {c1, c2}
  Symbols = {aapl, msft, nope}
  Listed = {aapl, msft}
  BrokenMaps <- MCBrokenMaps
  Submissions <- MCSubmissions
  Since = 2
  MaxFilings = 2
  RateLimit = 2
  MaxRetries = 2
SPECIFICATION RateSpec
INVARIANTS RateRespected
