\* Three ranks, two calls, no rank throws on its own.
CONSTANTS
  Rank = {0, 1, 2}
  Jobs <- MCJobs
  MaxCalls = 2
  CallbackCode = {0, 1}
  LocalFaults = FALSE
SPECIFICATION FairSpec
CHECK_DEADLOCK FALSE
INVARIANTS
  UniformResult
  BackgroundIsFresh
PROPERTIES
  EveryCallReturns
