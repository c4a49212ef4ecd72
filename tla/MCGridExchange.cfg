\* Four ranks, two receiving threads on each; the run ends when the job is
\* done, and Ends says that it always is.  A size_t counts modulo 2^10.
CONSTANTS
  NumRanks = 4
  NumThreads = 2
  Jobs <- MCJobs
  SizeRange = 1024
SPECIFICATION FairSpec
CHECK_DEADLOCK FALSE
INVARIANTS
  TypeOK
  NothingLeftBehind
  EveryReceiveHasItsSend
  NoAlias
  NoModeLost
  GhostsAreNeighbours
PROPERTIES
  Ends
