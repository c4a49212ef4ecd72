\* Two ranks, two calls, every job; any rank may throw on its own.
CONSTANTS
  Rank = {0, 1}
  Jobs <- MCJobs
  MaxCalls = 2
  CallbackCode = {0, 1}
  LocalFaults = TRUE
SPECIFICATION Spec
CHECK_DEADLOCK FALSE
INVARIANTS
  TypeOK
  CollectivesMatch
  HostOrder
  FailureStopsStream
  EndMeansComplete
  SuccessMeansDelivered
  CleanReturn
PROPERTIES
  Contract
