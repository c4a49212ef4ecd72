\* A host whose callbacks may return a negative error code.
CONSTANTS
  Rank = {0, 1}
  Jobs <- SuccessfulJobs
  MaxCalls = 1
  CallbackCode <- SignedCodes
  LocalFaults = FALSE
SPECIFICATION Spec
CHECK_DEADLOCK FALSE
INVARIANTS
  FailureIsReported
