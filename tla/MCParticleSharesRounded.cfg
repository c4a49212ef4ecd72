\* Seven ranks and a neutrino cube of side 29.
CONSTANTS
  NumRanks = 7
  Jobs <- RoundedJobs
SPECIFICATION Spec
CHECK_DEADLOCK FALSE
INVARIANTS
  NeutrinoShareExact
