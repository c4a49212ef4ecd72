\* Seven ranks; the run ends when the transfer does.
CONSTANTS
  NumRanks = 7
  Jobs <- MCJobs
SPECIFICATION Spec
CHECK_DEADLOCK FALSE
INVARIANTS
  TypeOK
  LatticeShareExact
  LatticeIdsUnique
  NeutrinosConsecutive
  NeutrinosFillCube
  BoundaryIsCeiling
