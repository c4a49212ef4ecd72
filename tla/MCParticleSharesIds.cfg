\* Neutrinos beside a body-centred load of dark matter.
CONSTANTS
  NumRanks = 2
  Jobs <- BodyCentredJobs
SPECIFICATION Spec
CHECK_DEADLOCK FALSE
INVARIANTS
  NeutrinosAfterDM
