\* Every order, format and species list; the run ends when the program does.
CONSTANTS
  Configs <- MCConfigs
SPECIFICATION Spec
CHECK_DEADLOCK FALSE
INVARIANTS
  ReadsAreDefined
  MeansAreFinite
  TermsAreLPT
  HistoryLeavesNoTrace
  OutputIsComplete
