\* The counts of the headers; the run ends in Done, so that deadlock is checked.
CONSTANTS
  Configs <- MCConfigs
  ChunkSize = 2
SPECIFICATION Spec
INVARIANTS
  HeaderTellsContents
