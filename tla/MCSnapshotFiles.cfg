\* A chunk of two particles; the run ends in Done, so that deadlock is checked.
CONSTANTS
  Configs <- MCConfigs
  ChunkSize = 2
SPECIFICATION Spec
INVARIANTS
  NothingRefused
  SnapshotIsWhole
  HeaderMeansComplete
  NoiseIsReadWhole
  LostNeutrinosAreReported
