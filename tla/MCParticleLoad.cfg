\* Short ids have 128 values here; the run ends when the particles are made.
CONSTANTS
  Configs <- MCConfigs
  IdRange = 128
SPECIFICATION Spec
CHECK_DEADLOCK FALSE
INVARIANTS
  ContainersFit
  SitesAgree
  IdsAreUnique
  MaskedMassIsKept
