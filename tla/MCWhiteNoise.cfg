\* Grids up to 8^3, one to three ranks.  The run ends when every rank is done
\* or has thrown.
CONSTANTS
  MaxRes = 8
  SizeRange = 1024
  Configs <- MCConfigs
SPECIFICATION Spec
CHECK_DEADLOCK FALSE
INVARIANTS
  NoiseIsReproducible
  ExportIsLargeScale
