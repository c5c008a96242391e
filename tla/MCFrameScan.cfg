SPECIFICATION ScanSpec
CONSTANTS
  PoolSize = 4
  LargestRequest = 2
INVARIANTS
  ScanTypeOK
  OnlyExactFitsMissed
PROPERTIES
  ScanTerminates
CHECK_DEADLOCK FALSE
