SPECIFICATION Spec
CONSTANTS
  first = first
  second = second
  Attempts = {first, second}
  Size = 3
  Parts = 2
  MaxVersion = 2
  MaxFaults = 1
  EarlyRetry = FALSE
VIEW View
SYMMETRY Symmetry
INVARIANTS
  TargetIntact
  StagingResumable
CHECK_DEADLOCK FALSE
