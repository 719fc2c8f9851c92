SPECIFICATION Spec
CONSTANTS
  first = first
  second = second
  Attempts = {first, second}
  Size = 3
  Parts = 2
  MaxVersion = 1
  MaxFaults = 1
  EarlyRetry = FALSE
INVARIANTS
  IntactAfterDeath
CHECK_DEADLOCK FALSE
