CONSTANTS
  Jobs <- JobIds
  Sessions = {s1}
  Streams = {c1}
  NoJob = NoJob
  NoSem = NoSem
  MaxRetained = 2
  MaxActive = 2
  SessionPermits = 1
  GlobalPermits = 1
  MaxEvents = 3
  Ring = 1
  Budgets <- MCBudgets
SPECIFICATION Spec
CHECK_DEADLOCK FALSE
INVARIANTS LimitsHold WithdrawnNeverRuns ShutdownSettles StreamFaithful
PROPERTY CancelWins
