SPECIFICATION Spec
VIEW LiveView
CONSTANTS
  t1 = t1
  t2 = t2
  NoId = NoId
  Ids = {t1, t2}
  Cmds = {1}
  Width <- Widths
  Slots = 2
  MaxPending = 2
  Scenarios <- MCScenarios
INVARIANTS
  StatusTellsFlags
  ClosedSessionIsQuiet
  OneTransferPerPath
  NoOrphanRecord
  HistorySettled
CHECK_DEADLOCK FALSE
