SPECIFICATION FairSpec
CONSTANTS
  t1 = t1
  t2 = t2
  NoId = NoId
  Ids = {t1, t2}
  Cmds = {1}
  Width <- Widths
  Slots = 2
  MaxPending = 2
  Scenarios <- MCLive
PROPERTIES
  TransfersEnd
CHECK_DEADLOCK FALSE
