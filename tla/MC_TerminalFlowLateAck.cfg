SPECIFICATION FairSpec
CONSTANTS
  Feeds <- LongFeeds
  Capacity = 2
  BatchBytes = 2
  MaxPending = 4
  AckBytes = 2
  IpcMayFail = FALSE
PROPERTIES
  LateAcksHarmless
CHECK_DEADLOCK FALSE
