SPECIFICATION FairSpec
CONSTANTS
  Feeds <- MixedFeeds
  Capacity = 3
  BatchBytes = 2
  MaxPending = 5
  AckBytes = 2
  IpcMayFail = TRUE
INVARIANTS
  OutputConserved
PROPERTIES
  ImplementsCredit
  CloseAnnounced
  OutputShown
CHECK_DEADLOCK FALSE
