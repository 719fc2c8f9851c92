CONSTANTS
  a = a
  b = b
  None = None
  Requests = {a, b}
  Jobs <- MCJobs
  PoolSize = 2
  Slots = 2
  Parts = 2
  Depth = 1
  Blocks = 3
  Faults = 2
SPECIFICATION Spec
INVARIANTS
  NoStagingLeft
  SlotsReturned
  DownloadExact
  HolderKeepsChannel
  NoChannelLeft
