CONSTANTS
  job = job
  plain = plain
  None = None
  Commands = {job, plain}
  Streamed = {job}
  Loads <- MCLoads
  MaxMessage = 2
  Limit = 2
  Chunk = 2
  Faults = 2
SPECIFICATION Spec
INVARIANTS
  AbandonedIsKilled
  OutputInOrder
  TailKept
  NoRefillAfterClose
CHECK_DEADLOCK FALSE
