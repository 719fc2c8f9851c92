SPECIFICATION Spec
CONSTANTS
  c1 = c1
  c2 = c2
  k1 = k1
  k2 = k2
  None = None
  Conns = {c1, c2}
  Kids = {k1, k2}
SYMMETRY Alike
VIEW LiveView
INVARIANTS
  OneConnectionPerSession
  NoOrphanChild
  DisconnectedLast
  ShutdownLeavesNothing
CHECK_DEADLOCK FALSE
