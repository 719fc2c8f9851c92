SPECIFICATION OperationsSpec
CONSTANTS
  p1 = p1
  p2 = p2
  p3 = p3
  restorer = restorer
  thread = thread
  s1 = s1
  s2 = s2
  Nothing = Nothing
  Procs = {p1, p2, p3}
  Restorer = restorer
  Pool = {thread}
  Sessions = {s1, s2}
  Target = s1
  Plans <- MCPlans
  Worlds <- MCWorlds
  Attempts = 1
  Retained = 2
SYMMETRY MCSymmetry
INVARIANTS
  NoStuck
  DrainNotSelfBlocked
  ConnectionsCurrent
  AuthorizationHolds
  
  NoDanglingRecord
  StopWins
