SPECIFICATION FairSpec
CONSTANTS
  q1 = q1
  q2 = q2
  igl = igl
  inv = inv
  None = None
  Queries <- MCQueries
  Passers <- MCPassers
  Pollers <- MCPollers
  Quiet = 1
  MaxClock = 2
CHECK_DEADLOCK FALSE
INVARIANTS
  OnePass
  QueriesPreempt
PROPERTIES
  PassesGiveWay
  IdleTimeIsUsed
