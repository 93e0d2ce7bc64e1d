SPECIFICATION FairPoolSpec
CONSTANTS
  c1 = c1
  c2 = c2
  c3 = c3
  h1 = h1
  h2 = h2
  NoHandle = NoHandle
  Callers <- MCCallers
  Handles <- MCHandles
CHECK_DEADLOCK FALSE
INVARIANTS
  NoQueryOnClosedHandle
  HandlesConserved
  ClosedPoolLeaksNothing
PROPERTIES
  QueriesReturn
  CloseTerminates
