SPECIFICATION FairSpec
CONSTANTS
  r1 = r1
  worker = worker
  e1 = e1
  e2 = e2
  e3 = e3
  e4 = e4
  NoEntry = NoEntry
  Worker = worker
  NTopics = 3
  MaxOpen = 2
  Requests <- MCRequests
  Entries <- MCEntries
CHECK_DEADLOCK FALSE
INVARIANTS
  TableConsistent
  ClosedManagerIsEmpty
PROPERTIES
  EvictedTopicsClose
  CloseTerminates
