SPECIFICATION FairSpec
CONSTANTS
  None = None
  MaxThoughts = 3
  MinPublish = 2
CHECK_DEADLOCK FALSE
INVARIANTS
  PreemptedSoon
  StatusIsTrue
PROPERTIES
  QuietTimeIsShared
  ShutdownTerminates
