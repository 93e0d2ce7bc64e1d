SPECIFICATION FairReloaderSpec
CONSTANTS
  PoolSize = 2
  LastSnapshot = 4
  Bad = {2}
CHECK_DEADLOCK FALSE
PROPERTIES
  ReloadsServeTheirFingerprint
  ChangesAreLoaded
