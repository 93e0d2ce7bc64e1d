SPECIFICATION FairSpec
CONSTANTS
  r1 = r1
  r2 = r2
  a = a
  b = b
  NoRequest = NoRequest
  Requests <- MCRequests
  Claims <- MCClaims
  LastGeneration = 2
  Sizes = {1, 4}
  MaxEntries = 2
  MaxBytes = 3
CHECK_DEADLOCK FALSE
INVARIANTS
  SingleFlight
  AnswersAreSound
  CacheConsistent
PROPERTIES
  OwnErrorsOnly
  RequestsReturn
