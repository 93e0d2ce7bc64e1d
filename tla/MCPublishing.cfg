SPECIFICATION FairSpec
CONSTANTS
  d1 = d1
  d2 = d2
  s1 = s1
  s2 = s2
  Nobody = Nobody
  Daemons <- MCDaemons
  Scopes <- MCScopes
  Faulty <- MCOneScope
  Directories <- MCOneScope
  Begun = 2
  Earlier <- MCEarlier
  MaxAttempts = 3
  MaxCrashes = 1
CHECK_DEADLOCK FALSE
INVARIANTS
  FinalIsComplete
  FailuresCleanUp
PROPERTIES
  ImplementsService
  LeaderFound
  LeadersPublish
