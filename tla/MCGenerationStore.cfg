SPECIFICATION FairSpec
CONSTANTS
  c1 = c1
  c2 = c2
  s1 = s1
  s2 = s2
  g1 = g1
  g2 = g2
  g3 = g3
  g4 = g4
  NoGen = NoGen
  Gens <- MCGens
  Clients <- MCClients
  Swappers <- MCSwappers
  RollbackSlots = 1
CHECK_DEADLOCK FALSE
INVARIANTS
  RefsCountReaders
PROPERTIES
  ImplementsService
  RetiredGenerationsClose
