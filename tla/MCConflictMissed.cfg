SPECIFICATION SeqSpec
CONSTANTS
  Kinds = {"native"}
  ByName = {FALSE, TRUE}
  None = None
  Questions <- MCQuestions
  Queries <- MCQueries
  KeyOf <- MCKeyOf
  Plausible <- MCPlausible
  Answers <- MCAnswers
  RingLimit = 3
  HotLimit = 2
  Sources <- MCSources
  Weight <- MCWeight
  EntityNames <- MCEntityNames
  LowerKey <- MCLowerKey
  PlausibleNames <- MCPlausibleNames
  Predicate <- MCLabel
  ServedGraphs <- MCThoughtGraphs
  HotLists <- MCHotLists
  Registry = {"causes"}
  SampleLimit = 2
  RowLimit = 2
  HubLimit = 3
  PairLimit = 2
  MinShared = 2
  Canon <- MCCanon
  Supers <- MCSupers
  Transitive = {"within"}
  Reflexive = {}
  InverseOf <- MCInverseOf
  Compositions <- MCCompositions
  Disjoint <- MCDisjoint
  Domain <- MCDomain
  Codomain <- MCCodomain
  NormKey <- MCSpelling
  Registered <- MCRegistered
  Graphs <- MCGraphs
  TypesOf <- MCTypesOf
  Spelled <- MCSpelled
  Variants <- MCSpelled
  Resolved <- MCResolved
  Asked <- MCAsked
  MemoMax = 2
  MaxHops = 3
  MaxCost = 3
  ExcludeDeduced = TRUE
  Molecular = {"gene"}
  DisjointClasses <- MCDisjointClasses
  PathGoals <- MCPathGoals
  RuleEntities = {"a", "b", "c"}
  RulePredicates <- MCRulePredicates
  RuleVariables = {"x", "y", "z", "u"}
  WeakCost = 5
  Threshold = 4
  RuleGoals <- MCRuleGoals
  Jobs <- MCJobs
  Labels <- MCLabels
  TermOf <- MCTermOf
  Ontology <- MCIsA
  Lexical = TRUE
  Tokens <- MCTokens
  MaxParentLevel = 3
  MinParentSupport = 1
  MinSupport = 2
  IncludeDirectRelations = TRUE
  a = a
  b = b
  chat = chat
  Keys = {k1, k2, k3, k4}
  Tautologies = {k4}
  Confidences = {1, 2}
  Limit = 2
INVARIANT ConflictOverrides
CHECK_DEADLOCK FALSE
