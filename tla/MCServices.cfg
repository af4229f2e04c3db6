SPECIFICATION ServicesSpec
CONSTANTS
  MaxSends = 2
  MaxRequests = 1
  MaxCancels = 1
  MaxCompacts = 1
  MaxCrashes = 1
  MayLeave = TRUE
  MaxTotal = 3
  MaxSteers = 4
  MaxGoals = 3
  Goals = {g1, g2}
  Skills = {s1, s2}
  NoSkill = NoSkill
  Budget = 3
  MaxInflight = 2
  MaxChain = 1
  MaxRounds = 2
  MaxLoads = 2
  McpCalls = {m1, m2}
  NoMcpCall = NoMcpCall
  MaxFailures = 2
  MaxBreaks = 3
  Episodes = {e1}
  Memories = {n1}
  Editors = {u1}
  Importance = {5}
  Permanent = 5
  MaxVer = 2
  MaxFaults = 1
CHECK_DEADLOCK FALSE
INVARIANTS
  HistoryInOrder OwnAnswer
  SteersInOrder
  BudgetExact
PROPERTIES
  ImplementsConversation CompactNeverMissed
  McpCallsOnce
  WorkIsDone
