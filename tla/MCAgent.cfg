SPECIFICATION AgentSpec
CONSTANTS
  MaxChildren = 4
  MaxTurns = 2
  MaxAttempts = 2
  MaxLimited = 1
  MaxVerifyRetries = 1
  MaxRevisions = 1
  CritiqueTypes = {"code"}
  Revision = TRUE
  RecursionLimit = 21
  ReadCalls = {r1, r2}
  WriteCalls = {w1}
  LoadCalls = {load}
  RepeatLimit = 2
  WriteLimit = 4
  CycleWindow = 6
  MaxRecords = 7
  GoalLoop = GoalLoop
  Sweep = Sweep
  Keep = 1
  BlockSize = 2
  Limit = 2
  MaxStored = 4
  MaxCtxFaults = 1
  TaskGoals = {t1}
  CompactGoals = {k1}
  NoGoal = NoGoal
  MaxMainFaults = 2
  Conns = {a, b}
  MaxRows = 2
  MaxDeletes = 1
  MaxStoreFaults = 1
  MaxTasks = 3
  MayDrop = TRUE
  Chats = {d1, d2}
  NoChat = NoChat
  OldChats = {d1}
  MaxTurnsSent = 2
  MaxOpens = 2
  MaxTestRuns = 2
  Files = {1, 2}
  Symbols = {1, 2, 3}
  Home <- HomeFile
  BatchSize = 1
  MaxScans = 2
  MaxIndexFaults = 1
  EpisodeInterval = 2
  MaxEpisodes = 2
  MaxFacts = 3
  MaxRepeats = 1
  MaxEdits = 1
  CriticEnabled = TRUE
  Processes = {p1, p2}
  Drafts = {draft}
  CuratorInterval = 2
  MinIdle = 1
  MaxHours = 4
  MaxEnded = 2
  MaxUses = 2
  MaxRecordFaults = 1
  SkillNames = {q1, q2}
  NoVote = NoVote
  VoteAttempts = 3
  PlanAttempts = 3
  MaxReloads = 1
  Requests = {m1, m2}
  Emails = {user}
  Spellings = {1, 2}
  Lower <- LowerCase
  MaxFailedLogins = 2
  LockoutTime = 1
  MaxTime = 3
  MaxCount = 3
  MaxAccounts = 3
  MaxRestarts = 1
  DiscordTaskIds = {e1}
  MaxDiscordFaults = 2
  MaxIters = 3
  StopScore = 2
  TokenizerKnown = TRUE
  Builtins <- BuiltinServers
  ConfigNames = {"ast", "mine"}
  McpChats = {c1, c2}
  MaxFolders = 1
  MaxMcpFaults = 1
  SomeTexts <- FewTexts
  PinnedTexts <- FewPinned
  EffectiveBudget = 6
  RagSlot = 3
  SummarySlot = 2
  AnchorSlot = 1
  TurnsSlot = 3
  FinalK = 2
  HeaderLength = 1
  SeparatorLength = 1
  WindowSize = 8
  MaxFilled = 2
  CallIds = {i1, i2}
  MaxMessages = 4
  Bases = 2
  AttemptsPerBase = 2
  MaxChunks = 2
  FolderChats = {g1, g2}
  NoChatId = NoChatId
  PathNames = {"x", "..z"}
  DottedNames = {"..z"}
  SomeFolders <- TwoFolders
  FewPaths <- SomePaths
  SeedFolder <- FirstFolder
  ToolTurns = {h1}
  MaxLines = 2
  MaxHits = 1
  MaxChanges = 1
  MaxFolderFaults = 2
  ToolIds = {j1, j2}
  MaxPieces = 2
  MaxThoughts = 1
  MaxLag = 1
  MaxViewFaults = 1
  Managers = {o1, o2}
  MaxInserted = 3
  MaxStreamFaults = 1
  MaxRunFaults = 2
  MaxReflections = 1
  Bibliographies <- SomeBibliographies
  InventedKeys <- MadeUpKeys
  PaperSections = {"Methods", "Results"}
  TargetWords = 2
  Clis = {c1, c2}
  DefaultSpace = ws0
  OtherSpaces = {ws1}
  RecentSessions = 1
  MaxTokens = 1
  MaxSessions = 2
CHECK_DEADLOCK FALSE
INVARIANTS
  FailureNotMasked QuestionMeansNoWork AnswerIsFresh
  LoopsBounded GoalsAnswered MemoryKept DocumentsKept ClientsAgree
  LegibleCredit SeenIsCurrent RunOrLoop BestReturned
  McpServersAgree FillIsTrue CallsAreSound FoldersRight
PROPERTY TerminalNotRetried
