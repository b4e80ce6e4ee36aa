SPECIFICATION MCSpec
CONSTANTS
  Callers = {"m", "n", "o"}
  MaxCalls = 8
  MaxRemovals = 2
  Presenters = {1, 2}
  MaxProjects = 2
  MaxHands = 2
  SegRuns <- MCSegRuns
  Contracts = {1, 2}
  Soft = 2
  TaskHard = 5
  MaxSegments = 2
  MaxPerTask = 3
  Amounts = {1, 3}
  Presents = TRUE
  MaxSegRestarts = 1
  CallIds = {1}
  FileNames = {"a", "b"}
  MaxTold = 3
  MaxHistory = 2
  MaxFiles = 1
  MaxCommands = 3
  MaxDetail = 1
  NotesMax = 1
  SoftSize = 3
  HardSize = 4
  FixedSizes = {1, 3}
  Tasks = {"m", "n", "o"}
  Accounts = {"a", "b"}
  Scopes = {"s", "w"}
  MaxThreads = 2
  MaxAgain = 1
  MaxAccountMoves = 1
  Clients = {"c", "d"}
  QuotaScopes = {"s"}
  Batches <- MCBatches
  Interval = 3
  Lifetime = 2
  ProbeLasts = 3
  SnapLimit = 2
  CodexRuns = {"x"}
  MaxTime = 5
  MaxManual = 1
  MaxDeaths = 1
  Group <- MCGroup
  Primary = "p"
  Offers <- MCOffers
  Keys = {"m", "n"}
  MaxHours = 24
  MaxOffers = 3
  MaxRuns = 2
PROPERTIES
  DesktopSafety
  SegSafety
  CapSafety
  ConvSafety
  
CHECK_DEADLOCK FALSE
