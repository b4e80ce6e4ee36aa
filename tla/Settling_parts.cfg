SPECIFICATION MCSpec
CONSTANTS
  MaxAttempts = 1
  TurnLimit = 1
  Modes <- MCModes
  Drifts <- MCSteady
  Commands <- MCAll
  MayCrash = FALSE
  Failures = {}
  Jobs <- MCJobs
  Keys = {"k", "l"}
  Targets = {1, 2}
  Checks = {1}
  Concurrency = 1
  MaxCheckFails = 1
  MaxCheckStops = 1
  Trees = {1, 2, 3}
  Sound = {1, 2}
  MaxRuns = 3
  MaxRepairs = 1
  Gated = TRUE
  AutoRepair = TRUE
  MaxFlows = 1
  SegRuns <- MCSegRuns
  Contracts = {1}
  Soft = 2
  TaskHard = 5
  MaxSegments = 2
  MaxPerTask = 3
  Amounts = {1}
  Presents = FALSE
  MaxSegRestarts = 2
  Threads = {"a", "b"}
  InboxCap = 2
  MaxIds = 3
  Reviews = {1, 2, 3}
  Notices = {1, 2}
  PageSize = 1
  MaxPages = 1
  MaxChanges = 2
PROPERTIES
  ControlSettles
  AcceptanceSettles
  
CHECK_DEADLOCK FALSE
