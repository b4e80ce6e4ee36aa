SPECIFICATION MCSpec
CONSTANTS
  Jobs <- MCJobs
  Keys = {k1, k2}
  Targets = {1, 2}
  Checks = {1, 2}
  Concurrency = 1
  MaxCheckFails = 1
  MaxCheckStops = 1
  Trees = {1, 2, 3}
  Sound = {1, 2}
  MaxRuns = 4
  MaxRepairs = 1
  Gated = TRUE
  AutoRepair = TRUE
  MaxFlows = 2
  Stages = {"consumer"}
  Staged = {"up"}
  Reviewed = {"down"}
  FilesOf <- MCFiles
  AttemptsOf <- MCAttempts
SYMMETRY MCKeySymmetry
PROPERTIES
  ChecksSafety
  FlowSafety
  GatesSafety
CHECK_DEADLOCK FALSE
