SPECIFICATION FairSpec
CONSTANTS
  r1 = r1  r2 = r2  r3 = r3  b1 = b1  b2 = b2  w1 = w1  w2 = w2
  Runs <- Two
  Backends = {b1}
  Workspaces = {w1, w2}
  BackendOf <- OneBackend
  WorkspaceOf <- OwnWorkspace
  MaxQueue = 1
  PerBackend = 1
  MaxConcurrency = Unlimited
  Unlimited = Unlimited
  NoRun = NoRun
  Background = TRUE
  HostSurvives = TRUE
  PlannedStops = FALSE
  QueueSize = 2
  BackoffCap = 4
  LegacyRuns = {}
  MayRefuse = {}
  LostEvidence = {}
  ProgressKinds = {}
  FinalKinds = {"succeeded"}
  ReconcileKinds = {}
  CancelKinds = {}
  Streams = FALSE
  Requests = {"submit", "pause", "resume"}
  MaxFaults = 3
  MaxCrashes = 0
PROPERTIES
  NothingIsStuck
