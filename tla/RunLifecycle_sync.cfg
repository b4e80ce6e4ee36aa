SPECIFICATION Spec
CONSTANTS
  r1 = r1  r2 = r2  r3 = r3  b1 = b1  b2 = b2  w1 = w1  w2 = w2
  Runs <- Two
  Backends = {b1}
  Workspaces = {w1, w2}
  BackendOf <- OneBackend
  WorkspaceOf <- OwnWorkspace
  MaxQueue = 1
  PerBackend = 1
  MaxConcurrency = Unlimited
  Unlimited = Unlimited
  NoRun = NoRun
  Background = FALSE
  HostSurvives = TRUE
  PlannedStops = TRUE
  QueueSize = 2
  BackoffCap = 4
  LegacyRuns = {r2}
  MayRefuse = {}
  LostEvidence = {r2}
  ProgressKinds = {"progress"}
  FinalKinds = {"succeeded", "progress", "waiting", "unknown"}
  ReconcileKinds = {"succeeded"}
  CancelKinds = {"cancelled"}
  Streams = TRUE
  Requests = {"submit", "cancel", "pause", "resume", "reconcile", "respond", "terminate"}
  MaxFaults = 1
  MaxCrashes = 1
PROPERTIES
  MarksGovernSlots
