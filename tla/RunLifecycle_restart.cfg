SPECIFICATION Spec
CONSTANTS
  r1 = r1  r2 = r2  r3 = r3  b1 = b1  b2 = b2  w1 = w1  w2 = w2
  Runs <- Two
  Backends = {b1}
  Workspaces = {w1, w2}
  BackendOf <- OneBackend
  WorkspaceOf <- OwnWorkspace
  MaxQueue = 1
  PerBackend = 1
  MaxConcurrency = Unlimited
  Unlimited = Unlimited
  NoRun = NoRun
  Background = TRUE
  HostSurvives = FALSE
  PlannedStops = TRUE
  QueueSize = 2
  BackoffCap = 4
  LegacyRuns = {}
  MayRefuse = {r1}
  LostEvidence = {}
  ProgressKinds = {"progress"}
  FinalKinds = {"succeeded", "fallback"}
  ReconcileKinds = {}
  CancelKinds = {"cancelled"}
  Streams = FALSE
  Requests = {"submit", "cancel", "pause", "resume", "terminate"}
  MaxFaults = 1
  MaxCrashes = 1
INVARIANTS
  TypeOK
  AtMostOneDispatch
PROPERTIES
  TerminalIsFinal
  NoUnwantedDispatch
  PromiseKept
