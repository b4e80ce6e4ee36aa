SPECIFICATION Spec
CONSTANTS
  r1 = r1  r2 = r2  r3 = r3  b1 = b1  b2 = b2  w1 = w1  w2 = w2
  Runs <- Three
  Backends = {b1, b2}
  Workspaces = {w1, w2}
  BackendOf <- SomeBackends
  WorkspaceOf <- SomeWorkspaces
  MaxQueue = 2
  PerBackend = 2
  MaxConcurrency = 2
  Unlimited = Unlimited
  NoRun = NoRun
  Background = TRUE
  HostSurvives = TRUE
  PlannedStops = FALSE
  QueueSize = 2
  BackoffCap = 4
  LegacyRuns = {}
  MayRefuse = {}
  LostEvidence = {}
  ProgressKinds = {"progress"}
  FinalKinds = {"succeeded", "unknown"}
  ReconcileKinds = {}
  CancelKinds = {}
  Streams = FALSE
  Requests = {"submit"}
  MaxFaults = 1
  MaxCrashes = 1
INVARIANTS
  SchedulerSound
PROPERTIES
  DispatchWithinLimits
