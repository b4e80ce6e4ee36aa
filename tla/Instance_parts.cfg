SPECIFICATION MCSpec
CONSTANTS
  Execs = {"a", "b", "c"}
  Managed = {"a"}
  Convs = {"x", "y"}
  ConvOf <- MCConv
  Pools = {"p", "q"}
  Revs <- MCRevs
  Conf <- MCConf
  Ids = {1, 2}
  MaxPluginFaults = 2
  MaxLedger = 1
  MaxServiceFaults = 2
  StoreKeys = {"k"}
  Inputs = {"x", "y"}
  MaxTasks = 2
  MaxStoreFaults = 2
  MaxRestores = 1
  Requests = {"r", "s"}
  Callers = {n1, n2}
  Pollers = {n1, n2}
  Hosts = {"h"}
  Limit = 1
  MaxCoreRuns = 2
  MaxEvents = 1
  MaxSeq = 3
  MaxLosses = 1
  Ops = {n1, n2}
  MaxRevisions = 2
  MaxTries = 9
  Reviews = {1, 2, 3}
  Notices = {1, 2}
  PageSize = 1
  MaxPages = 2
  MaxChanges = 3
  Plans = {"p"}
  SubmitKeys = {"k", "l"}
  MaxRepairs = 1
  MaxEdits = 3
  Clients = {n1, n2}
  MaxCommands = 2
  MaxFeedEvents = 4
  FeedPage = 2
  HandRequests = {n1, n2}
  MaxMoves = 2
SYMMETRY MCSymmetry
PROPERTIES
  
  ServiceSafety
  
  
  
  
  FeedSafety
  HandSafety
CHECK_DEADLOCK FALSE
