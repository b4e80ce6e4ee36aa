SPECIFICATION MCSpec
CONSTANTS
  Styles = {"new", "scoped", "resume", "fresh", "compact"}
  MaxAsks = 2
  MaxCodexRestarts = 1
  Threads = {"a", "b"}
  InboxCap = 2
  MaxIds = 4
  Steps = {1}
  MaxAgyEvents = 3
  MaxUpdates = 1
  MaxLines = 5
  MaxPids = 4
  MaxBoots = 1
  MaxLives = 1
  PidsWrap = FALSE
  Users = {"m", "n", "o"}
  MaxWrites = 3
  MaxAccounts = 2
PROPERTIES
  
  
  StreamSafety
  LaunchSafety
  SessSafety
CHECK_DEADLOCK FALSE
