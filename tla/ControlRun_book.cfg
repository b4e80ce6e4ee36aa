SPECIFICATION Spec
CONSTANTS
  MaxAttempts = 2
  TurnLimit = 1
  Modes <- MCModes
  Drifts <- MCModes
  Commands <- MCAll
  MayCrash = TRUE
  Failures = {"commit", "result"}
INVARIANTS
  BookConsistent
  TurnsCoverCalls
  PausedIsQuiet
PROPERTIES
  PromiseKept
  NoRefusedTransition
