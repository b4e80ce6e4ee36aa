SPECIFICATION Spec
CONSTANTS
  MaxAttempts = 1
  TurnLimit = 1
  Modes <- MCBackground
  Drifts <- MCSteady
  Commands <- MCAll
  MayCrash = TRUE
  Failures = {}
PROPERTY CallsFollowIntent
