CONSTANTS
  Rx = "rx"
  Nobody = "nobody"
  Users <- MCUsers
  FsmCommands <- MCFsmCommands
  RawCommands <- MCNone
  L2Commands <- MCL2Commands
  MaxRetries = 2
  LoginRetries = 2
  SlowAnswers = FALSE
  Exceptions = TRUE
  EarlyUsers = FALSE
  MaxQueue = 1
  MaxWire = 0
SPECIFICATION Spec
INVARIANTS
  LoginAttemptsBounded
  ResponseMatchesCommand
  LevelTwoOnlyInside
CHECK_DEADLOCK FALSE
