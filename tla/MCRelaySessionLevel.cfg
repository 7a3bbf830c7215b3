CONSTANTS
  Rx = "rx"
  Nobody = "nobody"
  Users <- MCNone
  FsmCommands <- MCFsmCommands
  RawCommands <- MCNone
  L2Commands <- MCL2Commands
  MaxRetries = 2
  LoginRetries = 1
  SlowAnswers = TRUE
  Exceptions = FALSE
  EarlyUsers = FALSE
  MaxQueue = 1
  MaxWire = 1
SPECIFICATION Spec
INVARIANTS
  LevelTwoNeverKept
CHECK_DEADLOCK FALSE
