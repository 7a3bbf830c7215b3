CONSTANTS
  Rx = "rx"
  Nobody = "nobody"
  Users <- MCUsers
  FsmCommands <- MCFsmCommands
  RawCommands <- MCNone
  L2Commands <- MCNone
  MaxRetries = 1
  LoginRetries = 1
  SlowAnswers = FALSE
  Exceptions = TRUE
  EarlyUsers = FALSE
  MaxQueue = 1
  MaxWire = 0
SPECIFICATION FairSpec
INVARIANTS
  CommandsNeedSession
PROPERTIES
  ReachesOperational
  CommandReturns
  StopReleases
CHECK_DEADLOCK FALSE
