CONSTANTS
  Rx = "rx"
  Nobody = "nobody"
  Users <- MCUsers
  FsmCommands <- MCFsmCommands
  RawCommands <- MCNone
  L2Commands <- MCNone
  MaxRetries = 2
  LoginRetries = 1
  SlowAnswers = FALSE
  Exceptions = FALSE
  EarlyUsers = TRUE
  MaxQueue = 1
  MaxWire = 0
SPECIFICATION FairSpec
PROPERTIES
  CommandReturns
CHECK_DEADLOCK FALSE
