CONSTANTS
  Rx = "rx"
  Nobody = "nobody"
  Users <- MCNone
  FsmCommands <- MCFsmCommands
  RawCommands <- MCNone
  L2Commands <- MCNone
  MaxRetries = 2
  LoginRetries = 1
  SlowAnswers = FALSE
  Exceptions = FALSE
  EarlyUsers = FALSE
  MaxQueue = 1
  MaxWire = 0
SPECIFICATION FairSpec
PROPERTIES
  ReconnectsAfterDrop
CHECK_DEADLOCK FALSE
