CONSTANTS
  Broadcasters = {"relay1", "relay2"}
  Throws = TRUE
  MaxRequests = 2
  MaxVersion = 1
  MaxPending = 1
SPECIFICATION FairSpec
INVARIANTS
  TypeOK
  OneWriter
  AtMostOneRead
  ReadLoopAlive
  AnswersInOrder
PROPERTIES
  PageConverges
  RequestsAreRead
CHECK_DEADLOCK FALSE
