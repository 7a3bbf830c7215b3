CONSTANTS
  Broadcasters = {"relay1"}
  Throws = TRUE
  MaxRequests = 2
  MaxVersion = 2
  MaxPending = 1
SPECIFICATION FairSpec
INVARIANTS
  OneWriter
  AtMostOneRead
  ReadLoopAlive
  AnswersInOrder
PROPERTIES
  NoAnswerLost
  PageConverges
  RequestsAreRead
CHECK_DEADLOCK FALSE
