CONSTANTS
  Broadcasters = {"relay1"}
  Throws = FALSE
  MaxRequests = 1
  MaxVersion = 1
  MaxPending = 1
SPECIFICATION FairSpec
PROPERTIES
  DeadSessionLeaves
CHECK_DEADLOCK FALSE
