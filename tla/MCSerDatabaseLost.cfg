CONSTANTS
  Relays = {"r735", "r451"}
  FileRelays = {"r735"}
  Other = "other"
  Lines = 1
  PruneEvery = 2
  Window = 1
  SqlFails = FALSE
  Crashes = FALSE
  MaxFaults = 0
  MaxEvents = 2
  MaxLogged = 2
  MaxRevision = 0
  MaxAged = 0
SPECIFICATION FairSpec
PROPERTIES
  CatchUpStores
CHECK_DEADLOCK FALSE
