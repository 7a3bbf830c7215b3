CONSTANTS
  Relays = {"r735", "r451"}
  FileRelays = {"r735"}
  Other = "other"
  Lines = 1
  PruneEvery = 2
  Window = 1
  SqlFails = TRUE
  Crashes = TRUE
  MaxFaults = 1
  MaxEvents = 2
  MaxLogged = 2
  MaxRevision = 1
  MaxAged = 1
SPECIFICATION FairSpec
INVARIANTS
  TransactionOwned
  ReportedIsDurable
  ReportedOnce
PROPERTIES
  EventsStored
CHECK_DEADLOCK FALSE
