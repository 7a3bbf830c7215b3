CONSTANTS
  Relays = {"r735", "r451"}
  FileRelays = {"r735"}
  Other = "other"
  Lines = 2
  PruneEvery = 2
  Window = 1
  SqlFails = FALSE
  Crashes = FALSE
  MaxFaults = 0
  MaxEvents = 1
  MaxLogged = 2
  MaxRevision = 1
  MaxAged = 0
SPECIFICATION Spec
INVARIANTS
  EntriesLinked
CHECK_DEADLOCK FALSE
