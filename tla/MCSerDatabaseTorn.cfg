CONSTANTS
  Relays = {"r735", "r451"}
  FileRelays = {"r735"}
  Other = "other"
  Lines = 2
  PruneEvery = 2
  Window = 1
  SqlFails = FALSE
  Crashes = TRUE
  MaxFaults = 1
  MaxEvents = 1
  MaxLogged = 2
  MaxRevision = 1
  MaxAged = 0
SPECIFICATION Spec
INVARIANTS
  SettingsWhole
CHECK_DEADLOCK FALSE
