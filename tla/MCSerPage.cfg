CONSTANTS
  Capacity = 8
  Prefix = 2
  Sizes <- SmallSnapshots
  Junk = {0, 1}
  MaxConnects = 1
  MaxDisconnects = 1
  MaxOutages = 1
SPECIFICATION FairSpec
CHECK_DEADLOCK FALSE
INVARIANTS
  NoLostWakeup
PROPERTIES
  PageConverges
  StaysConnected
  StaysDisconnected
