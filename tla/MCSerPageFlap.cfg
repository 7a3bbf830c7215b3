CONSTANTS
  Capacity = 8
  Prefix = 2
  Sizes <- SmallSnapshots
  Junk = {0, 1}
  MaxConnects = 2
  MaxDisconnects = 0
  MaxOutages = 1
SPECIFICATION FairSpec
CHECK_DEADLOCK FALSE
PROPERTY StaysConnected
