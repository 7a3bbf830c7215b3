CONSTANTS
  Capacity = 8
  Prefix = 2
  Sizes <- SmallSnapshots
  Junk = {0, 1}
  MaxConnects = 2
  MaxDisconnects = 1
  MaxOutages = 0
SPECIFICATION FairSpec
CHECK_DEADLOCK FALSE
INVARIANT ConnectedReads
