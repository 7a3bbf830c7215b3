CONSTANTS
  Capacity = 8
  Prefix = 2
  Sizes <- SmallSnapshots
  Junk = {0, 1}
  MaxConnects = 1
  MaxDisconnects = 0
  MaxOutages = 0
SPECIFICATION Spec
CHECK_DEADLOCK FALSE
INVARIANT NothingTorn
