CONSTANTS
  Capacity = 8
  Prefix = 2
  Sizes <- FullSnapshots
  Junk = {0, 1}
  MaxConnects = 1
  MaxDisconnects = 0
  MaxOutages = 0
SPECIFICATION FairSpec
CHECK_DEADLOCK FALSE
PROPERTY WriterReturns
