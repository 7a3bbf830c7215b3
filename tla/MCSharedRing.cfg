CONSTANTS
  MaxReaders = 2
  Capacity = 7
  HeaderSize = 2
  Lengths = {1, 2, 3}
  MaxWrites = 4
SPECIFICATION FairSpec
INVARIANTS
  NeverRefused
  CursorOnRecord
PROPERTIES
  WriteReturns
