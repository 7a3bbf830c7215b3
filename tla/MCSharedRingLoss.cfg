CONSTANTS
  MaxReaders = 1
  Capacity = 8
  HeaderSize = 2
  Lengths = {1}
  MaxWrites = 4
SPECIFICATION Spec
INVARIANTS
  NoSilentLoss
