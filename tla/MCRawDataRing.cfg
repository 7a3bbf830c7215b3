CONSTANTS
  m1 = m1
  m2 = m2
  Messages <- MCMessages
  MaxReaders = 2
  MaxSize = 2
  MaxWrites = 4
SPECIFICATION FairSpec
INVARIANTS
  ReaderStream
  NothingHeldInVain
PROPERTIES
  ImplementsBroadcast
  ReaderCatchesUp
