CONSTANTS
  MaxReaders = 2
  MaxSize = 1
  NFiles = 1
  MaxPolls = 1
SPECIFICATION FairSpec
INVARIANTS
  NoSleepOverWork
PROPERTIES
  ImplementsService
  Drains
  StopReturnsIfHeard
