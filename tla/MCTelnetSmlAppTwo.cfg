SPECIFICATION FairSpec
CONSTANTS
  Relays = {r1}
  Passwords = {p1, p2}
  Nobody = nobody
  Main = main
  Poller = poller
  Server = server
  Handlers = {h1, h2}
  Collectors = {c1}
  MaxRetries = 1
  TarRows = 1
  RowLimit = 2
  MaxRequests = 2
INVARIANTS
  HolderWaitsForPipeline
  FlagHasOwner
  PasswordKept
PROPERTIES
  ImplementsLifetime
