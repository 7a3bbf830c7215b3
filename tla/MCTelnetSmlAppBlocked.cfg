SPECIFICATION FairSpec
CONSTANTS
  Relays = {r1, r2}
  Passwords = {p1, p2}
  Nobody = nobody
  Main = main
  Poller = poller
  Server = server
  Handlers = {h1, h2}
  Collectors = {c1, c2}
  MaxRetries = 1
  TarRows = 1
  RowLimit = 2
  MaxRequests = 0
PROPERTIES
  OthersArePolled
