SPECIFICATION MCSpec
CONSTANTS
  Clients = {c1, c2}
  Pieces = 1
  MaxJob = 2
  MaxStops = 2
  MaxConf = 1
  SlowClients = TRUE
  ClientsDie = TRUE
  DiskFull = TRUE
  None = None
INVARIANT
  JobNumberFresh
