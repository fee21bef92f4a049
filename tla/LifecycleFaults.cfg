SPECIFICATION Spec
CONSTANTS
  k1 = k1
  k2 = k2
  r1 = r1
  r2 = r2
  NoOne = NoOne
  Connections <- TwoConnections
  Requests <- TwoRequests
  MaxConnections = 1
  MaxInFlight = 2
  MissingPolls = 2
  MaxReadErrors = 1
  MaxRootChanges = 1
CHECK_DEADLOCK FALSE
SYMMETRY Clients
INVARIANTS
  TypeOK
  CountMatchesWork
  ServedFromLoadedProject
  LongWorkKeepsDaemon
