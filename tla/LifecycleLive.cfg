SPECIFICATION FairSpec
CONSTANTS
  k1 = k1
  k2 = k2
  r1 = r1
  r2 = r2
  NoOne = NoOne
  Connections <- OneConnection
  Requests <- TwoRequests
  MaxConnections = 1
  MaxInFlight = 1
  MissingPolls = 2
  MaxReadErrors = 1
  MaxRootChanges = 2
CHECK_DEADLOCK FALSE
INVARIANT AnswersBeforeClose
PROPERTIES
  GoneRootEndsDaemon
  IdleDaemonEnds
  ShutdownComes
