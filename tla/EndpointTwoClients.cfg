SPECIFICATION FairSpec
CONSTANTS
  c1 = c1
  c2 = c2
  s1 = s1
  d1 = d1
  d2 = d2
  d3 = d3
  NoOne = NoOne
  Connectors <- TwoConnectors
  Stoppers <- NoStopper
  Daemons <- TwoDaemons
  Build <- TwoBuilds
  Killable <- AllProcesses
  MaxRequests = 2
  MaxKills = 1
  MaxSlowStarts = 1
CHECK_DEADLOCK FALSE
INVARIANTS
  TypeOK
  LeftoverMeansKill
  OneSpawner
PROPERTY EveryCommandEnds
