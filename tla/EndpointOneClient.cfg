SPECIFICATION Spec
CONSTANTS
  c1 = c1
  c2 = c2
  s1 = s1
  d1 = d1
  d2 = d2
  d3 = d3
  NoOne = NoOne
  Connectors <- OneConnector
  Stoppers <- OneStopper
  Daemons <- ThreeDaemons
  Build <- OneBuild
  Killable <- ThreeDaemons
  MaxRequests = 4
  MaxKills = 1
  MaxSlowStarts = 0
CHECK_DEADLOCK FALSE
SYMMETRY DaemonSymmetry
INVARIANTS
  ListenerKeepsPath
  CleanupSparesOthers
