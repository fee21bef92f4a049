SPECIFICATION Spec
CONSTANTS
  c1 = c1
  c2 = c2
  s1 = s1
  d1 = d1
  d2 = d2
  d3 = d3
  NoOne = NoOne
  Connectors <- TwoConnectors
  Stoppers <- NoStopper
  Daemons <- ThreeDaemons
  Build <- OneBuild
  Killable <- Nobody
  MaxRequests = 4
  MaxKills = 0
  MaxSlowStarts = 0
CHECK_DEADLOCK FALSE
SYMMETRY AllSymmetry
INVARIANT ListenerKeepsPath
