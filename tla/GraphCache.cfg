SPECIFICATION FairSpec
CONSTANTS
  q1 = q1
  q2 = q2
  q3 = q3
  e1 = e1
  e2 = e2
  Queries <- TwoQueries
  Editors <- OneEditor
  MaxChanges = 1
  MaxRequests = 2
  MaxFailures = 1
CHECK_DEADLOCK FALSE
INVARIANTS
  ServedCallGraphIsFresh
  CacheIsOneBuild
  FilledFromItsInsight
  ServedSourcesAreFresh
  SingleFlight
  ProgressIsHonest
  WaitsFollowLockOrder
PROPERTIES 
 ImplementsService
 EveryCallReturns
