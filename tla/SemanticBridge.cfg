SPECIFICATION FairSpec
CONSTANTS
  c1 = c1
  c2 = c2
  c3 = c3
  Callers <- ThreeCallers
  MaxRestarts = 2
  Cooldown = 2
  MaxRequests = 3
CHECK_DEADLOCK FALSE
INVARIANTS
  LateFailureSparesNewBridge
  FailedInitsAreCapped
  NoCircularWait
PROPERTIES
  ImplementsBridge
  EveryCallerReturns
