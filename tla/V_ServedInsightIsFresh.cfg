SPECIFICATION Spec
CONSTANTS
  q1 = q1
  q2 = q2
  q3 = q3
  e1 = e1
  e2 = e2
  Queries <- TwoQueries
  Editors <- OneEditor
  MaxChanges = 1
  MaxRequests = 3
  MaxFailures = 0
SYMMETRY Threads
CHECK_DEADLOCK FALSE
INVARIANT ServedInsightIsFresh
