SPECIFICATION Spec
CONSTANTS
  d1 = d1
  r1 = r1
  r2 = r2
  p1 = p1
  p2 = p2
  Docs <- OneDoc
  Settings <- ProjectScope
  Runs <- NoRuns
  Passes <- TwoPasses
  Findings <- CleanOrNative
  MaxTasks = 3
  MaxTexts = 3
  MaxSaves = 0
CHECK_DEADLOCK FALSE
SYMMETRY Symmetric
INVARIANT FixedFindingsLeave
