SPECIFICATION Spec
CONSTANTS
  d1 = d1
  r1 = r1
  r2 = r2
  p1 = p1
  p2 = p2
  Docs <- OneDoc
  Settings <- SomeSettings
  Runs <- TwoRuns
  Passes <- TwoPasses
  Findings <- TwoFindings
  MaxTasks = 3
  MaxTexts = 3
  MaxSaves = 1
CHECK_DEADLOCK FALSE
SYMMETRY Symmetric
INVARIANTS
  TypeOK
  NoGhost
  OpenTextIsShown
PROPERTY FreshWhenSent
