SPECIFICATION FairSpec
CONSTANTS
  f1 = f1
  t1 = t1
  t2 = t2
  r1 = r1
  NoOne = NoOne
  StartupTask = t1
  DefaultPath = 1
  Files <- OneFile
  Tasks <- TwoTasks
  Requests <- OneRequest
  Paths <- TwoPaths
  MAX_OFFLOAD_ATTEMPTS = 2
  MaxDisk = 1
  MaxStarts = 1
CHECK_DEADLOCK FALSE
INVARIANTS
  TypeOK
  OneGeneration
  OverlayWins
  AnswersAreCurrent
PROPERTIES
  NothingGoesBack
  EveryTaskEnds
