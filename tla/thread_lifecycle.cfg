SPECIFICATION FairSpec
CONSTANT MaxCalls = 8
INVARIANTS
  TypeOK
  ExitedIsOver
  StatusIsTrue
PROPERTY StartRuns
CHECK_DEADLOCK FALSE
