CONSTANTS
  m1 = m1
  w1 = w1
  Monitors <- MCMonitors
  Watches <- MCWatches
  MaxRuns = 3
  MaxIds = 5
  MaxCalls = 4
  BackoffBase = 1
  BackoffCap = 4
  MaxRestarts = 2
  RestartWindow = 6
  StableReset = 6
  Lateness = 1
  Quick = 0
  MaxTime = 20
  Generations = 3
  MaxSize = 1
  MaxLines = 9
  MaxAgents = 4
SPECIFICATION MCSpec
INVARIANTS TypeOK StoreMirrorsAgent ConfigSurvives ViewsFollow
  LadderTypeOK BudgetKept RetriesBounded LogIsWhole
CHECK_DEADLOCK FALSE
