CONSTANTS
  d1 = d1  d2 = d2
  r1 = r1  r2 = r2
  c1 = c1  c2 = c2
  x = x  y = y
  None = None
  Discoveries <- MCDiscoveries
  Reducers <- MCReducers
  Setups = {}
  Coordinators <- MCCoordinators
  Found <- MCFound
  StopAfterNoNew = 1
  MaxDiscoveries = 2
  MaxGeneration = 3
  MaxDeaths = 2
SPECIFICATION Spec
CHECK_DEADLOCK FALSE
SYMMETRY MCSymmetry
INVARIANTS
  BudgetCoversWork
  MergedExactlyOnce
  StreakIsEarned
PROPERTIES
  LedgerKeepsMerged
  ImplementsDeepContract
