CONSTANTS
  w1 = w1
  s1 = s1  s2 = s2
  h1 = h1  h2 = h2
  k1 = k1  k2 = k2
  p1 = p1  p2 = p2
  whole = whole  part = part
  None = None
  Workspaces <- MCWorkspaces
  Scans <- MCScans
  Threads <- MCThreads
  Tokens <- MCTokens
  Recovery <- MCRecovery
  Modes <- MCModes
  Scopes <- MCScopes
  Callers <- MCCallers
  Phases = {0, 1}
SPECIFICATION Spec
CHECK_DEADLOCK FALSE
SYMMETRY MCSymmetry
INVARIANTS
  OneScanRuns
  ScanMatchesSetup
  ThreadFollowsClaim
