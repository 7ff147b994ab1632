CONSTANTS
  f1 = f1  f2 = f2
  w1 = w1
  None = None
  Drafts <- MCDrafts
  Workers <- MCWorkers
  MaxDeaths = 2
SPECIFICATION Spec
CHECK_DEADLOCK FALSE
INVARIANTS
  SealIsHonest
  StoppedResultsArePublished
  RecoveryIsOffered
