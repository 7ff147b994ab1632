CONSTANTS
  q1 = q1  q2 = q2
  t1 = t1  t2 = t2
  p1 = p1  p2 = p2
  clean = clean  patched = patched
  other = other  otherPatched = otherPatched
  None = None
  Requests <- MCRequests
  Tokens <- MCTokens
  Callers <- MCCallers
  Contents <- MCContents
  Apply <- MCApply
  MaxVersion = 7
SPECIFICATION InstanceSpec
SYMMETRY MCSymmetry
INVARIANTS
  OneLiveAttempt
  VerifiedWasApplied
PROPERTIES
  ClosedIsQuiet
