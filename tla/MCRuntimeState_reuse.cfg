CONSTANTS
  None = None
  scan = scan
  publish = publish
  c1 = c1
  c2 = c2
  Run = {r1, r2, r3}
  Phase <- ChainPhase
  Deps <- ChainDeps
  PhaseType <- ChainType
  Publication = publish
  Claim = {c1}
  Agent = {}
  Session = {}
  Input = {i1, i2}
  Output = {o1}
  Target = {t1, t2}
  MaxVersion = 4
  MaxAttempts = 0
SPECIFICATION Spec
SYMMETRY ReuseSymmetry
CHECK_DEADLOCK FALSE
INVARIANTS
  ReuseIsGrounded
