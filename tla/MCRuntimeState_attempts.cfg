CONSTANTS
  None = None
  scan = scan
  publish = publish
  c1 = c1
  c2 = c2
  Run = {r1}
  Phase <- ChainPhase
  Deps <- ChainDeps
  PhaseType <- ChainType
  Publication = publish
  Claim <- Claims
  Agent = {a1}
  Session = {s1, s2}
  Input = {i1}
  Output = {o1, o2}
  Target = {t1}
  MaxVersion = 10
  MaxAttempts = 2
SPECIFICATION Spec
SYMMETRY Symmetry
CHECK_DEADLOCK FALSE
INVARIANTS
  CompletedRunIsWhole
  CanceledRunIsSettled
  LogTellsOutcome
PROPERTIES
  ImplementsContract
