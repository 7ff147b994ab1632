CONSTANTS
  a = a
  b = b
  r = r
  report = report
  scan = scan
  Run <- Runs
  Phase <- Phases
  Deps <- Chain
  PhaseType <- Types
  Publication = report
  Claim = {c1, c2}
  Agent = {}
  Session = {}
  Input = {i1}
  Output = {o1}
  Target = {t1}
  MaxVersion = 14
  MaxAttempts = 1
  None = None
  TheRun = r
  Order <- Topological
  MaxParallel = 1
  MaxMishaps = 1
  AbortFailure = TRUE
SPECIFICATION LifecycleSpec
CHECK_DEADLOCK FALSE
INVARIANTS
  ExecutorsOwnTheirPhase
  SettledMeansRecorded
PROPERTIES
  StopIsHonored
  CanceledAfterBarrier
  CallsAreClientCalls
  ExecutionEnds
  CancelIsFinished
