CONSTANTS
  a = a
  b = b
  c = c
  d = d
  Phase <- Phases
  Deps <- Branches
  Order <- Topological
  MaxParallel = 2
  None = None
  get = get
  prompt = prompt
  Request <- Requests
  Event = event
  Garbage = garbage
  MaxWire = 2
SPECIFICATION SchedulingSpec
CHECK_DEADLOCK FALSE
INVARIANTS
  FailureIsContained
  NothingLeftRunning
PROPERTIES
  Ends
  EveryRequestSettles
  StopEnds
