CONSTANTS
  first = first
  second = second
  Agents <- Workers
  MaxAttempts <- Tries
  MaxDisturbances = 1
SPECIFICATION SessionSpec
CHECK_DEADLOCK FALSE
INVARIANTS
  AbortIsThorough
PROPERTIES
  AbortedWorkEnds
