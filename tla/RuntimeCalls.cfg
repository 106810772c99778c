CONSTANTS
  Callers = {c1, d}
  Drainer = d
  FailureThreshold = 3
  ResetTimeout = 1
  HistorySize = 2
  MaxFailures = 4
  NSessions = 3
  PageSize = 2
  MaxPages = 2
  MaxHalvings = 1
  Budget = 1
SPECIFICATION CallsSpec
INVARIANTS
  ClosedWithinAllowance
  HistoryAgrees
  LadderAloneDoesNotTrip
  MissingWasAway
PROPERTY RecoveredIsReached
CHECK_DEADLOCK FALSE
