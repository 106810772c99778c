\* Every database and runtime call may fail, and the process may die once.
CONSTANTS
  l1 = l1
  u1 = u1
  Launchers <- OneLauncher
  Uis <- NoUi
  UiOps = {}
  Discovery = FALSE
  MaxPauses = 0
  MaxBreaks = 0
  MaxCrashes = 1
  MaxRetries = 1
  Faults = TRUE
SPECIFICATION Spec
INVARIANTS
  CompletedIsResolved
PROPERTIES
  Refines
CHECK_DEADLOCK FALSE
