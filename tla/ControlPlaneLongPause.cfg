\* A session that stays suspended longer than the retry budget.
CONSTANTS
  l1 = l1
  u1 = u1
  Launchers <- OneLauncher
  Uis <- OneUi
  UiOps = {"suspend"}
  Discovery = FALSE
  MaxPauses = 1
  MaxBreaks = 0
  MaxCrashes = 0
  MaxRetries = 1
  Faults = FALSE
SPECIFICATION Spec
PROPERTIES
  SuspendedRunSurvives
CHECK_DEADLOCK FALSE
