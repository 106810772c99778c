\* Discovery alone, over calls that fail and a crash.
CONSTANTS
  l1 = l1
  u1 = u1
  Launchers <- NoLauncher
  Uis <- NoUi
  UiOps = {}
  Discovery = TRUE
  MaxPauses = 0
  MaxBreaks = 0
  MaxCrashes = 1
  MaxRetries = 1
  Faults = TRUE
SPECIFICATION Spec
INVARIANTS
  CompletedIsResolved
CHECK_DEADLOCK FALSE
