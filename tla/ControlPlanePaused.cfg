\* A suspend announced late, over a finished run.
CONSTANTS
  l1 = l1
  u1 = u1
  Launchers <- OneLauncher
  Uis <- OneUi
  UiOps = {"cancel"}
  Discovery = TRUE
  MaxPauses = 1
  MaxBreaks = 0
  MaxCrashes = 0
  MaxRetries = 1
  Faults = FALSE
SPECIFICATION Spec
PROPERTIES
  TerminalNeverPaused
CHECK_DEADLOCK FALSE
