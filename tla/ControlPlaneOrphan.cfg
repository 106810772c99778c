\* A crash before the run is bound.
CONSTANTS
  l1 = l1
  u1 = u1
  Launchers <- OneLauncher
  Uis <- NoUi
  UiOps = {}
  Discovery = FALSE
  MaxPauses = 0
  MaxBreaks = 0
  MaxCrashes = 1
  MaxRetries = 1
  Faults = FALSE
SPECIFICATION FairSpec
PROPERTIES
  RecoveredRunEnds
CHECK_DEADLOCK FALSE
