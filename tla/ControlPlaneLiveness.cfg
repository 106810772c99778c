\* Launch and discovery follow a session to its end, over a watch that breaks once.
CONSTANTS
  l1 = l1
  u1 = u1
  Launchers <- OneLauncher
  Uis <- NoUi
  UiOps = {}
  Discovery = TRUE
  MaxPauses = 0
  MaxBreaks = 1
  MaxCrashes = 0
  MaxRetries = 1
  Faults = FALSE
SPECIFICATION FairSpec
PROPERTIES
  SessionEndEndsRun
  OutcomeIsAnnounced
CHECK_DEADLOCK FALSE
