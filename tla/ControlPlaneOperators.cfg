\* Operators cancel, suspend and resume a run that is launched and streamed
\* across a crash.
CONSTANTS
  l1 = l1
  u1 = u1
  Launchers <- OneLauncher
  Uis <- OneUi
  UiOps = {"cancel", "suspend", "resume"}
  Discovery = FALSE
  MaxPauses = 1
  MaxBreaks = 0
  MaxCrashes = 1
  MaxRetries = 1
  Faults = FALSE
SPECIFICATION FairSpec
INVARIANTS
  NotifiedCompletedIsResolved
PROPERTIES
  FinishedRunIsReleased
  BoundRunEnds
CHECK_DEADLOCK FALSE
