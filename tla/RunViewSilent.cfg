\* A participant that only hears a proposal, swept at the end of the run.
CONSTANTS
  Frames <- MCFrames
  Signals <- MCSignals
  Declared <- MCDeclared
  MaxBatches = 3
  MaxRowSteps = 2
SPECIFICATION Spec
INVARIANTS SilentIsSkipped
CHECK_DEADLOCK FALSE
