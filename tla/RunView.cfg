\* Three batches of any kind, two transitions of the row.
CONSTANTS
  Frames <- MCFrames
  Signals <- MCSignals
  Declared <- MCDeclared
  MaxBatches = 3
  MaxRowSteps = 2
SPECIFICATION Spec
INVARIANTS
  DecisionIsLastCommitment
  SweptStaySwept
  QuorumSettled
  SendersAreShown
CHECK_DEADLOCK FALSE
