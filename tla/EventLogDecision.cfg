\* Two writers, a client that reconnects, a rebuild, a replay and a crash.
CONSTANTS
  Writers = {w1, w2}
  Batches <- AllBatches
  Hubs <- AllHubs
  PageSize = 1
  MaxSeq = 4
  MaxBreaks = 0
SYMMETRY Symmetry
SPECIFICATION Spec
INVARIANT DecisionIsCounted
CHECK_DEADLOCK FALSE
