\* Two writers, a client that reconnects, a rebuild, a replay and a crash.
CONSTANTS
  Writers = {w1, w2}
  Batches <- AllBatches
  Hubs <- AllHubs
  PageSize = 1
  MaxSeq = 4
  MaxBreaks = 1
SYMMETRY Symmetry
SPECIFICATION Spec
INVARIANT NothingMissed
CHECK_DEADLOCK FALSE
