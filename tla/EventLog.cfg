\* Two writers, a client that reconnects, and two of: rollback, rebuild, crash, loss.
CONSTANTS
  Writers = {w1, w2}
  Batches <- TwoBatches
  Hubs <- AllHubs
  PageSize = 1
  MaxSeq = 3
  MaxBreaks = 2
SYMMETRY Symmetry
SPECIFICATION Spec
INVARIANTS
  ReplayIsLog
  ProjectionCoversLog
  ClientInOrder
  MissedOnlyIfLate
CHECK_DEADLOCK FALSE
