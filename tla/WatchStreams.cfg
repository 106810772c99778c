CONSTANTS
  MaxSignals = 4
  Delay = 2
  MaxStrays = 2
SPECIFICATION Spec
INVARIANTS
  NoStrayCall
  NoLostWakeup
  WatchHandlesInOrder
PROPERTIES
  ShutdownEndsLoop
  WatchComesBack
