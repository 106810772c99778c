CONSTANTS
  MaxSignals = 1
  Delay = 2
  MaxStrays = 1
SPECIFICATION Spec
PROPERTY EndIsFollowedByDelay
