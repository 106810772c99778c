CONSTANTS
  Hooks = {h1, h2}
  Events = {e1}
  Blank = {h2}
  MaxAttempts = 3
  MaxStarts = 2
SPECIFICATION Spec
INVARIANTS
  SettledRowIsTrue
  ShutdownIsQuiet
PROPERTIES
  PendingIsSettled
CHECK_DEADLOCK FALSE
