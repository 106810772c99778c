\* A process stops, another one starts.
CONSTANTS
  Hooks = {h1, h2}
  Events = {e1}
  Blank = {h2}
  MaxAttempts = 3
  MaxStarts = 2
SPECIFICATION Spec
PROPERTY OutboxIsDurable
CHECK_DEADLOCK FALSE
