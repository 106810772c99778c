CONSTANTS
  Instances = {i1, i2}
  Conns = {c1, c2}
  Runs = {r1, r2}
  BatchSize = 1
SPECIFICATION Spec
INVARIANT RecoveredByOne
CHECK_DEADLOCK FALSE
