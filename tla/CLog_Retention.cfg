\* A log that only rotates.
CONSTANTS
  MaxSize = 0
  MaxFiles = 2
  FlushLimit = 1
  MaxCreated = 6
  Env = {}
SPECIFICATION Spec
CHECK_DEADLOCK FALSE
INVARIANT Retention
