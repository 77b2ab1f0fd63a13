\* Four connections, the loop started again before its timer was due.
CONSTANTS
  MaxSockets = 4
  MaxTimers = 4
SPECIFICATION Spec
CHECK_DEADLOCK FALSE
INVARIANTS
  OneConnection
  LoopAlive
  LoopsCounted
  LabelTells
PROPERTY LoopStops
