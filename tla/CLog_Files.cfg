\* Files that others hold and remove, processes that restart.
CONSTANTS
  MaxSize = 1
  MaxFiles = 2
  FlushLimit = 2
  MaxCreated = 6
  Env = {"hold", "remove", "openFails", "restart"}
SPECIFICATION Spec
CHECK_DEADLOCK FALSE
INVARIANTS
  TypeOK
  LossBounded
  CurrentKept
  NoneForgotten
  
PROPERTY OldestRemoved
