\* A write or its callback after the close.
CONSTANTS
  Conns <- TwoConns
  Threads <- TwoThreads
  t1 = t1
  t2 = t2
  t3 = t3
  NoThread = NoThread
  MaxMsgs = 1
  MaxBreaks = 1
  MaxTold = 3
  Env = {"close"}
SPECIFICATION Spec
CHECK_DEADLOCK FALSE
INVARIANT DisconnectedFound
