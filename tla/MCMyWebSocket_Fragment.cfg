\* A message in two fragments.
CONSTANTS
  Conns <- OneConn
  Threads <- TwoThreads
  t1 = t1
  t2 = t2
  t3 = t3
  NoThread = NoThread
  MaxMsgs = 1
  MaxBreaks = 1
  MaxTold = 3
  Env = {"fragment"}
SPECIFICATION Spec
CHECK_DEADLOCK FALSE
INVARIANT FragmentReadsOn
