\* One client, everything that clients and IIS may do.
CONSTANTS
  Conns <- OneConn
  Threads <- ThreeThreads
  t1 = t1
  t2 = t2
  t3 = t3
  NoThread = NoThread
  MaxMsgs = 2
  MaxBreaks = 1
  MaxTold = 3
  Env = {"fragment", "syncRead", "close", "earlyClose", "abort", "writeFail", "slowWrite", "refuse"}
SPECIFICATION FairSpec
CHECK_DEADLOCK FALSE
INVARIANTS
  TypeOK
  FinishedOnce
PROPERTIES
  ThreadsReturn
  EchoService
