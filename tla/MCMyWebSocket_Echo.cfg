\* One client that sends and closes, every write in time.
CONSTANTS
  Conns <- OneConn
  Threads <- TwoThreads
  t1 = t1
  t2 = t2
  t3 = t3
  NoThread = NoThread
  MaxMsgs = 2
  MaxBreaks = 1
  MaxTold = 3
  Env = {"close"}
SPECIFICATION FairSpec
CHECK_DEADLOCK FALSE
PROPERTIES
  EchoEventually
  CloseCompletes
