\* A message that is there when the module asks for it.
CONSTANTS
  Conns <- OneConn
  Threads <- TwoThreads
  t1 = t1
  t2 = t2
  t3 = t3
  NoThread = NoThread
  MaxMsgs = 2
  MaxBreaks = 1
  MaxTold = 3
  Env = {"syncRead"}
SPECIFICATION FairSpec
CHECK_DEADLOCK FALSE
PROPERTY EchoEventually
