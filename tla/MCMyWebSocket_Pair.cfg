\* Two clients that connect at any moment, one of which leaves at any moment.
CONSTANTS
  Conns <- TwoConns
  Threads <- TwoThreads
  t1 = t1
  t2 = t2
  t3 = t3
  NoThread = NoThread
  MaxMsgs = 0
  MaxBreaks = 1
  MaxTold = 2
  Env = {"abort"}
SPECIFICATION Spec
SYMMETRY Symmetry
CHECK_DEADLOCK FALSE
INVARIANTS
  OneReader
  LateUsesOnly
  RegistryLive
  WebsocketsCounted
  NoticeReachesOne
PROPERTIES
  NoWriteAfterFinish
  EchoService
