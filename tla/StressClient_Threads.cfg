\* Two threads that send two messages each.
CONSTANTS
  MaxThreads = 2
  Loops = 2
  BufSize = 2
  MaxLen = 3
  MaxTold = 2
SPECIFICATION Spec
CHECK_DEADLOCK FALSE
INVARIANTS
  TypeOK
  HandlesClosedOnce
  BufferFits
  ZeroMeansDone
  AnswerNotAhead
