\* A request of any kind and one that meets it, in a process that is loaded, registered, and stopped;
\* an application whose warm-up is a flag, a log that throws.
CONSTANTS
  r1 = r1
  r2 = r2
  Requests <- TwoRequests
  Commands <- AnyAndShared
  MaxBody = 2
  WarmupNests = FALSE
  LogThrows = TRUE
SPECIFICATION LifeFairSpec
CHECK_DEADLOCK FALSE
INVARIANTS
  TypeOK
  CompletedOnce
  
  FinishedAnswered
  BodySetBack
  WarmupEnded
  LogOutlives
  ObjectsOwned
  DrainedAtExit
PROPERTY RequestCompletes
