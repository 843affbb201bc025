SPECIFICATION RfSpec
CONSTANTS
  NumThreads = 3
  Loc <- Loc2
  MaxVal = 3
  TSO = TRUE
  Code <- CodeReads
  MoreAddresses <- EitherLocation
INVARIANT ThreadsAreOrdered
INVARIANT ExecutionIsSolution
INVARIANT FencesDrain
INVARIANT LoadsReadLatest
INVARIANT LatestCanBeRead
CHECK_DEADLOCK FALSE
