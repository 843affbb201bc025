SPECIFICATION FairSpec
CONSTANTS
  NumThreads = 3
  Loc <- Loc3
  MaxVal = 2
  TSO = TRUE
  Code <- CodeFence
  FirstRun = TRUE
  Explored <- ExploredFence
INVARIANT ReplayExact
INVARIANT WaitsOnCreated
INVARIANT RunsToCompletion
PROPERTY ImplementsMemoryModel
PROPERTY ExecutionEnds
