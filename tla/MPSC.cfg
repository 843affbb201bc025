SPECIFICATION Spec
CONSTANTS
  NumThreads = 3
  Loc <- Loc2
  MaxVal = 2
  TSO = FALSE
  Code <- CodeMP
  FirstRun = TRUE
  Explored <- ExploredMP
INVARIANT TypeOK
INVARIANT ReplayExact
INVARIANT CurrentRuns
