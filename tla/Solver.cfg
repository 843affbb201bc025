SPECIFICATION FairSpec
CONSTANTS
  NumVars = 4
  Clause <- MCClause
  Frozen <- MCFrozen
  BufferSize = 3
  PipeSize = 2
  MaxAsked = 2
INVARIANT EncodingArrives
INVARIANT AnswerIsRight
PROPERTY SolveReturns
CHECK_DEADLOCK FALSE
