SPECIFICATION Spec
CONSTANTS
  Tid <- MCTid
  Programs <- MCPrograms
  MaxExecutions = 3
  None = None
  HashWidth = 8
INVARIANTS ReplaysEveryExecution TraversedInOrder ConditionsExact LoopPhiTakesInput RecordIsFound
CHECK_DEADLOCK FALSE
