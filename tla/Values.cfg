SPECIFICATION Spec
CONSTANTS
  Programs <- MCPrograms
  Address <- MCAddress
  Width = 8
  MaxTurns = 3
INVARIANT Foreseen
INVARIANT SolutionFollowsCode
INVARIANT NewGoalsAreNew
INVARIANT ExecutionIsSolution
PROPERTY PlanEnds
CHECK_DEADLOCK FALSE
