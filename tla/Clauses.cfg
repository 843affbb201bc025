SPECIFICATION Spec
CONSTANTS
  NumVars = 3
  MaxParts = 3
INVARIANT ClausesAreMeant
CHECK_DEADLOCK FALSE
