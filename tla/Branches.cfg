SPECIFICATION Spec
CONSTANTS
  None = None
  Branch <- TwoBranches
  Parent <- OuterInner
  NumDirs <- BranchDirs
  AnyValue <- InnerOnAny
  Yield <- TwoYields
  YieldIn <- FirstIsInside
  Ahead <- YieldsAhead
  Sources <- MCSources
INVARIANT SolutionFollowsProgram
INVARIANT YieldsAvoided
INVARIANT NewDirectionIsReachable
CHECK_DEADLOCK FALSE
