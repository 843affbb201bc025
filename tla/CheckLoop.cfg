SPECIFICATION FairSpec
CONSTANTS
  t1 = t1  t2 = t2
  a = a  c = c  f = f  g = g
  Nil = Nil
  Thread = {t1, t2}
  Branch = {a, c}
  Function = {f, g}
  Value = {0, 1}
  First <- MCFirst
  Succ <- MCSucc
  Goals <- MCGoals
  NumDirs <- MCNumDirs
  MaxFeasible = 3
INVARIANT SearchIsComplete
INVARIANT NewEncodingLearns
INVARIANT OpenGoalsUnachieved
PROPERTY SearchEnds
