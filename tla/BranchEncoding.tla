----------------------------- MODULE BranchEncoding -----------------------------
(***************************************************************************)
(* The codes of branches and of the values they depend on, and the clauses *)
(* of processBranch and processYield (src/constgen.cc,                     *)
(* src/branchrecord.cc, src/valuerecord.cc, src/functionrecord.cc,         *)
(* src/equalsrecord.cc).                                                   *)
(*                                                                         *)
(* A branch depends on the value of one record, its source.  What limits   *)
(* the codes of the sources, functions' inputs or the stores a load reads  *)
(* from, is not part of this module: a source may have any of its values.  *)
(*                                                                         *)
(* With noexecyields a yield ends its thread (threadYield), so an          *)
(* execution that comes to a yield it knows finds nothing new: the         *)
(* solution has to leave the recorded directions ahead of it.              *)
(***************************************************************************)
EXTENDS Constraint

CONSTANTS
  Branch,    \* branches, numbered so that a branch comes after the one it is in
  Parent,    \* the branch a branch is in and the direction, or None
  None,
  NumDirs,   \* getLen: directions of a branch in the program
  AnyValue,  \* getBranchAnyValue: all values but 0 go in direction 1
  Yield,     \* the yields of the thread, numbered in the order of its points
  YieldIn,   \* the branch a yield is in and the direction, or None
  Ahead,     \* the branches ahead of a yield
  Sources    \* what may be recorded of a branch's source: its kind, the values
             \* of its encoding and those it has been seen with

ASSUME BranchAssumption ==
  /\ Branch \subseteq Nat
  /\ \A b \in Branch : Parent[b] = None \/ (Parent[b][1] \in Branch /\ Parent[b][1] < b)
  /\ \A b \in Branch : \A s \in Sources[b] :
       /\ s.kind \in {"LOAD", "EQUALS", "FUNCTION"}
       /\ s.observed \subseteq ToSet(s.values) /\ s.observed # {}
  /\ Yield \subseteq Nat /\ \A y \in Yield : Ahead[y] \subseteq Branch

VARIABLES
  noexecyields,  \* the option -Y
  source,    \* the records the branches depend on
  recorded,  \* the directions of each branch, as recorded
  first,     \* the first of a branch's variables and of its source's
  numvars,   \* the variables in use
  yieldtable,  \* the variables of the yields
  clauses,
  solution

program == <<noexecyields, source, recorded>>
vars == <<program, first, numvars, yieldtable, clauses, solution>>

NumBits(x) == IF x = 0 THEN 0 ELSE CHOOSE n \in 1 .. x : 2^(n - 1) <= x /\ x < 2^n
Direction(b, v) == IF AnyValue[b] /\ v # 0 THEN 1 ELSE v
IndexIn(s, e) == IF e \in ToSet(s) THEN CHOOSE i \in DOMAIN s : s[i] = e ELSE 0

\* generateConstraint, for an array of variables after the n-th.
CodeIs(n, bits, value) ==
  And([j \in 1 .. bits |-> IF Bit(value, j - 1) = 1 THEN Var(n + j) ELSE NotVar(n + j)])
AllVars(n, bits) == [j \in 1 .. bits |-> Var(n + j)]

--------------------------------------------------------------------------------
\* The source's code: ValueRecord, EqualsRecord, FunctionRecord.  A function has one more
\* value, for results not seen yet.
SourceBits(s) ==
  CASE s.kind = "LOAD"     -> NumBits(Len(s.values) - 1)
    [] s.kind = "EQUALS"   -> 1
    [] s.kind = "FUNCTION" -> NumBits(Len(s.values))

HasEncoding(b, v) == source[b].kind = "EQUALS" \/ v \in ToSet(source[b].values)

getRetValueEncoding(b, v) ==
  LET s == source[b]
      n == first[b].source
  IN IF s.kind = "EQUALS" THEN IF v # 0 THEN Var(n + 1) ELSE NotVar(n + 1)
     ELSE IF SourceBits(s) = 0 THEN True
     ELSE CodeIs(n, SourceBits(s), IndexIn(s.values, v) - 1)

\* insertBranch: the codes of a branch.
isAlwaysExecuted(b) == Parent[b] = None
NumValues(b) == Len(recorded[b])
\* Fault: no code for a new direction.
CodesWithoutNew(b) == NumValues(b) + (IF isAlwaysExecuted(b) THEN 0 ELSE 1)
Codes(b) ==
  NumValues(b) + (IF NumValues(b) < NumDirs[b] THEN 1 ELSE 0)
               + (IF isAlwaysExecuted(b) THEN 0 ELSE 1)
BranchBits(b) == NumBits(Codes(b) - 1)

\* BranchRecord.
getBranch(b, dir) ==
  CodeIs(first[b].branch, BranchBits(b),
         IndexIn(recorded[b], dir) - (IF isAlwaysExecuted(b) THEN 1 ELSE 0))
getNewBranch(b) == And(AllVars(first[b].branch, BranchBits(b)))
getAnyBranch(b) == IF isAlwaysExecuted(b) THEN True ELSE Or(AllVars(first[b].branch, BranchBits(b)))
getExecutionConstraint(b) ==
  IF Parent[b] = None THEN True ELSE getBranch(Parent[b][1], Parent[b][2])

ParentBranch(b) ==
  IF isAlwaysExecuted(b) THEN {} ELSE {Implies(getAnyBranch(b), getExecutionConstraint(b))}

\* The values of the source that take a recorded direction: all but 0 if the source can
\* be 0, otherwise those that it has been seen with.
Takes(b, dir) ==
  LET When(c) == Implies(And(<<getExecutionConstraint(b), c>>), getBranch(b, dir))
  IN IF dir = 0 \/ ~AnyValue[b] THEN {When(getRetValueEncoding(b, dir))}
     ELSE IF HasEncoding(b, 0) THEN {When(negate(getRetValueEncoding(b, 0)))}
     ELSE {When(getRetValueEncoding(b, v)) : v \in source[b].observed}

--------------------------------------------------------------------------------
Init ==
  /\ source \in {s \in [Branch -> UNION {Sources[b] : b \in Branch}] : \A b \in Branch : s[b] \in Sources[b]}
  /\ recorded \in [Branch -> UNION {SetToSeqs(D) : D \in SUBSET {0, 1, 2} \ {{}}}]
  /\ \A b \in Branch :
       /\ Len(recorded[b]) <= NumDirs[b]
       /\ ToSet(recorded[b]) \subseteq {Direction(b, v) : v \in source[b].observed}
       /\ Parent[b] # None => Parent[b][2] \in ToSet(recorded[Parent[b][1]])
  /\ noexecyields \in BOOLEAN
  /\ first = <<>> /\ numvars = 0 /\ yieldtable = <<>> /\ clauses = {} /\ solution = <<>>

\* The first traversal.
insertBranch ==
  /\ \E b \in Branch \ DOMAIN first :
       /\ \A c \in Branch \ DOMAIN first : b <= c
       /\ first' = [c \in DOMAIN first \cup {b} |->
                      IF c = b THEN [source |-> numvars, branch |-> numvars + SourceBits(source[b])]
                      ELSE first[c]]
       /\ numvars' = numvars + SourceBits(source[b]) + BranchBits(b)
  /\ UNCHANGED <<program, yieldtable, clauses, solution>>

\* The second one, over all branches and then the yields.
processBranch ==
  /\ DOMAIN first = Branch /\ clauses = {}
  /\ clauses' = UNION {ParentBranch(b) \cup UNION {Takes(b, d) : d \in ToSet(recorded[b])} : b \in Branch}
  /\ UNCHANGED <<program, first, numvars, yieldtable, solution>>

\* The yields in the event graph.
Recorded(place) == place = None \/ place[2] \in ToSet(recorded[place[1]])
YieldRecords == {y \in Yield : Recorded(YieldIn[y])}

\* insertBranch: with the option, the branches with directions nobody took.
incompleteexploredbranch == IF noexecyields THEN {b \in Branch : NumValues(b) < NumDirs[b]} ELSE {}

\* The last yield before y in its thread; none lies in another direction of a branch.
Before(z, y) ==
  z < y /\ ~(YieldIn[z] # None /\ YieldIn[y] # None /\ YieldIn[z][1] = YieldIn[y][1] /\ YieldIn[z] # YieldIn[y])
PrevYields(y) ==
  LET B == {z \in DOMAIN yieldtable : Before(z, y)} IN {z \in B : \A w \in B : w <= z}

\* Fault: the branches left to an earlier yield are not counted.
computeYieldCond_no_prev(y) ==
  SetToSeq({getNewBranch(b) : b \in {c \in incompleteexploredbranch \cap Ahead[y] :
                                        \A z \in PrevYields(y) : c \notin Ahead[z]}})

\* Ways not to come to the yield: those of the yield before it, and the new directions of
\* the branches between the two.
computeYieldCond(y) ==
  SetToSeq({Var(yieldtable[z]) : z \in PrevYields(y)})
    \o SetToSeq({getNewBranch(b) : b \in {c \in incompleteexploredbranch \cap Ahead[y] :
                                          \A z \in PrevYields(y) : c \notin Ahead[z]}})

\* Fault: the variable does not demand that a branch leads away.
noexecyield_free(y, var) ==
  LET ways == computeYieldCond(y)
      execution == IF YieldIn[y] = None THEN True ELSE getBranch(YieldIn[y][1], YieldIn[y][2])
  IN {Implies(IF ways = <<>> THEN False ELSE Or(ways), Var(var)), Or(<<negate(execution), Var(var)>>)}

noexecyield(y, var) ==
  LET ways == computeYieldCond(y)
      execution == IF YieldIn[y] = None THEN True ELSE getBranch(YieldIn[y][1], YieldIn[y][2])
  IN {Implies(Var(var), IF ways = <<>> THEN False ELSE Or(ways)), Or(<<negate(execution), Var(var)>>)}

Traversed == clauses # {} /\ (noexecyields => DOMAIN yieldtable = YieldRecords)

processYield ==
  /\ noexecyields /\ clauses # {}
  /\ \E y \in YieldRecords \ DOMAIN yieldtable :
       /\ \A z \in YieldRecords \ DOMAIN yieldtable : y <= z
       /\ numvars' = numvars + 1
       /\ clauses' = clauses \cup noexecyield(y, numvars')
       /\ yieldtable' = [z \in DOMAIN yieldtable \cup {y} |-> IF z = y THEN numvars' ELSE yieldtable[z]]
  /\ UNCHANGED <<program, first, solution>>

Eval(c, a) ==
  LET lit(l) == IF l.type = "VAR" THEN a[l.var] ELSE ~a[l.var]
      all == simplify(c)
  IN \A i \in DOMAIN all :
       CASE all[i].type = "TRUE" -> TRUE
         [] all[i].type = "OR"   -> \E j \in DOMAIN all[i].operands : lit(all[i].operands[j])
         [] OTHER                -> lit(all[i])

Code(n, bits, a) ==
  LET sum[j \in 0 .. bits] == IF j = 0 THEN 0 ELSE sum[j - 1] + (IF a[n + j] THEN 2^(j - 1) ELSE 0)
  IN sum[bits]

Solutions ==
  {a \in [1 .. numvars -> BOOLEAN] :
     /\ \A c \in clauses : Eval(c, a)
     /\ \A b \in Branch : source[b].kind = "LOAD" =>
          Code(first[b].source, SourceBits(source[b]), a) < Len(source[b].values)}

solve ==
  /\ Traversed /\ solution = <<>>
  /\ solution' \in Solutions \ {<<>>}
  /\ UNCHANGED <<program, first, numvars, yieldtable, clauses>>

Next == insertBranch \/ processBranch \/ processYield \/ solve
Spec == Init /\ [][Next]_vars

--------------------------------------------------------------------------------
Unknown == 999

\* The value of a source; Unknown is a result of a function the encoding does not know.
SourceValue(b, a) ==
  LET s == source[b]
      i == Code(first[b].source, SourceBits(s), a)
  IN IF s.kind = "EQUALS" THEN i
     ELSE IF i < Len(s.values) THEN s.values[i + 1] ELSE Unknown

\* What buildSchedule makes of the branch's code.
getBranchValue(b, a) ==
  Code(first[b].branch, BranchBits(b), a) - (IF isAlwaysExecuted(b) THEN 0 ELSE 1)
\* The direction processRecord of the builder goes in; None if it passes the branch.
Walked(b, a) ==
  LET index == getBranchValue(b, a)
  IN IF index >= 0 /\ index < NumValues(b) THEN recorded[b][index + 1] ELSE None

\* The direction of the program is known to the encoding.
Determined(b, a) ==
  LET v == SourceValue(b, a)
  IN /\ v # Unknown /\ Direction(b, v) \in ToSet(recorded[b])
     /\ v \in source[b].observed \/ v = 0 \/ HasEncoding(b, 0)

\* b and all it is in, from the inside.
RECURSIVE Enclosing(_)
Enclosing(b) == IF Parent[b] = None THEN {} ELSE {Parent[b]} \cup Enclosing(Parent[b][1])
Executes(b, a) == \A e \in Enclosing(b) : Direction(e[1], SourceValue(e[1], a)) = e[2]

\* A solution's branches go the way of the program, as far as the encoding knows it: a branch takes
\* the direction of its source's value, and none if the branch around it goes another way; only where
\* the direction is not known does the solution count as one that finds a new direction.
SolutionFollowsProgram ==
  solution # <<>> =>
    \A b \in Branch : (\A e \in Enclosing(b) : Determined(e[1], solution)) =>
      /\ IF Executes(b, solution)
         THEN Determined(b, solution) => Walked(b, solution) = Direction(b, SourceValue(b, solution))
         ELSE Walked(b, solution) = None /\ getBranchValue(b, solution) = -1
      /\ NumValues(b) < NumDirs[b] /\ (~Executes(b, solution) \/ Determined(b, solution)) =>
           ~Eval(getNewBranch(b), solution)

\* The places a record is in, from the inside.
Around(place) == IF place = None THEN {} ELSE {place} \cup Enclosing(place[1])

\* With noexecyields a solution whose execution comes to a yield leaves the recorded directions at a branch
\* that is ahead of the yield and that the execution comes to.
YieldsAvoided ==
  noexecyields /\ solution # <<>> =>
    \A y \in YieldRecords : (\A e \in Around(YieldIn[y]) : Walked(e[1], solution) = e[2]) =>
      \E b \in Ahead[y] : /\ Eval(getNewBranch(b), solution) /\ NumValues(b) < NumDirs[b]
                          /\ \A e \in Enclosing(b) : Walked(e[1], solution) = e[2]

\* A direction that has not been recorded is within reach: for all values of the sources there is a
\* solution whose branches follow the program and in which a branch that leaves the recorded directions
\* reaches its goal.  With noexecyields it need not be if an execution with these values comes to a yield
\* first.
NewDirectionIsReachable ==
  Traversed /\ solution = <<>> =>
    LET all == Solutions IN
    \A value \in [Branch -> 0 .. 2] : (\A b \in Branch : value[b] \in ToSet(source[b].values)) =>
      LET executes(places) == \A e \in places : Direction(e[1], value[e[1]]) = e[2]
          leaves(b) == /\ executes(Enclosing(b)) /\ NumValues(b) < NumDirs[b]
                       /\ Direction(b, value[b]) \notin ToSet(recorded[b])
      IN (noexecyields => \A y \in YieldRecords : executes(Around(YieldIn[y])) => \E b \in Ahead[y] : leaves(b)) =>
           \E a \in all : \A b \in Branch :
             SourceValue(b, a) = value[b] /\ (leaves(b) => Eval(getNewBranch(b), a))
================================================================================
