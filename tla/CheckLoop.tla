------------------------------- MODULE CheckLoop -------------------------------
(***************************************************************************)
(* The loop of MC::check (src/model.cc) and what plan decides between two  *)
(* executions (src/planner.cc, src/constgen.cc): which goals are open,     *)
(* whether the encoding of an earlier turn is used again, and when the     *)
(* search is over.                                                         *)
(*                                                                         *)
(* A program is a set of behaviours: what each branch and each function    *)
(* gives in one execution.  That a scheduled execution takes the           *)
(* solution's way until it leaves what the encoding knows is ReplayExact   *)
(* of module Replay; that the solutions are the executions is what         *)
(* OrderEncoding is about.  Both are assumed here.                         *)
(***************************************************************************)
EXTENDS Integers, FiniteSets

CONSTANTS
  Thread,
  Branch,        \* branch records
  Function,      \* function records
  Value,         \* a branch's directions, a function's combinations of inputs
  Nil,
  First,         \* a thread's first record
  Succ,          \* the record after a record and its value; Nil at the end
  Goals,         \* a record's CGoalSet, by one of the functions that share it
  NumDirs,       \* getLen of a branch: its number of directions
  MaxFeasible    \* bound on the number of behaviours of a program

Record == Branch \cup Function

ASSUME LoopAssumption ==
  /\ Branch \cap Function = {} /\ Nil \notin Record /\ Value \subseteq Nat
  /\ First \in [Thread -> Record] /\ Succ \in [Record -> [Value -> Record \cup {Nil}]]
  /\ \A f \in Function : \A v, w \in Value : Succ[f][v] = Succ[f][w]
  /\ Goals \in [Record -> Record] /\ \A r \in Record : r \in Branch \/ Goals[r] \in Branch => Goals[r] = r
  /\ NumDirs \in [Branch -> Nat] /\ MaxFeasible \in Nat \ {0}

VARIABLES
  feasible,   \* the program under test
  branches,   \* params.branches, the option -b
  known,      \* EPValueTable and the goal sets: recorded values
  seen,       \* EPTable: the records that have been executed
  encoded,    \* what was known when the encoding was built
  goalset,    \* records with a goal in the encoding
  open,       \* those whose entry of goalvararray is not NULL
  solver,     \* there is an encoding
  behaviour,  \* what this execution will do
  at,         \* where each thread is
  finished,
  fresh       \* history: the execution was scheduled by process

loopVars == <<encoded, goalset, open, solver, finished, fresh>>
vars == <<feasible, branches, known, seen, loopVars, behaviour, at>>

Unexecuted == CHOOSE v \in Value : TRUE
Pair(r, b) == <<Goals[r], b[r]>>

\* S holds, with a record whose value under b is in K, the record after it.
Closed(S, b, K) ==
  \A r \in S : Pair(r, b) \in K /\ Succ[r][b[r]] # Nil => Succ[r][b[r]] \in S

\* The records behaviour b executes before and at the first value not in K, by thread: the
\* smallest set that holds the thread's first one.
Reached(b, t, K) ==
  {r \in Record : \A S \in SUBSET (Record \ {r}) : First[t] \in S => ~Closed(S, b, K)}

Everything == Record \X Value

\* A branch takes one of its directions.  What records that are not executed would give does
\* not matter.
Behaviour ==
  {b \in [Record -> Value] :
     \A r \in Record :
       IF \E t \in Thread : r \in Reached(b, t, Everything)
       THEN r \in Branch => b[r] < NumDirs[r]
       ELSE b[r] = Unexecuted}

\* Where b leaves what is known.
Frontier(b, K) == {r \in UNION {Reached(b, t, K) : t \in Thread} : Pair(r, b) \notin K}

Directions(r) == {p \in known : p[1] = r}

\* The goals of processBranch and processFunction.
NewGoals == {r \in seen : r \in Branch => Cardinality(Directions(r)) < NumDirs[r]}
\* Fault: only the branches of the encoding at hand are asked for.
HasUntakenOpenBranches == open \cap Branch # {}
HasUntakenBranches == NewGoals \cap Branch # {}

\* What the solver may answer, asked for one of the goals G.  A solution is a
\* behaviour until it leaves the encoding; from there on values are open, so that the solver may
\* set the variables of other goals, too.  It must find one if a goal of G can be had.
Solutions(K, G) ==
  {s \in [behaviour : feasible, claimed : SUBSET G \ {{}}] : Frontier(s.behaviour, K) # {}}
IsUnsat(K, G) == \A b \in feasible : Frontier(b, K) \cap G = {}

--------------------------------------------------------------------------------
Ended == \A t \in Thread : at[t] = Nil

\* run_execution after buildSchedule: the execution agrees with the solution until one
\* thread is where the solution leaves the encoding.
Run(b, K) ==
  \E e \in feasible :
    /\ \E t \in Thread :
         /\ Frontier(b, K) \cap Reached(b, t, K) # {}
         /\ Reached(e, t, K) = Reached(b, t, K)
         /\ \A r \in Reached(b, t, K) : e[r] = b[r]
    /\ behaviour' = e
    /\ at' = First

\* What may be given on the command line; asked for help, or given another option, the
\* checker prints its usage and exits.
Option == {"branches", "avoidyields", "verbose"}
param_defaults == [branches |-> FALSE, noexecyields |-> FALSE]
parse_options(options) ==
  [param_defaults EXCEPT !.branches = "branches" \in options, !.noexecyields = "avoidyields" \in options]

Init ==
  /\ \E some \in [1 .. MaxFeasible -> Behaviour] : feasible = {some[i] : i \in 1 .. MaxFeasible}
  /\ \E options \in SUBSET Option : branches = parse_options(options).branches
  /\ known = {} /\ seen = {} /\ encoded = {} /\ goalset = {} /\ open = {}
  /\ solver = FALSE /\ finished = FALSE /\ fresh = FALSE
  /\ behaviour \in feasible
  /\ at = First

\* branchDir and function: record the value; a new one achieves the record's goal, if the
\* encoding has one.
RecordValue(t, r) ==
  /\ at[t] = r
  /\ seen' = seen \cup {r}
  /\ known' = known \cup {Pair(r, behaviour)}
  /\ at' = [at EXCEPT ![t] = Succ[r][behaviour[r]]]
  /\ UNCHANGED <<feasible, branches, encoded, goalset, solver, finished, fresh, behaviour>>

\* Fault: executions clear no goals.
achievedGoal_not(r) == UNCHANGED open
achievedGoal(r) == open' = IF Pair(r, behaviour) \in known THEN open ELSE open \ {r}

branchDir(t) == \E r \in Branch : RecordValue(t, r) /\ achievedGoal(r)
function(t) == \E r \in Function : RecordValue(t, r) /\ achievedGoal(r)

\* Fault: the goals a solution names are not cleared.
reuseEncoding_keeps_goals ==
  /\ Ended /\ ~finished
  /\ solver /\ open # {}
  /\ \E s \in Solutions(encoded, open) : Run(s.behaviour, encoded)
  /\ fresh' = FALSE
  /\ UNCHANGED <<feasible, branches, known, seen, encoded, goalset, open, solver, finished>>

\* canReuseEncoding, true: a goal is open and the solver finds a solution.
reuseEncoding ==
  /\ Ended /\ ~finished
  /\ solver /\ open # {}
  /\ \E s \in Solutions(encoded, open) :
       /\ open' = open \ s.claimed
       /\ Run(s.behaviour, encoded)
  /\ fresh' = FALSE
  /\ UNCHANGED <<feasible, branches, known, seen, encoded, goalset, solver, finished>>

CannotReuse == ~solver \/ open = {} \/ IsUnsat(encoded, open)

\* reset and process, which builds an encoding, when there is something to look for.
Stop == NewGoals = {} \/ (branches /\ ~HasUntakenBranches) \/ IsUnsat(known, NewGoals)

\* Fault: the encoding lacks what was recorded since the last one.
process_stale ==
  /\ Ended /\ ~finished
  /\ CannotReuse /\ ~Stop
  /\ encoded' = known /\ goalset' = NewGoals /\ solver' = TRUE /\ fresh' = TRUE
  /\ \E s \in Solutions(encoded, NewGoals) :
       /\ open' = NewGoals \ s.claimed
       /\ Run(s.behaviour, encoded)
  /\ UNCHANGED <<feasible, branches, known, seen, finished>>

process ==
  /\ Ended /\ ~finished
  /\ CannotReuse /\ ~Stop
  /\ encoded' = known /\ goalset' = NewGoals /\ solver' = TRUE /\ fresh' = TRUE
  /\ \E s \in Solutions(known, NewGoals) :
       /\ open' = NewGoals \ s.claimed
       /\ Run(s.behaviour, known)
  /\ UNCHANGED <<feasible, branches, known, seen, finished>>

processStops ==
  /\ Ended /\ ~finished
  /\ CannotReuse /\ Stop
  /\ finished' = TRUE /\ solver' = FALSE
  /\ encoded' = known /\ goalset' = NewGoals /\ open' = NewGoals
  /\ UNCHANGED <<feasible, branches, known, seen, fresh, behaviour, at>>

Stopped == finished /\ UNCHANGED vars

Next ==
  \/ \E t \in Thread : branchDir(t) \/ function(t)
  \/ reuseEncoding \/ process \/ processStops \/ Stopped

Spec == Init /\ [][Next]_vars
FairSpec == Spec /\ WF_vars(Next)

--------------------------------------------------------------------------------
\* Types of all variables.
TypeOK ==
  /\ feasible \in SUBSET Behaviour /\ behaviour \in feasible
  /\ seen \subseteq Record /\ goalset \subseteq Record /\ open \subseteq goalset
  /\ known \subseteq Everything /\ encoded \subseteq known
  /\ at \in [Thread -> Record \cup {Nil}]
  /\ {branches, solver, finished, fresh} \subseteq BOOLEAN

\* When check says "Finished!" no behaviour of the program leaves what has been recorded;
\* with the option -b, "Only explore all branches", no branch of any behaviour does.
SearchIsComplete ==
  finished => \A b \in feasible :
    IF branches
    THEN \A r \in UNION {Reached(b, t, Everything) : t \in Thread} :
           r \in Branch => Pair(r, b) \in known
    ELSE Frontier(b, known) = {}

\* An execution scheduled from a new encoding records something the encoding does not know:
\* building it was not in vain, and the search goes on only while there is something to find.
NewEncodingLearns == Ended /\ fresh /\ ~finished => known # encoded

\* A goal canReuseEncoding asks for has not been reached by an execution since the encoding was built,
\* whether the solution named it or not.
OpenGoalsUnachieved ==
  \A r \in open : (\A q \in Record \ {r} : Goals[q] # Goals[r]) =>
    {p \in known : p[1] = Goals[r]} \subseteq encoded

\* The search ends, although turns that use an encoding again may record nothing new.
SearchEnds == <>finished
================================================================================
