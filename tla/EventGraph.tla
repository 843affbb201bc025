------------------------------- MODULE EventGraph -------------------------------
(***************************************************************************)
(* The graph of the events the program has executed so far                 *)
(* (src/mcexecution.cc, src/eprecord.h, src/epvalue.h) and its traversal   *)
(* by the encoding (src/constgen.cc).                                      *)
(*                                                                         *)
(* A record stands for an instruction at an execution point and lives as   *)
(* long as the checker.  An execution links the records it meets: a record *)
(* to the next one of its block, a loop or the creation of a thread to its *)
(* first inner record, a direction of a branch to the first and the last   *)
(* record of its body.  A later execution that takes other directions adds *)
(* to the graph and must not spoil what is there: the schedule builder     *)
(* walks it, and the encoding derives from it under which directions a     *)
(* record is executed.                                                     *)
(*                                                                         *)
(* Memory and schedules are those of the modules MCExecution and           *)
(* MCScheduler.  Here a thread runs until an instruction that may call     *)
(* check_preempt, and a branch takes any direction.                        *)
(***************************************************************************)
EXTENDS PointHash

CONSTANTS
  Tid,           \* thread 0 is the program's main
  Programs,      \* Programs[i][t][p]: the instruction of thread t at point p
  MaxExecutions, \* bound: executions of one behaviour
  None

ASSUME GraphAssumption ==
  /\ 0 \in Tid
  /\ MaxExecutions \in Nat
  /\ \A i \in DOMAIN Programs : DOMAIN Programs[i] = Tid
  /\ None \notin Tid \X Seq(Pair) /\ None \notin (Tid \X Seq(Pair)) \X Nat

Calls == {"EVENT", "CREATE", "BRANCH", "MERGE", "ENTER", "ITERATE", "EXIT", "LOOPPHI", "YIELD"}

(***************************************************************************)
(* A client merges in the body of a branch; what it goes on with or leaves *)
(* is a loop it is in.  The count after a branch or a loop is that of its  *)
(* MERGE or LABEL, the first count in a loop that of its LOOPSTART.        *)
(***************************************************************************)
ASSUME ClientAssumption ==
  \A i \in DOMAIN Programs, t \in Tid : \A p \in DOMAIN Programs[i][t] :
    LET ins == Programs[i][t][p]
        Directly(type) == Len(p) > 2 /\ p[Len(p) - 1].type = type
    IN
    /\ p \in Point /\ p[Len(p)].type = "COUNTER"
    /\ ins.op \in Calls
    /\ ins.op = "EVENT" => ins.type \in {"THREADBEGIN", "LOAD", "STORE", "FUNCTION"}
    /\ ins.op = "MERGE" => Directly("BRANCH")
    /\ ins.op = "ITERATE" => Directly("LOOP")
    /\ ins.op = "EXIT" => \E j \in 2 .. Len(p) : p[j].type = "LOOP"
    /\ ins.op = "BRANCH" => ins.dirs \subseteq Nat
    /\ ins.op \in {"BRANCH", "ENTER"} => IncrementTop(p) \notin DOMAIN Programs[i][t]
    /\ ins.op = "ENTER" => Push(Push(p, Loop(0)), Counter(0)) \notin DOMAIN Programs[i][t]

VARIABLES
  program, noexecyields,                 \* what is checked, and an option of the checker
  records,                               \* EPTable
  bodies,                                \* the EPValues of branches: first and last record
  phiexits,                              \* philooptable: exits of the loop, and the phi's input there
  current, currbranch, CurrBranchList,   \* the running thread and the branch it is in
  alwaysexecuted, lastloopexit,          \* per thread
  execpoint, status,                     \* per thread
  walked, taken,                         \* history: the records and directions of this execution
  runs,                                  \* history: the executions that have ended
  phase, workstack, cursor, visited,     \* the traversal
  nonlocaltrans, execcondtable

execVars  == <<current, currbranch, CurrBranchList, lastloopexit, execpoint, status>>
tableVars == <<records, bodies, phiexits, alwaysexecuted>>
pastVars  == <<walked, taken, runs>>
walkVars  == <<workstack, cursor, visited, nonlocaltrans, execcondtable>>
vars == <<program, noexecyields, execVars, tableVars, pastVars, phase, walkVars>>

Place(t) == execpoint[t].pairs

Instr(t) == LET code == Programs[program][t] IN
  IF Place(t) \in DOMAIN code THEN code[Place(t)] ELSE [op |-> "END"]

\* The last record of the block the running thread is in.
LastRecord == IF currbranch = None THEN alwaysexecuted[current] ELSE bodies[currbranch].last

(***************************************************************************)
(* getOrCreateCurrRecord, for one or two records in a row: first the state *)
(* of the tables, then the tables after a record of the running thread at  *)
(* e, with the given branch.  The table keeps a copy of the point.         *)
(***************************************************************************)
Tables == [records |-> records, bodies |-> bodies, always |-> alwaysexecuted]

NewRecord(et, branch, hash) ==
  [type |-> et, branch |-> branch, next |-> None, child |-> None, dirs |-> <<>>, hashvalue |-> hash]

LinkedFrom(g, branch, t) == IF branch = None THEN g.always[t] ELSE g.bodies[branch].last

WithRecord(g, branch, et, e) ==
  LET r     == <<current, e.pairs>>
      known == [q \in DOMAIN g.records \cup {r} |->
                  IF q \in DOMAIN g.records THEN g.records[q]
                                            ELSE NewRecord(et, branch, e.hashvalue)]
      prev  == LinkedFrom(g, branch, current)
  IN [records |-> IF prev = None \/ et \in {"LABEL", "LOOPSTART"} THEN known
                  ELSE [known EXCEPT ![prev].next = r],
      always  |-> IF branch # None THEN g.always ELSE [g.always EXCEPT ![current] = r],
      bodies  |-> IF branch = None THEN g.bodies
                  ELSE [g.bodies EXCEPT ![branch].last = r,
                                        ![branch].first = IF @ = None THEN r ELSE @]]

SetTables(g) == records' = g.records /\ bodies' = g.bodies /\ alwaysexecuted' = g.always
MoveTo(e) == execpoint' = [execpoint EXCEPT ![current] = e]
Walk(new) == walked' = [walked EXCEPT ![current] = @ \o new]
Here == <<current, Place(current)>>
currexecpoint == execpoint[current]

--------------------------------------------------------------------------------
(***************************************************************************)
(* The library's calls.                                                    *)
(***************************************************************************)
Running(op) == phase = "execute" /\ Instr(current).op = op

\* Loads, stores, functions, and the start of a thread, which its creation points to.
event ==
  /\ Running("EVENT")
  /\ LET g == WithRecord(Tables, currbranch, Instr(current).type, currexecpoint)
         parents == {r \in DOMAIN records : records[r].type = "THREADCREATE"}
     IN SetTables(IF Instr(current).type # "THREADBEGIN" \/ current = 0 THEN g
                  ELSE [g EXCEPT !.records = [r \in DOMAIN g.records |->
                          IF r \in parents THEN [g.records[r] EXCEPT !.child = Here] ELSE g.records[r]]])
  /\ Walk(<<Here>>)
  /\ MoveTo(incrementTop(currexecpoint))
  /\ UNCHANGED <<current, currbranch, CurrBranchList, lastloopexit, status, phiexits, taken>>

\* The new thread's identifier is the next one.
threadCreate ==
  /\ Running("CREATE") /\ status[Instr(current).tid] = "unborn"
  /\ SetTables(WithRecord(Tables, currbranch, "THREADCREATE", currexecpoint))
  /\ Walk(<<Here>>)
  /\ MoveTo(incrementTop(currexecpoint))
  /\ status' = [status EXCEPT ![Instr(current).tid] = "running"]
  /\ UNCHANGED <<current, currbranch, CurrBranchList, lastloopexit, phiexits, taken>>

\* Fault: the direction keeps the last record an earlier execution left.
Entered_keeps(b, branch) ==
  IF branch \in DOMAIN b THEN b ELSE (branch :> [first |-> None, last |-> None]) @@ b

\* branchDir, on the value of the direction: it has no last record yet.
Entered(b, branch) ==
  LET values == [x \in DOMAIN b \cup {branch} |->
                   IF x \in DOMAIN b THEN b[x] ELSE [first |-> None, last |-> None]]
  IN [values EXCEPT ![branch].last = None]

branchDir ==
  /\ Running("BRANCH")
  /\ \E d \in Instr(current).dirs :
       LET g == WithRecord(Tables, currbranch, "BRANCHDIR", currexecpoint)
           branch == <<Here, d>>
       IN /\ SetTables([g EXCEPT !.bodies = Entered(g.bodies, branch),
                                 !.records = IF branch \in DOMAIN bodies THEN g.records
                                             ELSE [g.records EXCEPT ![Here].dirs = Append(@, d)]])
          /\ currbranch' = branch
          /\ taken' = taken \cup {branch}
          /\ MoveTo(push(push(currexecpoint, Branch(d)), Counter(0)))
  /\ Walk(<<Here>>)
  /\ UNCHANGED <<current, CurrBranchList, lastloopexit, status, phiexits>>

\* merge is given the branch's identifier: the client merges where the branch ends.
merge ==
  /\ Running("MERGE")
  /\ LET branch == pop(pop(currexecpoint))
         outer  == records[<<current, branch.pairs>>].branch
         here   == incrementTop(branch)
     IN /\ currbranch' = outer
        /\ SetTables(WithRecord(Tables, outer, "MERGE", here))
        /\ Walk(<<<<current, here.pairs>>>>)
        /\ MoveTo(incrementTop(here))
  /\ UNCHANGED <<current, CurrBranchList, lastloopexit, status, phiexits, taken>>

enterLoop ==
  /\ Running("ENTER")
  /\ LET inner == push(push(currexecpoint, Loop(0)), Counter(0))
         start == <<current, inner.pairs>>
         g == WithRecord(WithRecord(Tables, currbranch, "LOOPENTER", currexecpoint), currbranch, "LOOPSTART", inner)
     IN /\ SetTables([g EXCEPT !.records[Here].child = start])
        /\ Walk(<<Here, start>>)
        /\ MoveTo(incrementTop(inner))
  /\ UNCHANGED <<current, currbranch, CurrBranchList, lastloopexit, status, phiexits, taken>>

loopIterate ==
  /\ Running("ITERATE")
  /\ MoveTo(push(incrementTop(pop(currexecpoint)), Counter(0)))
  /\ UNCHANGED <<current, currbranch, CurrBranchList, lastloopexit, status, tableVars, walked, taken>>

\* The point of the innermost loop around p, and the branches left on the way to it.
LoopPoint(p) == SubSeq(p, 1, SelectLastInSeq(p, LAMBDA pair : pair.type = "LOOP") - 1)
BranchesLeft(p) == Cardinality({i \in Len(LoopPoint(p)) + 1 .. Len(p) : p[i].type = "BRANCH"})

BranchAfterExit(table, branch, p) ==
  LET after[n \in 0 .. BranchesLeft(p)] == IF n = 0 THEN branch ELSE table[after[n - 1][1]].branch
  IN after[BranchesLeft(p)]

\* Fault: the exit is looked up outside of the branch.
ExitRecord_outside(g, branch) == g.always[current]

\* What loop_phi will take for the way out of the loop.
ExitRecord(g, branch) == LinkedFrom(g, branch, current)

ExitLinks(table, exit, enter, label) ==
  [table EXCEPT ![enter].next = IF @ = None THEN label ELSE @, ![exit].next = label]

exitLoop ==
  /\ Running("EXIT")
  /\ LET p     == Place(current)
         g     == WithRecord(Tables, currbranch, IF DirectInLoop(p) THEN "LOOPEXIT" ELSE "NONLOCALTRANS",
                             currexecpoint)
         outer == BranchAfterExit(g.records, currbranch, p)
         enter == popTo(incrementTop(currexecpoint), Len(LoopPoint(p)))
         label == incrementTop(enter)
         h     == WithRecord(g, outer, "LABEL", label)
         to    == <<current, label.pairs>>
     IN /\ lastloopexit' = [lastloopexit EXCEPT ![current] = ExitRecord(g, currbranch)]
        /\ currbranch' = outer
        /\ SetTables([h EXCEPT !.records = ExitLinks(h.records, Here, <<current, enter.pairs>>, to)])
        /\ Walk(<<Here, to>>)
        /\ MoveTo(incrementTop(label))
  /\ UNCHANGED <<current, CurrBranchList, status, phiexits, taken>>

\* The programs' phi functions take what was loaded last.
LastLoad(seq) == seq[SelectLastInSeq(seq, LAMBDA r : records[r].type = "LOAD")]

loop_phi ==
  /\ Running("LOOPPHI")
  /\ SetTables(WithRecord(Tables, currbranch, "FUNCTION", currexecpoint))
  /\ LET rip == [record |-> lastloopexit[current], idrecord |-> LastLoad(walked[current])]
     IN phiexits' = IF Here \in DOMAIN phiexits
                    THEN [phiexits EXCEPT ![Here] = @ \cup {rip}]
                    ELSE (Here :> {rip}) @@ phiexits
  /\ Walk(<<Here>>)
  /\ MoveTo(incrementTop(currexecpoint))
  /\ UNCHANGED <<current, currbranch, CurrBranchList, lastloopexit, status, taken>>

\* threadYield: with the option noexecyields the thread ends here.
threadYield ==
  /\ Running("YIELD")
  /\ SetTables(WithRecord(Tables, currbranch, "YIELD", currexecpoint))
  /\ Walk(<<Here>>)
  /\ MoveTo(incrementTop(currexecpoint))
  /\ status' = IF noexecyields THEN [status EXCEPT ![current] = "complete"] ELSE status
  /\ UNCHANGED <<current, currbranch, CurrBranchList, lastloopexit, phiexits, taken>>

threadFinish ==
  /\ Running("END") /\ status[current] = "running"
  /\ status' = [status EXCEPT ![current] = "complete"]
  /\ UNCHANGED <<current, currbranch, CurrBranchList, lastloopexit, execpoint, tableVars, walked, taken>>

SwitchedOut(t) == [CurrBranchList EXCEPT ![t] = currbranch]

\* swap_context and set_current_thread, at the calls that may switch.
set_current_thread ==
  /\ phase = "execute"
  /\ status[current] = "running" => Instr(current).op = "EVENT"
  /\ \E t \in Tid \ {current} :
       /\ status[t] = "running"
       /\ CurrBranchList' = SwitchedOut(current)
       /\ current' = t
       /\ currbranch' = SwitchedOut(current)[t]
  /\ UNCHANGED <<lastloopexit, execpoint, status, tableVars, walked, taken>>

Execute ==
  /\ \/ /\ status[current] = "running"
        /\ \/ event \/ threadCreate \/ branchDir \/ merge \/ enterLoop \/ loopIterate
           \/ exitLoop \/ loop_phi \/ threadYield \/ threadFinish
     \/ set_current_thread
  /\ UNCHANGED <<program, noexecyields, runs, phase, walkVars>>

--------------------------------------------------------------------------------
(***************************************************************************)
(* traverse: the encoding visits the records, from the first of main.      *)
(***************************************************************************)
First == <<0, FirstPoint>>

startTraversal ==
  /\ phase = "execute" /\ \A t \in Tid : status[t] # "running"
  /\ runs' = runs \cup {[walked |-> walked, taken |-> taken]}
  /\ phase' = "traverse"
  /\ cursor' = First /\ workstack' = <<>> /\ visited' = <<>>
  /\ nonlocaltrans' = {} /\ execcondtable' = <<>>
  /\ UNCHANGED <<program, noexecyields, execVars, tableVars, walked, taken>>

EP(r) == r[2]

\* Fault: a nonlocal exit is ignored when the record is in a branch at all.
Conditions_branch(r, pending) ==
  {x \in pending : /\ records[r].branch = None
                   /\ Compare(EP(r), EP(x)) = "BEFORE"}

(***************************************************************************)
(* recordExecCond: the nonlocal exits before a record, except where the    *)
(* branch it is in comes after them as well.                               *)
(***************************************************************************)
Conditions(r, pending) ==
  {x \in pending :
     /\ records[r].branch # None => Compare(EP(records[r].branch[1]), EP(x)) # "BEFORE"
     /\ Compare(EP(r), EP(x)) = "BEFORE"}

HasCondition == {"LOAD", "STORE", "FUNCTION", "BRANCHDIR", "LOOPEXIT", "NONLOCALTRANS", "YIELD"}

\* insertLabel: the exits that lead to the label are no condition for what follows it.
visitRecord(r) ==
  /\ execcondtable' = IF records[r].type \notin HasCondition THEN execcondtable
                      ELSE (r :> Conditions(r, nonlocaltrans)) @@ execcondtable
  /\ nonlocaltrans' =
       CASE records[r].type = "NONLOCALTRANS" -> nonlocaltrans \cup {r}
         [] records[r].type = "LABEL" -> {x \in nonlocaltrans : records[x].next # r}
         [] OTHER -> nonlocaltrans
  /\ visited' = Append(visited, r)

IfAny(r) == IF r = None THEN <<>> ELSE <<r>>

\* Fault: what follows a branch is visited before its bodies.
Later_swapped(r) ==
  LET rec == records[r] IN
  CASE rec.type = "LOOPENTER" -> IfAny(rec.next) \o IfAny(rec.child)
    [] rec.type = "BRANCHDIR" ->
         FlattenSeq([i \in DOMAIN rec.dirs |-> IfAny(bodies[<<r, rec.dirs[i]>>].first)]) \o IfAny(rec.next)
    [] OTHER -> IfAny(rec.child)

\* What traverseRecord leaves on the stack at a record, the last of it to be visited first.
Later(r) ==
  LET rec == records[r] IN
  CASE rec.type = "LOOPENTER" -> IfAny(rec.next) \o IfAny(rec.child)
    [] rec.type = "BRANCHDIR" ->
         IfAny(rec.next) \o
         FlattenSeq([i \in DOMAIN rec.dirs |-> IfAny(bodies[<<r, rec.dirs[i]>>].first)])
    [] OTHER -> IfAny(rec.child)

\* Where the chain of next pointers is left.
EndsChain(r) ==
  \/ records[r].type \in {"LOOPENTER", "NONLOCALTRANS", "LOOPEXIT", "BRANCHDIR"}
  \/ records[r].type = "YIELD" /\ noexecyields
  \/ records[r].next = None

traverseRecord ==
  /\ phase = "traverse" /\ cursor # None
  /\ visitRecord(cursor)
  /\ workstack' = workstack \o Later(cursor)
  /\ cursor' = IF EndsChain(cursor) THEN None ELSE records[cursor].next
  /\ UNCHANGED <<program, noexecyields, execVars, tableVars, pastVars, phase>>

popWork ==
  /\ phase = "traverse" /\ cursor = None
  /\ IF workstack = <<>>
     THEN phase' = "encoded" /\ UNCHANGED <<cursor, workstack>>
     ELSE cursor' = Last(workstack) /\ workstack' = Front(workstack) /\ UNCHANGED phase
  /\ UNCHANGED <<program, noexecyields, execVars, tableVars, pastVars, visited, nonlocaltrans, execcondtable>>

--------------------------------------------------------------------------------
\* Rollback and reset: the snapshot brings back the threads, but not lastloopexit.
FirstExecution ==
  /\ current' = 0 /\ currbranch' = None
  /\ CurrBranchList' = [t \in Tid |-> None]
  /\ alwaysexecuted' = [t \in Tid |-> None]
  /\ execpoint' = [t \in Tid |-> NewPoint(t)]
  /\ status' = [t \in Tid |-> IF t = 0 THEN "running" ELSE "unborn"]
  /\ walked' = [t \in Tid |-> <<>>] /\ taken' = {}

reset ==
  /\ phase = "encoded" /\ Cardinality(runs) < MaxExecutions
  /\ FirstExecution
  /\ phase' = "execute"
  /\ UNCHANGED <<program, noexecyields, records, bodies, phiexits, lastloopexit, runs, walkVars>>

Init ==
  /\ program \in DOMAIN Programs /\ noexecyields \in BOOLEAN
  /\ records = <<>> /\ bodies = <<>> /\ phiexits = <<>>
  /\ current = 0 /\ currbranch = None
  /\ CurrBranchList = [t \in Tid |-> None]
  /\ alwaysexecuted = [t \in Tid |-> None] /\ lastloopexit = [t \in Tid |-> None]
  /\ execpoint = [t \in Tid |-> NewPoint(t)]
  /\ status = [t \in Tid |-> IF t = 0 THEN "running" ELSE "unborn"]
  /\ walked = [t \in Tid |-> <<>>] /\ taken = {} /\ runs = {}
  /\ phase = "execute" /\ workstack = <<>> /\ cursor = None /\ visited = <<>>
  /\ nonlocaltrans = {} /\ execcondtable = <<>>

Next == Execute \/ startTraversal \/ traverseRecord \/ popWork \/ reset

Spec == Init /\ [][Next]_vars

--------------------------------------------------------------------------------
Id == Tid \X Point
IdOrNone == Id \cup {None}

(***************************************************************************)
(* The tables refer to records there are; None ends a chain.               *)
(***************************************************************************)
TypeOK ==
  LET known == DOMAIN records \cup {None} IN
  /\ \A r \in DOMAIN records : /\ r[1] \in Tid
                               /\ records[r].next \in known /\ records[r].child \in known
                               /\ records[r].branch \in DOMAIN bodies \cup {None}
  /\ \A b \in DOMAIN bodies : bodies[b].first \in known /\ bodies[b].last \in known
  /\ currbranch \in DOMAIN bodies \cup {None}
  /\ cursor \in known /\ nonlocaltrans \subseteq DOMAIN records
  /\ phase \in {"execute", "traverse", "encoded"}

(***************************************************************************)
(* getNextRecord and processRecord of the schedule builder: the path of a  *)
(* thread through the graph under the directions of an execution.          *)
(***************************************************************************)
NextRecord(r) ==
  LET from[n \in 0 .. Len(EP(r))] ==
        IF n = 0 THEN r
        ELSE LET q == from[n - 1]
             IN IF records[q].next # None \/ records[q].branch = None THEN q ELSE records[q].branch[1]
  IN records[from[Len(EP(r))]].next

Successor(r, dirs) ==
  LET rec  == records[r]
      body == {b \in dirs : b[1] = r}
  IN CASE rec.type = "LOOPENTER" -> rec.child
       [] rec.type = "YIELD" /\ noexecyields -> None
       [] rec.type = "BRANCHDIR" /\ \E b \in body : bodies[b].first # None ->
            bodies[CHOOSE b \in body : bodies[b].first # None].first
       [] OTHER -> NextRecord(r)

\* The builder follows seq from its first record to its end.
Follows(seq, dirs) ==
  \A i \in DOMAIN seq : Successor(seq[i], dirs) = IF i < Len(seq) THEN seq[i + 1] ELSE None

Executions == IF phase = "execute" THEN {} ELSE runs

(***************************************************************************)
(* The graph can replay every execution so far: the walk of the schedule   *)
(* builder under the execution's directions meets exactly the records the  *)
(* thread met, in their order.                                             *)
(***************************************************************************)
ReplaysEveryExecution ==
  \A run \in Executions : \A t \in Tid : Follows(run.walked[t], run.taken)

\* A thread does not end in the body of a branch: MC2_merge or MC2_exitLoop ends every body.
BodiesAreLeft ==
  \A i \in DOMAIN Programs, t \in Tid : \A p \in DOMAIN Programs[i][t] :
    LET code == Programs[i][t]
        op   == code[p].op
        next == IncrementTop(p)
    IN /\ op = "BRANCH" => \A d \in code[p].dirs : IntoBranch(p, d) \in DOMAIN code
       /\ (\E j \in DOMAIN p : p[j].type = "BRANCH") =>
            /\ op \in {"EVENT", "CREATE", "LOOPPHI", "YIELD"} => next \in DOMAIN code
            /\ op \in {"BRANCH", "ENTER"} => IncrementTop(next) \in DOMAIN code
            /\ op = "ENTER" => Push(Push(p, Loop(0)), Counter(1)) \in DOMAIN code
            /\ op = "ITERATE" => Append(IncrementTop(Pop(p)), Counter(0)) \in DOMAIN code

(***************************************************************************)
(* traverse visits every record once ("in execution order", says its       *)
(* comment): a record is encoded after those that come before it.          *)
(***************************************************************************)
TraversedInOrder ==
  phase = "encoded" =>
    /\ IsInjective(visited) /\ ToSet(visited) = DOMAIN records
    /\ \A run \in runs : \A t \in Tid :
         SelectSeq(visited, LAMBDA r : r \in ToSet(run.walked[t])) = run.walked[t]

\* getExecutionConstraint and isAlwaysExecuted, for the directions of an execution.
GuardOf(x) == records[x].branch
ExecutionConstraint(r, dirs) ==
  /\ records[r].branch # None => records[r].branch \in dirs
  /\ \A x \in execcondtable[r] : GuardOf(x) \notin dirs

\* With noexecyields the encoding excludes what goes through a yield (processYield).
Encoded(run) ==
  noexecyields => \A t \in Tid : \A r \in ToSet(run.walked[t]) : records[r].type # "YIELD"

(***************************************************************************)
(* The condition the encoding gives a record, its branch and the nonlocal  *)
(* exits before it, holds in exactly the executions that met it.           *)
(***************************************************************************)
ConditionsExact ==
  phase = "encoded" =>
    \A run \in runs : Encoded(run) =>
      \A r \in DOMAIN execcondtable :
        ExecutionConstraint(r, run.taken) <=> r \in ToSet(run.walked[r[1]])

\* The records whose values the clauses give to a phi function.
processLoopPhi(r, dirs) ==
  {rip.idrecord : rip \in {x \in phiexits[r] : /\ x.record \in DOMAIN execcondtable
                                              /\ ExecutionConstraint(x.record, dirs)}}

Before(seq, r) == SubSeq(seq, 1, SelectInSeq(seq, LAMBDA q : q = r) - 1)

(***************************************************************************)
(* The phi function after a loop takes its value by the record at which    *)
(* the loop was left.  In every execution that met it the clauses give it  *)
(* the value it had there, and none of another way out of the loop.        *)
(***************************************************************************)
LoopPhiTakesInput ==
  phase = "encoded" =>
    \A run \in runs : Encoded(run) =>
      \A r \in DOMAIN phiexits : r \in ToSet(run.walked[r[1]]) =>
        processLoopPhi(r, run.taken) = {LastLoad(Before(run.walked[r[1]], r))}

(***************************************************************************)
(* A thread that comes to a point with a record finds it: the point's hash *)
(* value, brought up to date on another way, in an earlier execution or    *)
(* around other bodies, is the same.  Otherwise there would be two records *)
(* of one point (ExecPointEquals compares the hash values too).            *)
(***************************************************************************)
RecordIsFound ==
  \A t \in Tid : <<t, Place(t)>> \in DOMAIN records =>
    records[<<t, Place(t)>>].hashvalue = execpoint[t].hashvalue
================================================================================
