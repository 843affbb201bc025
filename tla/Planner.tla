-------------------------------- MODULE Planner --------------------------------
(***************************************************************************)
(* What the checker knows of the values of a program: the sets of values   *)
(* an execution records (src/mcexecution.cc, src/eprecord.cc) and the      *)
(* planner spreads before the next encoding is made (src/planner.cc).      *)
(*                                                                         *)
(* An execution records the values it happens to see.  What it could have  *)
(* seen under another schedule follows from them: a value stored reaches   *)
(* every load that may share an address with the store, a value returned   *)
(* reaches every record that takes it as an operand.  A step of the        *)
(* planner spreads one new value of one record, and queues what is new by  *)
(* it.                                                                     *)
(*                                                                         *)
(* Records are the operations of the program, by number.  Executions are   *)
(* sequentially consistent and take any schedule: which one the solver     *)
(* asks for, and the buffers of a TSO build, are the subject of Replay.    *)
(* Addresses are values like others.                                       *)
(***************************************************************************)
EXTENDS Integers, FiniteSets, SequencesExt

CONSTANTS
  Programs,  \* Programs[i][r]: operation r, a thread's operations in program order
  Address,   \* what may be used as an address
  Width,     \* bound: values are 0 .. Width - 1, arithmetic wraps around
  MaxTurns   \* bound: executions of one behaviour

ASSUME PlannerAssumption ==
  /\ MaxTurns \in Nat /\ Width \in Nat \ {0} /\ Address \subseteq 0 .. Width - 1
  /\ \A i \in DOMAIN Programs : \A r \in DOMAIN Programs[i] :
       \A j \in DOMAIN Programs[i][r].args : Programs[i][r].args[j].src < r

VARIABLES
  program,                  \* the one checked
  phase, turn,
  mem, memtable,            \* an address's value and the record that wrote it
  at, event,                \* each thread's last operation; the values of those executed
  created,                  \* EPTable: the records, oldest first
  seen,                     \* the EPValues of each record
  tables,                   \* the sets of values, load and store tables, queued changes
  deps,                     \* eprecorddep: for each record the operands it is the source of
  goals,                    \* the inputs a function has been executed with, and the results
  completedset

executionVars == <<mem, memtable, at, event>>
knowledgeVars == <<created, seen, tables, deps, goals>>

Record == DOMAIN Programs[program]
Op(r) == Programs[program][r]
Tid == {Op(r).tid : r \in Record}
Mask(v) == v % Width

\* The sets of a record (src/epvalue.h).
ADDR == 0
RF == 1
FUNCOUT == 1
BASE == 2
OLDVALCAS == 3
RMWOUT == 4
VALOUT == 5
Index == 0 .. 5

NoRecord == 0
IsConst(o) == o.src = NoRecord

--------------------------------------------------------------------------------
(***************************************************************************)
(* The tables, as operators on a record of them.                           *)
(***************************************************************************)
HasValue(T, r, i, v) == v \in ToSet(T.sets[r][i])
AddValue(T, r, i, v) ==
  IF HasValue(T, r, i, v) THEN T ELSE [T EXCEPT !.sets[r][i] = Append(@, v)]
\* The changeset is a set, first in first out.
addChange(T, r, v, i) ==
  IF <<r, v, i>> \in ToSet(T.changeset) THEN T
  ELSE [T EXCEPT !.changeset = Append(@, <<r, v, i>>)]
NewValue(T, r, i, v) ==
  IF HasValue(T, r, i, v) THEN T ELSE addChange(AddValue(T, r, i, v), r, v, i)

addStoreTable(T, a, r) ==
  IF r \in ToSet(T.storetable[a]) THEN T ELSE [T EXCEPT !.storetable[a] = Append(@, r)]
addLoadTable(T, a, r) ==
  IF r \in ToSet(T.loadtable[a]) THEN T ELSE [T EXCEPT !.loadtable[a] = Append(@, r)]
getStoreTable(T, a) == T.storetable[a]
getLoadTable(T, a) == T.loadtable[a]

StoreIndex(r) == IF Op(r).type = "RMW" THEN RMWOUT ELSE BASE
getStoreSet(T, r) == T.sets[r][StoreIndex(r)]
ReturnIndex(r) ==
  CASE Op(r).type = "RMW" -> RMWOUT [] Op(r).type = "LOAD" -> RF [] OTHER -> FUNCOUT
getReturnValueSet(T, r) == T.sets[r][ReturnIndex(r)]

\* F for each element in turn.
ForEach(F(_, _), T, s) ==
  LET after[i \in 0 .. Len(s)] ==
        IF i = 0 THEN T ELSE CHOOSE S \in {F(U, s[i]) : U \in {after[i - 1]}} : TRUE
  IN after[Len(s)]

recordFunctionChange(T, r, v) == NewValue(T, r, FUNCOUT, v)
evalGoal(T, r, goal) ==
  IF \A j \in DOMAIN goal.in : HasValue(T, r, BASE + j - 1, goal.in[j])
  THEN recordFunctionChange(T, r, goal.out) ELSE T

--------------------------------------------------------------------------------
(***************************************************************************)
(* An operation of the program: its operands, its result, what it records. *)
(***************************************************************************)
\* The directions this execution has taken: nothing outside of them is executed.
Reached(r) == Op(r).on = <<>> \/ (Op(r).on[1] \in DOMAIN event /\ event[Op(r).on[1]][BASE] = Op(r).on[2])

Returned(r) == IF Op(r).type = "PHI" THEN event[r][BASE] ELSE event[r][RF]
Value(o) == IF IsConst(o) THEN o.val ELSE Mask(Returned(o.src) + o.val)

\* A phi takes the one of its inputs that has been executed.
Operands(r) ==
  IF Op(r).type = "PHI"
  THEN <<Op(r).args[SelectLastInSeq(Op(r).args, LAMBDA o : o.src \in DOMAIN event)]>>
  ELSE Op(r).args
Inputs(r) == [j \in DOMAIN Operands(r) |-> Value(Operands(r)[j])]

\* dormwaction: the value in memory afterwards.
NewMemory(op, cur, in) ==
  CASE op = "ADD" -> Mask(cur + in[1])
    [] op = "CAS" -> IF cur = in[2] THEN in[1] ELSE cur
    [] op = "EXC" -> in[1]

\* The operands that have a source, and their indices; sources of a load's value are
\* the records that wrote it.
Sources(r, rf, addr) ==
  LET in == Operands(r)
      Pair(src, i) == IF src = NoRecord THEN <<>> ELSE <<<<src, i>>>>
  IN FlattenSeq([j \in DOMAIN in |-> Pair(in[j].src, BASE + j - 1)])
       \o Pair(rf, RF) \o Pair(addr.src, ADDR)
addRecordDepTable(D, src, r, i) ==
  IF <<r, i>> \in ToSet(D[src]) THEN D ELSE [D EXCEPT ![src] = Append(@, <<r, i>>)]
\* The reverse table: the sources that operand i of r has had.
getRevDependences(r, i) == {src \in Record : <<r, i>> \in ToSet(deps[src])}
recordContext(r, rf, addr) ==
  FoldLeft(LAMBDA D, s : addRecordDepTable(D, s[1], r, s[2]), deps, Sources(r, rf, addr))

recordAddress(T, r, a) == NewValue(T, r, ADDR, a)
\* A store's value is new if no execution has stored it, be it known or not.
recordStoreChange(T, r, a, v) ==
  LET T1 == recordAddress(T, r, a)
  IN IF v \in seen[r] THEN T1 ELSE addChange(AddValue(T1, r, BASE, v), r, v, BASE)
recordRMWChange(T, r, a, in, new) ==
  LET T1 == AddValue(recordAddress(T, r, a), r, BASE, in[1])
      T2 == IF Op(r).op = "CAS" THEN AddValue(T1, r, OLDVALCAS, in[2]) ELSE T1
  IN NewValue(T2, r, RMWOUT, new)

NoAddr == [src |-> NoRecord, val |-> 0]
Executed(r, values, new, rf, addr) ==
  /\ event' = [q \in DOMAIN event \cup {r} |-> IF q = r THEN values ELSE event[q]]
  /\ created' = IF r \in ToSet(created) THEN created ELSE Append(created, r)
  /\ seen' = [seen EXCEPT ![r] = @ \cup new]
  /\ deps' = recordContext(r, rf, addr)

load(r) ==
  LET a == Value(Op(r).addr) IN
  /\ Op(r).type = "LOAD"
  /\ tables' = addLoadTable(recordAddress(tables, r, a), a, r)
  /\ Executed(r, (ADDR :> a) @@ (RF :> mem[a]), {mem[a]}, memtable[a], Op(r).addr)
  /\ UNCHANGED <<mem, memtable, goals>>

store(r) ==
  LET a == Value(Op(r).addr)
      v == Inputs(r)[1] IN
  /\ Op(r).type = "STORE"
  /\ mem' = [mem EXCEPT ![a] = v] /\ memtable' = [memtable EXCEPT ![a] = r]
  /\ tables' = addStoreTable(recordStoreChange(tables, r, a, v), a, r)
  /\ Executed(r, (ADDR :> a) @@ (BASE :> v), {v}, NoRecord, Op(r).addr)
  /\ UNCHANGED goals

rmw(r) ==
  LET a == Value(Op(r).addr)
      in == Inputs(r)
      new == NewMemory(Op(r).op, mem[a], in) IN
  /\ Op(r).type = "RMW"
  /\ mem' = [mem EXCEPT ![a] = new] /\ memtable' = [memtable EXCEPT ![a] = r]
  /\ tables' = addStoreTable(addLoadTable(recordRMWChange(tables, r, a, in, new), a, r), a, r)
  /\ Executed(r, (ADDR :> a) @@ (RF :> mem[a]) @@ (RMWOUT :> new), {mem[a]}, memtable[a], Op(r).addr)
  /\ UNCHANGED goals

equals(r) ==
  LET in == Inputs(r)
      eq == IF in[1] = in[2] THEN 1 ELSE 0
      Const(T, j) == IF IsConst(Op(r).args[j]) THEN AddValue(T, r, BASE + j - 1, in[j]) ELSE T
      T1 == IF r \in ToSet(created) THEN tables
            ELSE recordFunctionChange(recordFunctionChange(tables, r, 0), r, 1) IN
  /\ Op(r).type = "EQUALS"
  /\ tables' = ForEach(Const, T1, <<1, 2>>)
  /\ Executed(r, (BASE :> in[1]) @@ (BASE + 1 :> in[2]) @@ (FUNCOUT :> eq), {0, 1}, NoRecord, NoAddr)
  /\ UNCHANGED <<mem, memtable, goals>>

\* Functions with an identifier share what is known of them.
IsShared(r) == Op(r).shared # 0
GoalSet(r) == IF IsShared(r) THEN <<"shared", Op(r).shared>> ELSE <<"own", r>>
Goals(r) == IF GoalSet(r) \in DOMAIN goals THEN goals[GoalSet(r)] ELSE <<>>
SharedRecords(r) == SelectSeq(created, LAMBDA q : Op(q).type = "FUNCTION" /\ GoalSet(q) = GoalSet(r))

\* A new record of a shared function starts with its operands' values, and with the
\* results that are known for them.
firstCall(T, r) ==
  LET Operand(S, j) ==
        ForEach(LAMBDA U, v : AddValue(U, r, BASE + j - 1, v),
                S, getReturnValueSet(S, Op(r).args[j].src))
      T1 == ForEach(Operand, T, [j \in DOMAIN Op(r).args |-> j])
  IN IF r \in ToSet(created) \/ ~IsShared(r) THEN T
     ELSE ForEach(LAMBDA S, g : evalGoal(S, r, g), T1, Goals(r))

function(r) ==
  LET in == Inputs(r)
      goal == [in |-> in, out |-> Mask(Op(r).f[in])]
      T1 == firstCall(tables, r)
      T2 == recordFunctionChange(T1, r, goal.out)
      others == SelectSeq(SharedRecords(r), LAMBDA q : q # r)
      known == \E g \in ToSet(Goals(r)) : g.in = in IN
  /\ Op(r).type = "FUNCTION"
  /\ goals' = IF known THEN goals
              ELSE [s \in DOMAIN goals \cup {GoalSet(r)} |->
                      IF s = GoalSet(r) THEN Append(Goals(r), goal) ELSE goals[s]]
  /\ tables' = IF known THEN T1
               ELSE IF IsShared(r) THEN ForEach(LAMBDA S, q : evalGoal(S, q, goal), T2, others)
               ELSE T2
  /\ Executed(r, [i \in {BASE + j - 1 : j \in DOMAIN in} \cup {FUNCOUT} |->
                    IF i = FUNCOUT THEN goal.out ELSE in[i - BASE + 1]], {goal.out}, NoRecord, NoAddr)
  /\ UNCHANGED <<mem, memtable>>

\* phi and branchDir only note their operand.
phiOrBranch(r) ==
  LET v == Inputs(r)[1] IN
  /\ Op(r).type \in {"PHI", "BRANCHDIR"}
  /\ Executed(r, BASE :> v, {v}, NoRecord, NoAddr)
  /\ UNCHANGED <<mem, memtable, tables, goals>>

--------------------------------------------------------------------------------
\* main sets up the memory and creates the other threads.
Rest(t) == {r \in Record : Op(r).tid = t /\ r > at[t] /\ Reached(r)}
Done(t) == Rest(t) = {}
Step ==
  /\ phase = "run"
  /\ \E t \in Tid : /\ ~Done(t) /\ (t # 0 => Done(0))
                    /\ LET r == CHOOSE q \in Rest(t) : \A p \in Rest(t) : q <= p
                       IN /\ load(r) \/ store(r) \/ rmw(r) \/ equals(r) \/ function(r) \/ phiOrBranch(r)
                          /\ at' = [at EXCEPT ![t] = r]
  /\ UNCHANGED <<program, phase, turn, completedset>>

Ended == phase = "run" /\ \A t \in Tid : Done(t)

StartExecution ==
  /\ turn < MaxTurns /\ turn' = turn + 1
  /\ mem' = [a \in Address |-> 0] /\ memtable' = [a \in Address |-> NoRecord]
  /\ at' = [t \in Tid |-> 0] /\ event' = <<>>

PlannerInit ==
  /\ program \in DOMAIN Programs
  /\ phase = "run" /\ turn = 1
  /\ mem = [a \in Address |-> 0] /\ memtable = [a \in Address |-> NoRecord]
  /\ at = [t \in Tid |-> 0] /\ event = <<>>
  /\ created = <<>> /\ seen = [r \in Record |-> {}] /\ goals = <<>>
  /\ deps = [r \in Record |-> <<>>]
  /\ tables = [sets |-> [r \in Record |-> [i \in Index |-> <<>>]],
               loadtable |-> [a \in Address |-> <<>>], storetable |-> [a \in Address |-> <<>>],
               changeset |-> <<>>]
  /\ completedset = {}
--------------------------------------------------------------------------------
(***************************************************************************)
(* The planner: a value that is new at an operand of a record.             *)
(***************************************************************************)
compatibleStoreLoad(s, l) == s # l

registerLoadValue(T, r, v, i) ==
  IF HasValue(T, r, i, v) THEN T
  ELSE IF i = ADDR THEN addChange(addLoadTable(AddValue(T, r, i, v), v, r), r, v, ADDR)
  ELSE addChange(AddValue(T, r, i, v), r, v, VALOUT)

\* Fault: what an RMW reads goes to the loads, but not to where its result is used.
doRMWRFChange_stored_only(T, r, v) == IF Op(r).op = "CAS" THEN NewValue(T, r, RMWOUT, v) ELSE T

\* A CAS may store what it reads.
doRMWRFChange(T, r, v) ==
  LET T1 == addChange(T, r, v, VALOUT)
  IN IF Op(r).op = "CAS" THEN NewValue(T1, r, RMWOUT, v) ELSE T1
\* What an ADD stores is not foreseen.
doRMWBaseChange(T, r, v) == IF Op(r).op = "CAS" THEN NewValue(T, r, RMWOUT, v) ELSE T

registerRMWRead(T, r, v) ==
  IF HasValue(T, r, RF, v) THEN T ELSE doRMWRFChange(AddValue(T, r, RF, v), r, v)

\* A value stored, for an operation that may read it.
registerRead(T, r, v) ==
  IF Op(r).type = "RMW" THEN registerRMWRead(T, r, v) ELSE registerLoadValue(T, r, v, RF)

\* The values of the stores to address a, for a reader.
ReadStores(T, r, a) ==
  ForEach(LAMBDA S, s : IF compatibleStoreLoad(s, r)
                        THEN ForEach(LAMBDA U, v : registerRead(U, r, v), S, getStoreSet(S, s)) ELSE S,
          T, getStoreTable(T, a))

doRMWNewAddrChange(T, r, a) ==
  ReadStores(addChange(addStoreTable(addLoadTable(T, a, r), a, r), r, a, ADDR), r, a)

registerRMWValue(T, r, v, i) ==
  LET T1 == AddValue(T, r, i, v)
  IN CASE HasValue(T, r, i, v) -> T
       [] OTHER -> CASE i = ADDR -> doRMWNewAddrChange(T1, r, v)
                     [] i = RF   -> doRMWRFChange(T1, r, v)
                     [] i = BASE -> doRMWBaseChange(T1, r, v)
                     [] OTHER    -> T1

\* A store's value goes on even if it is not new.
registerStoreValue(T, r, v, i) ==
  LET T1 == AddValue(T, r, i, v)
  IN addChange(IF i = ADDR THEN addStoreTable(T1, v, r) ELSE T1, r, v, i)

registerFunctionValue(T, r, v, i) ==
  LET T1 == AddValue(T, r, i, v)
  IN IF Op(r).type = "PHI" THEN addChange(T1, r, v, FUNCOUT)
     ELSE IF IsShared(r) /\ ~HasValue(T, r, i, v)
     THEN ForEach(LAMBDA S, g : IF g.in[i - BASE + 1] = v THEN evalGoal(S, r, g) ELSE S, T1, Goals(r))
     ELSE T1

registerValue(T, r, w, i) ==
  LET v == IF i = ADDR THEN Mask(w + Op(r).addr.val) ELSE w
  IN CASE Op(r).type = "LOAD"                  -> registerLoadValue(T, r, v, i)
       [] Op(r).type = "RMW"                   -> registerRMWValue(T, r, v, i)
       [] Op(r).type = "STORE"                 -> registerStoreValue(T, r, v, i)
       [] Op(r).type \in {"FUNCTION", "PHI"}   -> registerFunctionValue(T, r, v, i)
       [] Op(r).type \in {"EQUALS", "BRANCHDIR"} -> AddValue(T, r, i, v)

processNewReturnValue(T, r, v) ==
  ForEach(LAMBDA S, d : registerValue(S, d[1], v, d[2]), T, deps[r])

processNewLoadAddress(T, r, a) == ReadStores(T, r, a)

processNewStoreAddress(T, r, a) ==
  ForEach(LAMBDA S, l : IF compatibleStoreLoad(r, l)
                        THEN ForEach(LAMBDA U, v : registerValue(U, l, v, RF), S, getStoreSet(S, r)) ELSE S,
          T, getLoadTable(T, a))

processNewStoreValue(T, r, v) ==
  ForEach(LAMBDA S, a :
            ForEach(LAMBDA U, l : IF compatibleStoreLoad(r, l) THEN registerValue(U, l, v, RF) ELSE U,
                    S, getLoadTable(S, a)),
          T, T.sets[r][ADDR])

processChange(T, r, v, i) ==
  CASE Op(r).type = "LOAD" /\ i = ADDR              -> processNewLoadAddress(T, r, v)
    [] Op(r).type \in {"STORE", "RMW"} /\ i = ADDR  -> processNewStoreAddress(T, r, v)
    [] Op(r).type \in {"STORE", "RMW"} /\ i = StoreIndex(r) -> processNewStoreValue(T, r, v)
    [] OTHER                                        -> processNewReturnValue(T, r, v)

\* Fault: a change that has been made before stays in the queue.
processChanges_completed_stays ==
  /\ phase = "plan" /\ tables.changeset # <<>>
  /\ LET c == Head(tables.changeset)
         T == [tables EXCEPT !.changeset = Tail(@)]
     IN IF c \in completedset THEN UNCHANGED <<tables, completedset>>
        ELSE /\ tables' = processChange(T, c[1], c[2], c[3])
             /\ completedset' = completedset \cup {c}
  /\ UNCHANGED <<program, phase, turn, executionVars, created, seen, deps, goals>>

\* One round of the loop.
processChanges ==
  /\ phase = "plan" /\ tables.changeset # <<>>
  /\ LET c == Head(tables.changeset)
         T == [tables EXCEPT !.changeset = Tail(@)]
     IN /\ tables' = IF c \in completedset THEN T ELSE processChange(T, c[1], c[2], c[3])
        /\ completedset' = completedset \cup {c}
  /\ UNCHANGED <<program, phase, turn, executionVars, created, seen, deps, goals>>

Planned == phase = "plan" /\ tables.changeset = <<>>

\* While an execution records nothing new, every value an operation takes or returns is one the
\* tables have for it: the last encoding, which is made from them, holds for this execution too.
\* A load must know of every store that can reach it under any schedule, through any chain of loads,
\* stores, comparisons and functions, before one of them has been seen.
Foreseen ==
  phase = "run" /\ turn > 1 /\ tables.changeset = <<>> =>
    \A r \in DOMAIN event : \A i \in DOMAIN event[r] :
      event[r][i] \in ToSet(tables.sets[r][i])
================================================================================
