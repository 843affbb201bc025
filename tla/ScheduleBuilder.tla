---------------------------- MODULE ScheduleBuilder ----------------------------
(***************************************************************************)
(* From a solution of the SAT solver to wait pairs                         *)
(* (src/schedulebuilder.cc).  buildSchedule walks the recorded threads     *)
(* along the predicted branch directions; among the memory operations it   *)
(* has reached it takes the one that is first in the solution's order and  *)
(* makes it wait for the last operation taken of every thread.             *)
(*                                                                         *)
(* The solution itself is external.  It is modelled by what the encoding   *)
(* means: an arbitrary order of the operations that respects thread        *)
(* creation, join, program order (in a TSO build, but for a store and a    *)
(* later load that no fence or RMW separates), with the values this order  *)
(* gives.  OrderEncoding asks whether the clauses guarantee that much.     *)
(***************************************************************************)
EXTENDS MCScheduler

VARIABLES
  encoded,            \* branch directions and goals the encoding in use knows
  frontier,           \* threads: per thread, the record the walk has reached
  stores,             \* TSO: per thread, the stores walked but not ordered yet
  barrier,            \* how many of these a fence walked since then orders
  lastoperation,      \* per thread, its last ordered operation
  storelastoperation, \* TSO: per thread, its last ordered store
  order,              \* the operations in the order of the solution
  solmemory,          \* the solution: memory after the ordered operations
  solreg              \* the solution: the client registers

builderVars == <<encoded, frontier, stores, barrier, lastoperation, storelastoperation,
                 order, solmemory, solreg>>

\* What the builder starts from, the solver's part of it included.
BuilderInit ==
  /\ frontier = [i \in Tid |-> IF i = 0 THEN FirstPoint ELSE Nil]
  /\ stores = [i \in Tid |-> <<>>]
  /\ barrier = [i \in Tid |-> 0]
  /\ lastoperation = AllNil
  /\ storelastoperation = AllNil
  /\ order = <<>>
  /\ solmemory = [l \in Loc |-> 0]
  /\ solreg = [t \in Tid |-> 0]

Frontier(i) == Instr(i, frontier[i])

\* The frontier is an operation the walk stops at.
AtMemoryOperation(i) ==
  /\ frontier[i] # Nil
  /\ Frontier(i).op \in (IF TSO THEN {"LOAD", "RMW"} ELSE {"LOAD", "RMW", "STORE"})

CanWalk(i) == frontier[i] # Nil /\ ~AtMemoryOperation(i)

\* The threads are walked in their order.
Walking(i) == CanWalk(i) /\ \A j \in 0 .. i - 1 : ~CanWalk(j)

GoTo(i, p) == frontier' = [frontier EXCEPT ![i] = p]

--------------------------------------------------------------------------------
(***************************************************************************)
(* One turn of the walking loop: processRecord, getNextRecord and what a   *)
(* TSO build does with stores and fences.                                  *)
(***************************************************************************)
WalkPast(i) ==
  /\ Walking(i)
  /\ Frontier(i).op \in {"LOCAL", "JOIN"}
  /\ GoTo(i, IncrementTop(frontier[i]))
  /\ UNCHANGED <<stores, barrier, waitset>>

\* Start the next thread.
WalkCreate(i) ==
  /\ Walking(i)
  /\ Frontier(i).op = "CREATE"
  /\ frontier' = [frontier EXCEPT ![i] = IncrementTop(@), ![Frontier(i).tid] = FirstPoint]
  /\ UNCHANGED <<stores, barrier, waitset>>

\* processFunction: the solution gives the output of a goal the encoding knows, and any
\* value for an input it does not know.
WalkFunction(i) ==
  /\ Walking(i)
  /\ Frontier(i).op = "FUNCTION"
  /\ \E v \in Val :
       /\ [goals |-> Frontier(i).goals, input |-> solreg[i]] \in encoded
            => v = Frontier(i).result[solreg[i]]
       /\ solreg' = [solreg EXCEPT ![i] = v]
  /\ GoTo(i, IncrementTop(frontier[i]))
  /\ UNCHANGED <<stores, barrier, waitset>>

\* The direction the solution gives, if the encoding knows it: into its body.
\* Otherwise go past the branch.  Every body of these programs ends in a merge, and an
\* execution that has taken a branch has recorded the MERGE after it, so getNextRecord
\* has no record to drop and no branch to climb from (EventGraph has the general case).
WalkBranch(i) ==
  LET d == Direction(solreg[i]) IN
  /\ Walking(i)
  /\ Frontier(i).op = "BRANCH"
  /\ GoTo(i, IF [tid |-> i, point |-> frontier[i], dir |-> d] \in encoded
             THEN IntoBranch(frontier[i], d)
             ELSE PastBranch(frontier[i]))
  /\ UNCHANGED <<stores, barrier, waitset>>

\* The end of a body continues after its branch.
WalkMerge(i) ==
  /\ Walking(i)
  /\ Frontier(i).op = "MERGE"
  /\ GoTo(i, AfterMerge(frontier[i]))
  /\ UNCHANGED <<stores, barrier, waitset>>

WalkEnd(i) ==
  /\ Walking(i)
  /\ Frontier(i).op = "END"
  /\ GoTo(i, Nil)
  /\ UNCHANGED <<stores, barrier, waitset>>

WalkStore(i) ==
  LET ins == Frontier(i) IN
  /\ Walking(i)
  /\ ins.op = "STORE"
  /\ stores' = [stores EXCEPT ![i] =
       Append(@, [point |-> frontier[i], loc |-> ins.loc, val |-> ins.val])]
  /\ GoTo(i, IncrementTop(frontier[i]))
  /\ UNCHANGED <<barrier, waitset>>

\* The row of a fence or RMW that waits for the thread's last store.
DrainRow(i) ==
  [stop |-> frontier[i],
   op   |-> AllNil,
   st   |-> [AllNil EXCEPT ![i] = stores[i][Len(stores[i])].point]]

WalkFence(i) ==
  /\ Walking(i)
  /\ Frontier(i).op = "FENCE"
  /\ waitset' = IF stores[i] = <<>> THEN waitset
                ELSE [waitset EXCEPT ![i] = Append(@, DrainRow(i))]
  /\ barrier' = [barrier EXCEPT ![i] = Len(stores[i])]
  /\ GoTo(i, IncrementTop(frontier[i]))
  /\ UNCHANGED stores

Walk ==
  /\ \E i \in Tid :
       \/ /\ \/ WalkPast(i) \/ WalkCreate(i) \/ WalkBranch(i) \/ WalkMerge(i)
             \/ WalkEnd(i) \/ WalkStore(i) \/ WalkFence(i)
          /\ UNCHANGED solreg
       \/ WalkFunction(i)
  /\ UNCHANGED <<encoded, lastoperation, storelastoperation, order, solmemory,
                 execVars, storeset, waitsetindex, storesetindex, newbehavior, current, pc>>

--------------------------------------------------------------------------------
(***************************************************************************)
(* orderThread: the creator's operations before the creation come before   *)
(* those of the created thread, and these before the operations that       *)
(* follow a join with it.                                                  *)
(***************************************************************************)
ThreadOrderAllows(i, p) ==
  /\ \A c \in Tid, q \in UNION {DOMAIN Code[t] : t \in Tid} :
       (q \in DOMAIN Code[c] /\ Instr(c, q) = [op |-> "CREATE", tid |-> i])
         => \A s \in DOMAIN stores[c] : Compare(stores[c][s].point, q) # "AFTER"
  /\ \A q \in DOMAIN Code[i] :
       (Instr(i, q).op = "JOIN" /\ Compare(q, p) = "AFTER")
         => frontier[Instr(i, q).tid] = Nil /\ stores[Instr(i, q).tid] = <<>>

\* Fault: an operation waits only for the last buffered stores.
OrderRowNoLoads(stop, i) ==
  [stop |-> stop,
   op   |-> AllNil,
   st   |-> IF stop = frontier[i] THEN storelastoperation
                                  ELSE [storelastoperation EXCEPT ![i] = Nil]]

\* A wait pair for each thread's last operation and each thread's last store.
OrderRow(stop, i) ==
  [stop |-> stop,
   op   |-> IF stop = frontier[i] THEN [lastoperation EXCEPT ![i] = Nil] ELSE lastoperation,
   st   |-> IF stop = frontier[i] THEN storelastoperation
                                  ELSE [storelastoperation EXCEPT ![i] = Nil]]

\* An RMW the walk has stopped at gets its pair again on every turn.
RmwWaits(k) == TSO /\ AtMemoryOperation(k) /\ Frontier(k).op = "RMW" /\ stores[k] # <<>>

AddOrderRow(i, stop, buffered) ==
  /\ waitset' = [k \in Tid |->
       LET rows == IF RmwWaits(k) THEN Append(waitset[k], DrainRow(k)) ELSE waitset[k]
       IN  IF k = i /\ ~buffered THEN AddRow(rows, OrderRow(stop, i)) ELSE rows]
  /\ storeset' = IF buffered
                 THEN [storeset EXCEPT ![i] = AddRow(@, OrderRow(stop, i))]
                 ELSE storeset

\* The first operation in the solution's order is the frontier of thread i.
OrderFrontier(i) ==
  LET ins == Frontier(i)
      v == CASE ins.op = "LOAD"  -> ReadValue(stores[i], solmemory, ins.loc)
             [] ins.op = "RMW"   -> solmemory[ins.loc]
             [] ins.op = "STORE" -> ins.val
  IN
  /\ AtMemoryOperation(i)
  /\ ThreadOrderAllows(i, frontier[i])
  /\ ins.op = "LOAD" => barrier[i] = 0
  /\ ins.op = "RMW" => stores[i] = <<>>
  /\ order' = Append(order, [tid |-> i, point |-> frontier[i], val |-> v])
  /\ solreg' = IF ins.op = "STORE" THEN solreg ELSE [solreg EXCEPT ![i] = v]
  /\ solmemory' = CASE ins.op = "LOAD"  -> solmemory
                    [] ins.op = "RMW"   -> [solmemory EXCEPT ![ins.loc] = RmwResult(ins, v)]
                    [] ins.op = "STORE" -> [solmemory EXCEPT ![ins.loc] = v]
  /\ AddOrderRow(i, frontier[i], FALSE)
  /\ GoTo(i, IncrementTop(frontier[i]))
  /\ lastoperation' = [lastoperation EXCEPT ![i] = frontier[i]]
  /\ UNCHANGED <<stores, barrier, storelastoperation>>

\* It is the oldest store of thread i.
OrderStore(i) ==
  LET s == Head(stores[i]) IN
  /\ stores[i] # <<>>
  /\ ThreadOrderAllows(i, s.point)
  /\ order' = Append(order, [tid |-> i, point |-> s.point, val |-> s.val])
  /\ solmemory' = [solmemory EXCEPT ![s.loc] = s.val]
  /\ AddOrderRow(i, s.point, TRUE)
  /\ stores' = [stores EXCEPT ![i] = Tail(@)]
  /\ barrier' = [barrier EXCEPT ![i] = IF @ = 0 THEN 0 ELSE @ - 1]
  /\ storelastoperation' = [storelastoperation EXCEPT ![i] = s.point]
  /\ UNCHANGED <<frontier, lastoperation, solreg>>

TakeEarliest ==
  /\ \A i \in Tid : ~CanWalk(i)
  /\ \E i \in Tid : OrderFrontier(i) \/ OrderStore(i)
  /\ UNCHANGED <<encoded, execVars, waitsetindex, storesetindex, newbehavior, current, pc>>

\* No record is left: earliest is NULL.
Built == \A i \in Tid : frontier[i] = Nil /\ stores[i] = <<>>

BuilderTypeOK ==
  /\ encoded \subseteq TakenBranch \cup CGoal
  /\ frontier \in [Tid -> Point \cup {Nil}]
  /\ stores \in [Tid -> Seq(BufferedStore)]
  /\ barrier \in [Tid -> Nat]
  /\ lastoperation \in [Tid -> Point \cup {Nil}]
  /\ storelastoperation \in [Tid -> Point \cup {Nil}]
  /\ order \in Seq(Event)
  /\ solmemory \in [Loc -> Val]
  /\ solreg \in [Tid -> Val]
================================================================================
