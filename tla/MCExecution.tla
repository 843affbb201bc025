------------------------------ MODULE MCExecution ------------------------------
(***************************************************************************)
(* One execution of the program under test (src/mcexecution.cc): the       *)
(* memory, the store buffers of a TSO build, the execution points of the   *)
(* threads and what the recording of an operation changes.  Everything     *)
(* runs on one kernel thread; a thread only stops running inside           *)
(* check_preempt, which MCScheduler models.                                *)
(*                                                                         *)
(* An action is the part of a library call that follows its call of        *)
(* check_preempt, if it has one.  Each says nothing of the scheduler's     *)
(* variables.                                                              *)
(***************************************************************************)
EXTENDS Program, FiniteSets, FiniteSetsExt

VARIABLES
  memory,       \* the contents of the shared locations
  storebuffer,  \* TSO: per thread, the stores not yet written, oldest first
  execpoint,    \* ExecPointList: per thread, the point it has reached
  reg,          \* per thread, the client's register
  status,       \* per thread: not created, running, THREAD_COMPLETED
  known,        \* branch directions and goals of functions that this or an
                \* earlier execution has recorded
  trace         \* history: the memory operations in the order they took effect

execVars == <<memory, storebuffer, execpoint, reg, status, known, trace>>

BufferedStore == [point : Point, loc : Loc, val : Val]
TakenBranch   == [tid : Tid, point : Point, dir : {0, 1}]
CGoal         == [goals : Nat, input : Val]
Event         == [tid : Tid, point : Point, val : Val]

Current(t) == Instr(t, execpoint[t])

Created    == {t \in Tid : status[t] # "unborn"}
NumCreated == Cardinality(Created)

\* run_execution: only the thread that runs the user's main exists.
ExecInit ==
  /\ memory = [l \in Loc |-> 0]
  /\ storebuffer = [t \in Tid |-> <<>>]
  /\ execpoint = [t \in Tid |-> FirstPoint]
  /\ reg = [t \in Tid |-> 0]
  /\ status = [t \in Tid |-> IF t = 0 THEN "running" ELSE "unborn"]
  /\ trace = <<>>

MoveTo(t, p) == execpoint' = [execpoint EXCEPT ![t] = p]
Advance(t)   == MoveTo(t, IncrementTop(execpoint[t]))
Record(t, p, v) == trace' = Append(trace, [tid |-> t, point |-> p, val |-> v])

(***************************************************************************)
(* load scans the thread's own store buffer from its newest entry, then    *)
(* reads memory.                                                           *)
(***************************************************************************)
ReadValue(buffer, mem, l) ==
  LET hits == {i \in DOMAIN buffer : buffer[i].loc = l}
  IN  IF hits = {} THEN mem[l] ELSE buffer[Max(hits)].val

load(t) ==
  LET v == ReadValue(storebuffer[t], memory, Current(t).loc) IN
  /\ Current(t).op = "LOAD"
  /\ reg' = [reg EXCEPT ![t] = v]
  /\ Record(t, execpoint[t], v)
  /\ Advance(t)
  /\ UNCHANGED <<memory, storebuffer, status, known>>

\* store writes memory in an SC build and queues the value in a TSO build.
store(t) ==
  LET ins == Current(t) IN
  /\ ins.op = "STORE"
  /\ IF TSO
     THEN /\ storebuffer' = [storebuffer EXCEPT ![t] =
               Append(@, [point |-> execpoint[t], loc |-> ins.loc, val |-> ins.val])]
          /\ UNCHANGED <<memory, trace>>
     ELSE /\ memory' = [memory EXCEPT ![ins.loc] = ins.val]
          /\ Record(t, execpoint[t], ins.val)
          /\ UNCHANGED storebuffer
  /\ Advance(t)
  /\ UNCHANGED <<reg, status, known>>

\* doStore writes the oldest store of a buffer to memory.
doStore(t) ==
  LET s == Head(storebuffer[t]) IN
  /\ memory' = [memory EXCEPT ![s.loc] = s.val]
  /\ storebuffer' = [storebuffer EXCEPT ![t] = Tail(@)]
  /\ Record(t, s.point, s.val)

(***************************************************************************)
(* rmw reads and writes memory, not the store buffer: that the buffer is   *)
(* empty by then is left to check_preempt.                                 *)
(***************************************************************************)
rmw(t) ==
  LET ins == Current(t)
      cur == memory[ins.loc]
  IN
  /\ ins.op = "RMW"
  /\ memory' = [memory EXCEPT ![ins.loc] = RmwResult(ins, cur)]
  /\ reg' = [reg EXCEPT ![t] = cur]
  /\ Record(t, execpoint[t], cur)
  /\ Advance(t)
  /\ UNCHANGED <<storebuffer, status, known>>

(***************************************************************************)
(* fence records itself and then drains the thread's own buffer, asking no *)
(* wait pair.  Nothing else runs in between, so the model drains first.    *)
(***************************************************************************)
fenceDrain(t) ==
  /\ Current(t).op = "FENCE"
  /\ storebuffer[t] # <<>>
  /\ doStore(t)
  /\ UNCHANGED <<execpoint, reg, status, known>>

\* Fault: the fence does not drain.
fenceNoDrain(t) ==
  /\ Current(t).op = "FENCE"
  /\ Advance(t)
  /\ UNCHANGED <<memory, storebuffer, reg, status, known, trace>>

fence(t) ==
  /\ Current(t).op = "FENCE"
  /\ storebuffer[t] = <<>>
  /\ Advance(t)
  /\ UNCHANGED <<memory, storebuffer, reg, status, known, trace>>

\* THREADBEGIN, EQUALS, ALLOC, YIELD: recorded, no effect on memory.
local(t) ==
  /\ Current(t).op = "LOCAL"
  /\ Advance(t)
  /\ UNCHANGED <<memory, storebuffer, reg, status, known, trace>>

\* The goal that a call of a function achieves: the value it finds, in its set of goals.
GoalOf(t) == [goals |-> Current(t).goals, input |-> reg[t]]

\* The client has computed the result; function adds the goal unless its set has it.
function(t) ==
  /\ Current(t).op = "FUNCTION"
  /\ reg' = [reg EXCEPT ![t] = Current(t).result[@]]
  /\ known' = known \cup {GoalOf(t)}
  /\ Advance(t)
  /\ UNCHANGED <<memory, storebuffer, status, trace>>

\* A created thread can be scheduled at once; its context starts at its function.
NewThread(c) == [status EXCEPT ![c] = "running"]

\* get_next_tid: identifiers are handed out in the order of creation.
threadCreate(t) ==
  LET c == Current(t).tid IN
  /\ Current(t).op = "CREATE"
  /\ Created = 0 .. c - 1
  /\ status' = NewThread(c)
  /\ Advance(t)
  /\ UNCHANGED <<memory, storebuffer, reg, known, trace>>

\* The joined thread has finished; its store buffer need not be empty.
threadJoin(t) ==
  /\ Current(t).op = "JOIN"
  /\ status[Current(t).tid] = "complete"
  /\ Advance(t)
  /\ UNCHANGED <<memory, storebuffer, reg, status, known, trace>>

\* What branchDir adds to the record of the branch.
BranchTaken(t) == [tid |-> t, point |-> execpoint[t], dir |-> Direction(reg[t])]

branchDir(t) ==
  /\ Current(t).op = "BRANCH"
  /\ MoveTo(t, IntoBranch(execpoint[t], Direction(reg[t])))
  /\ known' = known \cup {BranchTaken(t)}
  /\ UNCHANGED <<memory, storebuffer, reg, status, trace>>

merge(t) ==
  /\ Current(t).op = "MERGE"
  /\ MoveTo(t, AfterMerge(execpoint[t]))
  /\ UNCHANGED <<memory, storebuffer, reg, status, known, trace>>

\* threadFinish up to its check_preempt.
threadFinish(t) ==
  /\ Current(t).op = "END"
  /\ status' = [status EXCEPT ![t] = "complete"]
  /\ UNCHANGED <<memory, storebuffer, execpoint, reg, known, trace>>

ExecTypeOK ==
  /\ memory \in [Loc -> Val]
  /\ storebuffer \in [Tid -> Seq(BufferedStore)]
  /\ execpoint \in [Tid -> Point]
  /\ reg \in [Tid -> Val]
  /\ status \in [Tid -> {"unborn", "running", "complete"}]
  /\ known \subseteq TakenBranch \cup CGoal
  /\ trace \in Seq(Event)
================================================================================
