--------------------------------- MODULE Replay --------------------------------
(***************************************************************************)
(* One turn of the loop of MC::check (src/model.cc): buildSchedule turns a *)
(* solution into wait pairs, then the program runs under the scheduler.    *)
(* The first execution has no schedule.                                    *)
(***************************************************************************)
EXTENDS ScheduleBuilder, SequencesExt

CONSTANTS
  FirstRun,  \* TRUE: include the execution before the first call of plan
  Explored   \* what has been explored when a turn starts: records with the
             \* directions and goals recorded and those the encoding knows.  The
             \* two differ when canReuseEncoding keeps the encoding of an earlier turn.

ASSUME ExploredAssumption ==
  /\ FirstRun \in BOOLEAN
  /\ Explored \subseteq [known   : SUBSET (TakenBranch \cup CGoal),
                         encoded : SUBSET (TakenBranch \cup CGoal)]

\* An encoding is made from records.
ASSUME EncodedAssumption == \A e \in Explored : e.encoded \subseteq e.known

VARIABLES
  phase,     \* building, running, back in the system context, or past a read
             \* behind the end of ExecPointList, of whose outcome nothing is said
  solved     \* the execution has a schedule

vars == <<execVars, schedVars, builderVars, phase, solved>>

Init ==
  /\ ExecInit
  /\ SchedInit
  /\ BuilderInit
  /\ \/ FirstRun /\ phase = "start" /\ solved = FALSE /\ known = {} /\ encoded = {}
     \/ /\ phase = "build" /\ solved = TRUE
        /\ \E e \in Explored : known = e.known /\ encoded = e.encoded

Build == phase = "build" /\ (Walk \/ TakeEarliest) /\ UNCHANGED <<phase, solved>>

\* run_execution: switch to the thread of the user's main.
Start ==
  /\ phase = "start" \/ (phase = "build" /\ Built)
  /\ phase' = "run"
  /\ current' = 0
  /\ UNCHANGED <<execVars, waitset, storeset, waitsetindex, storesetindex, newbehavior, pc,
                 builderVars, solved>>

--------------------------------------------------------------------------------
\* The operations of the running thread.  branchDir and function call setNewFlag.
Operation(t) ==
  /\ ~InCheckPreempt(t)
  /\ \/ load(t) \/ store(t) \/ rmw(t) \/ fence(t)
     \/ local(t) \/ threadCreate(t) \/ threadJoin(t) \/ merge(t)
  /\ pc' = [pc EXCEPT ![t] = "run"]
  /\ UNCHANGED newbehavior

DrainAtFence(t) ==
  /\ ~InCheckPreempt(t)
  /\ fenceDrain(t)
  /\ UNCHANGED <<pc, newbehavior>>

TakeBranch(t) ==
  /\ ~InCheckPreempt(t)
  /\ branchDir(t)
  /\ newbehavior' = (newbehavior \/ BranchTaken(t) \notin known)
  /\ pc' = [pc EXCEPT ![t] = "run"]

CallFunction(t) ==
  /\ ~InCheckPreempt(t)
  /\ function(t)
  /\ newbehavior' = (newbehavior \/ GoalOf(t) \notin known)
  /\ pc' = [pc EXCEPT ![t] = "run"]

Finish(t) ==
  /\ ~InCheckPreempt(t)
  /\ threadFinish(t)
  /\ pc' = [pc EXCEPT ![t] = "search"]
  /\ UNCHANGED newbehavior

Execute(t) ==
  /\ Operation(t) \/ DrainAtFence(t) \/ TakeBranch(t) \/ CallFunction(t) \/ Finish(t)
  /\ UNCHANGED <<waitset, storeset, waitsetindex, storesetindex, current, phase>>

Preempt(t) ==
  \/ /\ check_preempt_flush(t) \/ check_preempt_switch(t) \/ check_preempt_none(t)
     /\ phase' = IF current' = NoThread THEN "done" ELSE "run"
  \/ check_preempt_strays(t) /\ phase' = "undefined"

Run ==
  /\ phase = "run"
  /\ Execute(current) \/ Preempt(current)
  /\ UNCHANGED <<builderVars, solved>>

Stopped == phase \in {"done", "undefined"} /\ UNCHANGED vars

Next == Build \/ Start \/ Run \/ Stopped

Spec     == Init /\ [][Next]_vars
FairSpec == Spec /\ WF_vars(Next)

--------------------------------------------------------------------------------
TypeOK ==
  /\ ExecTypeOK
  /\ SchedTypeOK
  /\ BuilderTypeOK
  /\ phase \in {"start", "build", "run", "done", "undefined"}
  /\ solved \in BOOLEAN

(***************************************************************************)
(* A schedule binds as long as the encoding knows every direction and goal *)
(* that has been recorded: it is void once a new one is met, and an        *)
(* encoding that is used again may meet one that another execution has     *)
(* recorded.                                                               *)
(***************************************************************************)
Scheduled == solved /\ known = encoded /\ phase \in {"run", "done"}

\* The execution performs the operations of the solution, in the solution's
\* order and with the values the solution gives them: the wait pairs of
\* buildSchedule are enough for check_preempt to reproduce the order.  If it
\* ends, it has performed all of them.
ReplayExact ==
  Scheduled => /\ IsPrefix(trace, order)
               /\ phase = "done" => trace = order

\* An execution that returns to the system context has run every thread to its
\* end and written every buffered store: check_preempt never gives up on a thread
\* that is not complete.
RunsToCompletion ==
  phase = "done" => \A t \in Tid : status[t] # "running" /\ storebuffer[t] = <<>>

\* check_preempt hands the processor only to a thread that exists and has not
\* finished, also when it gives up; a finished thread has it only while it
\* searches for its successor.
CurrentRuns ==
  phase = "run" =>
    /\ current \in Tid
    /\ \/ status[current] = "running"
       \/ status[current] = "complete" /\ pc[current] = "search"

\* No wait pair is evaluated before the thread it waits for has been created:
\* get_execpoint(waittid) in checkSet stays inside ExecPointList.
WaitsOnCreated == phase # "undefined"

\* The steps of an execution are steps the memory model allows.
MM == INSTANCE MemoryModel
ImplementsMemoryModel == MM!Init /\ [][MM!Next]_MM!mmVars

\* Every execution ends: threads that poll in threadJoin or wait at a stop point
\* do not keep the others from running.
ExecutionEnds == <>(phase = "done")
================================================================================
