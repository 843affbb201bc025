------------------------------ MODULE MCScheduler ------------------------------
(***************************************************************************)
(* The replay scheduler (src/mcschedule.cc).  A wait pair says that a      *)
(* thread that reaches its stop point may not go on before another thread  *)
(* has passed the wait point.  check_preempt is the only place where a     *)
(* thread stops running: it flushes the store buffers that may be flushed, *)
(* then switches to the next thread that may run.                          *)
(*                                                                         *)
(* The pairs of one stop are kept in one row.  buildSchedule adds them in  *)
(* the order of the threads, for each thread first the pair on its last    *)
(* load, RMW or SC store and then the pair on its last buffered store; a   *)
(* Nil entry of a row is a pair that was not added.                        *)
(***************************************************************************)
EXTENDS MCExecution

VARIABLES
  waitset,        \* per thread, the rows whose stop is an operation of it
  storeset,       \* TSO: per thread, the rows whose stop is a store of it
  waitsetindex,   \* per thread, the first row of waitset not yet resolved
  storesetindex,  \* the same for storeset
  newbehavior,    \* the execution left what was recorded: pairs are void
  current,        \* the thread that runs, NoThread for the system context
  pc              \* per thread: running its code, in check_preempt's search,
                  \* or returning from check_preempt when it runs next

schedVars == <<waitset, storeset, waitsetindex, storesetindex, newbehavior, current, pc>>

Nil      == <<>>
NoThread == NumThreads
AllNil   == [k \in Tid |-> Nil]

Row == [stop : Point, op : [Tid -> Point \cup {Nil}], st : [Tid -> Point \cup {Nil}]]

\* addWaitPair, for all the pairs of a stop.
AddRow(rows, row) == IF row.op = AllNil /\ row.st = AllNil THEN rows ELSE Append(rows, row)

SchedReset ==
  /\ waitset = [t \in Tid |-> <<>>]
  /\ storeset = [t \in Tid |-> <<>>]
  /\ waitsetindex = [t \in Tid |-> 1]
  /\ storesetindex = [t \in Tid |-> 1]
  /\ newbehavior = FALSE

\* The state the constructor makes is that of a reset.
SchedInit ==
  /\ SchedReset
  /\ current = NoThread
  /\ pc = [t \in Tid |-> "run"]

--------------------------------------------------------------------------------
(***************************************************************************)
(* checkSet.  A wait is resolved when the thread is past the wait point    *)
(* and, for a buffered store, the store has left the buffer; or when the   *)
(* thread has finished with an empty buffer.                               *)
(***************************************************************************)
Finished(k) == storebuffer[k] = <<>> /\ status[k] = "complete"

\* Fault: the wait ends when the thread reaches the wait point.
OpResolvedEarly(k, w) == w = Nil \/ Compare(execpoint[k], w) # "AFTER" \/ Finished(k)

OpResolved(k, w) == w = Nil \/ Past(execpoint[k], w) \/ Finished(k)

StoreResolved(k, w) ==
  \/ w = Nil
  \/ /\ Past(execpoint[k], w)
     /\ storebuffer[k] # <<>> => Past(Head(storebuffer[k]).point, w)
  \/ ~Past(execpoint[k], w) /\ Finished(k)

WaitsResolved(row, k) == OpResolved(k, row.op[k]) /\ StoreResolved(k, row.st[k])

AtStop(row, point)   == Compare(row.stop, point) = "EQUALS"
Passable(row, point) == AtStop(row, point) /\ \A k \in Tid : WaitsResolved(row, k)

\* The index after the loop over the rows: it skips rows as long as it can.
NextIndex(rows, index, point) ==
  index + Cardinality({j \in index .. Len(rows) :
                         \A i \in index .. j : Passable(rows[i], point)})

Skipped(rows, index, point) == IF newbehavior THEN index ELSE NextIndex(rows, index, point)

\* Fault: a row whose stop point is ahead blocks as well.
BlockedAhead(rows, index, point) ==
  LET i == NextIndex(rows, index, point)
  IN  ~newbehavior /\ i <= Len(rows) /\ ~Past(point, rows[i].stop)

\* checkSet returns false.  A row ahead does not block, nor does a missed one.
Blocked(rows, index, point) ==
  LET i == NextIndex(rows, index, point)
  IN  ~newbehavior /\ i <= Len(rows) /\ AtStop(rows[i], point)

\* Fault: it evaluates them from the last to the first.
ReadsUncreatedBackwards(rows, index, point) ==
  LET i == NextIndex(rows, index, point) IN
  /\ Blocked(rows, index, point)
  /\ \E k \in Tid : /\ status[k] = "unborn"
                    /\ rows[i].op[k] # Nil \/ rows[i].st[k] # Nil
                    /\ \A m \in k + 1 .. NumThreads - 1 : WaitsResolved(rows[i], m)

(***************************************************************************)
(* checkSet evaluates the pairs of a row in order up to the first that is  *)
(* not resolved.  If that one waits on a thread that does not exist yet,   *)
(* get_execpoint reads behind the end of ExecPointList.                    *)
(***************************************************************************)
ReadsUncreated(rows, index, point) ==
  LET i == NextIndex(rows, index, point) IN
  /\ Blocked(rows, index, point)
  /\ \E k \in Tid : /\ status[k] = "unborn"
                    /\ rows[i].op[k] # Nil \/ rows[i].st[k] # Nil
                    /\ \A m \in 0 .. k - 1 : WaitsResolved(rows[i], m)

--------------------------------------------------------------------------------
(***************************************************************************)
(* check_preempt visits slots: in an SC build the threads after the        *)
(* current one, in a TSO build the buffer of the current thread, the next  *)
(* thread, its buffer, and so on.  The odd slots are the buffers.          *)
(***************************************************************************)
Slots         == 1 .. 2 * NumCreated
IsBuffer(s)   == s % 2 = 1
SlotTid(t, s) == (t + s \div 2) % NumCreated

\* Fault: finished threads are skipped with their buffers.
AskedRunning(t, s) ==
  status[SlotTid(t, s)] = "running" /\ (IsBuffer(s) => storebuffer[SlotTid(t, s)] # <<>>)

\* The slot is asked: the buffer has an entry, or the thread has not finished.
Asked(t, s) ==
  IF IsBuffer(s) THEN storebuffer[SlotTid(t, s)] # <<>>
                 ELSE status[SlotTid(t, s)] = "running"

SlotHolds(t, s, Test(_, _, _)) ==
  LET k == SlotTid(t, s)
  IN  IF IsBuffer(s)
      THEN Test(storeset[k], storesetindex[k], Head(storebuffer[k]).point)
      ELSE Test(waitset[k], waitsetindex[k], execpoint[k])

Eligible(t, s) == Asked(t, s) /\ ~SlotHolds(t, s, Blocked)
Strays(t, s)   == Asked(t, s) /\ SlotHolds(t, s, ReadsUncreated)

\* s is the slot the search stops at, all slots before it having been asked.
FirstEligible(t, s) ==
  /\ Eligible(t, s)
  /\ \A r \in 1 .. s - 1 : ~Eligible(t, r) /\ ~Strays(t, r)

\* The indices of the slots asked up to s advance.
ScanTo(t, s) ==
  LET Scanned(k, buffer) == \E r \in 1 .. s : /\ SlotTid(t, r) = k
                                              /\ IsBuffer(r) = buffer
                                              /\ Asked(t, r)
  IN
  /\ waitsetindex' = [k \in Tid |->
       IF Scanned(k, FALSE) THEN Skipped(waitset[k], waitsetindex[k], execpoint[k])
                            ELSE waitsetindex[k]]
  /\ storesetindex' = [k \in Tid |->
       IF Scanned(k, TRUE)
       THEN Skipped(storeset[k], storesetindex[k], Head(storebuffer[k]).point)
       ELSE storesetindex[k]]

SwitchTo(t, k) ==
  /\ current' = k
  /\ pc' = [pc EXCEPT ![t] = "resume"]

(***************************************************************************)
(* The calls that enter check_preempt: loadMCID, nextRMW and fence before  *)
(* their operation, storeMCID in an SC build, threadJoin as long as the    *)
(* joined thread runs, threadFinish, and a search that was restarted.      *)
(***************************************************************************)
InCheckPreempt(t) ==
  LET ins == Current(t) IN
  \/ pc[t] = "search"
  \/ /\ pc[t] = "run"
     /\ \/ ins.op \in {"LOAD", "RMW", "FENCE"}
        \/ ins.op = "STORE" /\ ~TSO
  \/ ins.op = "JOIN" /\ status[ins.tid] # "complete"

\* A buffer may be flushed: write its oldest store and search again.
check_preempt_flush(t) ==
  /\ InCheckPreempt(t)
  /\ \E s \in Slots :
       /\ IsBuffer(s)
       /\ FirstEligible(t, s)
       /\ doStore(SlotTid(t, s))
       /\ ScanTo(t, s)
  /\ pc' = [pc EXCEPT ![t] = "search"]
  /\ UNCHANGED <<execpoint, reg, status, known, waitset, storeset, newbehavior, current>>

\* A thread may run: switch to it.
check_preempt_switch(t) ==
  /\ InCheckPreempt(t)
  /\ \E s \in Slots :
       /\ ~IsBuffer(s)
       /\ FirstEligible(t, s)
       /\ SwitchTo(t, SlotTid(t, s))
       /\ ScanTo(t, s)
  /\ UNCHANGED <<execVars, waitset, storeset, newbehavior>>

\* Fault: the thread taken is not asked whether it has finished.
check_preempt_none_unasked(t) ==
  LET k == IF TSO THEN t ELSE (t + 1) % NumCreated IN
  /\ InCheckPreempt(t)
  /\ \A s \in Slots : ~Eligible(t, s) /\ ~Strays(t, s)
  /\ SwitchTo(t, k)
  /\ ScanTo(t, 2 * NumCreated)
  /\ UNCHANGED <<execVars, waitset, storeset, newbehavior>>

\* Nothing may run: take the thread the loop variable is left at, whatever its
\* waits; if it has finished, return to the system context.
check_preempt_none(t) ==
  LET k == IF TSO THEN t ELSE (t + 1) % NumCreated IN
  /\ InCheckPreempt(t)
  /\ \A s \in Slots : ~Eligible(t, s) /\ ~Strays(t, s)
  /\ SwitchTo(t, IF status[k] = "complete" THEN NoThread ELSE k)
  /\ ScanTo(t, 2 * NumCreated)
  /\ UNCHANGED <<execVars, waitset, storeset, newbehavior>>

\* The search reads the execution point of a thread that does not exist.
check_preempt_strays(t) ==
  /\ InCheckPreempt(t)
  /\ \E s \in Slots : Strays(t, s) /\ \A r \in 1 .. s - 1 : ~Eligible(t, r)
  /\ current' = NoThread
  /\ UNCHANGED <<execVars, waitset, storeset, waitsetindex, storesetindex, newbehavior, pc>>

SchedTypeOK ==
  /\ waitset \in [Tid -> Seq(Row)]
  /\ storeset \in [Tid -> Seq(Row)]
  /\ waitsetindex \in [Tid -> Nat]
  /\ storesetindex \in [Tid -> Nat]
  /\ newbehavior \in BOOLEAN
  /\ current \in Tid \cup {NoThread}
  /\ pc \in [Tid -> {"run", "search", "resume"}]
================================================================================
