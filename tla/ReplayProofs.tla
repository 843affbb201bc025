------------------------------ MODULE ReplayProofs ------------------------------
(***************************************************************************)
(* What holds of every turn of the loop, for every program.  The states    *)
(* are typed, a thread that is given the processor exists, and an SC       *)
(* execution takes only steps of the memory model.  In an SC build a       *)
(* scheduled execution performs exactly the operations of the solution, in *)
(* its order and with its values (ReplayExact), and every execution,       *)
(* scheduled or not, runs all threads to their end (RunsToCompletion).     *)
(***************************************************************************)
EXTENDS Replay, Lemmas, FiniteSetTheorems

\* What a program point holds is an instruction, with the operands of its kind.
LEMMA InstrType ==
  ASSUME NEW t \in Tid, NEW p \in Point
  PROVE  LET ins == Instr(t, p) IN
         /\ ins.op \in {"LOAD", "STORE", "RMW"} => ins.loc \in Loc
         /\ ins.op \in {"STORE", "RMW"} => ins.val \in Val
         /\ ins.op = "RMW" => ins.kind \in {"ADD", "CAS", "EXC"}
         /\ ins.op = "FUNCTION" => ins.goals \in Nat /\ ins.result \in [Val -> Val]
         /\ ins.op \in {"CREATE", "JOIN"} => ins.tid \in Tid
         /\ ins.op = "MERGE" => Len(p) > 2
         /\ ins.op = "FENCE" => TSO
<1>1. CASE p \in DOMAIN Code[t]
  <2>1. Code[t][p] \in Instruction /\ Instr(t, p) = Code[t][p]
    BY <1>1, ProgramAssumption DEF Instr
  <2>2. (Instr(t, p).op = "MERGE" => Len(p) > 2) /\ (Instr(t, p).op = "FENCE" => TSO)
    BY <1>1, <2>1, ProgramAssumption
  <2> QED
    BY <2>1, <2>2 DEF Instruction, MemoryOperation, Function
<1>2. CASE p \notin DOMAIN Code[t]
  BY <1>2 DEF Instr
<1> QED
  BY <1>1, <1>2

\* Counting the top of a point up gives a point.
LEMMA IncrementTopType ==
  ASSUME NEW p \in Point
  PROVE  IncrementTop(p) \in Point /\ Len(IncrementTop(p)) = Len(p)
<1>1. p \in Seq(Pair) /\ Len(p) \in Nat \ {0} /\ DOMAIN p = 1 .. Len(p)
  BY PointFacts DEF Point
<1>2. p[Len(p)] \in Pair
  BY <1>1
<1> DEFINE top == [p[Len(p)] EXCEPT !.val = p[Len(p)].val + 1]
<1>3. top \in Pair
  BY <1>2 DEF Pair
<1>4. IncrementTop(p) = [p EXCEPT ![Len(p)] = top]
  BY DEF IncrementTop
<1>5. IncrementTop(p) \in Seq(Pair) /\ Len(IncrementTop(p)) = Len(p)
  <2> HIDE DEF top
  <2> QED BY <1>1, <1>3, <1>4
<1>6. IncrementTop(p) # <<>>
  BY <1>1, <1>5, EmptySeq
<1> QED
  BY <1>5, <1>6 DEF Point

\* push leaves a point.
LEMMA PushType ==
  ASSUME NEW p \in Point, NEW r \in Pair
  PROVE  Push(p, r) \in Point
<1>1. p \in Seq(Pair) /\ Append(p, r) \in Seq(Pair) /\ Len(Append(p, r)) = Len(p) + 1
  BY DEF Point
<1>2. Append(p, r) # <<>>
  BY <1>1, EmptySeq
<1> QED
  BY <1>1, <1>2 DEF Point, Push

\* pop leaves a point, unless it takes the last pair.
LEMMA PopType ==
  ASSUME NEW p \in Point, Len(p) > 1
  PROVE  Pop(p) \in Point /\ Len(Pop(p)) = Len(p) - 1
<1>1. p \in Seq(Pair) /\ Len(p) \in Nat
  BY DEF Point
<1>2. Pop(p) \in Seq(Pair) /\ Len(Pop(p)) = Len(p) - 1
  BY <1>1 DEF Pop
<1>3. Pop(p) # <<>>
  BY <1>1, <1>2, EmptySeq
<1> QED
  BY <1>2, <1>3 DEF Point

\* The points a thread moves to are points.
LEMMA MovesType ==
  ASSUME NEW p \in Point
  PROVE  /\ IncrementTop(p) \in Point
         /\ PastBranch(p) \in Point
         /\ \A d \in {0, 1} : IntoBranch(p, d) \in Point
         /\ Len(p) > 2 => AfterMerge(p) \in Point
<1>1. \A d \in {0, 1} : Branch(d) \in Pair /\ Counter(0) \in Pair
  BY DEF Branch, Counter, Pair, PairType
<1>2. \A d \in {0, 1} : IntoBranch(p, d) \in Point
  BY <1>1, PushType DEF IntoBranch
<1>3. Len(p) > 2 => Pop(Pop(p)) \in Point
  <2>1. Len(p) \in Nat
    BY PointFacts
  <2> QED
    BY <2>1, PopType
<1> QED
  BY <1>2, <1>3, IncrementTopType DEF PastBranch, AfterMerge

\* add_thread starts a thread at a point.
LEMMA FirstPointType == FirstPoint \in Point
<1>1. Counter(0) \in Pair
  BY DEF Counter, Pair, PairType
<1>2. FirstPoint \in Seq(Pair) /\ Len(FirstPoint) = 1
  BY <1>1 DEF FirstPoint
<1> QED
  BY <1>2, EmptySeq DEF Point

--------------------------------------------------------------------------------
\* A non-empty set of indices has a largest one: load's scan finds an entry.
LEMMA MaxIndex ==
  ASSUME NEW n \in Nat, NEW S \in SUBSET (1 .. n), S # {}
  PROVE  Max(S) \in S
<1> DEFINE D == {n - x : x \in S}
<1>1. D # {} /\ D \subseteq Nat
  <2>1. \A x \in S : n - x \in Nat
    OBVIOUS
  <2>2. D # {}
    OBVIOUS
  <2> QED BY <2>1, <2>2
<1>2. PICK d \in D : \A e \in D : ~ (<<e, d>> \in OpToRel(<, Nat))
  BY <1>1, WFMin, NatLessThanWellFounded
<1>3. PICK x \in S : d = n - x
  BY <1>2
<1>4. ASSUME NEW y \in S PROVE x >= y
  <2>1. n - y \in D /\ ~ (n - y < d)
    BY <1>1, <1>2 DEF OpToRel
  <2> QED BY <1>3, <2>1
<1>5. \E z \in S : \A y \in S : z >= y
  BY <1>4
<1> QED
  BY <1>5 DEF Max

\* load returns a value, from the buffer or from memory.
LEMMA ReadValueType ==
  ASSUME NEW buffer \in Seq(BufferedStore), NEW mem \in [Loc -> Val], NEW l \in Loc
  PROVE  ReadValue(buffer, mem, l) \in Val
<1> DEFINE hits == {i \in DOMAIN buffer : buffer[i].loc = l}
<1>1. Len(buffer) \in Nat /\ DOMAIN buffer = 1 .. Len(buffer)
      /\ \A i \in DOMAIN buffer : buffer[i] \in BufferedStore
  OBVIOUS
<1>2. CASE hits = {}
  BY <1>2 DEF ReadValue
<1>3. CASE hits # {}
  <2>1. Max(hits) \in hits
    BY <1>1, <1>3, MaxIndex
  <2>2. buffer[Max(hits)].val \in Val
    BY <1>1, <2>1 DEF BufferedStore
  <2> QED
    BY <1>3, <2>2 DEF ReadValue
<1> QED
  BY <1>2, <1>3

\* dormwaction stays inside the width of the location.
LEMMA RmwResultType ==
  ASSUME NEW t \in Tid, NEW p \in Point, Instr(t, p).op = "RMW", NEW cur \in Val
  PROVE  RmwResult(Instr(t, p), cur) \in Val
<1>1. Instr(t, p).kind \in {"ADD", "CAS", "EXC"} /\ Instr(t, p).val \in Val
  BY InstrType
<1>2. (cur + Instr(t, p).val) % (MaxVal + 1) \in Val
  BY <1>1, ProgramAssumption DEF Val
<1> QED
  BY <1>1, <1>2 DEF RmwResult

\* What the client computes from a value is a direction.
LEMMA DirectionType ==
  ASSUME NEW v
  PROVE  Direction(v) \in {0, 1}
BY DEF Direction

\* A queue that is not empty has an oldest store.
LEMMA QueueType ==
  ASSUME NEW b \in Seq(BufferedStore), b # <<>>
  PROVE  /\ Head(b) \in BufferedStore /\ Tail(b) \in Seq(BufferedStore)
         /\ Head(b).point \in Point /\ Head(b).loc \in Loc /\ Head(b).val \in Val
<1>1. Head(b) \in BufferedStore /\ Tail(b) \in Seq(BufferedStore)
  BY HeadTailProperties
<1> QED
  BY <1>1 DEF BufferedStore

--------------------------------------------------------------------------------
(***************************************************************************)
(* The operations of a thread keep the state of the execution typed.       *)
(***************************************************************************)
\* What Advance, MoveTo and Record leave.
LEMMA StepTypes ==
  ASSUME ExecTypeOK, NEW t \in Tid
  PROVE  /\ execpoint[t] \in Point
         /\ \A p \in Point : MoveTo(t, p) => execpoint' \in [Tid -> Point]
         /\ Advance(t) => execpoint' \in [Tid -> Point]
         /\ \A p \in Point, v \in Val : Record(t, p, v) => trace' \in Seq(Event)
<1>1. execpoint[t] \in Point
  BY DEF ExecTypeOK
<1>2. \A p \in Point : MoveTo(t, p) => execpoint' \in [Tid -> Point]
  BY DEF MoveTo, ExecTypeOK
<1>3. ASSUME NEW p \in Point, NEW v \in Val, Record(t, p, v)
      PROVE  trace' \in Seq(Event)
  <2>1. [tid |-> t, point |-> p, val |-> v] \in Event
    BY DEF Event
  <2> QED
    BY <1>3, <2>1 DEF Record, ExecTypeOK
<1> QED
  BY <1>1, <1>2, <1>3, MovesType DEF Advance

\* Writing the oldest store of a buffer (doStore) leaves memory and buffers typed.
LEMMA DoStoreType ==
  ASSUME ExecTypeOK, NEW t \in Tid, storebuffer[t] # <<>>, doStore(t)
  PROVE  /\ memory' \in [Loc -> Val]
         /\ storebuffer' \in [Tid -> Seq(BufferedStore)]
         /\ trace' \in Seq(Event)
<1>1. storebuffer[t] \in Seq(BufferedStore)
  BY DEF ExecTypeOK
<1>2. memory' \in [Loc -> Val]
  BY <1>1, QueueType DEF doStore, ExecTypeOK
<1>3. storebuffer' \in [Tid -> Seq(BufferedStore)]
  BY <1>1, QueueType DEF doStore, ExecTypeOK
<1>4. trace' \in Seq(Event)
  BY <1>1, QueueType, StepTypes DEF doStore
<1> QED
  BY <1>2, <1>3, <1>4

\* load, store and rmw keep the execution typed.
LEMMA AccessTypes ==
  ASSUME ExecTypeOK, NEW t \in Tid, load(t) \/ store(t) \/ rmw(t)
  PROVE  ExecTypeOK'
<1>1. execpoint[t] \in Point /\ execpoint' \in [Tid -> Point]
  BY StepTypes DEF load, store, rmw
<1>2. CASE load(t)
  <2>1. Current(t).loc \in Loc
    BY <1>1, <1>2, InstrType DEF load, Current
  <2>2. ReadValue(storebuffer[t], memory, Current(t).loc) \in Val
    BY <2>1, ReadValueType DEF ExecTypeOK
  <2>3. trace' \in Seq(Event)
    BY <1>1, <1>2, <2>2, StepTypes DEF load
  <2> QED
    BY <1>1, <1>2, <2>2, <2>3 DEF load, ExecTypeOK
<1>3. CASE store(t)
  <2>1. Current(t).loc \in Loc /\ Current(t).val \in Val
    BY <1>1, <1>3, InstrType DEF store, Current
  <2>2. CASE TSO
    <3>1. [point |-> execpoint[t], loc |-> Current(t).loc, val |-> Current(t).val]
            \in BufferedStore
      BY <1>1, <2>1 DEF BufferedStore
    <3>2. storebuffer' \in [Tid -> Seq(BufferedStore)]
      <4> DEFINE b == Append(storebuffer[t], [point |-> execpoint[t],
                               loc |-> Current(t).loc, val |-> Current(t).val])
      <4>1. b \in Seq(BufferedStore)
        BY <3>1 DEF ExecTypeOK
      <4>2. storebuffer' = [storebuffer EXCEPT ![t] = b]
        BY <1>3, <2>2 DEF store
      <4> QED
        BY <4>1, <4>2 DEF ExecTypeOK
    <3> QED
      BY <1>1, <1>3, <2>2, <3>2 DEF store, ExecTypeOK
  <2>3. CASE ~TSO
    <3>1. memory' \in [Loc -> Val]
      BY <1>3, <2>1, <2>3 DEF store, ExecTypeOK
    <3>2. trace' \in Seq(Event)
      BY <1>1, <1>3, <2>1, <2>3, StepTypes DEF store
    <3> QED
      BY <1>1, <1>3, <2>3, <3>1, <3>2 DEF store, ExecTypeOK
  <2> QED
    BY <2>2, <2>3
<1>4. CASE rmw(t)
  <2>1. Current(t).loc \in Loc /\ Current(t).op = "RMW"
    BY <1>1, <1>4, InstrType DEF rmw, Current
  <2>2. memory[Current(t).loc] \in Val
    BY <2>1 DEF ExecTypeOK
  <2>3. RmwResult(Current(t), memory[Current(t).loc]) \in Val
    BY <1>1, <2>1, <2>2, RmwResultType DEF Current
  <2>4. trace' \in Seq(Event)
    BY <1>1, <1>4, <2>2, StepTypes DEF rmw
  <2> QED
    BY <1>1, <1>4, <2>2, <2>3, <2>4 DEF rmw, ExecTypeOK
<1> QED
  BY <1>2, <1>3, <1>4

\* So do the calls that record, compute, create, join, branch and finish.
LEMMA OtherTypes ==
  ASSUME ExecTypeOK, NEW t \in Tid,
         \/ fence(t) \/ local(t) \/ threadCreate(t) \/ threadJoin(t) \/ merge(t)
         \/ fenceDrain(t) \/ branchDir(t) \/ function(t) \/ threadFinish(t)
  PROVE  ExecTypeOK'
<1>1. execpoint[t] \in Point
  BY StepTypes
<1>2. CASE fence(t) \/ local(t) \/ threadJoin(t)
  BY <1>2, StepTypes DEF fence, local, threadJoin, ExecTypeOK
<1>3. CASE threadCreate(t)
  BY <1>3, StepTypes DEF threadCreate, NewThread, ExecTypeOK
<1>4. CASE merge(t)
  <2>1. AfterMerge(execpoint[t]) \in Point
    BY <1>1, <1>4, InstrType, MovesType DEF merge, Current
  <2> QED
    BY <1>4, <2>1, StepTypes DEF merge, ExecTypeOK
<1>5. CASE fenceDrain(t)
  BY <1>5, DoStoreType DEF fenceDrain, ExecTypeOK
<1>6. CASE branchDir(t)
  <2>1. IntoBranch(execpoint[t], Direction(reg[t])) \in Point
    BY <1>1, DirectionType, MovesType
  <2>2. execpoint' \in [Tid -> Point]
    BY <1>6, <2>1, StepTypes DEF branchDir
  <2>3. BranchTaken(t) \in TakenBranch
    BY <1>1, DirectionType DEF BranchTaken, TakenBranch
  <2> QED
    BY <1>6, <2>2, <2>3 DEF branchDir, ExecTypeOK
<1>7. CASE threadFinish(t)
  BY <1>7 DEF threadFinish, ExecTypeOK
<1>8. CASE function(t)
  <2>1. reg[t] \in Val /\ Current(t).goals \in Nat /\ Current(t).result[reg[t]] \in Val
    BY <1>1, <1>8, InstrType DEF function, Current, ExecTypeOK
  <2>2. GoalOf(t) \in CGoal
    BY <2>1 DEF GoalOf, CGoal
  <2> QED
    BY <1>8, <2>1, <2>2, StepTypes DEF function, ExecTypeOK
<1> QED
  BY <1>2, <1>3, <1>4, <1>5, <1>6, <1>7, <1>8

--------------------------------------------------------------------------------
(***************************************************************************)
(* The scheduler.  The threads that exist are a prefix of all, so a slot   *)
(* of the search is a thread that exists.                                  *)
(***************************************************************************)
Prefix == \E n \in 1 .. NumThreads : Created = 0 .. n - 1

\* ExecPointList has an entry for each identifier below its length.
LEMMA PrefixFacts ==
  ASSUME Prefix
  PROVE  /\ NumCreated \in 1 .. NumThreads
         /\ Created = 0 .. NumCreated - 1
         /\ \A x \in Nat : x % NumCreated \in Created /\ x % NumCreated \in Tid
<1>1. PICK n \in 1 .. NumThreads : Created = 0 .. n - 1
  BY DEF Prefix
<1>2. n \in Nat \ {0}
  BY <1>1, ProgramAssumption
<1>3. Cardinality(0 .. n - 1) = n
  <2>1. n - 1 \in Int /\ ~(0 > n - 1) /\ n - 1 - 0 + 1 = n
    BY <1>2
  <2> QED
    BY <2>1, FS_Interval
<1>4. NumCreated = n
  BY <1>1, <1>3 DEF NumCreated
<1>5. \A x \in Nat : x % n \in 0 .. n - 1
  BY <1>2
<1>6. 0 .. n - 1 \subseteq Tid
  BY <1>1, ProgramAssumption DEF Tid
<1> QED
  BY <1>1, <1>4, <1>5, <1>6

\* check_preempt only asks threads that exist.
LEMMA SlotTidType ==
  ASSUME Prefix, NEW t \in Tid, NEW s \in Slots
  PROVE  SlotTid(t, s) \in Created /\ SlotTid(t, s) \in Tid
<1>1. s \in Nat
  BY PrefixFacts, ProgramAssumption DEF Slots
<1>2. t + s \div 2 \in Nat
  BY <1>1, ProgramAssumption DEF Tid
<1> QED
  BY <1>2, PrefixFacts DEF SlotTid

\* The loop over the rows leaves an index.
LEMMA SkippedType ==
  ASSUME NEW rows \in Seq(Row), NEW index \in Nat, NEW point
  PROVE  Skipped(rows, index, point) \in Nat
<1> DEFINE S == {j \in index .. Len(rows) : \A i \in index .. j : Passable(rows[i], point)}
<1>1. IsFiniteSet(index .. Len(rows))
  BY FS_Interval
<1>2. IsFiniteSet(S)
  BY <1>1, FS_Subset
<1>3. Cardinality(S) \in Nat
  BY <1>2, FS_CardinalityType
<1> QED
  BY <1>3 DEF Skipped, NextIndex

\* After check_preempt the indices are indices.
LEMMA ScanToType ==
  ASSUME SchedTypeOK, NEW t \in Tid, NEW s, ScanTo(t, s)
  PROVE  waitsetindex' \in [Tid -> Nat] /\ storesetindex' \in [Tid -> Nat]
<1>1. \A k \in Tid : waitsetindex[k] \in Nat /\ storesetindex[k] \in Nat
                     /\ waitset[k] \in Seq(Row) /\ storeset[k] \in Seq(Row)
  BY DEF SchedTypeOK
<1>2. \A k \in Tid :
        /\ Skipped(waitset[k], waitsetindex[k], execpoint[k]) \in Nat
        /\ Skipped(storeset[k], storesetindex[k], Head(storebuffer[k]).point) \in Nat
  BY <1>1, SkippedType
<1> QED
  BY <1>1, <1>2 DEF ScanTo

--------------------------------------------------------------------------------
(***************************************************************************)
(* The inductive invariant.  In an SC build nothing is ever buffered.      *)
(***************************************************************************)
IInv ==
  /\ TypeOK
  /\ CurrentRuns
  /\ Prefix
  /\ phase \in {"start", "build"} => status[0] = "running"
  /\ ~TSO => \A t \in Tid : storebuffer[t] = <<>>

\* The first execution and every later turn start in the invariant.
LEMMA InitIInv == Init => IInv
<1> SUFFICES ASSUME Init PROVE IInv
  OBVIOUS
<1>1. 0 \in Tid /\ 0 \in Val /\ 1 \in 1 .. NumThreads /\ Tid \subseteq Nat
  BY ProgramAssumption DEF Tid, Val
<1>2. ExecTypeOK
  <2>1. known \subseteq TakenBranch \cup CGoal
    BY ExploredAssumption DEF Init
  <2> QED
    BY <1>1, <2>1, FirstPointType DEF Init, ExecInit, ExecTypeOK
<1>3. SchedTypeOK
  <2>1. waitset \in [Tid -> Seq(Row)] /\ storeset \in [Tid -> Seq(Row)]
    <3>1. <<>> \in Seq(Row)
      OBVIOUS
    <3> QED BY <3>1 DEF Init, SchedInit, SchedReset
  <2>2. waitsetindex \in [Tid -> Nat] /\ storesetindex \in [Tid -> Nat]
    BY DEF Init, SchedInit, SchedReset
  <2>3. pc \in [Tid -> {"run", "search", "resume"}]
    BY DEF Init, SchedInit, SchedReset
  <2> QED
    BY <2>1, <2>2, <2>3 DEF Init, SchedInit, SchedReset, SchedTypeOK
<1>4. BuilderTypeOK
  <2>1. encoded \subseteq TakenBranch \cup CGoal
    BY ExploredAssumption DEF Init
  <2> QED
    BY <1>1, <2>1, FirstPointType DEF Init, BuilderInit, BuilderTypeOK, AllNil
<1>5. Created = 0 .. 1 - 1
  BY <1>1 DEF Init, ExecInit, Created
<1> QED
  BY <1>1, <1>2, <1>3, <1>4, <1>5 DEF IInv, TypeOK, CurrentRuns, Prefix, Init, ExecInit

\* Thread creation hands out the next identifier; no other operation changes
\* which threads exist, and a thread only finishes itself.
LEMMA ExecuteCreated ==
  ASSUME ExecTypeOK, SchedTypeOK, Prefix, NEW t \in Tid, status[t] = "running", Execute(t)
  PROVE  /\ Prefix'
         /\ \/ status'[t] = "running"
            \/ status'[t] = "complete" /\ pc'[t] = "search"
<1>1. execpoint[t] \in Point /\ status \in [Tid -> {"unborn", "running", "complete"}]
  BY StepTypes DEF ExecTypeOK
<1>2. CASE threadCreate(t)
  <2>1. PICK n \in 1 .. NumThreads : Created = 0 .. n - 1
    BY DEF Prefix
  <2> DEFINE c == Current(t).tid
  <2>2. c \in Tid /\ Created = 0 .. c - 1
    BY <1>1, <1>2, InstrType DEF threadCreate, NewThread, Current
  <2>3. Created' = Created \cup {c}
    BY <1>1, <1>2, <2>2 DEF threadCreate, NewThread, Created
  <2>4. c \in 0 .. NumThreads - 1
    BY <2>2 DEF Tid
  <2>5. c + 1 \in 1 .. NumThreads /\ Created' = 0 .. (c + 1) - 1
    <3> HIDE DEF c
    <3> QED BY <2>2, <2>3, <2>4, ProgramAssumption
  <2>6. Prefix'
    BY <2>5 DEF Prefix
  <2>7. status'[t] = "running"
    BY <1>1, <1>2 DEF threadCreate, NewThread
  <2> QED
    BY <2>6, <2>7
<1>3. CASE Finish(t)
  <2>1. status' = [status EXCEPT ![t] = "complete"] /\ pc' = [pc EXCEPT ![t] = "search"]
    BY <1>3 DEF Finish, threadFinish
  <2>2. Created' = Created
    BY <1>1, <2>1 DEF Created
  <2>3. status'[t] = "complete" /\ pc'[t] = "search"
    BY <1>1, <2>1 DEF SchedTypeOK
  <2> QED
    BY <2>2, <2>3 DEF Prefix
<1>4. CASE status' = status
  <2>1. Created' = Created
    BY <1>4 DEF Created
  <2> QED
    BY <1>4, <2>1 DEF Prefix
<1> QED
  BY <1>2, <1>3, <1>4 DEF Execute, Operation, DrainAtFence, TakeBranch, CallFunction, load,
     store, rmw, fence, fenceDrain, local, threadJoin, merge, branchDir, function

\* An operation keeps the state typed, and leaves an SC build's queues empty.
LEMMA ExecuteTypes ==
  ASSUME TypeOK, NEW t \in Tid, Execute(t), UNCHANGED <<builderVars, solved>>
  PROVE  TypeOK' /\ (~TSO /\ (\A k \in Tid : storebuffer[k] = <<>>)
                       => \A k \in Tid : storebuffer'[k] = <<>>)
<1>1. ExecTypeOK /\ SchedTypeOK /\ BuilderTypeOK
  BY DEF TypeOK
<1>2. ExecTypeOK'
  BY <1>1, AccessTypes, OtherTypes
     DEF Execute, Operation, DrainAtFence, TakeBranch, CallFunction, Finish
<1>3. pc' \in [Tid -> {"run", "search", "resume"}] /\ newbehavior' \in BOOLEAN
  BY <1>1 DEF Execute, Operation, DrainAtFence, TakeBranch, CallFunction, Finish, SchedTypeOK
<1>4. SchedTypeOK'
  BY <1>1, <1>3 DEF Execute, SchedTypeOK
<1>5. BuilderTypeOK'
  BY <1>1 DEF BuilderTypeOK, builderVars
<1>6. phase' = phase /\ solved' = solved
  BY DEF Execute
<1>7. TypeOK'
  BY <1>2, <1>4, <1>5, <1>6 DEF TypeOK
<1>8. ASSUME ~TSO, \A k \in Tid : storebuffer[k] = <<>>
      PROVE  storebuffer' = storebuffer
  BY <1>8 DEF Execute, Operation, DrainAtFence, TakeBranch, CallFunction, Finish, load, store,
     rmw, fence, fenceDrain, local, threadCreate, NewThread, threadJoin, merge, branchDir,
     function, threadFinish
<1> QED
  BY <1>7, <1>8

\* A library call of the running thread keeps the invariant: the thread runs on,
\* or has just finished and searches.
LEMMA ExecuteIInv ==
  ASSUME IInv, phase = "run", Execute(current), UNCHANGED <<builderVars, solved>>
  PROVE  IInv'
<1>1. current \in Tid /\ ExecTypeOK /\ SchedTypeOK /\ Prefix
  BY DEF IInv, CurrentRuns, TypeOK
<1>2. pc[current] # "search"
  BY DEF Execute, Operation, DrainAtFence, TakeBranch, CallFunction, Finish, InCheckPreempt
<1>3. status[current] = "running"
  BY <1>2 DEF IInv, CurrentRuns
<1>4. TypeOK' /\ (~TSO => \A k \in Tid : storebuffer'[k] = <<>>)
  BY <1>1, ExecuteTypes DEF IInv
<1>5. Prefix' /\ CurrentRuns'
  <2>1. current' = current
    BY DEF Execute
  <2> QED
    BY <1>1, <1>3, <2>1, ExecuteCreated DEF CurrentRuns
<1>6. phase' = "run"
  BY DEF Execute
<1> QED
  BY <1>4, <1>5, <1>6 DEF IInv

\* Flushing a buffer changes nothing but the memory, the queue and the indices.
LEMMA FlushIInv ==
  ASSUME IInv, phase = "run", check_preempt_flush(current), UNCHANGED <<builderVars, solved>>,
         phase' = IF current' = NoThread THEN "done" ELSE "run"
  PROVE  IInv'
<1>1. /\ current \in Tid /\ current' = current /\ current # NoThread
      /\ ExecTypeOK /\ SchedTypeOK /\ BuilderTypeOK /\ Prefix /\ solved \in BOOLEAN
  BY ProgramAssumption
     DEF IInv, CurrentRuns, TypeOK, Tid, NoThread, check_preempt_flush
<1>2. phase' = "run"
  BY <1>1
<1>3. PICK s \in Slots : /\ FirstEligible(current, s) /\ IsBuffer(s)
                         /\ doStore(SlotTid(current, s)) /\ ScanTo(current, s)
  BY DEF check_preempt_flush
<1>4. SlotTid(current, s) \in Tid /\ storebuffer[SlotTid(current, s)] # <<>>
  BY <1>1, <1>3, SlotTidType DEF FirstEligible, Eligible, Asked
<1>5. ExecTypeOK'
  BY <1>1, <1>3, <1>4, DoStoreType DEF check_preempt_flush, ExecTypeOK
<1>6. SchedTypeOK'
  <2>1. waitsetindex' \in [Tid -> Nat] /\ storesetindex' \in [Tid -> Nat]
    BY <1>1, <1>3, ScanToType
  <2>2. pc' \in [Tid -> {"run", "search", "resume"}]
    BY <1>1 DEF check_preempt_flush, SchedTypeOK
  <2> QED
    BY <1>1, <2>1, <2>2 DEF check_preempt_flush, SchedTypeOK
<1>7. BuilderTypeOK' /\ solved' = solved
  BY <1>1 DEF BuilderTypeOK, builderVars
<1>8. status' = status /\ pc'[current] = "search"
  BY <1>1 DEF check_preempt_flush, SchedTypeOK
<1>9. CurrentRuns'
  BY <1>1, <1>8 DEF IInv, CurrentRuns
<1>10. Prefix'
  BY <1>1, <1>8 DEF Prefix, Created
<1>11. TypeOK'
  BY <1>1, <1>2, <1>5, <1>6, <1>7 DEF TypeOK
<1>12. TSO
  BY <1>4 DEF IInv
<1> QED
  BY <1>2, <1>9, <1>10, <1>11, <1>12 DEF IInv

\* What a switch leaves alone, and the thread it may go to.
LEMMA SwitchIInv ==
  ASSUME IInv, phase = "run", NEW k \in Tid \cup {NoThread},
         k # NoThread => status[k] = "running",
         SwitchTo(current, k), NEW s, ScanTo(current, s),
         UNCHANGED <<execVars, waitset, storeset, newbehavior, builderVars, solved>>,
         phase' = IF current' = NoThread THEN "done" ELSE "run"
  PROVE  IInv'
<1>1. /\ current \in Tid /\ ExecTypeOK /\ SchedTypeOK /\ BuilderTypeOK
      /\ Prefix /\ solved \in BOOLEAN
  BY DEF IInv, CurrentRuns, TypeOK
<1>2. current' = k /\ status' = status /\ storebuffer' = storebuffer
  BY DEF SwitchTo, execVars
<1>3. ExecTypeOK'
  BY <1>1 DEF ExecTypeOK, execVars
<1>4. SchedTypeOK'
  <2>1. waitsetindex' \in [Tid -> Nat] /\ storesetindex' \in [Tid -> Nat]
    BY <1>1, ScanToType
  <2>2. pc' \in [Tid -> {"run", "search", "resume"}]
    BY <1>1 DEF SwitchTo, SchedTypeOK
  <2> QED
    BY <1>1, <1>2, <2>1, <2>2 DEF SchedTypeOK
<1>5. BuilderTypeOK' /\ solved' = solved
  BY <1>1 DEF BuilderTypeOK, builderVars
<1>6. TypeOK' /\ phase' \in {"run", "done"}
  BY <1>1, <1>3, <1>4, <1>5 DEF TypeOK
<1>7. CurrentRuns'
  BY <1>2 DEF CurrentRuns
<1>8. Prefix'
  BY <1>1, <1>2 DEF Prefix, Created
<1> QED
  BY <1>2, <1>6, <1>7, <1>8 DEF IInv

\* check_preempt never hands the processor to a thread that does not exist or has
\* finished, whichever way the search ends.
LEMMA PreemptIInv ==
  ASSUME IInv, phase = "run", Preempt(current), UNCHANGED <<builderVars, solved>>
  PROVE  IInv'
<1>1. /\ current \in Tid /\ Prefix
      /\ status \in [Tid -> {"unborn", "running", "complete"}]
  BY DEF IInv, CurrentRuns, TypeOK, ExecTypeOK
<1> DEFINE Left == phase' = IF current' = NoThread THEN "done" ELSE "run"
<1>2. CASE check_preempt_flush(current) /\ Left
  BY <1>2, FlushIInv
<1>3. CASE check_preempt_switch(current) /\ Left
  <2>1. PICK s \in Slots : /\ FirstEligible(current, s) /\ ~IsBuffer(s)
                           /\ SwitchTo(current, SlotTid(current, s)) /\ ScanTo(current, s)
    BY <1>3 DEF check_preempt_switch
  <2>2. SlotTid(current, s) \in Tid /\ status[SlotTid(current, s)] = "running"
    BY <1>1, <2>1, SlotTidType DEF FirstEligible, Eligible, Asked
  <2>3. UNCHANGED <<execVars, waitset, storeset, newbehavior>>
    BY <1>3 DEF check_preempt_switch
  <2> QED
    BY <1>3, <2>1, <2>2, <2>3, SwitchIInv
<1>4. CASE check_preempt_none(current) /\ Left
  <2> DEFINE j == IF TSO THEN current ELSE (current + 1) % NumCreated
             k == IF status[j] = "complete" THEN NoThread ELSE j
  <2>1. j \in Created /\ j \in Tid
    <3>1. CASE TSO
      BY <1>1, <3>1 DEF IInv, CurrentRuns, Created
    <3>2. CASE ~TSO
      <4>1. current + 1 \in Nat
        BY <1>1, ProgramAssumption DEF Tid
      <4> QED
        BY <1>1, <3>2, <4>1, PrefixFacts
    <3> QED BY <3>1, <3>2
  <2>2. k \in Tid \cup {NoThread} /\ (k # NoThread => status[k] = "running")
    BY <1>1, <2>1 DEF Created
  <2>3. /\ SwitchTo(current, k) /\ ScanTo(current, 2 * NumCreated)
        /\ UNCHANGED <<execVars, waitset, storeset, newbehavior>>
    BY <1>4 DEF check_preempt_none
  <2> HIDE DEF k
  <2> QED
    BY <1>4, <2>2, <2>3, SwitchIInv
<1>5. CASE check_preempt_strays(current) /\ phase' = "undefined"
  BY <1>1, <1>5 DEF check_preempt_strays, IInv, TypeOK, ExecTypeOK, SchedTypeOK, BuilderTypeOK,
     CurrentRuns, Prefix, Created, execVars, builderVars
<1> QED
  BY <1>2, <1>3, <1>4, <1>5 DEF Preempt

--------------------------------------------------------------------------------
(***************************************************************************)
(* The builder leaves the execution alone; what it builds is typed.        *)
(***************************************************************************)
\* The row of a fence or RMW names the thread's last store.
LEMMA DrainRowType ==
  ASSUME BuilderTypeOK, NEW i \in Tid, frontier[i] \in Point, stores[i] # <<>>
  PROVE  DrainRow(i) \in Row
<1>1. AllNil \in [Tid -> Point \cup {Nil}]
  BY DEF AllNil
<1>2. stores[i] \in Seq(BufferedStore) /\ Len(stores[i]) \in Nat /\ Len(stores[i]) # 0
  BY EmptySeq DEF BuilderTypeOK
<1>3. stores[i][Len(stores[i])] \in BufferedStore
  BY <1>2
<1>4. stores[i][Len(stores[i])].point \in Point
  BY <1>3 DEF BufferedStore
<1>5. [AllNil EXCEPT ![i] = stores[i][Len(stores[i])].point] \in [Tid -> Point \cup {Nil}]
  BY <1>1, <1>4
<1> QED
  BY <1>1, <1>5 DEF DrainRow, Row

\* The walking loop of buildSchedule keeps the builder typed.
LEMMA WalkTypes ==
  ASSUME BuilderTypeOK, waitset \in [Tid -> Seq(Row)], Walk
  PROVE  BuilderTypeOK' /\ waitset' \in [Tid -> Seq(Row)]
<1>1. PICK i \in Tid : \/ /\ \/ WalkPast(i) \/ WalkCreate(i) \/ WalkBranch(i) \/ WalkMerge(i)
                             \/ WalkEnd(i) \/ WalkStore(i) \/ WalkFence(i)
                          /\ UNCHANGED solreg
                       \/ WalkFunction(i)
  BY DEF Walk
<1>2. frontier[i] \in Point
  BY <1>1 DEF BuilderTypeOK, WalkPast, WalkCreate, WalkBranch, WalkMerge, WalkEnd, WalkStore,
     WalkFence, WalkFunction, Walking, CanWalk
<1>3. \A p \in Point \cup {Nil} : GoTo(i, p) => frontier' \in [Tid -> Point \cup {Nil}]
  BY DEF GoTo, BuilderTypeOK
<1>4. /\ BuilderTypeOK
      /\ UNCHANGED <<encoded, lastoperation, storelastoperation, order, solmemory>>
      /\ solreg' \in [Tid -> Val]
  <2>1. CASE WalkFunction(i)
    BY <2>1 DEF Walk, WalkFunction, BuilderTypeOK
  <2>2. CASE UNCHANGED solreg
    BY <2>2 DEF Walk, BuilderTypeOK
  <2> QED
    BY <1>1, <2>1, <2>2
<1>5. frontier' \in [Tid -> Point \cup {Nil}]
  <2>1. CASE WalkPast(i) \/ WalkStore(i) \/ WalkFence(i) \/ WalkFunction(i)
    BY <1>2, <1>3, <2>1, MovesType DEF WalkPast, WalkStore, WalkFence, WalkFunction
  <2>2. CASE WalkCreate(i)
    <3>1. IncrementTop(frontier[i]) \in Point
      BY <1>2, MovesType
    <3> QED
      BY <1>4, <2>2, <3>1, FirstPointType DEF WalkCreate, BuilderTypeOK
  <2>3. CASE WalkBranch(i)
    <3>1. /\ IntoBranch(frontier[i], Direction(solreg[i])) \in Point
          /\ PastBranch(frontier[i]) \in Point
      BY <1>2, DirectionType, MovesType
    <3> QED
      BY <1>3, <2>3, <3>1 DEF WalkBranch
  <2>4. CASE WalkMerge(i)
    <3>1. AfterMerge(frontier[i]) \in Point
      BY <1>2, <2>4, InstrType, MovesType DEF WalkMerge, Frontier
    <3> QED
      BY <1>3, <2>4, <3>1 DEF WalkMerge
  <2>5. CASE WalkEnd(i)
    BY <1>3, <2>5 DEF WalkEnd
  <2> QED
    BY <1>1, <2>1, <2>2, <2>3, <2>4, <2>5
<1>6. stores' \in [Tid -> Seq(BufferedStore)]
  <2>1. CASE WalkStore(i)
    <3> DEFINE b == [point |-> frontier[i], loc |-> Frontier(i).loc, val |-> Frontier(i).val]
    <3>1. Frontier(i).loc \in Loc /\ Frontier(i).val \in Val
      BY <1>2, <2>1, InstrType DEF WalkStore, Frontier
    <3>2. b \in BufferedStore
      BY <1>2, <3>1 DEF BufferedStore
    <3>3. Append(stores[i], b) \in Seq(BufferedStore)
      BY <1>4, <3>2 DEF BuilderTypeOK
    <3>4. stores' = [stores EXCEPT ![i] = Append(stores[i], b)]
      BY <2>1 DEF WalkStore
    <3> HIDE DEF b
    <3> QED
      BY <1>4, <3>3, <3>4 DEF BuilderTypeOK
  <2>2. CASE ~WalkStore(i)
    BY <1>1, <1>4, <2>2 DEF BuilderTypeOK, WalkPast, WalkCreate, WalkBranch, WalkMerge,
       WalkEnd, WalkFence, WalkFunction
  <2> QED BY <2>1, <2>2
<1>7. barrier' \in [Tid -> Nat]
  <2>1. Len(stores[i]) \in Nat
    BY <1>4 DEF BuilderTypeOK
  <2> QED
    BY <1>1, <1>4, <2>1 DEF BuilderTypeOK, WalkPast, WalkCreate, WalkBranch, WalkMerge,
       WalkEnd, WalkStore, WalkFence, WalkFunction
<1>8. waitset' \in [Tid -> Seq(Row)]
  <2>1. CASE WalkFence(i) /\ stores[i] # <<>>
    <3>1. DrainRow(i) \in Row
      BY <1>2, <1>4, <2>1, DrainRowType
    <3>2. Append(waitset[i], DrainRow(i)) \in Seq(Row)
      BY <3>1
    <3>3. waitset' = [waitset EXCEPT ![i] = Append(waitset[i], DrainRow(i))]
      BY <2>1 DEF WalkFence
    <3> QED
      BY <3>2, <3>3
  <2>2. CASE ~(WalkFence(i) /\ stores[i] # <<>>)
    BY <1>1, <2>2 DEF WalkPast, WalkCreate, WalkBranch, WalkMerge, WalkEnd, WalkStore, WalkFence,
       WalkFunction
  <2> QED BY <2>1, <2>2
<1> QED
  BY <1>4, <1>5, <1>6, <1>7, <1>8 DEF BuilderTypeOK

\* addWaitPair adds rows of points.
LEMMA OrderRowTypes ==
  ASSUME BuilderTypeOK, waitset \in [Tid -> Seq(Row)], storeset \in [Tid -> Seq(Row)],
         NEW i \in Tid, NEW stop \in Point, NEW buffered \in BOOLEAN,
         AddOrderRow(i, stop, buffered)
  PROVE  waitset' \in [Tid -> Seq(Row)] /\ storeset' \in [Tid -> Seq(Row)]
<1>1. OrderRow(stop, i) \in Row
  <2>1. /\ lastoperation \in [Tid -> Point \cup {Nil}]
        /\ storelastoperation \in [Tid -> Point \cup {Nil}]
    BY DEF BuilderTypeOK
  <2>2. /\ [lastoperation EXCEPT ![i] = Nil] \in [Tid -> Point \cup {Nil}]
        /\ [storelastoperation EXCEPT ![i] = Nil] \in [Tid -> Point \cup {Nil}]
    BY <2>1
  <2> QED
    BY <2>1, <2>2 DEF OrderRow, Row
<1>2. \A rows \in Seq(Row) : AddRow(rows, OrderRow(stop, i)) \in Seq(Row)
  BY <1>1 DEF AddRow
<1>3. \A k \in Tid : RmwWaits(k) => DrainRow(k) \in Row
  BY DrainRowType DEF RmwWaits, AtMemoryOperation, BuilderTypeOK
<1>4. waitset' \in [Tid -> Seq(Row)]
  <2> DEFINE rows(k) == IF RmwWaits(k) THEN Append(waitset[k], DrainRow(k)) ELSE waitset[k]
  <2>1. \A k \in Tid : rows(k) \in Seq(Row)
    BY <1>3
  <2>2. \A k \in Tid : AddRow(rows(k), OrderRow(stop, i)) \in Seq(Row)
    BY <1>2, <2>1
  <2>3. waitset' = [k \in Tid |-> IF k = i /\ ~buffered THEN AddRow(rows(k), OrderRow(stop, i))
                                                        ELSE rows(k)]
    BY DEF AddOrderRow
  <2> HIDE DEF rows
  <2> QED
    BY <2>1, <2>2, <2>3
<1>5. storeset' \in [Tid -> Seq(Row)]
  <2>1. AddRow(storeset[i], OrderRow(stop, i)) \in Seq(Row)
    BY <1>2
  <2> QED
    BY <2>1 DEF AddOrderRow
<1> QED
  BY <1>4, <1>5

\* What is added to the solution's order is an operation.
LEMMA EventType ==
  ASSUME order \in Seq(Event), NEW i \in Tid, NEW p \in Point, NEW v \in Val,
         order' = Append(order, [tid |-> i, point |-> p, val |-> v])
  PROVE  order' \in Seq(Event)
<1>1. [tid |-> i, point |-> p, val |-> v] \in Event
  BY DEF Event
<1> QED
  BY <1>1

\* Taking the operation a thread has stopped at keeps the builder typed.
LEMMA OrderFrontierTypes ==
  ASSUME BuilderTypeOK, waitset \in [Tid -> Seq(Row)], storeset \in [Tid -> Seq(Row)],
         NEW i \in Tid, OrderFrontier(i), UNCHANGED encoded
  PROVE  BuilderTypeOK' /\ waitset' \in [Tid -> Seq(Row)] /\ storeset' \in [Tid -> Seq(Row)]
<1> DEFINE ins == Frontier(i)
           v == CASE ins.op = "LOAD"  -> ReadValue(stores[i], solmemory, ins.loc)
                  [] ins.op = "RMW"   -> solmemory[ins.loc]
                  [] ins.op = "STORE" -> ins.val
           p == frontier[i]
<1>1. p \in Point /\ ins.op \in {"LOAD", "RMW", "STORE"}
  BY DEF OrderFrontier, AtMemoryOperation, BuilderTypeOK
<1>2. ins.loc \in Loc /\ (ins.op = "STORE" => ins.val \in Val)
  BY <1>1, InstrType DEF Frontier
<1>3. v \in Val
  BY <1>1, <1>2, ReadValueType DEF BuilderTypeOK
<1>4. waitset' \in [Tid -> Seq(Row)] /\ storeset' \in [Tid -> Seq(Row)]
  BY <1>1, OrderRowTypes DEF OrderFrontier
<1>5. order' \in Seq(Event)
  BY <1>1, <1>3, EventType DEF OrderFrontier, BuilderTypeOK
<1>6. solreg' \in [Tid -> Val]
  BY <1>3 DEF OrderFrontier, BuilderTypeOK
<1>7. solmemory' \in [Loc -> Val]
  <2>1. ins.op = "RMW" => RmwResult(ins, v) \in Val
    BY <1>1, <1>3, RmwResultType DEF Frontier
  <2>2. solmemory' = CASE ins.op = "LOAD"  -> solmemory
                       [] ins.op = "RMW"   -> [solmemory EXCEPT ![ins.loc] = RmwResult(ins, v)]
                       [] ins.op = "STORE" -> [solmemory EXCEPT ![ins.loc] = v]
    BY DEF OrderFrontier
  <2> HIDE DEF v, ins
  <2> QED
    BY <1>1, <1>3, <2>1, <2>2 DEF BuilderTypeOK
<1>8. frontier' \in [Tid -> Point \cup {Nil}]
  BY <1>1, MovesType DEF OrderFrontier, GoTo, BuilderTypeOK
<1>9. lastoperation' \in [Tid -> Point \cup {Nil}]
  BY <1>1 DEF OrderFrontier, BuilderTypeOK
<1>10. UNCHANGED <<stores, barrier, storelastoperation>>
  BY DEF OrderFrontier
<1> QED
  BY <1>4, <1>5, <1>6, <1>7, <1>8, <1>9, <1>10 DEF BuilderTypeOK

\* So does taking its oldest store.
LEMMA OrderStoreTypes ==
  ASSUME BuilderTypeOK, waitset \in [Tid -> Seq(Row)], storeset \in [Tid -> Seq(Row)],
         NEW i \in Tid, OrderStore(i), UNCHANGED encoded
  PROVE  BuilderTypeOK' /\ waitset' \in [Tid -> Seq(Row)] /\ storeset' \in [Tid -> Seq(Row)]
<1> DEFINE s == Head(stores[i])
<1>1. /\ s.point \in Point /\ s.loc \in Loc /\ s.val \in Val
      /\ Tail(stores[i]) \in Seq(BufferedStore)
  BY QueueType DEF OrderStore, BuilderTypeOK
<1>2. waitset' \in [Tid -> Seq(Row)] /\ storeset' \in [Tid -> Seq(Row)]
  BY <1>1, OrderRowTypes DEF OrderStore
<1>3. order' \in Seq(Event)
  BY <1>1, EventType DEF OrderStore, BuilderTypeOK
<1>4. stores' \in [Tid -> Seq(BufferedStore)] /\ solmemory' \in [Loc -> Val]
  BY <1>1 DEF OrderStore, BuilderTypeOK
<1>5. barrier' \in [Tid -> Nat]
  <2>1. barrier[i] \in Nat
    BY DEF BuilderTypeOK
  <2>2. (IF barrier[i] = 0 THEN 0 ELSE barrier[i] - 1) \in Nat
    BY <2>1
  <2>3. barrier' = [barrier EXCEPT ![i] = IF barrier[i] = 0 THEN 0 ELSE barrier[i] - 1]
    BY DEF OrderStore
  <2> QED
    BY <2>2, <2>3 DEF BuilderTypeOK
<1>6. storelastoperation' \in [Tid -> Point \cup {Nil}]
  BY <1>1 DEF OrderStore, BuilderTypeOK
<1>7. UNCHANGED <<frontier, lastoperation, solreg>>
  BY DEF OrderStore
<1> QED
  BY <1>2, <1>3, <1>4, <1>5, <1>6, <1>7 DEF BuilderTypeOK

\* buildSchedule keeps the invariant.
LEMMA BuildIInv ==
  ASSUME IInv, Build
  PROVE  IInv'
<1>1. /\ ExecTypeOK /\ SchedTypeOK /\ BuilderTypeOK
      /\ UNCHANGED execVars
      /\ UNCHANGED <<waitsetindex, storesetindex, newbehavior, current, pc, phase, solved>>
      /\ phase = "build" /\ solved \in BOOLEAN
  BY DEF IInv, TypeOK, Build, Walk, TakeEarliest
<1>2. waitset \in [Tid -> Seq(Row)] /\ storeset \in [Tid -> Seq(Row)]
  BY <1>1 DEF SchedTypeOK
<1>3. BuilderTypeOK' /\ waitset' \in [Tid -> Seq(Row)] /\ storeset' \in [Tid -> Seq(Row)]
  <2>1. CASE Walk
    BY <1>1, <1>2, <2>1, WalkTypes DEF Walk
  <2>2. CASE TakeEarliest
    BY <1>1, <1>2, <2>2, OrderFrontierTypes, OrderStoreTypes DEF TakeEarliest
  <2> QED
    BY <2>1, <2>2 DEF Build
<1>4. ExecTypeOK' /\ SchedTypeOK'
  BY <1>1, <1>3 DEF ExecTypeOK, SchedTypeOK, execVars
<1>5. TypeOK'
  BY <1>1, <1>3, <1>4 DEF TypeOK
<1>6. status' = status /\ storebuffer' = storebuffer
  BY <1>1 DEF execVars
<1> QED
  BY <1>1, <1>5, <1>6 DEF IInv, CurrentRuns, Prefix, Created

\* run_execution starts with the thread of the user's main, which exists.
LEMMA StartIInv ==
  ASSUME IInv, Start
  PROVE  IInv'
<1>1. status[0] = "running" /\ 0 \in Tid
  BY ProgramAssumption DEF IInv, Start, Tid
<1>2. /\ ExecTypeOK /\ SchedTypeOK /\ BuilderTypeOK /\ solved \in BOOLEAN
      /\ UNCHANGED <<execVars, builderVars, solved>>
  BY DEF IInv, TypeOK, Start
<1>3. ExecTypeOK' /\ BuilderTypeOK'
  BY <1>2 DEF ExecTypeOK, BuilderTypeOK, execVars, builderVars
<1>4. SchedTypeOK'
  BY <1>1, <1>2 DEF Start, SchedTypeOK
<1>5. status' = status /\ storebuffer' = storebuffer
  BY <1>2 DEF execVars
<1> QED
  BY <1>1, <1>2, <1>3, <1>4, <1>5 DEF IInv, TypeOK, Start, CurrentRuns, Prefix, Created

--------------------------------------------------------------------------------
\* Every step keeps the invariant.
LEMMA StepIInv == IInv /\ [Next]_vars => IInv'
<1> SUFFICES ASSUME IInv, [Next]_vars PROVE IInv'
  OBVIOUS
<1>1. CASE Build
  BY <1>1, BuildIInv
<1>2. CASE Start
  BY <1>2, StartIInv
<1>3. CASE Run
  BY <1>3, ExecuteIInv, PreemptIInv DEF Run
<1>4. CASE UNCHANGED vars
  BY <1>4 DEF vars, execVars, schedVars, builderVars, IInv, TypeOK, ExecTypeOK, SchedTypeOK,
     BuilderTypeOK, CurrentRuns, Prefix, Created
<1> QED
  BY <1>1, <1>2, <1>3, <1>4 DEF Next, Stopped

\* The invariant holds in every state of the loop's turn.
LEMMA Invariance == Spec => []IInv
BY InitIInv, StepIInv, PTL DEF Spec

\* Every state of the loop is typed, for every program: values keep the width of
\* their location and every execution point names an instruction.
THEOREM ReplayTypeCorrect == Spec => []TypeOK
<1>1. IInv => TypeOK
  BY DEF IInv
<1> QED
  BY <1>1, Invariance, PTL

\* check_preempt hands the processor only to threads that exist and run, for every
\* program, every schedule and both memory models.
THEOREM ProcessorGoesToRunning == Spec => []CurrentRuns
<1>1. IInv => CurrentRuns
  BY DEF IInv
<1> QED
  BY <1>1, Invariance, PTL

--------------------------------------------------------------------------------
(***************************************************************************)
(* In an SC build no store is ever delayed: the operation of the running   *)
(* thread is a step of the memory model, and the scheduler and the builder *)
(* change nothing the memory model speaks of.                              *)
(***************************************************************************)
\* run_execution starts where the memory model starts.
LEMMA SCInit == Init => MM!Init
BY DEF Init, ExecInit, MM!Init, MM!FirstPoint, MM!Counter, FirstPoint, Counter, MM!Tid, Tid

\* The memory model moves points as the execution does.
LEMMA SamePoints ==
  /\ \A p : MM!IncrementTop(p) = IncrementTop(p)
  /\ \A p, d : MM!IntoBranch(p, d) = IntoBranch(p, d)
  /\ \A p : MM!AfterMerge(p) = AfterMerge(p)
BY DEF MM!IncrementTop, IncrementTop, MM!IntoBranch, IntoBranch, MM!Push, Push,
   MM!Branch, Branch, MM!Counter, Counter, MM!AfterMerge, AfterMerge, MM!PastBranch,
   PastBranch, MM!Pop, Pop

\* So are the instruction at a point and what it computes.
LEMMA SameInstr ==
  /\ MM!Tid = Tid
  /\ \A t, p : MM!Instr(t, p) = Instr(t, p)
  /\ \A v : MM!Direction(v) = Direction(v)
  /\ \A ins, v : MM!RmwResult(ins, v) = RmwResult(ins, v)
BY DEF MM!Tid, Tid, MM!Instr, Instr, MM!Direction, Direction, MM!RmwResult, RmwResult

\* With empty queues every operation is synchronised and sees the memory.
LEMMA SCSynchronised ==
  ASSUME \A k \in Tid : storebuffer[k] = <<>>, NEW t \in Tid
  PROVE  /\ \A p \in Point : MM!Synchronised(t, p)
         /\ \A l : MM!Sees(t, l) = memory[l]
         /\ \A l : ReadValue(storebuffer[t], memory, l) = memory[l]
<1>1. \A k \in Tid : DOMAIN storebuffer[k] = {}
  OBVIOUS
<1>2. ASSUME NEW q \in DOMAIN Code[t], Code[t][q].op = "JOIN"
      PROVE  Code[t][q].tid \in Tid
  BY <1>2, ProgramAssumption DEF Instruction, MemoryOperation, Function
<1>3. \A p \in Point : MM!Synchronised(t, p)
  BY <1>1, <1>2, SameInstr DEF MM!Synchronised
<1>4. \A l : MM!Sees(t, l) = memory[l] /\ ReadValue(storebuffer[t], memory, l) = memory[l]
  BY <1>1 DEF MM!Sees, ReadValue
<1> QED
  BY <1>3, <1>4

\* Each library call of the running thread is the memory model's step of that kind.
LEMMA SCExecute ==
  ASSUME ~TSO, IInv, NEW t \in Tid, status[t] = "running", Execute(t)
  PROVE  MM!Next
<1>1. /\ execpoint[t] \in Point
      /\ \A k \in Tid : storebuffer[k] = <<>>
      /\ MM!Tid = Tid
      /\ Current(t) = MM!Here(t)
      /\ \A op : MM!At(t, op) <=> Current(t).op = op
      /\ Advance(t) <=> MM!Next1(t)
      /\ \A p : MoveTo(t, p) <=> MM!Goes(t, p)
  BY SameInstr, SamePoints, StepTypes DEF IInv, TypeOK, Current, MM!Here, MM!At, Advance, MM!Next1,
     MoveTo, MM!Goes
<1>2. CASE load(t)
  <2>1. MM!Load(t)
    BY <1>1, <1>2, SCSynchronised DEF load, MM!Load
  <2> QED BY <1>1, <2>1 DEF MM!Next
<1>3. CASE store(t)
  <2>1. MM!Store(t)
    BY <1>1, <1>3, SCSynchronised DEF store, MM!Store
  <2> QED BY <1>1, <2>1 DEF MM!Next
<1>4. CASE rmw(t)
  <2>1. MM!Rmw(t)
    BY <1>1, <1>4, SCSynchronised, SameInstr DEF rmw, MM!Rmw
  <2> QED BY <1>1, <2>1 DEF MM!Next
<1>5. CASE fence(t)
  <2>1. MM!Fence(t)
    BY <1>1, <1>5 DEF fence, MM!Fence
  <2> QED BY <1>1, <2>1 DEF MM!Next
<1>6. CASE local(t) \/ merge(t) \/ branchDir(t) \/ threadJoin(t)
  <2>1. MM!Silent(t)
    BY <1>1, <1>6, SameInstr, SamePoints DEF local, merge, branchDir, threadJoin, MM!Silent
  <2> QED BY <1>1, <2>1 DEF MM!Next
<1>7. CASE threadCreate(t)
  <2>1. status[Current(t).tid] = "unborn"
    <3>1. Current(t).tid \in Tid
      BY <1>1, <1>7, InstrType DEF threadCreate, NewThread, Current
    <3>2. Current(t).tid \notin Created
      BY <1>7, <3>1, ProgramAssumption DEF threadCreate, NewThread, Tid
    <3> QED
      BY <3>1, <3>2 DEF Created
  <2>2. MM!Create(t)
    BY <1>1, <1>7, <2>1 DEF threadCreate, NewThread, MM!Create
  <2> QED BY <1>1, <2>2 DEF MM!Next
<1>8. CASE threadFinish(t)
  <2>1. MM!Return(t)
    BY <1>1, <1>8 DEF threadFinish, MM!Return
  <2> QED BY <1>1, <2>1 DEF MM!Next
<1>9. CASE function(t)
  <2>1. MM!Compute(t)
    BY <1>1, <1>9 DEF function, MM!Compute
  <2> QED BY <1>1, <2>1 DEF MM!Next
<1>10. ~fenceDrain(t)
  BY <1>1 DEF fenceDrain
<1> QED
  BY <1>2, <1>3, <1>4, <1>5, <1>6, <1>7, <1>8, <1>9, <1>10
     DEF Execute, Operation, DrainAtFence, TakeBranch, CallFunction, Finish

\* The scheduler's and the builder's own steps change no variable of the memory model.
LEMMA SCStep ==
  ASSUME ~TSO, IInv, [Next]_vars
  PROVE  [MM!Next]_(MM!mmVars)
<1>1. CASE Build \/ Start \/ UNCHANGED vars
  BY <1>1 DEF Build, Walk, TakeEarliest, Start, vars, execVars, MM!mmVars
<1>2. CASE Run
  <2>1. current \in Tid
    BY <1>2 DEF Run, IInv, CurrentRuns
  <2>2. CASE Execute(current)
    <3>1. status[current] = "running"
      BY <1>2, <2>2 DEF Run, IInv, CurrentRuns, Execute, Operation, DrainAtFence, TakeBranch,
         CallFunction, Finish, InCheckPreempt
    <3> QED
      BY <2>1, <2>2, <3>1, SCExecute
  <2>3. CASE Preempt(current)
    <3>1. ~check_preempt_flush(current)
      BY <2>1, SlotTidType DEF IInv, check_preempt_flush, FirstEligible, Eligible, Asked
    <3> QED
      BY <2>3, <3>1 DEF Preempt, check_preempt_switch, check_preempt_none,
         check_preempt_strays, execVars, MM!mmVars
  <2> QED
    BY <1>2, <2>2, <2>3 DEF Run
<1> QED
  BY <1>1, <1>2 DEF Next, Stopped

\* Every execution of an SC build, under any schedule and without one, is an
\* execution of the memory model: what buildSchedule and check_preempt decide can
\* only choose among the interleavings.
THEOREM SCImplementsMemoryModel ==
  ASSUME ~TSO
  PROVE  Spec => ImplementsMemoryModel
<1>1. Init => MM!Init
  BY SCInit
<1>2. IInv /\ [Next]_vars => [MM!Next]_(MM!mmVars)
  BY SCStep
<1> QED
  BY <1>1, <1>2, Invariance, PTL DEF Spec, ImplementsMemoryModel

--------------------------------------------------------------------------------
(***************************************************************************)
(* Replay of a solution.                                                   *)
(*                                                                         *)
(* The builder forgets the way it has walked.  The argument needs it: a    *)
(* thread of the execution is somewhere on the walk of its thread.  So the *)
(* inductive invariant says that there is a walk that explains what has    *)
(* been built, and memories between the operations of the order.           *)
(***************************************************************************)
\* A place on the walk of a thread: its point, the client's register there, and how many
\* operations had been ordered when its last one was, or when it was created.
Config == [point : BlockPoint, reg : Val, time : Nat]

\* A memory operation: those of the order.
Access(t, p) == Instr(t, p).op \in {"LOAD", "RMW", "STORE"}

\* What an operation that read or wrote v leaves in memory.
MemoryAfter(ins, v, m) ==
  CASE ins.op = "LOAD"  -> m
    [] ins.op = "RMW"   -> [m EXCEPT ![ins.loc] = RmwResult(ins, v)]
    [] ins.op = "STORE" -> [m EXCEPT ![ins.loc] = v]

\* No operation of t is ordered behind the first a and up to the first b.
Quiet(t, a, b) == \A n \in DOMAIN order : a < n /\ n <= b => order[n].tid # t

\* The solution gives a function the output w for v, which is free unless the goal is known.
Outputs(ins, v, w) == [goals |-> ins.goals, input |-> v] \in encoded => w = ins.result[v]

\* The walk of t goes from c to d.  An operation is the next one of t in the order.
WalksTo(t, c, d) ==
  LET ins == Instr(t, c.point) IN
  /\ ins.op # "END"
  /\ d.point = CASE ins.op = "MERGE"  -> AfterMerge(c.point)
                 [] ins.op = "BRANCH" ->
                      IF [tid |-> t, point |-> c.point, dir |-> Direction(c.reg)] \in encoded
                      THEN IntoBranch(c.point, Direction(c.reg)) ELSE PastBranch(c.point)
                 [] OTHER             -> IncrementTop(c.point)
  /\ IF Access(t, c.point)
     THEN /\ c.time < d.time /\ d.time \in DOMAIN order /\ Quiet(t, c.time, d.time - 1)
          /\ order[d.time].tid = t /\ order[d.time].point = c.point
          /\ d.reg = IF ins.op = "STORE" THEN c.reg ELSE order[d.time].val
     ELSE /\ d.time = c.time
          /\ IF ins.op = "FUNCTION" THEN Outputs(ins, c.reg, d.reg) ELSE d.reg = c.reg

--------------------------------------------------------------------------------
\* The walks of all threads, as sequences of places.
Ways(walk) ==
  /\ walk \in [Tid -> Seq(Config)]
  /\ walk[0] # <<>> /\ walk[0][1].time = 0
  /\ \A t \in Tid : walk[t] # <<>> => walk[t][1].point = FirstPoint /\ walk[t][1].reg = 0
  /\ \A t \in Tid : \A b, c \in DOMAIN walk[t] :
       b < c => /\ Compare(walk[t][b].point, walk[t][c].point) = "AFTER"
                /\ walk[t][b].time <= walk[t][c].time
  /\ \A t \in Tid : \A b \in DOMAIN walk[t] :
       b + 1 \in DOMAIN walk[t] => WalksTo(t, walk[t][b], walk[t][b + 1])

\* Each operation of the order is on the walk of its thread.
Listed(walk) ==
  \A n \in DOMAIN order :
    \E b \in DOMAIN walk[order[n].tid] :
      /\ b + 1 \in DOMAIN walk[order[n].tid]
      /\ walk[order[n].tid][b + 1].time = n
      /\ walk[order[n].tid][b].point = order[n].point
      /\ Access(order[n].tid, order[n].point)

\* The last place of a walk.
LastPlace(walk, t) == walk[t][Len(walk[t])]

\* Where the builder is: at the end of a walk.
FrontOf(walk, t) ==
  IF walk[t] = <<>>
  THEN frontier[t] = Nil /\ solreg[t] = 0
  ELSE LET c == LastPlace(walk, t) IN
       /\ c.time <= Len(order) /\ Quiet(t, c.time, Len(order))
       /\ IF frontier[t] = Nil THEN Instr(t, c.point).op = "END"
                               ELSE frontier[t] = c.point /\ solreg[t] = c.reg

\* Where the builder is, for every thread.
AtFront(walk) == \A t \in Tid : FrontOf(walk, t)

\* A thread is walked once its creation has been walked past.
Creations(walk) ==
  /\ \A t \in Tid \ {0} :
       walk[t] # <<>> =>
         \E u \in Tid : \E b \in DOMAIN walk[u] :
           /\ u < t /\ b + 1 \in DOMAIN walk[u]
           /\ Instr(u, walk[u][b].point) = [op |-> "CREATE", tid |-> t]
           /\ walk[u][b].time = walk[t][1].time
  /\ \A u \in Tid : \A b \in DOMAIN walk[u] :
       b + 1 \in DOMAIN walk[u] /\ Instr(u, walk[u][b].point).op = "CREATE"
         => walk[Instr(u, walk[u][b].point).tid] # <<>>

\* The solution's memory after each operation of the order.
Memories(mem) ==
  /\ mem \in [0 .. Len(order) -> [Loc -> Val]]
  /\ mem[0] = [l \in Loc |-> 0] /\ mem[Len(order)] = solmemory
  /\ \A n \in DOMAIN order :
       LET ins == Instr(order[n].tid, order[n].point) IN
       /\ order[n].val = IF ins.op = "STORE" THEN ins.val ELSE mem[n - 1][ins.loc]
       /\ mem[n] = MemoryAfter(ins, order[n].val, mem[n - 1])

\* w is the last operation of k among the first n.
LastAt(k, w, n) ==
  \/ w = Nil /\ Quiet(k, 0, n)
  \/ \E m \in DOMAIN order : m <= n /\ order[m].tid = k /\ order[m].point = w /\ Quiet(k, m, n)

\* A row of t asks for the last operation each other thread has before the stop.
RowOf(row, t, n) ==
  /\ order[n].tid = t /\ order[n].point = row.stop
  /\ row.st = AllNil
  /\ \A k \in Tid : IF k = t THEN row.op[k] = Nil ELSE LastAt(k, row.op[k], n - 1)

\* The wait pairs: every row is that of an operation, an operation behind one of another thread
\* has a row, and the rows are in the order of their stops.
Rows ==
  /\ \A t \in Tid : \A j \in DOMAIN waitset[t] : \E n \in DOMAIN order : RowOf(waitset[t][j], t, n)
  /\ \A m, n \in DOMAIN order :
       m < n /\ order[m].tid # order[n].tid =>
         \E j \in DOMAIN waitset[order[n].tid] : waitset[order[n].tid][j].stop = order[n].point
  /\ \A t \in Tid : \A i, j \in DOMAIN waitset[t] :
       i < j => Compare(waitset[t][i].stop, waitset[t][j].stop) = "AFTER"
  /\ \A t \in Tid : LastAt(t, lastoperation[t], Len(order))
  /\ storelastoperation = AllNil
  /\ \A t \in Tid : stores[t] = <<>>

\* What buildSchedule has made, explained by a walk.
Explained(walk, mem) ==
  Ways(walk) /\ Listed(walk) /\ AtFront(walk) /\ Creations(walk) /\ Memories(mem) /\ Rows

--------------------------------------------------------------------------------
\* Where a thread of a scheduled execution is on its walk.
Place(walk, pos, t) == walk[t][pos[t]]

\* t is at its place: it has performed what leads there and created what is created on the way.
OnWay(walk, pos, t) ==
  LET c == Place(walk, pos, t) IN
  /\ pos[t] \in DOMAIN walk[t]
  /\ execpoint[t] = c.point /\ reg[t] = c.reg
  /\ c.time <= Len(trace) /\ Quiet(t, c.time, Len(trace))
  /\ status[t] = "complete" => Instr(t, c.point).op = "END"
  /\ \A b \in DOMAIN walk[t] :
       b < pos[t] /\ Instr(t, walk[t][b].point).op = "CREATE"
         => status[Instr(t, walk[t][b].point).tid] # "unborn"

\* Threads that have been created are on their walks, the others are at their first point.
OnWays(walk, pos) ==
  \A t \in Tid :
    IF status[t] = "unborn"
    THEN execpoint[t] = FirstPoint /\ reg[t] = 0 /\ Quiet(t, 0, Len(trace))
    ELSE OnWay(walk, pos, t)

\* The rows before a thread's index are those of operations that are over, or of the next one
\* of all; those behind it are ahead.
Indices ==
  \A t \in Tid : \A j \in DOMAIN waitset[t], n \in DOMAIN order :
    order[n].tid = t /\ order[n].point = waitset[t][j].stop =>
      IF j < waitsetindex[t] THEN n <= Len(trace) + 1 ELSE n > Len(trace)

\* A thread that returns from check_preempt to an operation has the next one of the order,
\* and its row is behind its index.
Turn ==
  pc[current] = "resume" /\ Access(current, execpoint[current]) =>
    /\ Len(trace) + 1 \in DOMAIN order /\ order[Len(trace) + 1].tid = current
    /\ \A j \in DOMAIN waitset[current] :
         j >= waitsetindex[current] => waitset[current][j].stop # execpoint[current]

\* The execution follows the order.
Follows(walk, mem, pos) ==
  /\ ~newbehavior
  /\ Len(trace) <= Len(order) /\ \A n \in DOMAIN trace : trace[n] = order[n]
  /\ memory = mem[Len(trace)]
  /\ OnWays(walk, pos)
  /\ Indices
  /\ \A t \in Tid : frontier[t] = Nil
  /\ phase = "run" => Turn
  /\ phase = "done" => trace = order

\* What holds of every execution.
Threads == \A t \in Tid : waitsetindex[t] >= 1 /\ execpoint[t] \in BlockPoint

\* The state a turn of the loop leaves to buildSchedule.
Unstarted ==
  /\ ExecInit /\ ~newbehavior
  /\ pc = [t \in Tid |-> "run"] /\ waitsetindex = [t \in Tid |-> 1]

\* What is said of every turn, scheduled or not.
Basis ==
  /\ IInv
  /\ encoded \subseteq known /\ Threads
  /\ phase \in {"start", "build"} => Unstarted
  /\ phase = "start" => ~solved
  /\ RunsToCompletion

\* The inductive invariant: there are walks and memories that explain what has been built, and
\* places on them for the threads of a scheduled execution.
EInv ==
  /\ Basis
  /\ \E walk, mem : /\ Explained(walk, mem)
                    /\ Scheduled => \E pos \in [Tid -> Nat] : Follows(walk, mem, pos)

--------------------------------------------------------------------------------
(***************************************************************************)
(* The moves of the walk and of the execution lead forward.                *)
(***************************************************************************)
\* A block point has an odd number of pairs, the last one a counter.
LEMMA BlockTop ==
  ASSUME NEW p \in BlockPoint
  PROVE  /\ p \in Seq(Pair) /\ p \in Point /\ Len(p) \in Nat \ {0} /\ Len(p) % 2 = 1
         /\ DOMAIN p = 1 .. Len(p) /\ p[Len(p)].type = "COUNTER" /\ p[Len(p)].val \in Nat
<1>1. p \in Point /\ Len(p) % 2 = 1
  BY DEF BlockPoint
<1>2. p \in Seq(Pair) /\ Len(p) \in Nat \ {0} /\ DOMAIN p = 1 .. Len(p) /\ Len(p) \in DOMAIN p
  BY <1>1, PointFacts DEF Point
<1> QED
  BY <1>1, <1>2, PointFacts DEF BlockPoint

\* Counting up leads to a later statement, also if deeper blocks have been left before.
LEMMA CountsUp ==
  ASSUME NEW p \in BlockPoint, NEW q \in BlockPoint, Len(q) <= Len(p),
         \A i \in DOMAIN q : q[i] = p[i]
  PROVE  IncrementTop(q) \in BlockPoint /\ Compare(p, IncrementTop(q)) = "AFTER"
<1> DEFINE n == Len(q)
           r == IncrementTop(q)
<1>1. /\ q \in Seq(Pair) /\ n \in Nat \ {0} /\ n % 2 = 1 /\ DOMAIN q = 1 .. n
      /\ q[n].type = "COUNTER" /\ q[n].val \in Nat
      /\ p \in Point /\ DOMAIN p = 1 .. Len(p) /\ Len(p) \in Nat
  BY BlockTop
<1>2. r \in Point /\ Len(r) = n
  BY IncrementTopType, BlockTop
<1>3. /\ DOMAIN r = 1 .. n
      /\ r[n] = [q[n] EXCEPT !.val = q[n].val + 1]
      /\ \A i \in 1 .. n : i # n => r[i] = q[i]
  <2> DEFINE top == [q[n] EXCEPT !.val = q[n].val + 1]
  <2>1. r = [q EXCEPT ![n] = top]
    BY DEF IncrementTop
  <2> HIDE DEF top
  <2>2. DOMAIN r = 1 .. n /\ r[n] = top /\ \A i \in 1 .. n : i # n => r[i] = q[i]
    BY <1>1, <2>1
  <2> QED BY <2>2 DEF top
<1>4. q[n] \in Pair
  BY <1>1
<1>5. r[n].type = "COUNTER" /\ r[n].val = q[n].val + 1
  BY <1>1, <1>3, <1>4 DEF Pair
<1>6. r \in BlockPoint
  <2>1. \A i \in DOMAIN r : r[i].type = IF i % 2 = 1 THEN "COUNTER" ELSE "BRANCH"
    BY <1>1, <1>3, <1>5 DEF BlockPoint
  <2> QED BY <1>1, <1>2, <2>1 DEF BlockPoint
<1>7. FirstDifference(p, r, n)
  <2>1. n \in DOMAIN p /\ p[n] = q[n] /\ p[n].val # r[n].val
    BY <1>1, <1>5
  <2>2. \A j \in 1 .. n - 1 : p[j].val = r[j].val
    BY <1>1, <1>3
  <2> QED BY <1>1, <1>3, <2>1, <2>2 DEF FirstDifference
<1>8. p[n].type # "BRANCH" /\ p[n].val < r[n].val
  BY <1>1, <1>5
<1> HIDE DEF r, n
<1> QED
  BY <1>1, <1>2, <1>6, <1>7, <1>8, CompareAt DEF r

\* The statement that follows comes later.
LEMMA IncrementAhead ==
  ASSUME NEW p \in BlockPoint
  PROVE  IncrementTop(p) \in BlockPoint /\ Compare(p, IncrementTop(p)) = "AFTER"
<1>1. Len(p) <= Len(p)
  BY BlockTop
<1> QED
  BY <1>1, CountsUp

\* What follows a branch that is not entered comes later.
LEMMA PastBranchAhead ==
  ASSUME NEW p \in BlockPoint
  PROVE  PastBranch(p) \in BlockPoint /\ Compare(p, PastBranch(p)) = "AFTER"
BY IncrementAhead, AfterAfter DEF PastBranch

\* The body of a branch comes after the branch, whichever way it goes.
LEMMA IntoBranchAhead ==
  ASSUME NEW p \in BlockPoint, NEW d \in {0, 1}
  PROVE  IntoBranch(p, d) \in BlockPoint /\ Compare(p, IntoBranch(p, d)) = "AFTER"
<1> DEFINE r == IntoBranch(p, d)
<1>1. p \in Seq(Pair) /\ Len(p) \in Nat /\ Len(p) % 2 = 1 /\ DOMAIN p = 1 .. Len(p) /\ p \in Point
  BY BlockTop
<1>2. Branch(d) \in Pair /\ Counter(0) \in Pair
  BY DEF Branch, Counter, Pair, PairType
<1>3. r = Append(Append(p, Branch(d)), Counter(0)) /\ r \in Point
  BY <1>1, MovesType DEF IntoBranch, Push
<1>4. /\ Len(r) = Len(p) + 2 /\ DOMAIN r = 1 .. Len(p) + 2
      /\ \A i \in 1 .. Len(p) : r[i] = p[i]
      /\ r[Len(p) + 1] = Branch(d) /\ r[Len(p) + 2] = Counter(0)
  <2> DEFINE s == Append(p, Branch(d))
  <2>1. s \in Seq(Pair) /\ Len(s) = Len(p) + 1
        /\ (\A i \in 1 .. Len(p) : s[i] = p[i]) /\ s[Len(p) + 1] = Branch(d)
    BY <1>1, <1>2
  <2>2. r = Append(s, Counter(0))
    BY <1>3
  <2> HIDE DEF s, r
  <2>3. /\ Len(r) = Len(s) + 1 /\ DOMAIN r = 1 .. Len(s) + 1
        /\ \A i \in 1 .. Len(s) : r[i] = s[i]
        /\ r[Len(s) + 1] = Counter(0)
    BY <1>2, <2>1, <2>2
  <2> QED BY <1>1, <2>1, <2>3
<1>5. r \in BlockPoint
  <2>1. ASSUME NEW i \in DOMAIN r
        PROVE  r[i].type = IF i % 2 = 1 THEN "COUNTER" ELSE "BRANCH"
    <3>1. CASE i \in 1 .. Len(p)
      BY <1>1, <1>4, <3>1 DEF BlockPoint
    <3>2. CASE i = Len(p) + 1
      BY <1>1, <1>4, <3>2 DEF Branch
    <3>3. CASE i = Len(p) + 2
      BY <1>1, <1>4, <3>3 DEF Counter
    <3> QED BY <1>1, <1>4, <3>1, <3>2, <3>3
  <2>2. Len(r) % 2 = 1
    BY <1>1, <1>4
  <2> QED BY <1>3, <2>1, <2>2 DEF BlockPoint
<1>6. Agree(p, r) /\ Len(p) < Len(r)
  BY <1>1, <1>4 DEF Agree
<1> HIDE DEF r
<1> QED
  BY <1>1, <1>3, <1>5, <1>6, CompareAgreeing DEF r

\* What follows a branch comes after its body.
LEMMA AfterMergeAhead ==
  ASSUME NEW p \in BlockPoint, Len(p) > 2
  PROVE  AfterMerge(p) \in BlockPoint /\ Compare(p, AfterMerge(p)) = "AFTER"
<1> DEFINE q == Pop(Pop(p))
<1>1. p \in Seq(Pair) /\ p \in Point /\ Len(p) \in Nat /\ Len(p) % 2 = 1 /\ DOMAIN p = 1 .. Len(p)
  BY BlockTop
<1>2. /\ q \in Point /\ Len(q) = Len(p) - 2 /\ DOMAIN q = 1 .. Len(p) - 2
      /\ \A i \in DOMAIN q : q[i] = p[i]
  <2> DEFINE s == Pop(p)
  <2>1. /\ s \in Point /\ Len(s) = Len(p) - 1 /\ s \in Seq(Pair)
        /\ \A i \in 1 .. Len(p) - 1 : s[i] = p[i]
    BY <1>1, PopType DEF Pop, Point
  <2>2. q = Pop(s)
    OBVIOUS
  <2> HIDE DEF s, q
  <2>3. /\ q \in Point /\ Len(q) = Len(s) - 1 /\ DOMAIN q = 1 .. Len(s) - 1
        /\ \A i \in 1 .. Len(s) - 1 : q[i] = s[i]
    BY <1>1, <2>1, <2>2, PopType DEF Pop
  <2> QED BY <1>1, <2>1, <2>3
<1>3. q \in BlockPoint
  BY <1>1, <1>2 DEF BlockPoint
<1> HIDE DEF q
<1>4. IncrementTop(q) \in BlockPoint /\ Compare(p, IncrementTop(q)) = "AFTER"
  BY <1>1, <1>2, <1>3, CountsUp
<1>5. AfterMerge(p) = IncrementTop(IncrementTop(q))
  BY DEF AfterMerge, PastBranch, q
<1> QED
  BY <1>4, <1>5, IncrementAhead, AfterAfter

\* Threads begin at a block point.
LEMMA FirstPointBlock == FirstPoint \in BlockPoint
BY FirstPointType DEF BlockPoint, FirstPoint, Counter

--------------------------------------------------------------------------------
(***************************************************************************)
(* Walks grow at their ends, and so does the order.                        *)
(***************************************************************************)
\* What append leaves.
LEMMA Appended ==
  ASSUME NEW S, NEW s \in Seq(S), NEW e \in S
  PROVE  /\ Append(s, e) \in Seq(S) /\ Append(s, e) # <<>>
         /\ Len(s) \in Nat /\ Len(Append(s, e)) = Len(s) + 1
         /\ DOMAIN s = 1 .. Len(s) /\ DOMAIN Append(s, e) = 1 .. Len(s) + 1
         /\ \A i \in 1 .. Len(s) : Append(s, e)[i] = s[i]
         /\ Append(s, e)[Len(s) + 1] = e
<1>1. /\ Append(s, e) \in Seq(S) /\ Len(s) \in Nat /\ Len(Append(s, e)) = Len(s) + 1
      /\ DOMAIN s = 1 .. Len(s) /\ DOMAIN Append(s, e) = 1 .. Len(s) + 1
      /\ \A i \in 1 .. Len(s) : Append(s, e)[i] = s[i]
      /\ Append(s, e)[Len(s) + 1] = e
  OBVIOUS
<1> QED
  BY <1>1, EmptySeq

\* The points the walk goes to are later ones.
LEMMA MovesAhead ==
  ASSUME NEW t \in Tid, NEW p \in BlockPoint
  PROVE  /\ IncrementTop(p) \in BlockPoint /\ Compare(p, IncrementTop(p)) = "AFTER"
         /\ PastBranch(p) \in BlockPoint /\ Compare(p, PastBranch(p)) = "AFTER"
         /\ \A v : /\ IntoBranch(p, Direction(v)) \in BlockPoint
                   /\ Compare(p, IntoBranch(p, Direction(v))) = "AFTER"
         /\ Instr(t, p).op = "MERGE" =>
              AfterMerge(p) \in BlockPoint /\ Compare(p, AfterMerge(p)) = "AFTER"
<1>1. Instr(t, p).op = "MERGE" => Len(p) > 2
  BY InstrType, BlockTop
<1> QED
  BY <1>1, DirectionType, IncrementAhead, PastBranchAhead, IntoBranchAhead, AfterMergeAhead

\* The order has grown by at most one operation.
Grown ==
  /\ encoded' = encoded /\ order \in Seq(Event)
  /\ order' = order \/ \E e \in Event : order' = Append(order, e)

\* What an order that has grown keeps.
LEMMA GrownFacts ==
  ASSUME Grown
  PROVE  /\ Len(order) \in Nat /\ Len(order') \in Nat
         /\ Len(order) <= Len(order') /\ Len(order') <= Len(order) + 1
         /\ DOMAIN order = 1 .. Len(order) /\ DOMAIN order' = 1 .. Len(order')
         /\ \A n \in DOMAIN order : n \in DOMAIN order' /\ order'[n] = order[n]
<1>1. CASE order' = order
  BY <1>1 DEF Grown
<1>2. CASE \E e \in Event : order' = Append(order, e)
  <2>1. PICK e \in Event : order' = Append(order, e)
    BY <1>2
  <2>2. order \in Seq(Event)
    BY DEF Grown
  <2> QED BY <2>1, <2>2, Appended
<1> QED
  BY <1>1, <1>2 DEF Grown

\* What is said of the operations that were ordered before stays true.
LEMMA QuietStays ==
  ASSUME Grown, NEW t, NEW a, NEW b \in Int, b <= Len(order)
  PROVE  Quiet(t, a, b)' <=> Quiet(t, a, b)
<1>1. \A n \in DOMAIN order' : n <= b => n \in DOMAIN order
  BY GrownFacts
<1> QED
  BY <1>1, GrownFacts DEF Quiet

\* The last operation of a thread among the first n does not change when the order grows.
LEMMA LastStays ==
  ASSUME Grown, NEW k, NEW w, NEW n \in Int, n <= Len(order), LastAt(k, w, n)
  PROVE  LastAt(k, w, n)'
<1>1. CASE w = Nil /\ Quiet(k, 0, n)
  BY <1>1, QuietStays DEF LastAt
<1>2. CASE \E m \in DOMAIN order : m <= n /\ order[m].tid = k /\ order[m].point = w /\ Quiet(k, m, n)
  <2>1. PICK m \in DOMAIN order : m <= n /\ order[m].tid = k /\ order[m].point = w /\ Quiet(k, m, n)
    BY <1>2
  <2>2. m \in DOMAIN order' /\ order'[m] = order[m] /\ Quiet(k, m, n)'
    BY <2>1, GrownFacts, QuietStays
  <2> QED BY <2>1, <2>2 DEF LastAt
<1> QED
  BY <1>1, <1>2 DEF LastAt

\* Nor does a step of a walk.
LEMMA WalksToStays ==
  ASSUME Grown, NEW t, NEW c \in Config, NEW d, WalksTo(t, c, d)
  PROVE  WalksTo(t, c, d)'
<1>1. encoded' = encoded
  BY DEF Grown
<1>2. CASE Access(t, c.point)
  <2>1. d.time \in DOMAIN order /\ d.time \in DOMAIN order' /\ order'[d.time] = order[d.time]
    BY <1>2, GrownFacts DEF WalksTo
  <2>2. d.time - 1 \in Int /\ d.time - 1 <= Len(order)
    BY <2>1, GrownFacts
  <2>3. Quiet(t, c.time, d.time - 1)'
    BY <1>2, <2>2, QuietStays DEF WalksTo
  <2> QED BY <1>1, <1>2, <2>1, <2>3 DEF WalksTo, Outputs, Access
<1>3. CASE ~Access(t, c.point)
  BY <1>1, <1>3 DEF WalksTo, Outputs, Access
<1> QED
  BY <1>2, <1>3

\* The walks w2 continue the walks w.
Continues(w2, w) ==
  \A t \in Tid : \A b \in DOMAIN w[t] : b \in DOMAIN w2[t] /\ w2[t][b] = w[t][b]

\* One walk gets one more place.
Longer(w, i, d) == [w EXCEPT ![i] = Append(w[i], d)]

\* What a walk of i with one more place, d, keeps.
Extended(w2, w, i, d) ==
  /\ w2 \in [Tid -> Seq(Config)] /\ Continues(w2, w)
  /\ \A t \in Tid : t # i => w2[t] = w[t]
  /\ Len(w[i]) \in Nat \ {0} /\ DOMAIN w[i] = 1 .. Len(w[i])
  /\ Len(w2[i]) = Len(w[i]) + 1 /\ DOMAIN w2[i] = 1 .. Len(w[i]) + 1
  /\ w2[i][Len(w[i]) + 1] = d /\ w2[i] # <<>>
  /\ \A b \in DOMAIN w[i] : w2[i][b] = w[i][b]
  /\ LastPlace(w, i) \in Config /\ LastPlace(w2, i) = d
  /\ \A t \in Tid : w2[t] = <<>> <=> w[t] = <<>>
  /\ \A t \in Tid : w[t] # <<>> => w2[t][1] = w[t][1]

\* What is on a walk.
LEMMA PlaceFacts ==
  ASSUME NEW w \in [Tid -> Seq(Config)], NEW t \in Tid, NEW b \in DOMAIN w[t]
  PROVE  /\ w[t][b] \in Config /\ w[t][b].point \in BlockPoint /\ w[t][b].point \in Point
         /\ w[t][b].time \in Nat /\ w[t][b].reg \in Val
         /\ Len(w[t]) \in Nat /\ DOMAIN w[t] = 1 .. Len(w[t]) /\ b \in Nat \ {0}
<1>1. w[t] \in Seq(Config)
  OBVIOUS
<1>2. w[t][b] \in Config /\ Len(w[t]) \in Nat /\ DOMAIN w[t] = 1 .. Len(w[t])
  BY <1>1
<1> QED
  BY <1>2, BlockTop DEF Config

\* Adding a place extends the walk.
LEMMA WayAppended ==
  ASSUME NEW w \in [Tid -> Seq(Config)], NEW i \in Tid, NEW d \in Config, w[i] # <<>>,
         NEW w2, w2 = Longer(w, i, d)
  PROVE  Extended(w2, w, i, d)
<1>1. /\ w[i] \in Seq(Config) /\ w2[i] = Append(w[i], d)
      /\ \A t \in Tid : t # i => w2[t] = w[t]
  BY DEF Longer
<1>2. /\ Append(w[i], d) \in Seq(Config) /\ Append(w[i], d) # <<>>
      /\ Len(w[i]) \in Nat /\ Len(Append(w[i], d)) = Len(w[i]) + 1
      /\ DOMAIN w[i] = 1 .. Len(w[i]) /\ DOMAIN Append(w[i], d) = 1 .. Len(w[i]) + 1
      /\ \A b \in 1 .. Len(w[i]) : Append(w[i], d)[b] = w[i][b]
      /\ Append(w[i], d)[Len(w[i]) + 1] = d
  BY <1>1, Appended
<1>3. Len(w[i]) # 0
  BY <1>1, EmptySeq
<1>4. w2 \in [Tid -> Seq(Config)]
  BY <1>2 DEF Longer
<1>5. Continues(w2, w)
  BY <1>1, <1>2 DEF Continues
<1>6. LastPlace(w, i) \in Config /\ LastPlace(w2, i) = d
  BY <1>1, <1>2, <1>3 DEF LastPlace
<1>7. \A t \in Tid : w[t] # <<>> => w2[t][1] = w[t][1]
  BY <1>1, <1>2, <1>3
<1> QED
  BY <1>1, <1>2, <1>3, <1>4, <1>5, <1>6, <1>7 DEF Extended

\* The walks stay ways when a place is added that the last one leads to.
LEMMA WaysContinue ==
  ASSUME Grown, NEW w, Ways(w), NEW i \in Tid, w[i] # <<>>, NEW d \in Config,
         WalksTo(i, LastPlace(w, i), d)',
         NEW w2, w2 = Longer(w, i, d)
  PROVE  Ways(w2)'
<1>1. w \in [Tid -> Seq(Config)]
  BY DEF Ways
<1>2. /\ w2 \in [Tid -> Seq(Config)]
      /\ \A t \in Tid : t # i => w2[t] = w[t]
      /\ Len(w[i]) \in Nat \ {0} /\ DOMAIN w[i] = 1 .. Len(w[i])
      /\ DOMAIN w2[i] = 1 .. Len(w[i]) + 1
      /\ w2[i][Len(w[i]) + 1] = d
      /\ \A b \in DOMAIN w[i] : w2[i][b] = w[i][b]
      /\ LastPlace(w, i) \in Config
      /\ \A t \in Tid : w2[t] = <<>> <=> w[t] = <<>>
      /\ \A t \in Tid : w[t] # <<>> => w2[t][1] = w[t][1]
  <2>1. Extended(w2, w, i, d)
    BY <1>1, WayAppended
  <2> QED BY <2>1 DEF Extended
<1>3. \A t \in Tid : \A b \in DOMAIN w[t] :
        w[t][b] \in Config /\ w[t][b].point \in BlockPoint /\ w[t][b].time \in Nat
  BY <1>1, PlaceFacts
<1>4. w2[0] # <<>> /\ w2[0][1].time = 0
  BY <1>2, ProgramAssumption DEF Ways, Tid
<1>5. \A t \in Tid : w2[t] # <<>> => w2[t][1].point = FirstPoint /\ w2[t][1].reg = 0
  BY <1>2 DEF Ways
<1>6. /\ Compare(LastPlace(w, i).point, d.point) = "AFTER"
      /\ LastPlace(w, i).time <= d.time
  <2> DEFINE c == LastPlace(w, i)
  <2>1. d.time \in Nat /\ c.time \in Nat /\ c.point \in BlockPoint
    BY <1>2 DEF Config
  <2> HIDE DEF c
  <2>2. WalksTo(i, c, d)'
    BY DEF c
  <2>3. c.time <= d.time
    BY <2>1, <2>2 DEF WalksTo
  <2>4. Compare(c.point, d.point) = "AFTER"
    BY <2>1, <2>2, MovesAhead DEF WalksTo
  <2> QED BY <2>3, <2>4 DEF c
<1>7. ASSUME NEW t \in Tid, NEW b \in DOMAIN w2[t], NEW c \in DOMAIN w2[t], b < c
      PROVE  /\ Compare(w2[t][b].point, w2[t][c].point) = "AFTER"
             /\ w2[t][b].time <= w2[t][c].time
  <2>1. CASE t # i \/ c \in DOMAIN w[i]
    <3>1. b \in DOMAIN w[t] /\ c \in DOMAIN w[t] /\ w2[t][b] = w[t][b] /\ w2[t][c] = w[t][c]
      BY <1>2, <1>7, <2>1
    <3> QED BY <1>7, <3>1 DEF Ways
  <2>2. CASE t = i /\ c = Len(w[i]) + 1
    <3>1. b \in DOMAIN w[i] /\ w2[t][c] = d /\ w2[t][b] = w[i][b] /\ Len(w[i]) \in DOMAIN w[i]
      BY <1>2, <1>7, <2>2
    <3>2. CASE b = Len(w[i])
      BY <1>6, <3>1, <3>2 DEF LastPlace
    <3>3. CASE b < Len(w[i])
      <4>1. /\ Compare(w[i][b].point, LastPlace(w, i).point) = "AFTER"
            /\ w[i][b].time <= LastPlace(w, i).time
        BY <3>1, <3>3 DEF Ways, LastPlace
      <4>2. w[i][b].point \in BlockPoint /\ LastPlace(w, i).point \in BlockPoint
            /\ d.point \in BlockPoint /\ w[i][b].time \in Nat /\ LastPlace(w, i).time \in Nat
            /\ d.time \in Nat
        BY <1>2, <1>3, <3>1 DEF Config
      <4> QED BY <1>6, <3>1, <4>1, <4>2, AfterAfter
    <3> QED BY <1>2, <3>1, <3>2, <3>3
  <2> QED BY <1>2, <2>1, <2>2
<1>8. ASSUME NEW t \in Tid, NEW b \in DOMAIN w2[t], b + 1 \in DOMAIN w2[t]
      PROVE  WalksTo(t, w2[t][b], w2[t][b + 1])'
  <2>1. CASE t # i \/ b + 1 \in DOMAIN w[i]
    <3>1. b \in DOMAIN w[t] /\ b + 1 \in DOMAIN w[t]
          /\ w2[t][b] = w[t][b] /\ w2[t][b + 1] = w[t][b + 1]
      BY <1>2, <1>8, <2>1
    <3>2. WalksTo(t, w[t][b], w[t][b + 1]) /\ w[t][b] \in Config
      BY <1>3, <3>1 DEF Ways
    <3> QED BY <3>1, <3>2, WalksToStays
  <2>2. CASE t = i /\ b + 1 = Len(w[i]) + 1
    BY <1>2, <1>8, <2>2 DEF LastPlace
  <2> QED BY <1>2, <1>8, <2>1, <2>2
<1> QED
  BY <1>2, <1>4, <1>5, <1>7, <1>8 DEF Ways

\* The operations that are new in the order are those of thread i.
NewOnes(i) == \A n \in DOMAIN order' : n \notin DOMAIN order => order'[n].tid = i

\* A thread the walk leaves alone is still where it was.
LEMMA FrontStays ==
  ASSUME Grown, NEW w, Ways(w), NEW t \in Tid, FrontOf(w, t), NEW i, i # t, NewOnes(i),
         frontier'[t] = frontier[t], solreg'[t] = solreg[t], NEW w2, w2[t] = w[t]
  PROVE  FrontOf(w2, t)'
<1>1. CASE w[t] = <<>>
  BY <1>1 DEF FrontOf
<1>2. CASE w[t] # <<>>
  <2>1. w[t] \in Seq(Config) /\ Len(w[t]) \in Nat /\ Len(w[t]) # 0
    BY <1>2, EmptySeq DEF Ways
  <2>2. PICK c \in Config : c = LastPlace(w, t)
    <3>1. Len(w[t]) \in DOMAIN w[t] /\ w \in [Tid -> Seq(Config)]
      BY <2>1 DEF Ways
    <3> QED BY <3>1, PlaceFacts DEF LastPlace
  <2>3. w2[t][Len(w2[t])] = c /\ w2[t] # <<>> /\ c.time \in Nat
    BY <1>2, <2>2 DEF LastPlace, Config
  <2>4. /\ c.time <= Len(order) /\ Quiet(t, c.time, Len(order))
        /\ IF frontier[t] = Nil THEN Instr(t, c.point).op = "END"
                                ELSE frontier[t] = c.point /\ solreg[t] = c.reg
    BY <1>2, <2>2 DEF FrontOf
  <2>5. c.time <= Len(order') /\ Quiet(t, c.time, Len(order))'
    <3>1. c.time <= Len(order')
      BY <2>3, <2>4, GrownFacts
    <3>2. ASSUME NEW n \in DOMAIN order', c.time < n PROVE order'[n].tid # t
      <4>1. CASE n \in DOMAIN order
        BY <2>4, <3>2, <4>1, GrownFacts DEF Quiet
      <4>2. CASE n \notin DOMAIN order
        BY <4>2 DEF NewOnes
      <4> QED BY <4>1, <4>2
    <3> QED BY <3>1, <3>2 DEF Quiet
  <2> QED BY <2>3, <2>4, <2>5 DEF FrontOf, LastPlace
<1> QED
  BY <1>1, <1>2

\* Every operation that was ordered is still listed.
LEMMA ListedContinues ==
  ASSUME Grown, NEW w, Ways(w), Listed(w), NEW w2, Continues(w2, w),
         NEW n \in DOMAIN order
  PROVE  \E b \in DOMAIN w2[order'[n].tid] :
           /\ b + 1 \in DOMAIN w2[order'[n].tid]
           /\ w2[order'[n].tid][b + 1].time = n
           /\ w2[order'[n].tid][b].point = order'[n].point
           /\ Access(order'[n].tid, order'[n].point)
<1>1. order'[n] = order[n] /\ order[n].tid \in Tid
  <2>1. order[n] \in Event
    BY DEF Grown
  <2> QED BY <2>1, GrownFacts DEF Event
<1> QED
  BY <1>1 DEF Listed, Continues

\* Creations that have been walked past have been walked past.
LEMMA CreationsContinue ==
  ASSUME NEW w, Ways(w), Creations(w), NEW i \in Tid, NEW d \in Config, w[i] # <<>>,
         Instr(i, LastPlace(w, i).point).op # "CREATE",
         NEW w2, w2 = Longer(w, i, d)
  PROVE  Creations(w2)
<1>1. Extended(w2, w, i, d)
  BY WayAppended DEF Ways
<1>2. ASSUME NEW t \in Tid \ {0}, w2[t] # <<>>
      PROVE  \E u \in Tid : \E b \in DOMAIN w2[u] :
               /\ u < t /\ b + 1 \in DOMAIN w2[u]
               /\ Instr(u, w2[u][b].point) = [op |-> "CREATE", tid |-> t]
               /\ w2[u][b].time = w2[t][1].time
  <2>1. w[t] # <<>> /\ w2[t][1] = w[t][1]
    BY <1>1, <1>2 DEF Extended
  <2>2. PICK u \in Tid : \E b \in DOMAIN w[u] :
          /\ u < t /\ b + 1 \in DOMAIN w[u]
          /\ Instr(u, w[u][b].point) = [op |-> "CREATE", tid |-> t]
          /\ w[u][b].time = w[t][1].time
    BY <2>1 DEF Creations
  <2>3. PICK b \in DOMAIN w[u] :
          /\ u < t /\ b + 1 \in DOMAIN w[u]
          /\ Instr(u, w[u][b].point) = [op |-> "CREATE", tid |-> t]
          /\ w[u][b].time = w[t][1].time
    BY <2>2
  <2>4. /\ b \in DOMAIN w2[u] /\ b + 1 \in DOMAIN w2[u] /\ w2[u][b] = w[u][b]
    BY <1>1, <2>3 DEF Extended, Continues
  <2> QED BY <2>1, <2>3, <2>4
<1>3. ASSUME NEW u \in Tid, NEW b \in DOMAIN w2[u],
             b + 1 \in DOMAIN w2[u], Instr(u, w2[u][b].point).op = "CREATE"
      PROVE  w2[Instr(u, w2[u][b].point).tid] # <<>>
  <2>1. b \in DOMAIN w[u] /\ b + 1 \in DOMAIN w[u] /\ w2[u][b] = w[u][b]
    <3>1. CASE u # i
      BY <1>1, <1>3, <3>1 DEF Extended
    <3>2. CASE u = i
      BY <1>1, <1>3, <3>2 DEF Extended, LastPlace
    <3> QED BY <3>1, <3>2
  <2>2. w[u][b].point \in Point
    BY <2>1, PlaceFacts DEF Ways
  <2>3. Instr(u, w[u][b].point).tid \in Tid
    BY <1>3, <2>1, <2>2, InstrType
  <2> QED BY <1>1, <1>3, <2>1, <2>3 DEF Creations, Extended
<1> QED
  BY <1>2, <1>3 DEF Creations

\* A thread the walk has moved is at the new end of its way.
LEMMA FrontMoves ==
  ASSUME NEW w, NEW i \in Tid, NEW d \in Config, NEW w2, Extended(w2, w, i, d),
         frontier'[i] = d.point, solreg'[i] = d.reg, d.time <= Len(order'),
         Quiet(i, d.time, Len(order))'
  PROVE  FrontOf(w2, i)'
<1>1. w2[i][Len(w2[i])] = d /\ w2[i] # <<>>
  BY DEF Extended, LastPlace
<1>2. d.point # Nil
  BY BlockTop, EmptySeq DEF Config, Nil, Point
<1> QED
  BY <1>1, <1>2 DEF FrontOf, LastPlace

\* A walk starts for a thread that had none.
Started(w2, w, c, e) ==
  /\ w2 \in [Tid -> Seq(Config)] /\ Continues(w2, w)
  /\ \A t \in Tid : t # c => w2[t] = w[t]
  /\ w2[c] # <<>> /\ Len(w2[c]) = 1 /\ DOMAIN w2[c] = {1} /\ w2[c][1] = e
  /\ LastPlace(w2, c) = e

\* A walk that begins is one place.
LEMMA WayStarted ==
  ASSUME NEW w \in [Tid -> Seq(Config)], NEW c \in Tid, w[c] = <<>>, NEW e \in Config,
         NEW w2, w2 = [w EXCEPT ![c] = <<e>>]
  PROVE  Started(w2, w, c, e)
<1>1. /\ <<e>> \in Seq(Config) /\ <<e>> # <<>> /\ Len(<<e>>) = 1 /\ DOMAIN <<e>> = {1}
      /\ <<e>>[1] = e
  OBVIOUS
<1>2. w2[c] = <<e>> /\ w2 \in [Tid -> Seq(Config)] /\ \A t \in Tid : t # c => w2[t] = w[t]
  BY <1>1
<1>3. Continues(w2, w)
  <2>1. DOMAIN w[c] = {}
    OBVIOUS
  <2> QED BY <1>2, <2>1 DEF Continues
<1> QED
  BY <1>1, <1>2, <1>3 DEF Started, LastPlace

\* The walks stay ways when that of a created thread begins.
LEMMA WaysStart ==
  ASSUME NEW w, Ways(w)', NEW c \in Tid, w[c] = <<>>, NEW e \in Config,
         e.point = FirstPoint, e.reg = 0,
         NEW w2, Started(w2, w, c, e)
  PROVE  Ways(w2)'
<1>1. /\ w2 \in [Tid -> Seq(Config)] /\ \A t \in Tid : t # c => w2[t] = w[t]
      /\ w2[c] # <<>> /\ DOMAIN w2[c] = {1} /\ w2[c][1] = e
  BY DEF Started
<1>2. w2[0] # <<>> /\ w2[0][1].time = 0
  BY <1>1, ProgramAssumption DEF Ways, Tid
<1>3. \A t \in Tid : w2[t] # <<>> => w2[t][1].point = FirstPoint /\ w2[t][1].reg = 0
  BY <1>1 DEF Ways
<1>4. ASSUME NEW t \in Tid, NEW b \in DOMAIN w2[t], NEW f \in DOMAIN w2[t], b < f
      PROVE  /\ Compare(w2[t][b].point, w2[t][f].point) = "AFTER"
             /\ w2[t][b].time <= w2[t][f].time
  <2>1. CASE t # c
    <3>1. b \in DOMAIN w[t] /\ f \in DOMAIN w[t] /\ w2[t] = w[t]
      BY <1>1, <2>1
    <3> QED BY <1>4, <3>1 DEF Ways
  <2>2. CASE t = c
    BY <1>1, <1>4, <2>2
  <2> QED BY <2>1, <2>2
<1>5. ASSUME NEW t \in Tid, NEW b \in DOMAIN w2[t], b + 1 \in DOMAIN w2[t]
      PROVE  WalksTo(t, w2[t][b], w2[t][b + 1])'
  BY <1>1, <1>5 DEF Ways
<1> QED
  BY <1>1, <1>2, <1>3, <1>4, <1>5 DEF Ways

\* A step of the walk that orders nothing.
Kept == UNCHANGED <<encoded, order, solmemory, waitset, lastoperation, storelastoperation,
                    stores>>

\* What the record that thread i is at does to its register.
Computed(i) ==
  /\ solreg' \in [Tid -> Val]
  /\ \A t \in Tid : t # i => solreg'[t] = solreg[t]
  /\ IF Frontier(i).op = "FUNCTION" THEN Outputs(Frontier(i), solreg[i], solreg'[i])
                                    ELSE solreg'[i] = solreg[i]

\* What a step of the walk that orders nothing keeps.
LEMMA KeptFacts ==
  ASSUME Kept, BuilderTypeOK, Rows, NEW mem, Memories(mem)
  PROVE  Rows' /\ Memories(mem)' /\ Grown /\ order' = order /\ Len(order) \in Nat
         /\ \A i : NewOnes(i)
<1>1. /\ encoded' = encoded /\ order' = order /\ solmemory' = solmemory /\ waitset' = waitset
      /\ lastoperation' = lastoperation /\ storelastoperation' = storelastoperation
      /\ stores' = stores
  BY DEF Kept
<1>2. Grown /\ \A i : NewOnes(i)
  BY <1>1 DEF Grown, BuilderTypeOK, NewOnes
<1>3. Rows'
  BY <1>1 DEF Rows, RowOf, LastAt, Quiet
<1>4. Memories(mem)'
  BY <1>1 DEF Memories
<1> QED
  BY <1>1, <1>2, <1>3, <1>4 DEF Grown

\* Where a record of thread i is reached that is walked past at once.
LEMMA WalkedOn ==
  ASSUME BuilderTypeOK, Kept, NEW w, NEW mem, Explained(w, mem), NEW i \in Tid,
         frontier[i] # Nil, ~Access(i, frontier[i]), Computed(i),
         Frontier(i).op \notin {"END", "CREATE"},
         frontier' = [frontier EXCEPT ![i] =
           CASE Frontier(i).op = "MERGE"  -> AfterMerge(frontier[i])
             [] Frontier(i).op = "BRANCH" ->
                  IF [tid |-> i, point |-> frontier[i], dir |-> Direction(solreg[i])] \in encoded
                  THEN IntoBranch(frontier[i], Direction(solreg[i])) ELSE PastBranch(frontier[i])
             [] OTHER -> IncrementTop(frontier[i])]
  PROVE  \E w2 : Explained(w2, mem)'
<1>1. /\ Ways(w) /\ Listed(w) /\ AtFront(w) /\ Creations(w) /\ Memories(mem) /\ Rows
      /\ w \in [Tid -> Seq(Config)]
  BY DEF Explained, Ways
<1>2. Rows' /\ Memories(mem)' /\ Grown /\ order' = order /\ NewOnes(i) /\ Len(order) \in Nat
  BY <1>1, KeptFacts
<1>3. /\ encoded' = encoded /\ solreg'[i] \in Val
      /\ frontier \in [Tid -> Point \cup {Nil}] /\ solreg \in [Tid -> Val]
      /\ \A t \in Tid : t # i => solreg'[t] = solreg[t]
  BY DEF Kept, BuilderTypeOK, Computed
<1>4. /\ w[i] # <<>>
      /\ frontier[i] = LastPlace(w, i).point /\ solreg[i] = LastPlace(w, i).reg
      /\ LastPlace(w, i).time <= Len(order) /\ Quiet(i, LastPlace(w, i).time, Len(order))
  BY <1>1 DEF AtFront, FrontOf
<1>5. PICK c \in Config : c = LastPlace(w, i)
  <2>1. w[i] \in Seq(Config)
    BY <1>1
  <2>2. Len(w[i]) \in DOMAIN w[i]
    BY <1>4, <2>1, EmptySeq
  <2> QED BY <1>1, <2>2, PlaceFacts DEF LastPlace
<1>6. PICK d : d = [point |-> frontier'[i], reg |-> solreg'[i], time |-> c.time]
  OBVIOUS
<1>7. /\ c.point \in BlockPoint /\ c.reg \in Val /\ c.time \in Nat
      /\ frontier[i] = c.point /\ solreg[i] = c.reg
      /\ c.time <= Len(order) /\ Quiet(i, c.time, Len(order))
  BY <1>4, <1>5 DEF Config
<1>8. d \in Config /\ d.point = frontier'[i] /\ d.reg = solreg'[i] /\ d.time = c.time
  <2>1. frontier'[i] \in BlockPoint
    BY <1>3, <1>7, MovesAhead DEF Frontier
  <2> QED BY <1>3, <1>6, <1>7, <2>1 DEF Config
<1>9. WalksTo(i, c, d)'
  <2>1. d.point = CASE Instr(i, c.point).op = "MERGE"  -> AfterMerge(c.point)
                    [] Instr(i, c.point).op = "BRANCH" ->
                         IF [tid |-> i, point |-> c.point, dir |-> Direction(c.reg)] \in encoded
                         THEN IntoBranch(c.point, Direction(c.reg)) ELSE PastBranch(c.point)
                    [] OTHER             -> IncrementTop(c.point)
    BY <1>3, <1>7, <1>8 DEF Frontier
  <2>2. IF Instr(i, c.point).op = "FUNCTION" THEN Outputs(Instr(i, c.point), c.reg, d.reg)'
                                             ELSE d.reg = c.reg
    BY <1>3, <1>7, <1>8 DEF Computed, Outputs, Frontier
  <2> QED BY <1>3, <1>7, <1>8, <2>1, <2>2 DEF WalksTo, Frontier, Access
<1>10. PICK w2 : w2 = Longer(w, i, d)
  OBVIOUS
<1>11. Extended(w2, w, i, d)
  BY <1>1, <1>4, <1>8, <1>10, WayAppended
<1>12. Ways(w2)'
  <2>1. WalksTo(i, LastPlace(w, i), d)'
    BY <1>5, <1>9
  <2> QED BY <1>1, <1>2, <1>4, <1>8, <1>10, <2>1, WaysContinue
<1>13. Listed(w2)'
  <2>1. Continues(w2, w)
    BY <1>11 DEF Extended
  <2> QED BY <1>1, <1>2, <2>1, ListedContinues DEF Listed
<1>14. AtFront(w2)'
  <2>1. FrontOf(w2, i)'
    <3>1. d.time <= Len(order') /\ Quiet(i, d.time, Len(order))'
      BY <1>2, <1>7, <1>8 DEF Quiet
    <3> QED BY <1>3, <1>7, <1>8, <1>11, <3>1, FrontMoves
  <2>2. ASSUME NEW t \in Tid, t # i PROVE FrontOf(w2, t)'
    <3>1. frontier'[t] = frontier[t] /\ solreg'[t] = solreg[t] /\ w2[t] = w[t]
      BY <1>3, <1>11, <2>2 DEF Extended
    <3> QED BY <1>1, <1>2, <2>2, <3>1, FrontStays DEF AtFront
  <2> QED BY <2>1, <2>2 DEF AtFront
<1>15. Creations(w2)
  <2>1. Instr(i, LastPlace(w, i).point).op # "CREATE"
    BY <1>5, <1>7 DEF Frontier
  <2> QED BY <1>1, <1>4, <1>8, <1>10, <2>1, CreationsContinue
<1> QED
  BY <1>2, <1>12, <1>13, <1>14, <1>15 DEF Explained, Creations

\* Where the builder is in a thread whose walk has begun.
LEMMA FrontPlace ==
  ASSUME NEW w, Ways(w), NEW i \in Tid, FrontOf(w, i), frontier[i] # Nil
  PROVE  /\ w[i] # <<>> /\ w \in [Tid -> Seq(Config)]
         /\ Len(w[i]) \in DOMAIN w[i] /\ DOMAIN w[i] = 1 .. Len(w[i]) /\ Len(w[i]) \in Nat \ {0}
         /\ \E c \in Config :
              /\ c = LastPlace(w, i) /\ c.point \in BlockPoint /\ c.point \in Point
              /\ c.reg \in Val /\ c.time \in Nat
              /\ frontier[i] = c.point /\ solreg[i] = c.reg
              /\ c.time <= Len(order) /\ Quiet(i, c.time, Len(order))
<1>1. w[i] # <<>> /\ w \in [Tid -> Seq(Config)]
  BY DEF Ways, FrontOf
<1>2. /\ LastPlace(w, i).time <= Len(order) /\ Quiet(i, LastPlace(w, i).time, Len(order))
      /\ frontier[i] = LastPlace(w, i).point /\ solreg[i] = LastPlace(w, i).reg
  BY <1>1 DEF FrontOf
<1>3. Len(w[i]) \in DOMAIN w[i] /\ DOMAIN w[i] = 1 .. Len(w[i]) /\ Len(w[i]) \in Nat \ {0}
  <2>1. w[i] \in Seq(Config)
    BY <1>1
  <2> QED BY <1>1, <2>1, EmptySeq
<1>4. /\ LastPlace(w, i) \in Config /\ LastPlace(w, i).point \in BlockPoint
      /\ LastPlace(w, i).point \in Point
      /\ LastPlace(w, i).reg \in Val /\ LastPlace(w, i).time \in Nat
  BY <1>1, <1>3, PlaceFacts DEF LastPlace
<1> QED
  BY <1>1, <1>2, <1>3, <1>4

\* Every operation of a thread in the order is on its walk: it has none without one.
LEMMA UnwalkedQuiet ==
  ASSUME NEW w, Listed(w), NEW t, w[t] = <<>>, NEW a, NEW b
  PROVE  Quiet(t, a, b)
<1>1. DOMAIN w[t] = {}
  OBVIOUS
<1> QED
  BY <1>1 DEF Listed, Quiet

\* The identifier of a created thread is new: no creation of it has been walked past.
LEMMA CreatesNew ==
  ASSUME NEW w, Ways(w), Creations(w), NEW i \in Tid, NEW b \in DOMAIN w[i],
         Instr(i, w[i][b].point).op = "CREATE", b + 1 \notin DOMAIN w[i], NEW c,
         c = Instr(i, w[i][b].point).tid
  PROVE  c \in Tid \ {0} /\ i < c /\ w[c] = <<>> /\ Instr(i, w[i][b].point) = [op |-> "CREATE", tid |-> c]
<1> DEFINE p == w[i][b].point
<1>1. w \in [Tid -> Seq(Config)] /\ p \in BlockPoint /\ p \in Point /\ b \in Nat
  BY PlaceFacts DEF Ways
<1>2. p \in DOMAIN Code[i] /\ Code[i][p] = Instr(i, p) /\ Code[i][p] \in Instruction
  BY ProgramAssumption DEF Instr
<1>3. Instr(i, p) = [op |-> "CREATE", tid |-> c] /\ c \in Tid
  BY <1>2 DEF Instruction, MemoryOperation, Function
<1>4. i < c /\ c # 0
  <2>1. i < c
    BY <1>2, <1>3, CreationAssumption
  <2> QED BY <2>1, ProgramAssumption DEF Tid
<1>5. ASSUME w[c] # <<>> PROVE FALSE
  <2>1. PICK u \in Tid : \E f \in DOMAIN w[u] :
          /\ f + 1 \in DOMAIN w[u]
          /\ Instr(u, w[u][f].point) = [op |-> "CREATE", tid |-> c]
    BY <1>3, <1>4, <1>5 DEF Creations
  <2>2. PICK f \in DOMAIN w[u] :
          /\ f + 1 \in DOMAIN w[u]
          /\ Instr(u, w[u][f].point) = [op |-> "CREATE", tid |-> c]
    BY <2>1
  <2>3. w[u][f].point \in DOMAIN Code[u] /\ Code[u][w[u][f].point] = Code[i][p]
    BY <1>2, <1>3, <2>2 DEF Instr
  <2>4. u = i /\ (p = w[i][f].point \/ Compare(p, w[i][f].point) = "INCOMPARABLE")
    BY <1>2, <1>3, <2>3, CreationAssumption
  <2>5. /\ f \in Nat /\ b \in 1 .. Len(w[i]) /\ f + 1 \in 1 .. Len(w[i])
        /\ b + 1 \notin 1 .. Len(w[i]) /\ Len(w[i]) \in Nat
        /\ w[i][f].point \in BlockPoint
    BY <1>1, <2>2, <2>4, PlaceFacts
  <2>6. f < b
    BY <2>5
  <2>7. Compare(w[i][f].point, p) = "AFTER"
    BY <2>2, <2>4, <2>6 DEF Ways
  <2>8. Compare(p, w[i][f].point) = "BEFORE"
    BY <1>1, <2>5, <2>7, AfterBefore
  <2> QED BY <1>1, <2>4, <2>7, <2>8, CompareSelf
<1> QED
  BY <1>3, <1>4, <1>5

\* A creation is walked past, and the walk of the created thread begins.
LEMMA WalkedCreate ==
  ASSUME BuilderTypeOK, Kept, UNCHANGED solreg, NEW w, NEW mem, Explained(w, mem), NEW i \in Tid,
         frontier[i] # Nil, Frontier(i).op = "CREATE",
         frontier' = [frontier EXCEPT ![i] = IncrementTop(frontier[i]),
                                      ![Frontier(i).tid] = FirstPoint]
  PROVE  \E w2 : Explained(w2, mem)'
<1>1. /\ Ways(w) /\ Listed(w) /\ AtFront(w) /\ Creations(w) /\ Memories(mem) /\ Rows
      /\ w \in [Tid -> Seq(Config)]
  BY DEF Explained, Ways
<1>2. Rows' /\ Memories(mem)' /\ Grown /\ order' = order /\ NewOnes(i) /\ Len(order) \in Nat
  BY <1>1, KeptFacts
<1>3. /\ encoded' = encoded /\ solreg' = solreg
      /\ frontier \in [Tid -> Point \cup {Nil}] /\ solreg \in [Tid -> Val]
  BY DEF Kept, BuilderTypeOK
<1>4. /\ w[i] # <<>>
      /\ Len(w[i]) \in DOMAIN w[i] /\ DOMAIN w[i] = 1 .. Len(w[i]) /\ Len(w[i]) \in Nat \ {0}
  BY <1>1, FrontPlace DEF AtFront
<1>5. PICK p \in Config :
        /\ p = LastPlace(w, i) /\ p.point \in BlockPoint /\ p.point \in Point
        /\ p.reg \in Val /\ p.time \in Nat
        /\ frontier[i] = p.point /\ solreg[i] = p.reg
        /\ p.time <= Len(order) /\ Quiet(i, p.time, Len(order))
  BY <1>1, FrontPlace DEF AtFront
<1>6. PICK c : c = Frontier(i).tid
  OBVIOUS
<1>7. /\ c \in Tid \ {0} /\ i < c /\ w[c] = <<>> /\ i # c
      /\ Instr(i, p.point) = [op |-> "CREATE", tid |-> c]
  <2>1. p.point = w[i][Len(w[i])].point /\ Len(w[i]) + 1 \notin DOMAIN w[i]
    BY <1>4, <1>5 DEF LastPlace
  <2>2. c = Instr(i, p.point).tid /\ Instr(i, p.point).op = "CREATE"
    BY <1>5, <1>6 DEF Frontier
  <2>3. /\ c \in Tid \ {0} /\ i < c /\ w[c] = <<>>
        /\ Instr(i, p.point) = [op |-> "CREATE", tid |-> c]
    BY <1>1, <1>4, <2>1, <2>2, CreatesNew
  <2>4. i # c
    BY <2>3, ProgramAssumption DEF Tid
  <2> QED BY <2>3, <2>4
<1>8. /\ frontier'[i] = IncrementTop(p.point) /\ frontier'[c] = FirstPoint
      /\ \A t \in Tid : t # i /\ t # c => frontier'[t] = frontier[t]
  BY <1>3, <1>5, <1>6, <1>7
<1>9. PICK d, e : /\ d = [point |-> IncrementTop(p.point), reg |-> p.reg, time |-> p.time]
                  /\ e = [point |-> FirstPoint, reg |-> 0, time |-> p.time]
  OBVIOUS
<1>10. /\ d \in Config /\ d.point = IncrementTop(p.point) /\ d.reg = p.reg /\ d.time = p.time
       /\ e \in Config /\ e.point = FirstPoint /\ e.reg = 0 /\ e.time = p.time
       /\ FirstPoint # Nil
  <2>1. FirstPoint # Nil
    BY FirstPointBlock, BlockTop, EmptySeq DEF Nil, Point
  <2> QED BY <1>5, <1>9, <2>1, MovesAhead, FirstPointBlock, ProgramAssumption DEF Config, Val
<1>11. PICK w1, w2 : w1 = Longer(w, i, d) /\ w2 = [w1 EXCEPT ![c] = <<e>>]
  OBVIOUS
<1>12. Extended(w1, w, i, d)
  BY <1>1, <1>4, <1>10, <1>11, WayAppended
<1>13. Started(w2, w1, c, e)
  <2>1. w1 \in [Tid -> Seq(Config)] /\ w1[c] = <<>>
    BY <1>7, <1>12 DEF Extended
  <2> QED BY <1>7, <1>10, <1>11, <2>1, WayStarted
<1>14. /\ \A t \in Tid : t # i /\ t # c => w2[t] = w[t]
       /\ w2[i] = w1[i] /\ LastPlace(w2, c) = e /\ w2[c] # <<>> /\ w2[c][1] = e
       /\ DOMAIN w2[c] = {1}
  BY <1>7, <1>12, <1>13 DEF Extended, Started
<1>15. Continues(w2, w)
  BY <1>12, <1>13 DEF Extended, Started, Continues
<1>16. Ways(w2)'
  <2>1. WalksTo(i, p, d)'
    BY <1>5, <1>7, <1>10 DEF WalksTo, Access
  <2>2. Ways(w1)'
    BY <1>1, <1>2, <1>4, <1>5, <1>10, <1>11, <2>1, WaysContinue
  <2>3. w1[c] = <<>>
    BY <1>7, <1>12 DEF Extended
  <2> QED BY <1>7, <1>10, <1>13, <2>2, <2>3, WaysStart
<1>17. Listed(w2)'
  BY <1>1, <1>2, <1>15, ListedContinues DEF Listed
<1>18. AtFront(w2)'
  <2>1. FrontOf(w2, i)'
    <3>1. d.time <= Len(order') /\ Quiet(i, d.time, Len(order))'
      BY <1>2, <1>5, <1>10 DEF Quiet
    <3>2. FrontOf(w1, i)'
      BY <1>3, <1>5, <1>8, <1>10, <1>12, <3>1, FrontMoves
    <3> QED BY <1>14, <3>2 DEF FrontOf, LastPlace
  <2>2. FrontOf(w2, c)'
    <3>1. solreg'[c] = 0
      BY <1>1, <1>3, <1>7 DEF AtFront, FrontOf
    <3>2. e.time <= Len(order') /\ Quiet(c, e.time, Len(order))'
      BY <1>1, <1>2, <1>5, <1>7, <1>10, UnwalkedQuiet DEF Quiet
    <3>3. w2[c][Len(w2[c])] = e /\ w2[c] # <<>>
      BY <1>14 DEF LastPlace
    <3> QED BY <1>8, <1>10, <3>1, <3>2, <3>3 DEF FrontOf, LastPlace
  <2>3. ASSUME NEW t \in Tid, t # i, t # c PROVE FrontOf(w2, t)'
    <3>1. frontier'[t] = frontier[t] /\ solreg'[t] = solreg[t] /\ w2[t] = w[t]
      BY <1>3, <1>8, <1>14, <2>3
    <3> QED BY <1>1, <1>2, <2>3, <3>1, FrontStays DEF AtFront
  <2> QED BY <2>1, <2>2, <2>3 DEF AtFront
<1>19. Creations(w2)
  <2>1. /\ Len(w[i]) \in DOMAIN w2[i] /\ Len(w[i]) + 1 \in DOMAIN w2[i]
        /\ w2[i][Len(w[i])] = p /\ DOMAIN w2[i] = 1 .. Len(w[i]) + 1
        /\ \A b \in DOMAIN w[i] : w2[i][b] = w[i][b]
    <3>1. /\ w2[i] = w1[i] /\ DOMAIN w1[i] = 1 .. Len(w[i]) + 1
          /\ \A b \in DOMAIN w[i] : w1[i][b] = w[i][b]
      BY <1>12, <1>14 DEF Extended
    <3>2. p = w[i][Len(w[i])] /\ Len(w[i]) \in DOMAIN w[i] /\ Len(w[i]) \in Nat \ {0}
      BY <1>4, <1>5 DEF LastPlace
    <3> QED BY <3>1, <3>2
  <2>2. ASSUME NEW t \in Tid \ {0}, w2[t] # <<>>
        PROVE  \E u \in Tid : \E b \in DOMAIN w2[u] :
                 /\ u < t /\ b + 1 \in DOMAIN w2[u]
                 /\ Instr(u, w2[u][b].point) = [op |-> "CREATE", tid |-> t]
                 /\ w2[u][b].time = w2[t][1].time
    <3>1. CASE t = c
      BY <1>7, <1>10, <1>14, <2>1, <3>1
    <3>2. CASE t # c
      <4>1. w[t] # <<>> /\ w2[t][1] = w[t][1]
        BY <1>12, <1>14, <2>2, <3>2 DEF Extended
      <4>2. PICK u \in Tid : \E b \in DOMAIN w[u] :
              /\ u < t /\ b + 1 \in DOMAIN w[u]
              /\ Instr(u, w[u][b].point) = [op |-> "CREATE", tid |-> t]
              /\ w[u][b].time = w[t][1].time
        BY <1>1, <4>1 DEF Creations
      <4>3. PICK b \in DOMAIN w[u] :
              /\ u < t /\ b + 1 \in DOMAIN w[u]
              /\ Instr(u, w[u][b].point) = [op |-> "CREATE", tid |-> t]
              /\ w[u][b].time = w[t][1].time
        BY <4>2
      <4>4. b \in DOMAIN w2[u] /\ b + 1 \in DOMAIN w2[u] /\ w2[u][b] = w[u][b]
        BY <1>15, <4>3 DEF Continues
      <4> QED BY <4>1, <4>3, <4>4
    <3> QED BY <3>1, <3>2
  <2>3. ASSUME NEW u \in Tid, NEW b \in DOMAIN w2[u],
               b + 1 \in DOMAIN w2[u], Instr(u, w2[u][b].point).op = "CREATE"
        PROVE  w2[Instr(u, w2[u][b].point).tid] # <<>>
    <3>1. CASE b \in DOMAIN w[u] /\ b + 1 \in DOMAIN w[u]
      <4>1. w2[u][b] = w[u][b] /\ w[u][b].point \in Point
        BY <1>1, <1>15, <3>1, PlaceFacts DEF Continues
      <4>2. Instr(u, w[u][b].point).tid \in Tid
        BY <2>3, <4>1, InstrType
      <4>3. w[Instr(u, w[u][b].point).tid] # <<>>
        BY <1>1, <2>3, <3>1, <4>1 DEF Creations
      <4> QED BY ZenonT(40), <1>12, <1>14, <4>1, <4>2, <4>3 DEF Extended
    <3>2. CASE u = i /\ b = Len(w[i])
      BY <1>7, <1>14, <2>1, <3>2
    <3>3. CASE u = c
      BY <1>14, <2>3, <3>3
    <3>4. u = i => b \in DOMAIN w[i] \/ b = Len(w[i]) + 1
      BY <1>4, <2>1
    <3> QED BY <1>4, <1>14, <2>1, <2>3, <3>1, <3>2, <3>3, <3>4
  <2> QED BY <2>2, <2>3 DEF Creations
<1> QED
  BY <1>2, <1>16, <1>17, <1>18, <1>19 DEF Explained, Creations

\* The walk of a thread is over.
LEMMA WalkedEnd ==
  ASSUME BuilderTypeOK, Kept, UNCHANGED solreg, NEW w, NEW mem, Explained(w, mem), NEW i \in Tid,
         frontier[i] # Nil, Frontier(i).op = "END",
         frontier' = [frontier EXCEPT ![i] = Nil]
  PROVE  Explained(w, mem)'
<1>1. /\ Ways(w) /\ Listed(w) /\ AtFront(w) /\ Creations(w) /\ Memories(mem) /\ Rows
  BY DEF Explained
<1>2. Rows' /\ Memories(mem)' /\ Grown /\ order' = order /\ NewOnes(i)
  BY <1>1, KeptFacts
<1>3. /\ encoded' = encoded /\ solreg' = solreg /\ frontier \in [Tid -> Point \cup {Nil}]
  BY DEF Kept, BuilderTypeOK
<1>4. Ways(w)'
  BY <1>1, <1>2, <1>3 DEF Ways, WalksTo, Outputs, Quiet, Access
<1>5. Listed(w)'
  BY <1>1, <1>2 DEF Listed
<1>6. AtFront(w)'
  <2>1. FrontOf(w, i)'
    BY <1>1, <1>2, <1>3 DEF AtFront, FrontOf, LastPlace, Frontier, Quiet, Grown
  <2>2. ASSUME NEW t \in Tid, t # i PROVE FrontOf(w, t)'
    BY <1>1, <1>2, <1>3, <2>2, FrontStays DEF AtFront
  <2> QED BY <2>1, <2>2 DEF AtFront
<1> QED
  BY <1>1, <1>2, <1>4, <1>5, <1>6 DEF Explained, Creations

--------------------------------------------------------------------------------
(***************************************************************************)
(* The earliest operation is ordered.                                      *)
(***************************************************************************)
\* What the builder does with the frontier of thread i in an SC build, its operation reading
\* or writing v.
Orders(i, v) ==
  LET ins == Frontier(i) IN
  /\ Access(i, frontier[i]) /\ v \in Val
  /\ v = IF ins.op = "STORE" THEN ins.val ELSE solmemory[ins.loc]
  /\ order' = Append(order, [tid |-> i, point |-> frontier[i], val |-> v])
  /\ solreg'[i] = (IF ins.op = "STORE" THEN solreg[i] ELSE v)
  /\ \A t \in Tid : t # i => solreg'[t] = solreg[t] /\ frontier'[t] = frontier[t]
                             /\ lastoperation'[t] = lastoperation[t]
  /\ frontier'[i] = IncrementTop(frontier[i])
  /\ lastoperation'[i] = frontier[i]
  /\ solmemory' = MemoryAfter(ins, v, solmemory)
  /\ \A t \in Tid : waitset'[t] = IF t = i THEN AddRow(waitset[i], OrderRow(frontier[i], i))
                                  ELSE waitset[t]
  /\ encoded' = encoded /\ storelastoperation' = storelastoperation /\ stores' = stores

\* Taking the first operation of the solution adds it to the order, with its row.
LEMMA OrderFrontierOrders ==
  ASSUME ~TSO, BuilderTypeOK, NEW i \in Tid, \A t \in Tid : stores[t] = <<>>,
         OrderFrontier(i), encoded' = encoded
  PROVE  \E v : Orders(i, v)
<1> DEFINE ins == Frontier(i)
           v == CASE ins.op = "LOAD"  -> ReadValue(stores[i], solmemory, ins.loc)
                  [] ins.op = "RMW"   -> solmemory[ins.loc]
                  [] ins.op = "STORE" -> ins.val
<1>1. frontier[i] \in Point /\ ins.op \in {"LOAD", "RMW", "STORE"} /\ Access(i, frontier[i])
  BY DEF OrderFrontier, AtMemoryOperation, BuilderTypeOK, Access, Frontier
<1>2. ins.loc \in Loc /\ (ins.op = "STORE" => ins.val \in Val)
  BY <1>1, InstrType DEF Frontier
<1>3. ReadValue(stores[i], solmemory, ins.loc) = solmemory[ins.loc]
  <2>1. DOMAIN stores[i] = {}
    OBVIOUS
  <2> QED BY <2>1 DEF ReadValue
<1>4. solmemory[ins.loc] \in Val
  BY <1>2 DEF BuilderTypeOK
<1>5. v = (IF ins.op = "STORE" THEN ins.val ELSE solmemory[ins.loc]) /\ v \in Val
  BY <1>1, <1>2, <1>3, <1>4
<1>6. /\ order' = Append(order, [tid |-> i, point |-> frontier[i], val |-> v])
      /\ solreg' = IF ins.op = "STORE" THEN solreg ELSE [solreg EXCEPT ![i] = v]
      /\ solmemory' = CASE ins.op = "LOAD"  -> solmemory
                        [] ins.op = "RMW"   -> [solmemory EXCEPT ![ins.loc] = RmwResult(ins, v)]
                        [] ins.op = "STORE" -> [solmemory EXCEPT ![ins.loc] = v]
      /\ AddOrderRow(i, frontier[i], FALSE)
      /\ frontier' = [frontier EXCEPT ![i] = IncrementTop(frontier[i])]
      /\ lastoperation' = [lastoperation EXCEPT ![i] = frontier[i]]
      /\ UNCHANGED <<stores, storelastoperation>>
  BY DEF OrderFrontier, GoTo
<1> HIDE DEF v
<1>7. \A t \in Tid : waitset'[t] = IF t = i THEN AddRow(waitset[i], OrderRow(frontier[i], i))
                                   ELSE waitset[t]
  BY <1>6 DEF AddOrderRow, RmwWaits
<1>8. /\ solreg'[i] = (IF ins.op = "STORE" THEN solreg[i] ELSE v)
      /\ \A t \in Tid : t # i => solreg'[t] = solreg[t] /\ frontier'[t] = frontier[t]
                                 /\ lastoperation'[t] = lastoperation[t]
      /\ frontier'[i] = IncrementTop(frontier[i])
      /\ lastoperation'[i] = frontier[i]
  BY <1>6 DEF BuilderTypeOK
<1>9. solmemory' = MemoryAfter(ins, v, solmemory)
  BY <1>6 DEF MemoryAfter
<1>10. Orders(i, v)
  BY <1>1, <1>5, <1>6, <1>7, <1>8, <1>9 DEF Orders
<1> QED
  BY <1>10

\* The new operation is the last one of the order.
LEMMA OrdersFacts ==
  ASSUME BuilderTypeOK, NEW i \in Tid, NEW v, Orders(i, v)
  PROVE  /\ Grown /\ NewOnes(i) /\ Len(order) \in Nat /\ Len(order') = Len(order) + 1
         /\ DOMAIN order = 1 .. Len(order) /\ DOMAIN order' = 1 .. Len(order) + 1
         /\ \A n \in DOMAIN order : order'[n] = order[n]
         /\ order'[Len(order) + 1] = [tid |-> i, point |-> frontier[i], val |-> v]
         /\ \A n \in DOMAIN order : order[n] \in Event /\ order[n].tid \in Tid
         /\ frontier[i] \in Point
<1>1. frontier[i] \in Point
  <2>1. Nil \notin DOMAIN Code[i]
    BY ProgramAssumption DEF Nil, Point
  <2>2. frontier[i] # Nil
    BY <2>1 DEF Orders, Access, Instr
  <2> QED BY <2>2 DEF BuilderTypeOK
<1>2. PICK e : e = [tid |-> i, point |-> frontier[i], val |-> v]
  OBVIOUS
<1>3. e \in Event /\ e.tid = i /\ order' = Append(order, e) /\ order \in Seq(Event)
  BY <1>1, <1>2 DEF Event, Orders, BuilderTypeOK
<1>4. /\ Len(order) \in Nat /\ Len(order') = Len(order) + 1
      /\ DOMAIN order = 1 .. Len(order) /\ DOMAIN order' = 1 .. Len(order) + 1
      /\ \A n \in DOMAIN order : order'[n] = order[n]
      /\ order'[Len(order) + 1] = e
  BY <1>3, Appended
<1>5. Grown
  BY <1>3 DEF Grown, Orders
<1>6. NewOnes(i)
  BY <1>3, <1>4 DEF NewOnes
<1>7. \A n \in DOMAIN order : order[n] \in Event /\ order[n].tid \in Tid
  <2>1. \A n \in DOMAIN order : order[n] \in Event
    BY <1>3
  <2> QED BY <2>1 DEF Event
<1> QED
  BY <1>1, <1>2, <1>4, <1>5, <1>6, <1>7

\* The memory it leaves is the next one.
LEMMA MemoriesContinue ==
  ASSUME BuilderTypeOK, NEW mem, Memories(mem), NEW i \in Tid, NEW v, Orders(i, v),
         solmemory' \in [Loc -> Val],
         NEW mem2, mem2 = [n \in 0 .. Len(order) + 1 |->
                             IF n = Len(order) + 1 THEN solmemory' ELSE mem[n]]
  PROVE  Memories(mem2)'
<1>1. /\ Len(order) \in Nat /\ Len(order') = Len(order) + 1
      /\ DOMAIN order = 1 .. Len(order) /\ DOMAIN order' = 1 .. Len(order) + 1
      /\ \A n \in DOMAIN order : order'[n] = order[n]
      /\ order'[Len(order) + 1] = [tid |-> i, point |-> frontier[i], val |-> v]
  BY OrdersFacts
<1>2. /\ mem \in [0 .. Len(order) -> [Loc -> Val]]
      /\ mem[0] = [l \in Loc |-> 0] /\ mem[Len(order)] = solmemory
  BY DEF Memories
<1>3. /\ mem2 \in [0 .. Len(order') -> [Loc -> Val]] /\ mem2[Len(order')] = solmemory'
      /\ \A n \in 0 .. Len(order) : mem2[n] = mem[n]
  BY <1>1, <1>2
<1>4. mem2[0] = [l \in Loc |-> 0]
  BY <1>1, <1>2, <1>3
<1>5. ASSUME NEW n \in DOMAIN order'
      PROVE  LET ins == Instr(order'[n].tid, order'[n].point) IN
             /\ order'[n].val = IF ins.op = "STORE" THEN ins.val ELSE mem2[n - 1][ins.loc]
             /\ mem2[n] = MemoryAfter(ins, order'[n].val, mem2[n - 1])
  <2>1. CASE n \in DOMAIN order
    <3>1. n \in 0 .. Len(order) /\ n - 1 \in 0 .. Len(order)
      BY <1>1, <2>1
    <3> QED BY <1>1, <1>3, <2>1, <3>1 DEF Memories
  <2>2. CASE n = Len(order) + 1
    <3>1. n - 1 = Len(order) /\ mem2[n - 1] = solmemory /\ mem2[n] = solmemory'
      <4>1. n - 1 = Len(order) /\ Len(order) \in 0 .. Len(order) /\ n = Len(order')
        BY <1>1, <2>2
      <4> QED BY <1>2, <1>3, <4>1
    <3>2. order'[n].tid = i /\ order'[n].point = frontier[i] /\ order'[n].val = v
      BY <1>1, <2>2
    <3> QED BY <3>1, <3>2 DEF Orders, Frontier
  <2> QED BY <1>1, <2>1, <2>2
<1> QED
  BY <1>3, <1>4, <1>5 DEF Memories

\* What a thread has last, when it has an operation, is the point of one.
LEMMA LastIsOne ==
  ASSUME order \in Seq(Event), NEW k, NEW w, NEW n \in Int, LastAt(k, w, n),
         NEW m \in DOMAIN order, order[m].tid = k, m <= n
  PROVE  w # Nil
<1>1. m > 0
  OBVIOUS
<1>2. ~Quiet(k, 0, n)
  BY <1>1 DEF Quiet
<1>3. PICK h \in DOMAIN order : order[h].point = w
  BY <1>2 DEF LastAt
<1>4. order[h] \in Event
  OBVIOUS
<1> QED
  BY <1>3, <1>4, EmptySeq DEF Event, Point, Nil

\* The rows still ask for the last operations, and the new operation has a row if any other
\* thread has an operation before it.
LEMMA RowsContinue ==
  ASSUME BuilderTypeOK, waitset \in [Tid -> Seq(Row)], NEW w, Ways(w), Listed(w), Rows,
         NEW i \in Tid, frontier[i] # Nil, FrontOf(w, i), NEW v, Orders(i, v)
  PROVE  Rows'
<1>0. PICK N, row, op : N = Len(order) + 1 /\ row = OrderRow(frontier[i], i) /\ op = row.op
  OBVIOUS
<1>1. /\ N \in Nat /\ N - 1 = Len(order)
      /\ Grown /\ NewOnes(i) /\ Len(order) \in Nat /\ Len(order') = Len(order) + 1
      /\ DOMAIN order = 1 .. Len(order) /\ DOMAIN order' = 1 .. Len(order) + 1
      /\ \A n \in DOMAIN order : order'[n] = order[n]
      /\ order'[N] = [tid |-> i, point |-> frontier[i], val |-> v]
      /\ \A n \in DOMAIN order : order[n] \in Event /\ order[n].tid \in Tid
      /\ frontier[i] \in Point
  BY <1>0, OrdersFacts
<1>2. /\ \A t \in Tid : LastAt(t, lastoperation[t], Len(order))
      /\ storelastoperation = AllNil /\ \A t \in Tid : stores[t] = <<>>
      /\ lastoperation \in [Tid -> Point \cup {Nil}] /\ order \in Seq(Event)
  BY DEF Rows, BuilderTypeOK
<1>3. /\ waitset'[i] = AddRow(waitset[i], row)
      /\ \A t \in Tid : t # i => waitset'[t] = waitset[t] /\ lastoperation'[t] = lastoperation[t]
      /\ lastoperation'[i] = frontier[i]
      /\ storelastoperation' = storelastoperation /\ stores' = stores
  BY <1>0 DEF Orders
<1>4. /\ row = [stop |-> frontier[i], op |-> [lastoperation EXCEPT ![i] = Nil], st |-> AllNil]
      /\ row \in Row
  <2>1. row = [stop |-> frontier[i], op |-> [lastoperation EXCEPT ![i] = Nil], st |-> AllNil]
    BY <1>0, <1>2 DEF OrderRow
  <2>2. [lastoperation EXCEPT ![i] = Nil] \in [Tid -> Point \cup {Nil}]
        /\ AllNil \in [Tid -> Point \cup {Nil}]
    BY <1>2 DEF AllNil
  <2> QED BY <1>1, <2>1, <2>2 DEF Row
<1>5. row.stop = frontier[i] /\ row.st = AllNil /\ op[i] = Nil
      /\ \A k \in Tid : k # i => op[k] = lastoperation[k]
  BY <1>0, <1>2, <1>4
<1>6. /\ waitset[i] \in Seq(Row) /\ Len(waitset[i]) \in Nat
      /\ DOMAIN waitset[i] = 1 .. Len(waitset[i])
      /\ \/ waitset'[i] = waitset[i] /\ op = AllNil
         \/ /\ DOMAIN waitset'[i] = 1 .. Len(waitset[i]) + 1
            /\ \A j \in DOMAIN waitset[i] : waitset'[i][j] = waitset[i][j]
            /\ waitset'[i][Len(waitset[i]) + 1] = row
  <2>1. waitset[i] \in Seq(Row)
    OBVIOUS
  <2>2. CASE row.op = AllNil /\ row.st = AllNil
    BY <1>0, <1>3, <2>1, <2>2 DEF AddRow
  <2>3. CASE ~(row.op = AllNil /\ row.st = AllNil)
    <3>1. waitset'[i] = Append(waitset[i], row)
      BY <1>3, <2>3 DEF AddRow
    <3> QED BY <1>4, <2>1, <3>1, Appended
  <2> QED BY <2>2, <2>3
<1>7. ASSUME NEW t \in Tid, NEW j \in DOMAIN waitset[t]
      PROVE  j \in DOMAIN waitset'[t] /\ waitset'[t][j] = waitset[t][j]
  <2>1. CASE t = i
    BY <1>6, <2>1
  <2>2. CASE t # i
    BY <1>3, <2>2
  <2> QED BY <2>1, <2>2
<1>8. ASSUME NEW t \in Tid, NEW j \in DOMAIN waitset'[t], j \notin DOMAIN waitset[t]
      PROVE  t = i /\ j = Len(waitset[i]) + 1 /\ waitset'[t][j] = row
  <2>1. t = i
    BY <1>3, <1>8
  <2> QED BY <1>6, <1>8, <2>1
<1>10. RowOf(row, i, N)'
  <2>1. \A k \in Tid : k # i => LastAt(k, op[k], N - 1)'
    <3>1. N - 1 \in Int /\ N - 1 <= Len(order)
      BY <1>1
    <3> QED BY <1>1, <1>2, <1>5, <3>1, LastStays
  <2> QED BY <1>0, <1>1, <1>5, <2>1 DEF RowOf
<1>11. ASSUME NEW t \in Tid, NEW j \in DOMAIN waitset'[t], NEW r, r = waitset'[t][j]
       PROVE  \E n \in DOMAIN order' : RowOf(r, t, n)'
  <2>1. CASE j \in DOMAIN waitset[t]
    <3>1. PICK n \in DOMAIN order : RowOf(r, t, n)
      BY <1>7, <1>11, <2>1 DEF Rows
    <3>2. n \in DOMAIN order' /\ order'[n] = order[n] /\ n - 1 \in Int /\ n - 1 <= Len(order)
      BY <1>1
    <3>3. \A k \in Tid : k # t => LastAt(k, r.op[k], n - 1)'
      BY <1>1, <3>1, <3>2, LastStays DEF RowOf
    <3>4. RowOf(r, t, n)'
      BY <3>1, <3>2, <3>3 DEF RowOf
    <3> QED BY <3>2, <3>4
  <2>2. CASE j \notin DOMAIN waitset[t]
    <3>1. t = i /\ r = row /\ N \in DOMAIN order'
      BY <1>0, <1>1, <1>8, <1>11, <2>2
    <3> QED BY <1>10, <3>1
  <2> QED BY <2>1, <2>2
<1>12. ASSUME NEW m \in DOMAIN order', NEW n \in DOMAIN order', m < n,
              order'[m].tid # order'[n].tid
       PROVE  \E j \in DOMAIN waitset'[order'[n].tid] :
                waitset'[order'[n].tid][j].stop = order'[n].point
  <2>1. CASE n \in DOMAIN order
    <3>1. m \in DOMAIN order /\ order'[m] = order[m] /\ order'[n] = order[n] /\ order[n].tid \in Tid
      BY <1>1, <1>12, <2>1
    <3>2. PICK j \in DOMAIN waitset[order[n].tid] : waitset[order[n].tid][j].stop = order[n].point
      BY <1>12, <2>1, <3>1 DEF Rows
    <3> QED BY <1>7, <3>1, <3>2
  <2>2. CASE n = N
    <3>1. m \in DOMAIN order /\ order'[m] = order[m] /\ order[m].tid # i /\ order[m].tid \in Tid
          /\ m <= Len(order)
      BY <1>1, <1>12, <2>2
    <3>2. lastoperation[order[m].tid] # Nil
      BY <1>1, <1>2, <3>1, LastIsOne
    <3>3. op # AllNil
      BY <1>5, <3>1, <3>2 DEF AllNil
    <3>4. Len(waitset[i]) + 1 \in DOMAIN waitset'[i] /\ waitset'[i][Len(waitset[i]) + 1] = row
      BY <1>6, <3>3
    <3>5. order'[n].tid = i /\ order'[n].point = row.stop
      BY <1>1, <1>5, <2>2
    <3> QED BY <3>4, <3>5
  <2> QED BY <1>1, <2>1, <2>2
<1>13. ASSUME NEW t \in Tid, NEW j \in DOMAIN waitset'[t], NEW k \in DOMAIN waitset'[t], j < k
       PROVE  Compare(waitset'[t][j].stop, waitset'[t][k].stop) = "AFTER"
  <2>1. CASE k \in DOMAIN waitset[t]
    <3>1. j \in DOMAIN waitset[t]
      BY <1>6, <1>8, <1>13, <2>1
    <3> QED BY <1>7, <1>13, <2>1, <3>1 DEF Rows
  <2>2. CASE k \notin DOMAIN waitset[t]
    <3>1. t = i /\ waitset'[t][k].stop = frontier[i] /\ j \in DOMAIN waitset[i]
          /\ waitset'[t][j] = waitset[i][j]
      BY <1>5, <1>6, <1>7, <1>8, <1>13, <2>2
    <3>2. PICK n \in DOMAIN order : order[n].tid = i /\ order[n].point = waitset[i][j].stop
      BY <3>1 DEF Rows, RowOf
    <3>3. PICK b \in DOMAIN w[i] : b + 1 \in DOMAIN w[i] /\ w[i][b].point = waitset[i][j].stop
      BY <3>2 DEF Listed
    <3>4. /\ Len(w[i]) \in DOMAIN w[i] /\ DOMAIN w[i] = 1 .. Len(w[i]) /\ Len(w[i]) \in Nat
          /\ w[i][Len(w[i])].point = frontier[i]
      BY FrontPlace DEF LastPlace
    <3>5. b < Len(w[i])
      BY <3>3, <3>4
    <3>6. Compare(w[i][b].point, w[i][Len(w[i])].point) = "AFTER"
      BY <3>3, <3>4, <3>5 DEF Ways
    <3> QED BY <3>1, <3>3, <3>4, <3>6
  <2> QED BY <2>1, <2>2
<1>14. ASSUME NEW t \in Tid, NEW x, x = lastoperation'[t] PROVE LastAt(t, x, N)'
  <2>1. CASE t = i
    <3>1. N \in DOMAIN order' /\ N <= N /\ Quiet(i, N, N)'
      BY <1>0, <1>1 DEF Quiet
    <3> QED BY <1>1, <1>3, <1>14, <2>1, <3>1 DEF LastAt
  <2>2. CASE t # i
    <3>1. LastAt(t, x, N - 1)'
      <4>1. LastAt(t, x, N - 1) /\ N - 1 \in Int /\ N - 1 <= Len(order)
        BY <1>1, <1>2, <1>3, <1>14, <2>2
      <4> QED BY <1>1, <4>1, LastStays
    <3>2. \A a : Quiet(t, a, N - 1)' => Quiet(t, a, N)'
      BY <1>0, <1>1, <2>2 DEF Quiet
    <3>3. \A m \in DOMAIN order' : m <= N - 1 => m <= N
      BY <1>1
    <3> QED BY <3>1, <3>2, <3>3 DEF LastAt
  <2> QED BY <2>1, <2>2
<1>15. \A t \in Tid : LastAt(t, lastoperation[t], Len(order))'
  <2>1. N = Len(order')
    BY <1>0, <1>1
  <2> QED BY <1>14, <2>1
<1>16. \A t \in Tid : \A j \in DOMAIN waitset'[t] : \E n \in DOMAIN order' :
         \E r : r = waitset'[t][j] /\ RowOf(r, t, n)'
  BY <1>11
<1> QED
  BY <1>2, <1>3, <1>12, <1>13, <1>15, <1>16 DEF Rows

\* The walk goes past the operation that has been ordered.
LEMMA OrderedOne ==
  ASSUME BuilderTypeOK, waitset \in [Tid -> Seq(Row)], solmemory' \in [Loc -> Val],
         NEW w, NEW mem, Explained(w, mem), NEW i \in Tid, frontier[i] # Nil,
         NEW v, Orders(i, v)
  PROVE  \E w2, mem2 : Explained(w2, mem2)'
<1>0. PICK N : N = Len(order) + 1
  OBVIOUS
<1>1. /\ Ways(w) /\ Listed(w) /\ AtFront(w) /\ Creations(w) /\ Memories(mem) /\ Rows
      /\ w \in [Tid -> Seq(Config)] /\ FrontOf(w, i)
  BY DEF Explained, Ways, AtFront
<1>2. /\ N \in Nat /\ N - 1 = Len(order)
      /\ Grown /\ NewOnes(i) /\ Len(order') = N
      /\ N \in DOMAIN order' /\ DOMAIN order' = 1 .. N
      /\ \A n \in DOMAIN order' : n # N => n \in DOMAIN order
      /\ order'[N] = [tid |-> i, point |-> frontier[i], val |-> v]
      /\ frontier[i] \in Point
  BY <1>0, OrdersFacts
<1>3. PICK p \in Config :
        /\ p = LastPlace(w, i) /\ p.point \in BlockPoint /\ p.point \in Point
        /\ p.reg \in Val /\ p.time \in Nat
        /\ frontier[i] = p.point /\ solreg[i] = p.reg
        /\ p.time <= N - 1 /\ Quiet(i, p.time, N - 1)
  BY <1>1, <1>2, FrontPlace
<1>4. /\ w[i] # <<>>
      /\ Len(w[i]) \in DOMAIN w[i] /\ DOMAIN w[i] = 1 .. Len(w[i]) /\ Len(w[i]) \in Nat \ {0}
  BY <1>1, FrontPlace
<1>5. PICK ins : ins = Instr(i, p.point)
  OBVIOUS
<1>6. /\ ins.op \in {"LOAD", "RMW", "STORE"} /\ Access(i, p.point)
      /\ v \in Val
      /\ solreg'[i] = (IF ins.op = "STORE" THEN p.reg ELSE v)
      /\ frontier'[i] = IncrementTop(p.point)
      /\ \A t \in Tid : t # i => frontier'[t] = frontier[t] /\ solreg'[t] = solreg[t]
  BY <1>3, <1>5 DEF Orders, Frontier, Access
<1>7. PICK d : d = [point |-> frontier'[i], reg |-> solreg'[i], time |-> N]
  OBVIOUS
<1>8. /\ d \in Config /\ d.point = IncrementTop(p.point) /\ d.time = N
      /\ d.point = frontier'[i] /\ d.reg = solreg'[i]
      /\ d.reg = IF ins.op = "STORE" THEN p.reg ELSE v
  <2>1. IncrementTop(p.point) \in BlockPoint /\ solreg'[i] \in Val
    BY <1>3, <1>6, MovesAhead
  <2> QED BY <1>2, <1>6, <1>7, <2>1 DEF Config
<1>9. WalksTo(i, p, d)'
  <2>1. p.time < N /\ N - 1 \in Int /\ N - 1 <= Len(order)
    BY <1>2, <1>3
  <2>2. Quiet(i, p.time, N - 1)'
    BY <1>2, <1>3, <2>1, QuietStays
  <2>3. order'[N].tid = i /\ order'[N].point = p.point /\ order'[N].val = v
    BY <1>2, <1>3
  <2>4. ins.op # "END" /\ ins.op # "MERGE" /\ ins.op # "BRANCH"
    BY <1>6
  <2> QED BY <1>2, <1>5, <1>6, <1>8, <2>1, <2>2, <2>3, <2>4 DEF WalksTo, Access
<1>10. PICK w2, mem2 : /\ w2 = Longer(w, i, d)
                       /\ mem2 = [n \in 0 .. Len(order) + 1 |->
                                    IF n = Len(order) + 1 THEN solmemory' ELSE mem[n]]
  OBVIOUS
<1>11. Extended(w2, w, i, d)
  BY <1>1, <1>4, <1>8, <1>10, WayAppended
<1>12. Ways(w2)'
  <2>1. WalksTo(i, LastPlace(w, i), d)'
    BY <1>3, <1>9
  <2> QED BY <1>1, <1>2, <1>4, <1>8, <1>10, <2>1, WaysContinue
<1>13. Listed(w2)'
  <2>1. ASSUME NEW n \in DOMAIN order
        PROVE  \E b \in DOMAIN w2[order'[n].tid] :
                 /\ b + 1 \in DOMAIN w2[order'[n].tid]
                 /\ w2[order'[n].tid][b + 1].time = n
                 /\ w2[order'[n].tid][b].point = order'[n].point
                 /\ Access(order'[n].tid, order'[n].point)
    <3>1. Continues(w2, w)
      BY <1>11 DEF Extended
    <3> QED BY <1>1, <1>2, <3>1, ListedContinues
  <2>2. /\ Len(w[i]) \in DOMAIN w2[i] /\ Len(w[i]) + 1 \in DOMAIN w2[i]
        /\ w2[i][Len(w[i]) + 1].time = N /\ w2[i][Len(w[i])].point = p.point
    <3>1. /\ DOMAIN w2[i] = 1 .. Len(w[i]) + 1
          /\ \A b \in DOMAIN w[i] : w2[i][b] = w[i][b]
          /\ w2[i][Len(w[i]) + 1] = d
      BY <1>11 DEF Extended
    <3>2. p = w[i][Len(w[i])] /\ Len(w[i]) \in DOMAIN w[i] /\ Len(w[i]) \in Nat \ {0}
      BY <1>3, <1>4 DEF LastPlace
    <3>3. Len(w[i]) \in DOMAIN w2[i] /\ Len(w[i]) + 1 \in DOMAIN w2[i] /\ w2[i][Len(w[i])] = p
      BY <3>1, <3>2
    <3> QED BY <1>8, <3>1, <3>3
  <2>3. order'[N].tid = i /\ order'[N].point = p.point
    BY <1>2, <1>3
  <2>4. \E b \in DOMAIN w2[order'[N].tid] :
          /\ b + 1 \in DOMAIN w2[order'[N].tid]
          /\ w2[order'[N].tid][b + 1].time = N
          /\ w2[order'[N].tid][b].point = order'[N].point
          /\ Access(order'[N].tid, order'[N].point)
    BY <1>6, <2>2, <2>3
  <2> QED BY <1>2, <2>1, <2>4 DEF Listed, Access
<1>14. AtFront(w2)'
  <2>1. FrontOf(w2, i)'
    <3>1. d.time <= Len(order') /\ Quiet(i, d.time, Len(order))'
      BY <1>2, <1>8 DEF Quiet
    <3> QED BY <1>8, <1>11, <3>1, FrontMoves
  <2>2. ASSUME NEW t \in Tid, t # i PROVE FrontOf(w2, t)'
    <3>1. frontier'[t] = frontier[t] /\ solreg'[t] = solreg[t] /\ w2[t] = w[t]
      BY <1>6, <1>11, <2>2 DEF Extended
    <3> QED BY <1>1, <1>2, <2>2, <3>1, FrontStays DEF AtFront
  <2> QED BY <2>1, <2>2 DEF AtFront
<1>15. Creations(w2)
  <2>1. Instr(i, LastPlace(w, i).point).op # "CREATE"
    BY <1>3, <1>5, <1>6
  <2> QED BY <1>1, <1>4, <1>8, <1>10, <2>1, CreationsContinue
<1>16. Memories(mem2)'
  BY <1>1, <1>10, MemoriesContinue
<1>17. Rows'
  BY <1>1, RowsContinue
<1> QED
  BY <1>12, <1>13, <1>14, <1>15, <1>16, <1>17 DEF Explained, Creations

\* Every turn of buildSchedule's loops, in an SC build.
LEMMA BuildExplained ==
  ASSUME ~TSO, IInv, Build, NEW w, NEW mem, Explained(w, mem)
  PROVE  \E w2, mem2 : Explained(w2, mem2)'
<1>1. BuilderTypeOK /\ waitset \in [Tid -> Seq(Row)]
  BY DEF IInv, TypeOK, SchedTypeOK
<1>2. BuilderTypeOK'
  BY BuildIInv DEF IInv, TypeOK
<1>3. \A t \in Tid : stores[t] = <<>>
  BY DEF Explained, Rows
<1>4. CASE Walk
  <2>1. PICK i \in Tid : \/ /\ \/ WalkPast(i) \/ WalkCreate(i) \/ WalkBranch(i) \/ WalkMerge(i)
                               \/ WalkEnd(i) \/ WalkStore(i) \/ WalkFence(i)
                            /\ UNCHANGED solreg
                         \/ WalkFunction(i)
    BY <1>4 DEF Walk
  <2>2. /\ UNCHANGED <<encoded, lastoperation, storelastoperation, order, solmemory>>
        /\ frontier[i] # Nil /\ ~AtMemoryOperation(i)
    BY <1>4, <2>1 DEF Walk, WalkPast, WalkCreate, WalkBranch, WalkMerge, WalkEnd, WalkStore,
       WalkFence, WalkFunction, Walking, CanWalk
  <2>3. ~Access(i, frontier[i]) /\ Frontier(i).op # "FENCE"
    <3>1. frontier[i] \in Point
      BY <1>1, <2>2 DEF BuilderTypeOK
    <3> QED BY <2>2, <3>1, InstrType DEF Access, AtMemoryOperation, Frontier
  <2>4. CASE (WalkPast(i) \/ WalkBranch(i) \/ WalkMerge(i)) /\ UNCHANGED solreg
    <3>1. Kept
      BY <2>2, <2>4 DEF Kept, WalkPast, WalkBranch, WalkMerge
    <3>2. /\ Frontier(i).op \notin {"END", "CREATE"}
          /\ frontier' = [frontier EXCEPT ![i] =
               CASE Frontier(i).op = "MERGE"  -> AfterMerge(frontier[i])
                 [] Frontier(i).op = "BRANCH" ->
                      IF [tid |-> i, point |-> frontier[i], dir |-> Direction(solreg[i])] \in encoded
                      THEN IntoBranch(frontier[i], Direction(solreg[i])) ELSE PastBranch(frontier[i])
                 [] OTHER -> IncrementTop(frontier[i])]
      BY <2>4 DEF WalkPast, WalkBranch, WalkMerge, GoTo
    <3>3. Computed(i)
      BY <1>1, <2>4 DEF Computed, BuilderTypeOK, WalkPast, WalkBranch, WalkMerge
    <3> QED BY <1>1, <2>2, <2>3, <3>1, <3>2, <3>3, WalkedOn
  <2>5. CASE WalkFunction(i)
    <3>1. Kept
      BY <2>2, <2>5 DEF Kept, WalkFunction
    <3>2. Frontier(i).op = "FUNCTION" /\ frontier' = [frontier EXCEPT ![i] = IncrementTop(frontier[i])]
      BY <2>5 DEF WalkFunction, GoTo
    <3>3. Computed(i)
      BY <1>1, <2>5 DEF Computed, Outputs, BuilderTypeOK, WalkFunction
    <3> QED BY <1>1, <2>2, <2>3, <3>1, <3>2, <3>3, WalkedOn
  <2>6. CASE WalkCreate(i) /\ UNCHANGED solreg
    <3>1. Kept /\ Frontier(i).op = "CREATE"
          /\ frontier' = [frontier EXCEPT ![i] = IncrementTop(frontier[i]),
                                          ![Frontier(i).tid] = FirstPoint]
      BY <2>2, <2>6 DEF Kept, WalkCreate
    <3> QED BY <1>1, <2>2, <2>6, <3>1, WalkedCreate
  <2>7. CASE WalkEnd(i) /\ UNCHANGED solreg
    <3>1. Kept /\ Frontier(i).op = "END" /\ frontier' = [frontier EXCEPT ![i] = Nil]
      BY <2>2, <2>7 DEF Kept, WalkEnd, GoTo
    <3> QED BY <1>1, <2>2, <2>7, <3>1, WalkedEnd
  <2>8. CASE WalkStore(i) \/ WalkFence(i)
    BY <2>3, <2>8 DEF WalkStore, WalkFence, Access, Frontier
  <2> QED BY <2>1, <2>4, <2>5, <2>6, <2>7, <2>8
<1>5. CASE TakeEarliest
  <2>1. PICK i \in Tid : OrderFrontier(i) \/ OrderStore(i)
    BY <1>5 DEF TakeEarliest
  <2>2. OrderFrontier(i) /\ encoded' = encoded
    BY <1>3, <1>5, <2>1 DEF OrderStore, TakeEarliest
  <2>3. frontier[i] # Nil
    BY <2>2 DEF OrderFrontier, AtMemoryOperation
  <2>4. PICK v : Orders(i, v)
    BY <1>1, <1>3, <2>2, OrderFrontierOrders
  <2>5. solmemory' \in [Loc -> Val]
    BY <1>2 DEF BuilderTypeOK
  <2> QED BY <1>1, <2>3, <2>4, <2>5, OrderedOne
<1> QED
  BY <1>4, <1>5 DEF Build

--------------------------------------------------------------------------------
(***************************************************************************)
(* The search for the next thread, and where the points of a walk are.     *)
(***************************************************************************)
\* The loop over the rows passes those that are passable and stops at the first that is not.
LEMMA NextIndexFacts ==
  ASSUME NEW rows \in Seq(Row), NEW index \in Nat \ {0}, NEW point,
         NEW i, i = NextIndex(rows, index, point)
  PROVE  /\ i \in Nat \ {0} /\ i >= index
         /\ \A j \in DOMAIN rows : index <= j /\ j < i => Passable(rows[j], point)
         /\ i <= Len(rows) => i \in DOMAIN rows /\ ~Passable(rows[i], point)
<1> DEFINE S == {j \in index .. Len(rows) : \A h \in index .. j : Passable(rows[h], point)}
           E == {j \in index .. Len(rows) + 1 : j = Len(rows) + 1 \/ ~Passable(rows[j], point)}
<1>1. Len(rows) \in Nat /\ DOMAIN rows = 1 .. Len(rows)
  OBVIOUS
<1>4. i = index + Cardinality(S)
  BY DEF NextIndex
<1>2. CASE index > Len(rows)
  <2>1. S = {}
    BY <1>1, <1>2
  <2> HIDE DEF S
  <2>2. i = index
    BY <1>4, <2>1, FS_EmptySet
  <2> QED BY <1>1, <1>2, <2>2
<1>3. CASE index <= Len(rows)
  <2>1. E # {} /\ E \in SUBSET Nat
    <3>1. Len(rows) + 1 \in E
      BY <1>1, <1>3
    <3> QED BY <1>1, <3>1
  <2>2. PICK e \in E : \A j \in E : e <= j
    BY <2>1, LeastNatural
  <2>3. /\ e \in index .. Len(rows) + 1
        /\ e = Len(rows) + 1 \/ ~Passable(rows[e], point)
        /\ \A j \in index .. Len(rows) : j < e => Passable(rows[j], point)
    BY <1>1, <2>2
  <2> HIDE DEF E
  <2>4. S = index .. e - 1
    <3>1. ASSUME NEW j \in S PROVE j \in index .. e - 1
      <4>1. j \in index .. Len(rows) /\ \A h \in index .. j : Passable(rows[h], point)
        OBVIOUS
      <4> QED BY <1>1, <2>3, <4>1
    <3>2. ASSUME NEW j \in index .. e - 1 PROVE j \in S
      <4>1. j \in index .. Len(rows)
        BY <1>1, <2>3
      <4>2. \A h \in index .. j : Passable(rows[h], point)
        BY <1>1, <2>3
      <4> QED BY <4>1, <4>2
    <3> QED BY <3>1, <3>2
  <2>5. Cardinality(S) = e - index
    <3> HIDE DEF S
    <3>1. index \in Int /\ e - 1 \in Int /\ e \in Int
      BY <1>1, <2>3
    <3>2. Cardinality(S) = IF index > e - 1 THEN 0 ELSE (e - 1) - index + 1
      BY <2>4, <3>1, FS_Interval
    <3> QED BY <2>3, <3>1, <3>2
  <2> HIDE DEF S
  <2>6. i = e /\ e \in Nat
    BY <1>4, <1>1, <2>3, <2>5
  <2> QED BY <1>1, <2>3, <2>6
<1> QED
  BY <1>1, <1>2, <1>3

\* Every thread that exists is asked in one of the slots.
LEMMA SlotOf ==
  ASSUME Prefix, NEW t \in Created, NEW k \in Created
  PROVE  \E s \in Slots : ~IsBuffer(s) /\ SlotTid(t, s) = k
<1>1. PICK n \in Nat \ {0} : n = NumCreated
  BY PrefixFacts
<1>2. t \in 0 .. n - 1 /\ k \in 0 .. n - 1
  BY <1>1, PrefixFacts
<1>3. PICK q : q = IF k > t THEN k - t ELSE k - t + n
  OBVIOUS
<1>4. q \in 1 .. n /\ (t + q = k \/ t + q = k + n)
  BY <1>2, <1>3
<1>5. (t + q) % n = k
  <2>1. k % n = k /\ (k + n) % n = k
    BY <1>2
  <2> QED BY <1>4, <2>1
<1>6. 2 * q \in 1 .. 2 * n /\ (2 * q) % 2 = 0 /\ (2 * q) \div 2 = q
  BY <1>4
<1> QED
  BY <1>1, <1>5, <1>6 DEF Slots, IsBuffer, SlotTid

\* The order of two places of a walk is that of their points.
LEMMA WayOrder ==
  ASSUME NEW w, Ways(w), NEW t \in Tid, NEW b \in DOMAIN w[t], NEW c \in DOMAIN w[t]
  PROVE  /\ b < c => Compare(w[t][b].point, w[t][c].point) = "AFTER"
         /\ b = c => Compare(w[t][b].point, w[t][c].point) = "EQUALS"
         /\ b > c => Compare(w[t][b].point, w[t][c].point) = "BEFORE"
         /\ b <= c => w[t][b].time <= w[t][c].time
         /\ b \in Nat /\ c \in Nat
<1>1. /\ w[t][b].point \in BlockPoint /\ w[t][c].point \in BlockPoint
      /\ w[t][b].point \in Point /\ w[t][b].time \in Nat /\ b \in Nat /\ c \in Nat
  BY PlaceFacts DEF Ways
<1>2. CASE b < c
  BY <1>1, <1>2 DEF Ways
<1>3. CASE b = c
  BY <1>1, <1>3, CompareSelf
<1>4. CASE b > c
  <2>1. Compare(w[t][c].point, w[t][b].point) = "AFTER"
    BY <1>1, <1>4 DEF Ways
  <2> QED BY <1>1, <1>4, <2>1, AfterBefore
<1> QED
  BY <1>1, <1>2, <1>3, <1>4

\* An operation of the order is made at a place of a walk.
LEMMA EventPlace ==
  ASSUME NEW w, Ways(w), Listed(w), order \in Seq(Event), NEW n \in DOMAIN order,
         NEW t, t = order[n].tid
  PROVE  /\ t \in Tid
         /\ \E b \in DOMAIN w[t] :
              /\ b + 1 \in DOMAIN w[t]
              /\ w[t][b].point = order[n].point /\ w[t][b + 1].time = n
              /\ w[t][b].time < n /\ Quiet(t, w[t][b].time, n - 1)
              /\ Access(t, order[n].point) /\ order[n].point \in BlockPoint
<1>1. t \in Tid /\ n \in Nat
  <2>1. order[n] \in Event /\ n \in Nat
    OBVIOUS
  <2> QED BY <2>1 DEF Event
<1>2. PICK b \in DOMAIN w[t] :
        /\ b + 1 \in DOMAIN w[t]
        /\ w[t][b + 1].time = n /\ w[t][b].point = order[n].point
        /\ Access(t, order[n].point)
  BY DEF Listed
<1>3. WalksTo(t, w[t][b], w[t][b + 1])
  BY <1>1, <1>2 DEF Ways
<1>4. w[t][b].point \in BlockPoint
  BY <1>1, PlaceFacts DEF Ways
<1>5. w[t][b].time < n /\ Quiet(t, w[t][b].time, n - 1)
  BY <1>2, <1>3 DEF WalksTo
<1> QED
  BY <1>1, <1>2, <1>4, <1>5

\* The operations of a thread are ordered as its points are.
LEMMA EventOrder ==
  ASSUME NEW w, Ways(w), Listed(w), order \in Seq(Event),
         NEW m \in DOMAIN order, NEW n \in DOMAIN order, order[m].tid = order[n].tid
  PROVE  /\ m < n => Compare(order[m].point, order[n].point) = "AFTER"
         /\ m > n => Compare(order[m].point, order[n].point) = "BEFORE"
         /\ order[m].point \in BlockPoint /\ order[n].point \in BlockPoint
         /\ m \in Nat /\ n \in Nat
<1>1. PICK t : t = order[m].tid /\ t = order[n].tid
  OBVIOUS
<1>2. t \in Tid /\ m \in Nat /\ n \in Nat
  BY <1>1, EventPlace
<1>3. PICK b \in DOMAIN w[t] :
        /\ b + 1 \in DOMAIN w[t] /\ w[t][b].point = order[m].point /\ w[t][b + 1].time = m
        /\ order[m].point \in BlockPoint
  BY <1>1, EventPlace
<1>4. PICK c \in DOMAIN w[t] :
        /\ c + 1 \in DOMAIN w[t] /\ w[t][c].point = order[n].point /\ w[t][c + 1].time = n
        /\ order[n].point \in BlockPoint
  BY <1>1, EventPlace
<1>5. b \in Nat /\ c \in Nat
  BY <1>2, WayOrder
<1>6. (b + 1 <= c + 1 => m <= n) /\ (c + 1 <= b + 1 => n <= m)
  BY <1>2, <1>3, <1>4, WayOrder
<1>7. (m < n => b < c) /\ (m > n => b > c)
  BY <1>2, <1>5, <1>6
<1> QED
  BY <1>2, <1>3, <1>4, <1>7, WayOrder

--------------------------------------------------------------------------------
(***************************************************************************)
(* check_preempt gives up only when every thread has finished.             *)
(***************************************************************************)
\* It has asked every running thread then, and read no thread that does not exist.
LEMMA NoneAsked ==
  ASSUME Prefix, NEW t \in Created, \A s \in Slots : ~Eligible(t, s) /\ ~Strays(t, s),
         NEW k \in Tid, status[k] = "running"
  PROVE  /\ Blocked(waitset[k], waitsetindex[k], execpoint[k])
         /\ ~ReadsUncreated(waitset[k], waitsetindex[k], execpoint[k])
<1>1. k \in Created
  BY DEF Created
<1>2. PICK s \in Slots : ~IsBuffer(s) /\ SlotTid(t, s) = k
  BY <1>1, SlotOf
<1>3. Asked(t, s)
  BY <1>2 DEF Asked
<1>4. SlotHolds(t, s, Blocked) /\ ~SlotHolds(t, s, ReadsUncreated)
  BY <1>2, <1>3 DEF Eligible, Strays
<1> QED
  BY <1>2, <1>4 DEF SlotHolds

\* A thread that is blocked waits for one that has an earlier operation before it, is there and
\* runs.
LEMMA BlockedWaits ==
  ASSUME ~TSO, IInv, Threads, NEW w, Ways(w), Listed(w), Rows, NEW k \in Tid,
         status[k] = "running", Blocked(waitset[k], waitsetindex[k], execpoint[k]),
         ~ReadsUncreated(waitset[k], waitsetindex[k], execpoint[k])
  PROVE  \E n \in DOMAIN order :
           /\ order[n].tid = k /\ Compare(order[n].point, execpoint[k]) = "EQUALS"
           /\ \E h \in Tid, m \in DOMAIN order :
                /\ status[h] = "running" /\ order[m].tid = h /\ m < n
                /\ ~Past(execpoint[h], order[m].point)
<1>1. /\ waitset[k] \in Seq(Row) /\ waitsetindex[k] \in Nat \ {0} /\ order \in Seq(Event)
      /\ status \in [Tid -> {"unborn", "running", "complete"}]
      /\ \A h \in Tid : storebuffer[h] = <<>>
  BY DEF IInv, TypeOK, SchedTypeOK, Threads, BuilderTypeOK, ExecTypeOK
<1>2. PICK i : i = NextIndex(waitset[k], waitsetindex[k], execpoint[k])
  OBVIOUS
<1>3. i <= Len(waitset[k]) /\ AtStop(waitset[k][i], execpoint[k])
  BY <1>2 DEF Blocked
<1>4. i \in DOMAIN waitset[k] /\ ~Passable(waitset[k][i], execpoint[k])
  BY <1>1, <1>2, <1>3, NextIndexFacts
<1>5. PICK row : row = waitset[k][i]
  OBVIOUS
<1>6. PICK n \in DOMAIN order : RowOf(row, k, n)
  BY <1>4, <1>5 DEF Rows
<1>7. order[n].tid = k /\ Compare(order[n].point, execpoint[k]) = "EQUALS"
  BY <1>3, <1>5, <1>6 DEF RowOf, AtStop
<1>8. PICK h \in Tid : /\ ~WaitsResolved(row, h)
                       /\ \A m \in 0 .. h - 1 : WaitsResolved(row, m)
  <2> DEFINE S == {h \in Tid : ~WaitsResolved(row, h)}
  <2>1. S # {} /\ S \in SUBSET Nat
    BY <1>3, <1>4, <1>5 DEF Passable, Tid
  <2>2. PICK h \in S : \A m \in S : h <= m
    BY <2>1, LeastNatural
  <2>3. ASSUME NEW m \in 0 .. h - 1 PROVE WaitsResolved(row, m)
    <3>1. m \in Tid /\ ~(h <= m)
      BY <2>2, ProgramAssumption DEF Tid
    <3> QED BY <2>2, <3>1
  <2> QED BY <2>2, <2>3
<1>9. row.st[h] = Nil
  BY <1>6 DEF RowOf, AllNil
<1>10. ~OpResolved(h, row.op[h])
  BY <1>8, <1>9 DEF WaitsResolved, StoreResolved
<1>11. row.op[h] # Nil /\ ~Past(execpoint[h], row.op[h]) /\ status[h] # "complete"
  BY <1>1, <1>10 DEF OpResolved, Finished
<1>12. status[h] = "running"
  <2>1. status[h] # "unborn"
    BY <1>2, <1>5, <1>8, <1>11 DEF ReadsUncreated
  <2> QED BY <1>1, <1>11, <2>1
<1>13. LastAt(h, row.op[h], n - 1)
  BY <1>6, <1>11 DEF RowOf
<1>14. PICK m \in DOMAIN order : m <= n - 1 /\ order[m].tid = h /\ order[m].point = row.op[h]
  BY <1>11, <1>13 DEF LastAt
<1>15. m < n
  BY <1>1, <1>14
<1> QED
  BY <1>7, <1>11, <1>12, <1>14, <1>15

\* So among the threads that run, the one with the earliest operation is not blocked.
LEMMA NoneRunning ==
  ASSUME ~TSO, IInv, Threads, NEW w, Ways(w), Listed(w), Rows, NEW t \in Created,
         \A s \in Slots : ~Eligible(t, s) /\ ~Strays(t, s)
  PROVE  \A k \in Tid : status[k] # "running"
<1>1. order \in Seq(Event) /\ DOMAIN order \in SUBSET Nat /\ Prefix
  <2>1. order \in Seq(Event) /\ Prefix
    BY DEF IInv, TypeOK, BuilderTypeOK
  <2> QED BY <2>1
<1> DEFINE Stops(n) == LET k == order[n].tid IN
                       /\ k \in Tid /\ status[k] = "running"
                       /\ Compare(order[n].point, execpoint[k]) = "EQUALS"
           S == {n \in DOMAIN order : Stops(n)}
<1>2. ASSUME NEW k \in Tid, status[k] = "running"
      PROVE  \E n \in S :
               /\ order[n].tid = k
               /\ \E h \in Tid, m \in DOMAIN order :
                    /\ status[h] = "running" /\ order[m].tid = h /\ m < n
                    /\ ~Past(execpoint[h], order[m].point)
  <2>1. /\ Blocked(waitset[k], waitsetindex[k], execpoint[k])
        /\ ~ReadsUncreated(waitset[k], waitsetindex[k], execpoint[k])
    BY <1>1, <1>2, NoneAsked
  <2>2. PICK n \in DOMAIN order :
           /\ order[n].tid = k /\ Compare(order[n].point, execpoint[k]) = "EQUALS"
           /\ \E h \in Tid, m \in DOMAIN order :
                /\ status[h] = "running" /\ order[m].tid = h /\ m < n
                /\ ~Past(execpoint[h], order[m].point)
    BY <1>2, <2>1, BlockedWaits
  <2>3. n \in S
    BY <1>2, <2>2
  <2> HIDE DEF S
  <2> QED BY <2>2, <2>3
<1>3. ASSUME NEW m \in S, NEW n \in S, order[m].tid = order[n].tid PROVE m = n
  <2>1. /\ order[m].point \in BlockPoint /\ order[n].point \in BlockPoint
        /\ m < n => Compare(order[m].point, order[n].point) = "AFTER"
        /\ m > n => Compare(order[m].point, order[n].point) = "BEFORE"
        /\ m \in Nat /\ n \in Nat
    BY <1>1, <1>3, EventOrder
  <2>2. order[m].point = execpoint[order[m].tid] /\ order[n].point = execpoint[order[m].tid]
    BY <1>3, <2>1, EqualsSame DEF Threads
  <2>3. Compare(order[m].point, order[n].point) = "EQUALS"
    BY <2>2, <1>3
  <2> QED BY <2>1, <2>3
<1>4. ASSUME S # {} PROVE FALSE
  <2>1. PICK n \in S : \A m \in S : n <= m
    BY <1>1, <1>4, LeastNatural
  <2>2. PICK k \in Tid : k = order[n].tid /\ status[k] = "running"
    OBVIOUS
  <2> HIDE DEF S
  <2>3. PICK a \in S :
          /\ order[a].tid = k
          /\ \E h \in Tid, m \in DOMAIN order :
               /\ status[h] = "running" /\ order[m].tid = h /\ m < a
               /\ ~Past(execpoint[h], order[m].point)
    BY <1>2, <2>2
  <2>4. a = n
    BY <1>3, <2>2, <2>3
  <2>5. PICK h \in Tid, m \in DOMAIN order :
          /\ status[h] = "running" /\ order[m].tid = h /\ m < n
          /\ ~Past(execpoint[h], order[m].point)
    BY <2>3, <2>4
  <2>6. PICK c \in S : order[c].tid = h
    BY <1>2, <2>5
  <2>7. c \in DOMAIN order /\ n \in DOMAIN order /\ Compare(order[c].point, execpoint[h]) = "EQUALS"
    BY <2>6 DEF S
  <2>8. n <= c /\ m \in Nat /\ n \in Nat /\ c \in Nat
    BY <1>1, <2>1, <2>6, <2>7
  <2>9. /\ Compare(order[m].point, order[c].point) = "AFTER"
        /\ order[m].point \in BlockPoint /\ order[c].point \in BlockPoint
    BY <1>1, <2>5, <2>6, <2>7, <2>8, EventOrder
  <2>10. execpoint[h] = order[c].point
    BY <2>7, <2>9, EqualsSame DEF Threads
  <2>11. Compare(execpoint[h], order[m].point) = "BEFORE"
    BY <2>9, <2>10, AfterBefore
  <2> QED BY <2>5, <2>11 DEF Past
<1> QED
  BY <1>2, <1>4

\* What a schedule is explained by is not touched by the execution.
LEMMA ExplainedStays ==
  ASSUME UNCHANGED builderVars, waitset' = waitset, NEW w, NEW mem, Explained(w, mem)
  PROVE  Explained(w, mem)'
<1>1. /\ encoded' = encoded /\ frontier' = frontier /\ stores' = stores
      /\ lastoperation' = lastoperation /\ storelastoperation' = storelastoperation
      /\ order' = order /\ solmemory' = solmemory /\ solreg' = solreg /\ waitset' = waitset
  BY DEF builderVars
<1>2. Ways(w)' /\ Creations(w)
  BY <1>1 DEF Explained, Ways, WalksTo, Outputs, Quiet
<1>3. Listed(w)' /\ Memories(mem)'
  BY <1>1 DEF Explained, Listed, Memories
<1>4. AtFront(w)'
  BY <1>1 DEF Explained, AtFront, FrontOf, Quiet
<1>5. Rows'
  BY <1>1 DEF Explained, Rows, RowOf, LastAt, Quiet
<1> QED
  BY <1>2, <1>3, <1>4, <1>5 DEF Explained, Creations

\* A running thread goes to a block point, and the indices are those of rows.
LEMMA ThreadsStep ==
  ASSUME IInv, Threads, [Next]_vars
  PROVE  Threads'
<1>1. /\ execpoint \in [Tid -> Point] /\ waitset \in [Tid -> Seq(Row)]
      /\ waitsetindex \in [Tid -> Nat]
      /\ \A t \in Tid : waitsetindex[t] \in Nat \ {0} /\ execpoint[t] \in BlockPoint
  BY DEF IInv, TypeOK, ExecTypeOK, SchedTypeOK, Threads
<1>2. CASE waitsetindex' = waitsetindex /\ execpoint' = execpoint
  BY <1>2 DEF Threads
<1>3. ASSUME NEW t \in Tid, Execute(t) PROVE Threads'
  <2>1. CASE execpoint' = execpoint
    BY <1>2, <1>3, <2>1 DEF Execute
  <2>2. CASE \E p \in BlockPoint : MoveTo(t, p)
    <3>1. PICK p \in BlockPoint : MoveTo(t, p)
      BY <2>2
    <3>2. \A k \in Tid : execpoint'[k] = (IF k = t THEN p ELSE execpoint[k])
      BY <1>1, <3>1 DEF MoveTo
    <3>3. waitsetindex' = waitsetindex
      BY <1>3 DEF Execute
    <3> QED BY <1>1, <3>2, <3>3 DEF Threads
  <2>3. CASE Advance(t)
    BY <1>1, <2>2, <2>3, MovesAhead DEF Advance
  <2>4. CASE branchDir(t)
    BY <1>1, <2>2, <2>4, MovesAhead DEF branchDir
  <2>5. CASE merge(t)
    BY <1>1, <2>2, <2>5, MovesAhead DEF merge, Current
  <2> QED
    BY <1>3, <2>1, <2>3, <2>4, <2>5 DEF Execute, Operation, DrainAtFence, TakeBranch,
       CallFunction, Finish, load, store, rmw, fence, local, function, threadCreate,
       threadJoin, fenceDrain, threadFinish
<1>4. ASSUME NEW t, NEW s, ScanTo(t, s), execpoint' = execpoint PROVE Threads'
  <2>1. ASSUME NEW k \in Tid PROVE waitsetindex'[k] >= 1
    <3>1. waitset[k] \in Seq(Row)
      BY <1>1
    <3>2. NextIndex(waitset[k], waitsetindex[k], execpoint[k]) >= waitsetindex[k]
          /\ NextIndex(waitset[k], waitsetindex[k], execpoint[k]) \in Nat
      BY <1>1, <3>1, NextIndexFacts
    <3>3. waitsetindex'[k] = waitsetindex[k]
          \/ waitsetindex'[k] = NextIndex(waitset[k], waitsetindex[k], execpoint[k])
      BY <1>4 DEF ScanTo, Skipped
    <3> QED BY <1>1, <3>2, <3>3
  <2> QED BY <1>1, <1>4, <2>1 DEF Threads
<1>5. CASE Preempt(current)
  <2>1. CASE check_preempt_flush(current) \/ check_preempt_switch(current)
             \/ check_preempt_none(current)
    BY <1>4, <2>1 DEF check_preempt_flush, check_preempt_switch, check_preempt_none, execVars
  <2>2. CASE check_preempt_strays(current)
    BY <1>2, <2>2 DEF check_preempt_strays, execVars
  <2> QED BY <1>5, <2>1, <2>2 DEF Preempt
<1>6. CASE Run
  <2>1. current \in Tid
    BY <1>6 DEF Run, IInv, CurrentRuns
  <2> QED BY <1>3, <1>5, <1>6, <2>1 DEF Run
<1> QED
  BY <1>2, <1>6 DEF Next, Build, Walk, TakeEarliest, Start, Stopped, vars, execVars, schedVars

\* An execution is over only when check_preempt has given up with no thread left.
LEMMA BasisStep ==
  ASSUME ~TSO, Basis, NEW w, NEW mem, Explained(w, mem), [Next]_vars
  PROVE  Basis'
<1>1. IInv /\ IInv' /\ Threads /\ Threads'
  BY StepIInv, ThreadsStep DEF Basis
<1>2. encoded' \subseteq known'
  <2>1. encoded' = encoded
    BY DEF Next, Build, Walk, TakeEarliest, Start, Run, Stopped, vars, builderVars
  <2>2. known \subseteq known'
    BY DEF Next, Build, Walk, TakeEarliest, Start, Run, Stopped, vars, execVars, Execute,
       Operation, DrainAtFence, TakeBranch, CallFunction, Finish, load, store, rmw, fence,
       local, function, threadCreate, threadJoin, merge, fenceDrain, branchDir, threadFinish,
       Preempt, check_preempt_flush, check_preempt_switch, check_preempt_none,
       check_preempt_strays
  <2> QED BY <2>1, <2>2 DEF Basis
<1>3. phase' \in {"start", "build"} => Unstarted'
  <2>1. CASE Build \/ UNCHANGED vars
    BY <2>1 DEF Basis, Build, Walk, TakeEarliest, Unstarted, ExecInit, vars, execVars, schedVars
  <2>2. CASE Start \/ Run
    BY <2>2 DEF Start, Run, Execute, Preempt
  <2> QED BY <2>1, <2>2 DEF Next, Stopped
<1>5. phase' = "start" => ~solved'
  BY DEF Basis, Next, Build, Start, Run, Execute, Preempt, Stopped, vars
<1>4. RunsToCompletion'
  <2>1. CASE phase' = phase /\ status' = status
    BY <1>1, <2>1 DEF RunsToCompletion, Basis, IInv
  <2>2. CASE Run /\ phase' # phase
    <3>1. Preempt(current) /\ phase = "run"
      BY <2>2 DEF Run, Execute
    <3>2. CASE check_preempt_none(current)
      <4>1. current \in Created
        BY <1>1, <3>1 DEF IInv, CurrentRuns, Created
      <4>2. /\ \A s \in Slots : ~Eligible(current, s) /\ ~Strays(current, s)
            /\ status' = status
        BY <3>2 DEF check_preempt_none, execVars
      <4>3. \A t \in Tid : status[t] # "running"
        BY <1>1, <4>1, <4>2, NoneRunning DEF Explained
      <4> QED BY <1>1, <4>2, <4>3 DEF RunsToCompletion, IInv
    <3>3. CASE check_preempt_flush(current)
      <4>1. current' = current /\ current # NoThread
        BY <1>1, <3>1, <3>3, ProgramAssumption DEF check_preempt_flush, IInv, CurrentRuns, NoThread, Tid
      <4> QED BY <2>2, <3>1, <3>3, <4>1 DEF Preempt, check_preempt_strays, Run, RunsToCompletion
    <3>4. CASE check_preempt_switch(current)
      <4>1. PICK s \in Slots : SwitchTo(current, SlotTid(current, s))
        BY <3>4 DEF check_preempt_switch
      <4>2. current' \in Tid
        BY <1>1, <3>1, <4>1, SlotTidType DEF SwitchTo, IInv, CurrentRuns
      <4>3. current' # NoThread
        BY <4>2, ProgramAssumption DEF NoThread, Tid
      <4> QED BY <2>2, <3>1, <3>4, <4>3 DEF Preempt, check_preempt_strays, Run, RunsToCompletion
    <3>5. CASE check_preempt_strays(current) /\ phase' = "undefined"
      BY <3>5 DEF RunsToCompletion
    <3> QED BY <3>1, <3>2, <3>3, <3>4, <3>5 DEF Preempt
  <2>3. CASE Run /\ phase' = phase
    BY <2>3 DEF Run, RunsToCompletion
  <2>4. CASE Build \/ Start \/ UNCHANGED vars
    BY <2>1, <2>4 DEF Build, Walk, TakeEarliest, Start, vars, execVars, RunsToCompletion
  <2> QED BY <2>2, <2>3, <2>4 DEF Next, Stopped
<1> QED
  BY <1>1, <1>2, <1>3, <1>4, <1>5 DEF Basis

\* A turn begins with no operation ordered and the walk of the main thread begun.
LEMMA InitExplained ==
  ASSUME Init
  PROVE  \E w, mem : Explained(w, mem)
<1>1. /\ 0 \in Tid /\ 0 \in Val /\ FirstPoint \in BlockPoint /\ FirstPoint # Nil
  BY ProgramAssumption, FirstPointBlock, BlockTop, EmptySeq DEF Tid, Val, Nil, Point
<1>2. PICK c, mem, w : /\ c = [point |-> FirstPoint, reg |-> 0, time |-> 0]
                       /\ mem = [n \in 0 .. 0 |-> [l \in Loc |-> 0]]
                       /\ w = [t \in Tid |-> IF t = 0 THEN <<c>> ELSE <<>>]
  OBVIOUS
<1>3. c \in Config /\ c.point = FirstPoint /\ c.reg = 0 /\ c.time = 0
  BY <1>1, <1>2 DEF Config
<1>4. /\ w \in [Tid -> Seq(Config)]
      /\ w[0] = <<c>> /\ w[0] # <<>> /\ DOMAIN w[0] = {1} /\ w[0][1] = c /\ LastPlace(w, 0) = c
      /\ \A t \in Tid : t # 0 => w[t] = <<>> /\ DOMAIN w[t] = {}
  <2>1. <<c>> \in Seq(Config) /\ <<>> \in Seq(Config)
    BY <1>3
  <2>2. w \in [Tid -> Seq(Config)] /\ w[0] = <<c>> /\ \A t \in Tid : t # 0 => w[t] = <<>>
    BY <1>1, <1>2, <2>1
  <2>3. <<c>> # <<>> /\ DOMAIN <<c>> = {1} /\ <<c>>[1] = c /\ Len(<<c>>) = 1
    OBVIOUS
  <2>4. DOMAIN <<>> = {}
    OBVIOUS
  <2> QED BY <2>2, <2>3, <2>4 DEF LastPlace
<1>5. /\ order = <<>> /\ Len(order) = 0 /\ DOMAIN order = {}
      /\ solmemory = [l \in Loc |-> 0]
      /\ \A t \in Tid : /\ waitset[t] = <<>> /\ DOMAIN waitset[t] = {} /\ stores[t] = <<>>
                        /\ lastoperation[t] = Nil /\ solreg[t] = 0
                        /\ frontier[t] = IF t = 0 THEN FirstPoint ELSE Nil
      /\ storelastoperation = AllNil
  BY DEF Init, BuilderInit, SchedInit, SchedReset, AllNil
<1>6. Ways(w)
  BY <1>1, <1>3, <1>4 DEF Ways
<1>7. Listed(w)
  BY <1>5 DEF Listed
<1>8. AtFront(w)
  BY <1>1, <1>3, <1>4, <1>5 DEF AtFront, FrontOf, Quiet
<1>9. Creations(w)
  BY <1>4 DEF Creations
<1>10. Memories(mem)
  BY <1>1, <1>2, <1>5 DEF Memories
<1>11. Rows
  BY <1>5 DEF Rows, LastAt, Quiet
<1> QED
  BY <1>6, <1>7, <1>8, <1>9, <1>10, <1>11 DEF Explained

\* A turn begins in the basis, with no execution under way.
LEMMA InitBasis ==
  ASSUME Init
  PROVE  Basis /\ ~Scheduled
<1>1. IInv
  BY InitIInv
<1>2. encoded \subseteq known
  BY EncodedAssumption DEF Init
<1>3. Threads
  BY FirstPointBlock DEF Threads, Init, SchedInit, SchedReset, ExecInit
<1>4. Unstarted
  BY DEF Unstarted, Init, SchedInit, SchedReset
<1>5. phase \in {"start", "build"} /\ (phase = "start" => ~solved)
  BY DEF Init
<1> QED
  BY <1>1, <1>2, <1>3, <1>4, <1>5 DEF Basis, RunsToCompletion, Scheduled

--------------------------------------------------------------------------------
(***************************************************************************)
(* A scheduled execution: the threads stay on their walks.                 *)
(***************************************************************************)
\* The parts of the state that tell where the threads are have the types they have.
LEMMA FollowTypes ==
  ASSUME ~TSO, IInv, Threads, NEW w, NEW mem, Explained(w, mem)
  PROVE  /\ Ways(w) /\ Listed(w) /\ AtFront(w) /\ Creations(w) /\ Memories(mem) /\ Rows
         /\ w \in [Tid -> Seq(Config)]
         /\ execpoint \in [Tid -> Point] /\ reg \in [Tid -> Val]
         /\ status \in [Tid -> {"unborn", "running", "complete"}]
         /\ trace \in Seq(Event) /\ Len(trace) \in Nat /\ DOMAIN trace = 1 .. Len(trace)
         /\ order \in Seq(Event) /\ Len(order) \in Nat /\ DOMAIN order = 1 .. Len(order)
         /\ waitset \in [Tid -> Seq(Row)] /\ waitsetindex \in [Tid -> Nat]
         /\ pc \in [Tid -> {"run", "search", "resume"}]
         /\ memory \in [Loc -> Val] /\ \A k \in Tid : storebuffer[k] = <<>>
         /\ \A k \in Tid : waitsetindex[k] \in Nat \ {0} /\ execpoint[k] \in BlockPoint
<1>1. /\ Ways(w) /\ Listed(w) /\ AtFront(w) /\ Creations(w) /\ Memories(mem) /\ Rows
      /\ w \in [Tid -> Seq(Config)]
  BY DEF Explained, Ways
<1>2. /\ execpoint \in [Tid -> Point] /\ reg \in [Tid -> Val]
      /\ status \in [Tid -> {"unborn", "running", "complete"}]
      /\ trace \in Seq(Event) /\ order \in Seq(Event)
      /\ waitset \in [Tid -> Seq(Row)] /\ waitsetindex \in [Tid -> Nat]
      /\ pc \in [Tid -> {"run", "search", "resume"}]
      /\ memory \in [Loc -> Val]
  BY DEF IInv, TypeOK, ExecTypeOK, BuilderTypeOK, SchedTypeOK
<1>3. \A k \in Tid : storebuffer[k] = <<>>
  BY DEF IInv
<1>4. /\ Len(trace) \in Nat /\ DOMAIN trace = 1 .. Len(trace)
      /\ Len(order) \in Nat /\ DOMAIN order = 1 .. Len(order)
  BY <1>2
<1>5. \A k \in Tid : waitsetindex[k] \in Nat \ {0} /\ execpoint[k] \in BlockPoint
  BY <1>2 DEF Threads
<1> QED
  BY <1>1, <1>2, <1>3, <1>4, <1>5

\* A walk does not end where the thread has something to do.
LEMMA NextPlace ==
  ASSUME NEW w, Ways(w), AtFront(w), NEW t \in Tid, frontier[t] = Nil, NEW b \in DOMAIN w[t],
         Instr(t, w[t][b].point).op # "END"
  PROVE  /\ b \in Nat \ {0} /\ b + 1 \in DOMAIN w[t] /\ WalksTo(t, w[t][b], w[t][b + 1])
         /\ w[t][b + 1] \in Config /\ w[t][b] \in Config
<1>1. PICK n : n = Len(w[t])
  OBVIOUS
<1>2. /\ w[t] # <<>> /\ n \in Nat /\ DOMAIN w[t] = 1 .. n /\ b \in Nat \ {0}
      /\ w \in [Tid -> Seq(Config)] /\ w[t][b] \in Config
  BY <1>1, PlaceFacts DEF Ways
<1>3. Instr(t, w[t][n].point).op = "END"
  BY <1>1, <1>2 DEF AtFront, FrontOf, LastPlace
<1>4. b # n /\ b \in 1 .. n
  BY <1>2, <1>3
<1>5. b + 1 \in 1 .. n
  BY <1>2, <1>4
<1>6. b + 1 \in DOMAIN w[t]
  BY <1>2, <1>5
<1> QED
  BY <1>2, <1>6, PlaceFacts DEF Ways

\* What a step of the execution leaves: the schedule, and threads that exist.
Goes(L) ==
  /\ order' = order
  /\ \A k \in Tid : status[k] # "unborn" => status'[k] # "unborn"
  /\ L \in Nat /\ L = Len(trace') /\ (L = Len(trace) \/ L = Len(trace) + 1)

\* The creations on a walk are of threads.
LEMMA CreationOn ==
  ASSUME NEW w, Ways(w), NEW t \in Tid, NEW b \in DOMAIN w[t],
         Instr(t, w[t][b].point).op = "CREATE"
  PROVE  Instr(t, w[t][b].point).tid \in Tid
<1>1. w[t][b].point \in Point
  BY PlaceFacts DEF Ways
<1> QED
  BY <1>1, InstrType

\* A thread that performs nothing has performed nothing since its place either.
LEMMA QuietGoes ==
  ASSUME NEW k, NEW a \in Nat, Quiet(k, a, Len(trace)), NEW L, Goes(L), Len(trace) \in Nat,
         L = Len(trace) + 1 /\ L \in DOMAIN order => order[L].tid # k, DOMAIN order \subseteq Nat
  PROVE  Quiet(k, a, L) /\ Quiet(k, a, L)'
<1>1. ASSUME NEW n \in DOMAIN order, a < n, n <= L, order[n].tid = k PROVE FALSE
  <2>1. n \in Nat
    OBVIOUS
  <2>2. n <= Len(trace) \/ (L = Len(trace) + 1 /\ n = L)
    BY <1>1, <2>1 DEF Goes
  <2> QED BY <1>1, <2>2 DEF Quiet
<1> QED
  BY <1>1 DEF Quiet, Goes

\* A thread that does nothing stays where it is.
LEMMA OnWayStays ==
  ASSUME NEW w, Ways(w), NEW pos, NEW k \in Tid, OnWay(w, pos, k), NEW L, Goes(L),
         Len(trace) \in Nat, DOMAIN order \subseteq Nat, NEW pos2, pos2[k] = pos[k],
         execpoint'[k] = execpoint[k], reg'[k] = reg[k],
         status'[k] = "complete" => status[k] = "complete" \/ Instr(k, execpoint[k]).op = "END",
         L = Len(trace) + 1 /\ L \in DOMAIN order => order[L].tid # k
  PROVE  OnWay(w, pos2, k)'
<1>1. PICK c : c = w[k][pos[k]]
  OBVIOUS
<1>2. /\ pos[k] \in DOMAIN w[k] /\ execpoint[k] = c.point /\ reg[k] = c.reg
      /\ c.time <= Len(trace) /\ Quiet(k, c.time, Len(trace))
      /\ status[k] = "complete" => Instr(k, c.point).op = "END"
      /\ \A b \in DOMAIN w[k] :
           b < pos[k] /\ Instr(k, w[k][b].point).op = "CREATE"
             => status[Instr(k, w[k][b].point).tid] # "unborn"
  BY <1>1 DEF OnWay, Place
<1>3. c.time \in Nat
  BY <1>1, <1>2, PlaceFacts DEF Ways
<1>4. c.time <= L
  BY <1>2, <1>3 DEF Goes
<1>5. Quiet(k, c.time, L)'
  BY <1>2, <1>3, QuietGoes
<1>6. \A b \in DOMAIN w[k] :
        b < pos2[k] /\ Instr(k, w[k][b].point).op = "CREATE"
          => status'[Instr(k, w[k][b].point).tid] # "unborn"
  BY <1>2, CreationOn DEF Goes
<1>7. L = Len(trace') /\ Place(w, pos2, k) = c
  BY <1>1 DEF Goes, Place
<1> QED
  BY <1>2, <1>4, <1>5, <1>6, <1>7 DEF OnWay, Place

\* A thread that does something goes to the next place of its walk.
LEMMA OnWayMoves ==
  ASSUME NEW w, Ways(w), NEW pos, NEW t \in Tid, OnWay(w, pos, t), NEW L, Goes(L),
         NEW pos2, pos2[t] = pos[t] + 1, pos[t] + 1 \in DOMAIN w[t],
         NEW d, d = w[t][pos[t] + 1], execpoint'[t] = d.point, reg'[t] = d.reg,
         d.time <= L, Quiet(t, d.time, L), status'[t] # "complete",
         Instr(t, execpoint[t]).op = "CREATE" => status'[Instr(t, execpoint[t]).tid] # "unborn"
  PROVE  OnWay(w, pos2, t)'
<1>1. /\ pos[t] \in DOMAIN w[t] /\ execpoint[t] = w[t][pos[t]].point
      /\ \A b \in DOMAIN w[t] :
           b < pos[t] /\ Instr(t, w[t][b].point).op = "CREATE"
             => status[Instr(t, w[t][b].point).tid] # "unborn"
  BY DEF OnWay, Place
<1>2. Quiet(t, d.time, L)' /\ L = Len(trace')
  BY DEF Quiet, Goes
<1>3. ASSUME NEW b \in DOMAIN w[t], b < pos2[t], Instr(t, w[t][b].point).op = "CREATE"
      PROVE  status'[Instr(t, w[t][b].point).tid] # "unborn"
  <2>1. b \in Nat /\ pos[t] \in Nat
    BY <1>1, PlaceFacts DEF Ways
  <2>2. b = pos[t] \/ b < pos[t]
    BY <1>3, <2>1
  <2>3. CASE b = pos[t]
    BY <1>1, <1>3, <2>3
  <2>4. CASE b < pos[t]
    BY <1>1, <1>3, <2>4, CreationOn DEF Goes
  <2> QED BY <2>2, <2>3, <2>4
<1> QED
  BY <1>2, <1>3 DEF OnWay, Place

\* A created thread has a walk that begins when its creator is at the creation.
LEMMA CreatorPlace ==
  ASSUME NEW w, Ways(w), Creations(w), NEW t \in Tid, NEW b \in DOMAIN w[t],
         b + 1 \in DOMAIN w[t], Instr(t, w[t][b].point).op = "CREATE",
         NEW c, c = Instr(t, w[t][b].point).tid
  PROVE  c \in Tid /\ t < c /\ w[c] # <<>> /\ w[c][1].time = w[t][b].time
<1>1. PICK p : p = w[t][b].point
  OBVIOUS
<1>2. p \in DOMAIN Code[t] /\ Code[t][p] = Instr(t, p) /\ Code[t][p] \in Instruction
  BY <1>1, ProgramAssumption DEF Instr
<1>3. Instr(t, p) = [op |-> "CREATE", tid |-> c] /\ c \in Tid
  BY <1>1, <1>2 DEF Instruction, MemoryOperation, Function
<1>4. t < c /\ c # 0
  <2>1. t < c
    BY <1>2, <1>3, CreationAssumption
  <2> QED BY <2>1, ProgramAssumption DEF Tid
<1>5. w[c] # <<>>
  BY <1>1, <1>3 DEF Creations
<1>6. PICK u \in Tid : \E f \in DOMAIN w[u] :
        /\ Instr(u, w[u][f].point) = [op |-> "CREATE", tid |-> c]
        /\ w[u][f].time = w[c][1].time
  BY <1>3, <1>4, <1>5 DEF Creations
<1>7. PICK f \in DOMAIN w[u] :
        /\ Instr(u, w[u][f].point) = [op |-> "CREATE", tid |-> c]
        /\ w[u][f].time = w[c][1].time
  BY <1>6
<1>8. w[u][f].point \in DOMAIN Code[u] /\ Code[u][w[u][f].point] = Code[t][p]
  BY <1>2, <1>3, <1>7 DEF Instr
<1>9. u = t /\ (p = w[t][f].point \/ Compare(p, w[t][f].point) = "INCOMPARABLE")
  BY <1>2, <1>3, <1>8, CreationAssumption
<1>10. /\ f \in Nat /\ b \in Nat
       /\ b < f => Compare(p, w[t][f].point) = "AFTER"
       /\ b = f => Compare(p, w[t][f].point) = "EQUALS"
       /\ b > f => Compare(p, w[t][f].point) = "BEFORE"
  BY <1>1, <1>7, <1>9, WayOrder
<1>11. p \in BlockPoint /\ p \in Point
  BY <1>1, PlaceFacts DEF Ways
<1>12. b = f
  BY <1>9, <1>10, <1>11, CompareSelf
<1> QED
  BY <1>3, <1>4, <1>5, <1>7, <1>9, <1>12

--------------------------------------------------------------------------------
(***************************************************************************)
(* A step of the running thread: it goes to the next place of its walk.    *)
(***************************************************************************)
\* A thread of a scheduled execution runs, and has followed its walk so far.
Following(w, mem, pos) ==
  /\ ~TSO /\ Basis /\ Explained(w, mem)
  /\ Scheduled /\ phase = "run"
  /\ pos \in [Tid -> Nat] /\ Follows(w, mem, pos)

\* The types and the parts of the invariant in such a state.
LEMMA FollowingFacts ==
  ASSUME NEW w, NEW mem, NEW pos, Following(w, mem, pos)
  PROVE  /\ ~TSO /\ IInv /\ Threads
         /\ Ways(w) /\ Listed(w) /\ AtFront(w) /\ Creations(w) /\ Memories(mem) /\ Rows
         /\ w \in [Tid -> Seq(Config)]
         /\ execpoint \in [Tid -> Point] /\ reg \in [Tid -> Val]
         /\ status \in [Tid -> {"unborn", "running", "complete"}]
         /\ trace \in Seq(Event) /\ Len(trace) \in Nat /\ DOMAIN trace = 1 .. Len(trace)
         /\ order \in Seq(Event) /\ Len(order) \in Nat /\ DOMAIN order = 1 .. Len(order)
         /\ DOMAIN order \subseteq Nat
         /\ waitset \in [Tid -> Seq(Row)] /\ waitsetindex \in [Tid -> Nat]
         /\ pc \in [Tid -> {"run", "search", "resume"}]
         /\ memory \in [Loc -> Val] /\ \A k \in Tid : storebuffer[k] = <<>>
         /\ \A k \in Tid : waitsetindex[k] \in Nat \ {0} /\ execpoint[k] \in BlockPoint
         /\ current \in Tid /\ status[current] # "unborn"
         /\ status[current] = "running" \/ (status[current] = "complete" /\ pc[current] = "search")
         /\ known = encoded /\ \A k \in Tid : frontier[k] = Nil
         /\ \A k \in Tid : status[k] # "unborn" => OnWay(w, pos, k)
         /\ pos \in [Tid -> Nat]
<1>1. /\ ~TSO /\ IInv /\ Threads /\ Explained(w, mem) /\ Follows(w, mem, pos)
      /\ known = encoded /\ pos \in [Tid -> Nat]
  BY DEF Following, Basis, Scheduled
<1>2. /\ current \in Tid /\ status[current] # "unborn"
      /\ status[current] = "running" \/ (status[current] = "complete" /\ pc[current] = "search")
  BY DEF Following, Basis, IInv, CurrentRuns
<1>3. /\ \A k \in Tid : frontier[k] = Nil
      /\ \A k \in Tid : status[k] # "unborn" => OnWay(w, pos, k)
  BY <1>1 DEF Follows, OnWays
<1> QED
  BY <1>1, <1>2, <1>3, FollowTypes

\* A thread at an operation has one in the order, and nothing before it.
LEMMA NextEvent ==
  ASSUME NEW w, NEW mem, NEW pos, Following(w, mem, pos), NEW k \in Tid,
         status[k] # "unborn", Access(k, execpoint[k])
  PROVE  \E n \in DOMAIN order :
           /\ n > Len(trace) /\ Quiet(k, Len(trace), n - 1)
           /\ order[n].tid = k /\ order[n].point = execpoint[k]
           /\ pos[k] \in Nat /\ pos[k] \in DOMAIN w[k] /\ pos[k] + 1 \in DOMAIN w[k]
           /\ w[k][pos[k] + 1].time = n
           /\ w[k][pos[k] + 1].point = IncrementTop(execpoint[k])
           /\ w[k][pos[k] + 1].reg =
                IF Instr(k, execpoint[k]).op = "STORE" THEN reg[k] ELSE order[n].val
<1>1. PICK c : c = w[k][pos[k]]
  OBVIOUS
<1>2. /\ pos[k] \in DOMAIN w[k] /\ execpoint[k] = c.point /\ reg[k] = c.reg
      /\ c.time <= Len(trace) /\ Quiet(k, c.time, Len(trace))
  BY <1>1, FollowingFacts DEF OnWay, Place
<1>3. Instr(k, c.point).op \in {"LOAD", "RMW", "STORE"}
  BY <1>2 DEF Access
<1>4. PICK d : d = w[k][pos[k] + 1]
  OBVIOUS
<1>5. pos[k] \in Nat /\ pos[k] + 1 \in DOMAIN w[k] /\ WalksTo(k, c, d) /\ c \in Config
  BY <1>1, <1>2, <1>3, <1>4, FollowingFacts, NextPlace
<1>6. /\ d.point = IncrementTop(c.point)
      /\ d.time \in DOMAIN order /\ c.time < d.time /\ Quiet(k, c.time, d.time - 1)
      /\ order[d.time].tid = k /\ order[d.time].point = c.point
      /\ d.reg = IF Instr(k, c.point).op = "STORE" THEN c.reg ELSE order[d.time].val
  BY <1>3, <1>5 DEF WalksTo, Access
<1>7. c.time \in Nat /\ d.time \in Nat /\ Len(trace) \in Nat /\ DOMAIN order \subseteq Nat
  BY <1>5, <1>6, FollowingFacts DEF Config
<1>8. d.time > Len(trace)
  BY <1>2, <1>6, <1>7 DEF Quiet
<1>9. Quiet(k, Len(trace), d.time - 1)
  BY <1>2, <1>6, <1>7 DEF Quiet
<1> QED
  BY <1>2, <1>4, <1>5, <1>6, <1>8, <1>9

\* A load from an empty buffer reads memory.
LEMMA ReadsMemory ==
  ASSUME NEW m, NEW l
  PROVE  ReadValue(<<>>, m, l) = m[l]
<1>1. {i \in DOMAIN <<>> : <<>>[i].loc = l} = {}
  OBVIOUS
<1> QED
  BY <1>1 DEF ReadValue

\* What the thread performs is the next operation of the order, with its value.
LEMMA AccessEffect ==
  ASSUME NEW w, NEW mem, NEW pos, Following(w, mem, pos), NEW t, t = current,
         ~InCheckPreempt(t), load(t) \/ store(t) \/ rmw(t), NEW n, n = Len(trace) + 1
  PROVE  /\ n \in DOMAIN order /\ order[n].tid = t /\ order[n].point = execpoint[t]
         /\ trace' = Append(trace, order[n])
         /\ memory' = mem[n]
         /\ execpoint' = [execpoint EXCEPT ![t] = IncrementTop(execpoint[t])]
         /\ \A k \in Tid : k # t => reg'[k] = reg[k]
         /\ pos[t] \in DOMAIN w[t] /\ pos[t] + 1 \in DOMAIN w[t]
         /\ w[t][pos[t] + 1].point = execpoint'[t] /\ w[t][pos[t] + 1].time = n
         /\ w[t][pos[t] + 1].reg = reg'[t]
         /\ \A j \in DOMAIN waitset[t] :
              j >= waitsetindex[t] => waitset[t][j].stop # execpoint[t]
<1>1. /\ t \in Tid /\ status[t] # "unborn" /\ Len(trace) \in Nat /\ DOMAIN order \subseteq Nat
      /\ order \in Seq(Event) /\ Memories(mem) /\ storebuffer[t] = <<>> /\ ~TSO
      /\ execpoint \in [Tid -> Point] /\ reg \in [Tid -> Val] /\ pc[t] \in {"run", "search", "resume"}
  BY FollowingFacts
<1>2. Current(t).op \in {"LOAD", "STORE", "RMW"} /\ Access(t, execpoint[t])
  BY DEF load, store, rmw, Access, Current
<1>3. pc[t] = "resume"
  BY <1>1, <1>2 DEF InCheckPreempt
<1>4. /\ n \in DOMAIN order /\ order[n].tid = t
      /\ \A j \in DOMAIN waitset[t] :
              j >= waitsetindex[t] => waitset[t][j].stop # execpoint[t]
  BY <1>2, <1>3 DEF Following, Follows, Turn
<1>5. PICK e \in DOMAIN order :
           /\ e > Len(trace) /\ Quiet(t, Len(trace), e - 1)
           /\ order[e].tid = t /\ order[e].point = execpoint[t]
           /\ pos[t] \in Nat /\ pos[t] \in DOMAIN w[t] /\ pos[t] + 1 \in DOMAIN w[t]
           /\ w[t][pos[t] + 1].time = e
           /\ w[t][pos[t] + 1].point = IncrementTop(execpoint[t])
           /\ w[t][pos[t] + 1].reg =
                IF Instr(t, execpoint[t]).op = "STORE" THEN reg[t] ELSE order[e].val
  BY <1>1, <1>2, NextEvent
<1>6. e = n
  <2>1. ~(n <= e - 1)
    BY <1>1, <1>4, <1>5 DEF Quiet
  <2>2. e \in Nat
    BY <1>1
  <2> QED BY <1>1, <1>5, <2>1, <2>2
<1>7. PICK ins : ins = Instr(t, execpoint[t])
  OBVIOUS
<1>8. ins = Current(t) /\ ins.op \in {"LOAD", "STORE", "RMW"}
  BY <1>2, <1>7 DEF Current
<1>9. /\ memory = mem[n - 1]
      /\ order[n].val = IF ins.op = "STORE" THEN ins.val ELSE mem[n - 1][ins.loc]
      /\ mem[n] = MemoryAfter(ins, order[n].val, mem[n - 1])
  <2>1. n - 1 = Len(trace)
    BY <1>1
  <2>2. memory = mem[Len(trace)]
    BY DEF Following, Follows
  <2>3. Instr(order[n].tid, order[n].point) = ins
    BY <1>4, <1>5, <1>6, <1>7
  <2> QED BY <1>1, <1>4, <2>1, <2>2, <2>3 DEF Memories
<1>10. PICK v : v = order[n].val
  OBVIOUS
<1>11. order[n] = [tid |-> t, point |-> execpoint[t], val |-> v]
  <2>1. order[n] \in Event
    BY <1>1, <1>4
  <2> QED BY <1>4, <1>5, <1>6, <1>10, <2>1 DEF Event
<1>12. /\ Record(t, execpoint[t], v) /\ memory' = MemoryAfter(ins, v, memory) /\ Advance(t)
       /\ reg' = IF ins.op = "STORE" THEN reg ELSE [reg EXCEPT ![t] = v]
  <2>1. CASE load(t)
    <3>1. ins.op = "LOAD" /\ v = memory[ins.loc]
      BY <1>8, <1>9, <1>10, <2>1 DEF load
    <3>2. ReadValue(storebuffer[t], memory, Current(t).loc) = v
      BY <1>1, <1>8, <3>1, ReadsMemory
    <3> QED BY <2>1, <3>1, <3>2 DEF load, MemoryAfter
  <2>2. CASE store(t)
    <3>1. ins.op = "STORE" /\ v = ins.val
      BY <1>8, <1>9, <1>10, <2>2 DEF store
    <3> QED BY <1>1, <1>8, <2>2, <3>1 DEF store, MemoryAfter
  <2>3. CASE rmw(t)
    <3>1. ins.op = "RMW" /\ v = memory[ins.loc]
      BY <1>8, <1>9, <1>10, <2>3 DEF rmw
    <3> QED BY <1>8, <2>3, <3>1 DEF rmw, MemoryAfter
  <2> QED BY <2>1, <2>2, <2>3
<1>13. memory' = mem[n] /\ trace' = Append(trace, order[n])
  BY <1>9, <1>10, <1>11, <1>12 DEF Record
<1>14. execpoint' = [execpoint EXCEPT ![t] = IncrementTop(execpoint[t])]
  BY <1>12 DEF Advance, MoveTo
<1>15. /\ \A k \in Tid : k # t => reg'[k] = reg[k]
       /\ w[t][pos[t] + 1].reg = reg'[t]
  BY <1>1, <1>5, <1>6, <1>7, <1>10, <1>12
<1> QED
  BY <1>1, <1>4, <1>5, <1>6, <1>13, <1>14, <1>15

\* The rows before an index stay those of operations that are over when the thread whose turn
\* it is performs its operation.
LEMMA IndicesPerform ==
  ASSUME NEW w, NEW mem, NEW pos, Following(w, mem, pos), NEW t \in Tid, NEW n,
         n = Len(trace) + 1, n \in DOMAIN order, order[n].tid = t, order[n].point = execpoint[t],
         \A j \in DOMAIN waitset[t] :
           j >= waitsetindex[t] => waitset[t][j].stop # execpoint[t],
         Len(trace') = n, order' = order, waitset' = waitset, waitsetindex' = waitsetindex
  PROVE  Indices'
<1>1. Len(trace) \in Nat /\ DOMAIN order \subseteq Nat /\ Indices
      /\ \A k \in Tid : waitset[k] \in Seq(Row) /\ waitsetindex[k] \in Nat
  BY FollowingFacts DEF Following, Follows
<1>2. ASSUME NEW k \in Tid, NEW j \in DOMAIN waitset[k], NEW e \in DOMAIN order,
             order[e].tid = k, order[e].point = waitset[k][j].stop
      PROVE  IF j < waitsetindex[k] THEN e <= n + 1 ELSE e > n
  <2>1. /\ IF j < waitsetindex[k] THEN e <= Len(trace) + 1 ELSE e > Len(trace)
        /\ e \in Nat /\ j \in Nat /\ waitsetindex[k] \in Nat
    BY <1>1, <1>2 DEF Indices
  <2>2. CASE j < waitsetindex[k]
    BY <1>1, <2>1, <2>2
  <2>3. CASE ~(j < waitsetindex[k])
    <3>1. e # n
      BY <1>2, <2>1, <2>3
    <3> QED BY <1>1, <2>1, <2>3, <3>1
  <2> QED BY <2>2, <2>3
<1> QED
  BY <1>2 DEF Indices

\* An index says the same as long as nothing is performed.
LEMMA IndicesStay ==
  ASSUME Indices, order' = order, waitset' = waitset, waitsetindex' = waitsetindex,
         trace' = trace
  PROVE  Indices'
BY DEF Indices

\* Threads stay as they are but for those that are created, whose walks have begun.
Creates(w) ==
  \A k \in Tid : \/ status'[k] = status[k]
                 \/ /\ status[k] = "unborn" /\ status'[k] = "running"
                    /\ w[k] # <<>> /\ w[k][1].time <= Len(trace)

\* The running thread goes to its next place, the others stay; one may be created.
LEMMA OnWaysMove ==
  ASSUME NEW w, NEW mem, NEW pos, Following(w, mem, pos), NEW t \in Tid, status[t] = "running",
         NEW L, Goes(L), pos[t] + 1 \in DOMAIN w[t],
         execpoint' = [execpoint EXCEPT ![t] = w[t][pos[t] + 1].point],
         reg'[t] = w[t][pos[t] + 1].reg, \A k \in Tid : k # t => reg'[k] = reg[k],
         w[t][pos[t] + 1].time <= L, Quiet(t, w[t][pos[t] + 1].time, L),
         L = Len(trace) + 1 /\ L \in DOMAIN order => order[L].tid = t,
         status'[t] = "running",
         Creates(w),
         Instr(t, execpoint[t]).op = "CREATE" => status'[Instr(t, execpoint[t]).tid] # "unborn"
  PROVE  \E pos2 \in [Tid -> Nat] : OnWays(w, pos2)'
<1>1. /\ Ways(w) /\ w \in [Tid -> Seq(Config)] /\ Len(trace) \in Nat /\ DOMAIN order \subseteq Nat
      /\ execpoint \in [Tid -> Point] /\ pos \in [Tid -> Nat] /\ Len(trace') = L
      /\ \A k \in Tid : status[k] # "unborn" => OnWay(w, pos, k)
      /\ OnWays(w, pos) /\ L \in Nat
  BY FollowingFacts DEF Following, Follows, Goes
<1>2. PICK pos2 : pos2 = [k \in Tid |-> IF k = t THEN pos[t] + 1
                                       ELSE IF status[k] = "unborn" THEN 1 ELSE pos[k]]
  OBVIOUS
<1>3. pos2 \in [Tid -> Nat]
  BY <1>1, <1>2
<1>11. PICK d : d = w[t][pos[t] + 1]
  OBVIOUS
<1>4. execpoint'[t] = d.point /\ \A k \in Tid : k # t => execpoint'[k] = execpoint[k]
  BY <1>1, <1>11
<1>5. OnWay(w, pos2, t)'
  <2>1. pos2[t] = pos[t] + 1 /\ OnWay(w, pos, t) /\ status'[t] # "complete"
    BY <1>1, <1>2
  <2>2. reg'[t] = d.reg /\ d.time <= L /\ Quiet(t, d.time, L)
    BY <1>11
  <2> QED BY <1>1, <1>4, <1>11, <2>1, <2>2, OnWayMoves
<1>6. ASSUME NEW k \in Tid, k # t, status[k] # "unborn"
      PROVE  OnWay(w, pos2, k)' /\ status'[k] # "unborn"
  <2>1. /\ pos2[k] = pos[k] /\ OnWay(w, pos, k) /\ status'[k] = status[k]
        /\ L = Len(trace) + 1 /\ L \in DOMAIN order => order[L].tid # k
        /\ execpoint'[k] = execpoint[k] /\ reg'[k] = reg[k]
    BY <1>1, <1>2, <1>4, <1>6 DEF Creates
  <2>2. OnWay(w, pos2, k)'
    <3>1. status'[k] = "complete" => status[k] = "complete" \/ Instr(k, execpoint[k]).op = "END"
      BY <2>1
    <3>2. Ways(w) /\ Goes(L) /\ Len(trace) \in Nat /\ DOMAIN order \subseteq Nat
      BY <1>1
    <3> QED BY <2>1, <3>1, <3>2, OnWayStays
  <2> QED BY <1>6, <2>1, <2>2
<1>7. ASSUME NEW k \in Tid, k # t, status[k] = "unborn"
      PROVE  execpoint'[k] = FirstPoint /\ reg'[k] = 0 /\ Quiet(k, 0, L) /\ Quiet(k, 0, L)'
  <2>1. execpoint[k] = FirstPoint /\ reg[k] = 0 /\ Quiet(k, 0, Len(trace))
    BY <1>1, <1>7 DEF OnWays
  <2>2. L = Len(trace) + 1 /\ L \in DOMAIN order => order[L].tid # k
    BY <1>7
  <2>3. Quiet(k, 0, L) /\ Quiet(k, 0, L)'
    BY <1>1, <2>1, <2>2, QuietGoes
  <2> QED BY <1>4, <1>7, <2>1, <2>3
<1>8. ASSUME NEW k \in Tid, k # t, status[k] = "unborn", status'[k] # "unborn"
      PROVE  OnWay(w, pos2, k)'
  <2>1. pos2[k] = 1 /\ status'[k] = "running" /\ w[k] # <<>> /\ w[k][1].time <= Len(trace)
    BY <1>2, <1>8 DEF Creates
  <2>2. 1 \in DOMAIN w[k] /\ w[k][1].point = FirstPoint /\ w[k][1].reg = 0
    <3>1. w[k] \in Seq(Config) /\ w[k] # <<>>
      BY <1>1, <2>1
    <3> QED BY <1>1, <2>1, <3>1 DEF Ways
  <2>3. w[k][1].time \in Nat
    BY <1>1, <2>2, PlaceFacts
  <2>4. w[k][1].time <= L /\ Quiet(k, w[k][1].time, L)'
    <3>1. w[k][1].time <= L
      BY <1>1, <2>1, <2>3 DEF Goes
    <3>2. Quiet(k, 0, L)'
      BY <1>7, <1>8
    <3> QED BY <1>1, <2>3, <3>1, <3>2 DEF Quiet, Goes
  <2>5. \A b \in DOMAIN w[k] : ~(b < 1)
    <3>1. \A b \in DOMAIN w[k] : b \in Nat \ {0}
      BY <1>1, PlaceFacts
    <3> QED BY <3>1
  <2> QED BY <1>1, <1>7, <1>8, <2>1, <2>2, <2>4, <2>5 DEF OnWay, Place
<1>9. ASSUME NEW k \in Tid
      PROVE  IF status'[k] = "unborn"
             THEN execpoint'[k] = FirstPoint /\ reg'[k] = 0 /\ Quiet(k, 0, L)'
             ELSE OnWay(w, pos2, k)'
  <2>1. CASE k = t
    BY <1>5, <2>1
  <2>2. CASE k # t
    BY <1>6, <1>7, <1>8, <2>2
  <2> QED BY <2>1, <2>2
<1>10. OnWays(w, pos2)'
  BY <1>1, <1>9 DEF OnWays
<1> QED
  BY <1>3, <1>10

\* load, store and RMW: the thread performs the next operation of the order.
LEMMA AccessFollows ==
  ASSUME NEW w, NEW mem, NEW pos, Following(w, mem, pos), NEW t, t = current,
         Operation(t), load(t) \/ store(t) \/ rmw(t),
         UNCHANGED <<waitset, waitsetindex, current, phase, builderVars>>
  PROVE  \E pos2 \in [Tid -> Nat] : Follows(w, mem, pos2)'
<1>1. PICK n : n = Len(trace) + 1
  OBVIOUS
<1>2. /\ n \in DOMAIN order /\ order[n].tid = t /\ order[n].point = execpoint[t]
      /\ trace' = Append(trace, order[n])
      /\ memory' = mem[n]
      /\ execpoint' = [execpoint EXCEPT ![t] = IncrementTop(execpoint[t])]
      /\ \A k \in Tid : k # t => reg'[k] = reg[k]
      /\ pos[t] \in DOMAIN w[t] /\ pos[t] + 1 \in DOMAIN w[t]
      /\ w[t][pos[t] + 1].point = execpoint'[t] /\ w[t][pos[t] + 1].time = n
      /\ w[t][pos[t] + 1].reg = reg'[t]
      /\ \A j \in DOMAIN waitset[t] :
           j >= waitsetindex[t] => waitset[t][j].stop # execpoint[t]
  BY <1>1, AccessEffect DEF Operation
<1>3. /\ t \in Tid /\ status[t] = "running"
      /\ Len(trace) \in Nat /\ order \in Seq(Event) /\ trace \in Seq(Event)
      /\ DOMAIN trace = 1 .. Len(trace) /\ DOMAIN order = 1 .. Len(order) /\ Len(order) \in Nat
      /\ execpoint \in [Tid -> Point] /\ pc \in [Tid -> {"run", "search", "resume"}]
  BY FollowingFacts DEF Operation, InCheckPreempt
<1>4. /\ ~newbehavior /\ \A m \in DOMAIN trace : trace[m] = order[m]
      /\ \A k \in Tid : frontier[k] = Nil
      /\ phase = "run"
  BY DEF Following, Follows
<1>5. /\ status' = status /\ order' = order /\ frontier' = frontier
      /\ pc' = [pc EXCEPT ![t] = "run"] /\ newbehavior' = newbehavior
  BY DEF Operation, load, store, rmw, builderVars
<1>6. /\ Len(trace') = n /\ DOMAIN trace' = 1 .. n /\ n \in Nat
      /\ \A m \in DOMAIN trace' : trace'[m] = order[m]
  <2>1. PICK e \in Event : e = order[n]
    BY <1>2, <1>3
  <2>2. /\ trace' = Append(trace, e) /\ Len(Append(trace, e)) = Len(trace) + 1
        /\ DOMAIN Append(trace, e) = 1 .. Len(trace) + 1
        /\ \A m \in 1 .. Len(trace) : Append(trace, e)[m] = trace[m]
        /\ Append(trace, e)[Len(trace) + 1] = e
    BY <1>2, <1>3, <2>1, Appended
  <2> QED BY <1>1, <1>3, <1>4, <2>1, <2>2
<1>7. Goes(n)
  BY <1>1, <1>5, <1>6 DEF Goes
<1>9. PICK pos2 \in [Tid -> Nat] : OnWays(w, pos2)'
  <2>1. execpoint'[t] = IncrementTop(execpoint[t])
    BY <1>2, <1>3
  <2>2. execpoint' = [execpoint EXCEPT ![t] = w[t][pos[t] + 1].point]
    BY <1>2, <2>1
  <2>3. w[t][pos[t] + 1].time <= n /\ Quiet(t, w[t][pos[t] + 1].time, n)
    BY <1>2, <1>3, <1>6 DEF Quiet
  <2>4. Instr(t, execpoint[t]).op # "CREATE" /\ Creates(w)
    BY <1>5 DEF load, store, rmw, Current, Creates
  <2>5. status'[t] = "running" /\ pos[t] + 1 \in DOMAIN w[t] /\ order[n].tid = t
        /\ reg'[t] = w[t][pos[t] + 1].reg
        /\ \A k \in Tid : k # t => reg'[k] = reg[k]
    BY <1>2, <1>3, <1>5
  <2> QED BY <1>3, <1>7, <2>2, <2>3, <2>4, <2>5, OnWaysMove
<1>10. Indices'
  BY <1>1, <1>2, <1>3, <1>5, <1>6, IndicesPerform
<1>11. Turn'
  BY <1>3, <1>5 DEF Turn
<1>12. Len(trace') <= Len(order') /\ memory' = mem[Len(trace')]
  BY <1>2, <1>3, <1>5, <1>6
<1> QED
  BY <1>4, <1>5, <1>6, <1>9, <1>10, <1>11, <1>12 DEF Follows

\* Where a call that performs nothing leads to.
LEMMA SilentPlace ==
  ASSUME NEW w, NEW mem, NEW pos, Following(w, mem, pos), NEW t \in Tid,
         status[t] # "unborn", ~Access(t, execpoint[t]), Instr(t, execpoint[t]).op # "END",
         NEW d, d = w[t][pos[t] + 1]
  PROVE  /\ pos[t] \in DOMAIN w[t] /\ pos[t] + 1 \in DOMAIN w[t]
         /\ execpoint[t] = w[t][pos[t]].point /\ w[t][pos[t]].time <= Len(trace)
         /\ IF Instr(t, execpoint[t]).op = "FUNCTION"
            THEN Outputs(Instr(t, execpoint[t]), reg[t], d.reg) ELSE d.reg = reg[t]
         /\ d.time <= Len(trace) /\ Quiet(t, d.time, Len(trace))
         /\ d.point =
              CASE Instr(t, execpoint[t]).op = "MERGE"  -> AfterMerge(execpoint[t])
                [] Instr(t, execpoint[t]).op = "BRANCH" ->
                     IF BranchTaken(t) \in encoded
                     THEN IntoBranch(execpoint[t], Direction(reg[t])) ELSE PastBranch(execpoint[t])
                [] OTHER -> IncrementTop(execpoint[t])
<1>1. PICK c : c = w[t][pos[t]]
  OBVIOUS
<1>2. /\ pos[t] \in DOMAIN w[t] /\ execpoint[t] = c.point /\ reg[t] = c.reg
      /\ c.time <= Len(trace) /\ Quiet(t, c.time, Len(trace))
  BY <1>1, FollowingFacts DEF OnWay, Place
<1>3. pos[t] + 1 \in DOMAIN w[t] /\ WalksTo(t, c, d)
  BY <1>1, <1>2, FollowingFacts, NextPlace
<1>4. /\ d.time = c.time
      /\ IF Instr(t, c.point).op = "FUNCTION" THEN Outputs(Instr(t, c.point), c.reg, d.reg)
                                              ELSE d.reg = c.reg
  BY <1>2, <1>3 DEF WalksTo
<1>5. d.point = CASE Instr(t, c.point).op = "MERGE"  -> AfterMerge(c.point)
                  [] Instr(t, c.point).op = "BRANCH" ->
                       IF [tid |-> t, point |-> c.point, dir |-> Direction(c.reg)] \in encoded
                       THEN IntoBranch(c.point, Direction(c.reg)) ELSE PastBranch(c.point)
                  [] OTHER -> IncrementTop(c.point)
  BY <1>3 DEF WalksTo
<1> QED
  BY <1>1, <1>2, <1>3, <1>4, <1>5 DEF BranchTaken

\* A call that performs nothing and leads to the next place keeps the schedule followed.
LEMMA SilentFollows ==
  ASSUME NEW w, NEW mem, NEW pos, Following(w, mem, pos), NEW t, t = current,
         status[t] = "running", ~Access(t, execpoint[t]), Instr(t, execpoint[t]).op # "END",
         execpoint' = [execpoint EXCEPT ![t] = w[t][pos[t] + 1].point],
         pc' = [pc EXCEPT ![t] = "run"],
         reg'[t] = w[t][pos[t] + 1].reg, \A k \in Tid : k # t => reg'[k] = reg[k],
         UNCHANGED <<memory, trace, waitset, waitsetindex, newbehavior, current, phase,
                     order, frontier>>,
         status'[t] = "running",
         Creates(w),
         Instr(t, execpoint[t]).op = "CREATE" => status'[Instr(t, execpoint[t]).tid] # "unborn"
  PROVE  \E pos2 \in [Tid -> Nat] : Follows(w, mem, pos2)'
<1>1. /\ t \in Tid /\ Len(trace) \in Nat /\ pc \in [Tid -> {"run", "search", "resume"}]
      /\ status \in [Tid -> {"unborn", "running", "complete"}]
  BY FollowingFacts
<1>2. /\ ~newbehavior /\ Len(trace) <= Len(order) /\ \A m \in DOMAIN trace : trace[m] = order[m]
      /\ memory = mem[Len(trace)] /\ Indices /\ \A k \in Tid : frontier[k] = Nil
      /\ phase = "run"
  BY DEF Following, Follows
<1>3. PICK L : L = Len(trace)
  OBVIOUS
<1>4. Goes(L) /\ ~(L = Len(trace) + 1)
  <2>1. \A k \in Tid : status[k] # "unborn" => status'[k] # "unborn"
    BY DEF Creates
  <2>2. ~(L = Len(trace) + 1)
    BY <1>1, <1>3
  <2> QED BY <1>1, <1>3, <2>1, <2>2 DEF Goes
<1>6. /\ pos[t] + 1 \in DOMAIN w[t]
      /\ w[t][pos[t] + 1].time <= L /\ Quiet(t, w[t][pos[t] + 1].time, L)
  BY <1>1, <1>3, SilentPlace
<1>7. PICK pos2 \in [Tid -> Nat] : OnWays(w, pos2)'
  <2>1. L = Len(trace) + 1 /\ L \in DOMAIN order => order[L].tid = t
    BY <1>4
  <2>2. t \in Tid /\ Goes(L)
    BY <1>1, <1>4
  <2> QED BY <1>6, <2>1, <2>2, OnWaysMove
<1>8. Indices'
  BY <1>2, IndicesStay
<1>9. Turn'
  BY <1>1 DEF Turn
<1> QED
  BY <1>2, <1>7, <1>8, <1>9 DEF Follows

\* Recording a local operation, a join and the end of a body perform nothing.
LEMMA PassFollows ==
  ASSUME NEW w, NEW mem, NEW pos, Following(w, mem, pos), NEW t, t = current,
         Operation(t), local(t) \/ threadJoin(t) \/ merge(t),
         UNCHANGED <<waitset, waitsetindex, current, phase, builderVars>>
  PROVE  \E pos2 \in [Tid -> Nat] : Follows(w, mem, pos2)'
<1>1. t \in Tid /\ status[t] = "running"
  BY FollowingFacts DEF Operation, InCheckPreempt
<1>2. PICK ins : ins = Instr(t, execpoint[t])
  OBVIOUS
<1>3. ins.op \in {"LOCAL", "JOIN", "MERGE"} /\ ~Access(t, execpoint[t])
  BY <1>2 DEF local, threadJoin, merge, Current, Access
<1>4. /\ w[t][pos[t] + 1].reg = reg[t]
      /\ w[t][pos[t] + 1].point = IF ins.op = "MERGE" THEN AfterMerge(execpoint[t])
                                                      ELSE IncrementTop(execpoint[t])
  BY <1>1, <1>2, <1>3, SilentPlace
<1>5. /\ execpoint' = [execpoint EXCEPT ![t] = w[t][pos[t] + 1].point]
      /\ UNCHANGED <<memory, reg, trace, status>>
  <2>1. CASE local(t)
    BY <1>2, <1>4, <2>1 DEF local, Current, Advance, MoveTo
  <2>2. CASE threadJoin(t)
    BY <1>2, <1>4, <2>2 DEF threadJoin, Current, Advance, MoveTo
  <2>3. CASE merge(t)
    BY <1>2, <1>4, <2>3 DEF merge, Current, MoveTo
  <2> QED BY <2>1, <2>2, <2>3
<1>6. pc' = [pc EXCEPT ![t] = "run"] /\ UNCHANGED <<newbehavior, order, frontier>>
  BY DEF Operation, builderVars
<1>7. status'[t] = "running" /\ Creates(w)
  BY <1>1, <1>5 DEF Creates
<1> QED
  BY <1>1, <1>2, <1>3, <1>4, <1>5, <1>6, <1>7, SilentFollows

\* The first operation of a created thread is behind the creation.
LEMMA CreateFollows ==
  ASSUME NEW w, NEW mem, NEW pos, Following(w, mem, pos), NEW t, t = current,
         Operation(t), threadCreate(t),
         UNCHANGED <<waitset, waitsetindex, current, phase, builderVars>>
  PROVE  \E pos2 \in [Tid -> Nat] : Follows(w, mem, pos2)'
<1>1. /\ t \in Tid /\ status[t] = "running" /\ Ways(w) /\ Creations(w)
      /\ status \in [Tid -> {"unborn", "running", "complete"}]
  BY FollowingFacts DEF Operation, InCheckPreempt
<1>2. PICK ins : ins = Instr(t, execpoint[t])
  OBVIOUS
<1>3. ins.op = "CREATE" /\ ~Access(t, execpoint[t])
  BY <1>2 DEF threadCreate, Current, Access
<1>4. PICK c : c = ins.tid
  OBVIOUS
<1>5. /\ pos[t] \in DOMAIN w[t] /\ pos[t] + 1 \in DOMAIN w[t]
      /\ execpoint[t] = w[t][pos[t]].point /\ w[t][pos[t]].time <= Len(trace)
      /\ w[t][pos[t] + 1].point = IncrementTop(execpoint[t])
      /\ w[t][pos[t] + 1].reg = reg[t]
  BY <1>1, <1>2, <1>3, SilentPlace
<1>6. c \in Tid /\ t < c /\ w[c] # <<>> /\ w[c][1].time = w[t][pos[t]].time
  BY <1>1, <1>2, <1>3, <1>4, <1>5, CreatorPlace
<1>7. /\ execpoint' = [execpoint EXCEPT ![t] = w[t][pos[t] + 1].point]
      /\ UNCHANGED <<memory, reg, trace>>
      /\ status' = [status EXCEPT ![c] = "running"] /\ Created = 0 .. c - 1
  BY <1>2, <1>4, <1>5 DEF threadCreate, Current, Advance, MoveTo, NewThread
<1>8. status[c] = "unborn"
  <2>1. c \notin 0 .. c - 1
    BY <1>6, ProgramAssumption DEF Tid
  <2> QED BY <1>6, <1>7, <2>1 DEF Created
<1>9. /\ \A k \in Tid : k # c => status'[k] = status[k]
      /\ status'[c] = "running" /\ w[c][1].time <= Len(trace)
      /\ status'[t] = "running"
  BY <1>1, <1>5, <1>6, <1>7
<1>10. pc' = [pc EXCEPT ![t] = "run"] /\ UNCHANGED <<newbehavior, order, frontier>>
  BY DEF Operation, builderVars
<1>11. Creates(w)
  BY <1>6, <1>8, <1>9 DEF Creates
<1>12. /\ Instr(t, execpoint[t]).op # "END"
       /\ Instr(t, execpoint[t]).op = "CREATE" => status'[Instr(t, execpoint[t]).tid] # "unborn"
  BY <1>2, <1>3, <1>4, <1>9
<1>13. reg'[t] = w[t][pos[t] + 1].reg /\ \A k \in Tid : k # t => reg'[k] = reg[k]
  BY <1>5, <1>7
<1>14. /\ execpoint' = [execpoint EXCEPT ![t] = w[t][pos[t] + 1].point]
       /\ UNCHANGED <<memory, trace, waitset, waitsetindex, newbehavior, current, phase, order,
                      frontier>>
       /\ status'[t] = "running"
  BY <1>7, <1>9, <1>10
<1>15. status[t] = "running" /\ ~Access(t, execpoint[t])
  BY <1>1, <1>3
<1> QED
  BY ZenonT(60), <1>10, <1>11, <1>12, <1>13, <1>14, <1>15, SilentFollows

\* A branch whose direction the encoding knows leads where the walk went.  One it does not
\* know is new, or another execution has recorded it: then the schedule does not bind.
LEMMA BranchFollows ==
  ASSUME NEW w, NEW mem, NEW pos, Following(w, mem, pos), NEW t, t = current,
         TakeBranch(t), Scheduled',
         UNCHANGED <<waitset, waitsetindex, current, phase, builderVars>>
  PROVE  \E pos2 \in [Tid -> Nat] : Follows(w, mem, pos2)'
<1>1. /\ t \in Tid /\ status[t] = "running" /\ known = encoded
  BY FollowingFacts DEF TakeBranch, InCheckPreempt
<1>2. PICK ins : ins = Instr(t, execpoint[t])
  OBVIOUS
<1>3. ins.op = "BRANCH" /\ ~Access(t, execpoint[t])
  BY <1>2 DEF TakeBranch, branchDir, Current, Access
<1>4. BranchTaken(t) \in encoded
  <2>1. known' = known \cup {BranchTaken(t)} /\ encoded' = encoded /\ known' = encoded'
    BY DEF TakeBranch, branchDir, builderVars, Scheduled
  <2> QED BY <1>1, <2>1
<1>5. /\ w[t][pos[t] + 1].point = IntoBranch(execpoint[t], Direction(reg[t]))
      /\ w[t][pos[t] + 1].reg = reg[t]
  BY <1>1, <1>2, <1>3, <1>4, SilentPlace
<1>6. /\ execpoint' = [execpoint EXCEPT ![t] = w[t][pos[t] + 1].point]
      /\ UNCHANGED <<memory, reg, trace, status>>
  BY <1>5 DEF TakeBranch, branchDir, MoveTo
<1>7. pc' = [pc EXCEPT ![t] = "run"] /\ UNCHANGED <<order, frontier>>
  BY DEF TakeBranch, builderVars
<1>8. newbehavior' = newbehavior
  <2>1. newbehavior \in BOOLEAN
    BY FollowingFacts DEF IInv, TypeOK, SchedTypeOK
  <2>2. newbehavior' = (newbehavior \/ BranchTaken(t) \notin known)
    BY DEF TakeBranch
  <2> QED BY <1>1, <1>4, <2>1, <2>2
<1>9. status'[t] = "running" /\ Creates(w)
  BY <1>1, <1>6 DEF Creates
<1>10. Instr(t, execpoint[t]).op \notin {"END", "CREATE"}
  BY <1>2, <1>3
<1> QED
  BY <1>1, <1>3, <1>5, <1>6, <1>7, <1>8, <1>9, <1>10, SilentFollows

\* The solution has the result of a function on an input the encoding knows.  An input it
\* does not know is new, or another execution has recorded it: then the schedule does not
\* bind.
LEMMA FunctionFollows ==
  ASSUME NEW w, NEW mem, NEW pos, Following(w, mem, pos), NEW t, t = current,
         CallFunction(t), Scheduled',
         UNCHANGED <<waitset, waitsetindex, current, phase, builderVars>>
  PROVE  \E pos2 \in [Tid -> Nat] : Follows(w, mem, pos2)'
<1>1. /\ t \in Tid /\ status[t] = "running" /\ known = encoded /\ reg \in [Tid -> Val]
  <2>1. reg \in [Tid -> Val]
    BY FollowingFacts DEF IInv, TypeOK, ExecTypeOK
  <2> QED BY <2>1, FollowingFacts DEF CallFunction, InCheckPreempt
<1>2. PICK ins : ins = Instr(t, execpoint[t])
  OBVIOUS
<1>3. ins.op = "FUNCTION" /\ ~Access(t, execpoint[t])
  BY <1>2 DEF CallFunction, function, Current, Access
<1>4. GoalOf(t) \in encoded /\ GoalOf(t) = [goals |-> ins.goals, input |-> reg[t]]
  <2>1. known' = known \cup {GoalOf(t)} /\ encoded' = encoded /\ known' = encoded'
    BY DEF CallFunction, function, builderVars, Scheduled
  <2>2. GoalOf(t) = [goals |-> ins.goals, input |-> reg[t]]
    BY <1>2 DEF GoalOf, Current
  <2> QED BY <1>1, <2>1, <2>2
<1>5. /\ w[t][pos[t] + 1].point = IncrementTop(execpoint[t])
      /\ Outputs(ins, reg[t], w[t][pos[t] + 1].reg)
  BY <1>1, <1>2, <1>3, SilentPlace
<1>6. w[t][pos[t] + 1].reg = ins.result[reg[t]]
  BY <1>4, <1>5 DEF Outputs
<1>7. PICK v : v = ins.result[reg[t]]
  OBVIOUS
<1>8. reg' = [reg EXCEPT ![t] = v]
  BY <1>2, <1>7 DEF CallFunction, function, Current
<1>9. reg'[t] = w[t][pos[t] + 1].reg /\ \A k \in Tid : k # t => reg'[k] = reg[k]
  BY <1>1, <1>6, <1>7, <1>8
<1>10. /\ execpoint' = [execpoint EXCEPT ![t] = w[t][pos[t] + 1].point]
       /\ UNCHANGED <<memory, trace, status>>
  BY <1>5 DEF CallFunction, function, Advance, MoveTo
<1>11. pc' = [pc EXCEPT ![t] = "run"] /\ UNCHANGED <<order, frontier>>
  BY DEF CallFunction, builderVars
<1>12. newbehavior' = newbehavior
  <2>1. newbehavior \in BOOLEAN
    BY FollowingFacts DEF IInv, TypeOK, SchedTypeOK
  <2>2. newbehavior' = (newbehavior \/ GoalOf(t) \notin known)
    BY DEF CallFunction
  <2> QED BY <1>1, <1>4, <2>1, <2>2
<1>13. status'[t] = "running" /\ Creates(w)
  BY <1>1, <1>10 DEF Creates
<1>14. Instr(t, execpoint[t]).op \notin {"END", "CREATE"}
  BY <1>2, <1>3
<1> QED
  BY <1>1, <1>3, <1>9, <1>10, <1>11, <1>12, <1>13, <1>14, SilentFollows

\* A thread that finishes is at the end of its walk.
LEMMA FinishFollows ==
  ASSUME NEW w, NEW mem, NEW pos, Following(w, mem, pos), NEW t, t = current, Finish(t),
         UNCHANGED <<waitset, waitsetindex, current, phase, builderVars>>
  PROVE  Follows(w, mem, pos)'
<1>1. /\ t \in Tid /\ status[t] = "running" /\ Ways(w) /\ Len(trace) \in Nat
      /\ DOMAIN order \subseteq Nat /\ pc \in [Tid -> {"run", "search", "resume"}]
      /\ status \in [Tid -> {"unborn", "running", "complete"}]
      /\ \A k \in Tid : status[k] # "unborn" => OnWay(w, pos, k)
  BY FollowingFacts DEF Finish, InCheckPreempt
<1>2. /\ ~newbehavior /\ Len(trace) <= Len(order) /\ \A m \in DOMAIN trace : trace[m] = order[m]
      /\ memory = mem[Len(trace)] /\ Indices /\ \A k \in Tid : frontier[k] = Nil
      /\ phase = "run" /\ OnWays(w, pos)
  BY DEF Following, Follows
<1>3. /\ Instr(t, execpoint[t]).op = "END" /\ status' = [status EXCEPT ![t] = "complete"]
      /\ UNCHANGED <<memory, execpoint, reg, trace, order, frontier, newbehavior>>
      /\ pc' = [pc EXCEPT ![t] = "search"]
  BY DEF Finish, threadFinish, Current, builderVars
<1>4. PICK L : L = Len(trace)
  OBVIOUS
<1>5. Goes(L) /\ ~(L = Len(trace) + 1)
  <2>1. ~(L = Len(trace) + 1)
    BY <1>1, <1>4
  <2>2. \A k \in Tid : status[k] # "unborn" => status'[k] # "unborn"
    BY <1>1, <1>3
  <2> QED BY <1>1, <1>3, <1>4, <2>1, <2>2 DEF Goes
<1>6. ASSUME NEW k \in Tid, status[k] # "unborn" PROVE OnWay(w, pos, k)'
  <2>1. status'[k] = "complete" => status[k] = "complete" \/ Instr(k, execpoint[k]).op = "END"
    BY <1>1, <1>3
  <2>2. OnWay(w, pos, k) /\ execpoint'[k] = execpoint[k] /\ reg'[k] = reg[k]
    BY <1>1, <1>3, <1>6
  <2> QED BY <1>1, <1>5, <2>1, <2>2, OnWayStays
<1>7. OnWays(w, pos)'
  <2>1. ASSUME NEW k \in Tid, status'[k] = "unborn"
        PROVE  execpoint'[k] = FirstPoint /\ reg'[k] = 0 /\ Quiet(k, 0, Len(trace))'
    <3>1. status[k] = "unborn"
      BY <1>1, <1>3, <2>1
    <3> QED BY <1>2, <1>3, <3>1 DEF OnWays, Quiet
  <2>2. ASSUME NEW k \in Tid, status'[k] # "unborn" PROVE OnWay(w, pos, k)'
    <3>1. status[k] # "unborn"
      BY <1>1, <1>3, <2>2
    <3> QED BY <1>6, <3>1
  <2> QED BY <2>1, <2>2 DEF OnWays
<1>8. Indices' /\ Turn'
  BY <1>1, <1>2, <1>3, IndicesStay DEF Turn
<1> QED
  BY <1>2, <1>3, <1>7, <1>8 DEF Follows

--------------------------------------------------------------------------------
(***************************************************************************)
(* check_preempt: it switches to the thread whose operation is next.       *)
(***************************************************************************)
\* A thread has not passed an operation that is still to come, and has not finished.
LEMMA NotResolved ==
  ASSUME NEW w, NEW mem, NEW pos, Following(w, mem, pos), NEW m \in DOMAIN order,
         m > Len(trace), NEW u, u = order[m].tid
  PROVE  u \in Tid /\ ~OpResolved(u, order[m].point)
<1>1. /\ Ways(w) /\ Listed(w) /\ order \in Seq(Event) /\ Len(trace) \in Nat
      /\ w \in [Tid -> Seq(Config)] /\ m \in Nat
  BY FollowingFacts
<1>2. /\ u \in Tid
      /\ \E b \in DOMAIN w[u] :
           /\ b + 1 \in DOMAIN w[u]
           /\ w[u][b].point = order[m].point /\ w[u][b + 1].time = m
           /\ w[u][b].time < m /\ Quiet(u, w[u][b].time, m - 1)
           /\ Access(u, order[m].point) /\ order[m].point \in BlockPoint
  <2>1. Ways(w) /\ Listed(w) /\ order \in Seq(Event)
    BY <1>1
  <2> QED BY <2>1, EventPlace
<1>3. PICK b \in DOMAIN w[u] : /\ b + 1 \in DOMAIN w[u]
                               /\ w[u][b].point = order[m].point /\ w[u][b + 1].time = m
                               /\ order[m].point \in BlockPoint
  BY <1>2
<1>4. order[m].point # Nil
  <2>1. Len(order[m].point) # 0
    BY <1>3, BlockTop
  <2> QED BY <2>1 DEF Nil
<1>5. \E a \in DOMAIN w[u] : /\ a <= b /\ execpoint[u] = w[u][a].point
                             /\ status[u] # "complete"
  <2>1. CASE status[u] = "unborn"
    <3>1. execpoint[u] = FirstPoint
      BY <1>2, <2>1 DEF Following, Follows, OnWays
    <3>2. w[u] \in Seq(Config) /\ b \in 1 .. Len(w[u]) /\ Len(w[u]) \in Nat
      BY <1>1, <1>2, <1>3, PlaceFacts
    <3>3. 1 \in DOMAIN w[u] /\ 1 <= b /\ w[u] # <<>>
      BY <3>2
    <3>4. w[u][1].point = FirstPoint
      BY <1>1, <1>2, <3>3 DEF Ways
    <3> QED BY <2>1, <3>1, <3>3, <3>4
  <2>2. CASE status[u] # "unborn"
    <3>1. OnWay(w, pos, u)
      BY <1>2, <2>2, FollowingFacts
    <3>2. PICK a \in DOMAIN w[u] : /\ a = pos[u] /\ execpoint[u] = w[u][a].point
                                   /\ w[u][a].time <= Len(trace)
                                   /\ status[u] = "complete" => Instr(u, w[u][a].point).op = "END"
      BY <3>1 DEF OnWay, Place
    <3>3. /\ w[u][a].time \in Nat /\ a \in Nat /\ b \in Nat
          /\ DOMAIN w[u] = 1 .. Len(w[u]) /\ Len(w[u]) \in Nat
      <4>1. w[u][a].time \in Nat /\ DOMAIN w[u] = 1 .. Len(w[u]) /\ Len(w[u]) \in Nat
        BY <1>1, <1>2, PlaceFacts
      <4> QED BY <4>1
    <3>4. b + 1 <= a => m <= w[u][a].time
      BY SMTT(30), <1>1, <1>2, <1>3, <3>2, WayOrder
    <3>5. a <= b
      <4>1. PICK x \in Nat : x = w[u][a].time
        BY <3>3
      <4>2. PICK len \in Nat : len = Len(trace)
        BY <1>1
      <4>3. x <= len /\ m > len /\ (b + 1 <= a => m <= x)
        BY <3>2, <3>4, <4>1, <4>2
      <4> QED BY <1>1, <3>3, <4>3
    <3>6. a + 1 \in DOMAIN w[u]
      <4>1. PICK n : n = Len(w[u])
        OBVIOUS
      <4>2. b + 1 \in 1 .. n /\ n \in Nat /\ DOMAIN w[u] = 1 .. n
        BY <1>3, <3>3, <4>1
      <4>3. a + 1 \in 1 .. n
        BY <3>3, <3>5, <4>2
      <4> QED BY <4>2, <4>3
    <3>7. Instr(u, w[u][a].point).op # "END"
      BY <1>1, <1>2, <3>2, <3>6 DEF Ways, WalksTo
    <3> QED BY <3>2, <3>5, <3>7
  <2> QED BY <2>1, <2>2
<1>6. PICK a \in DOMAIN w[u] : /\ a <= b /\ execpoint[u] = w[u][a].point
                               /\ status[u] # "complete"
  BY <1>5
<1>7. Compare(execpoint[u], order[m].point) \in {"AFTER", "EQUALS"}
  <2>1. /\ a < b => Compare(w[u][a].point, w[u][b].point) = "AFTER"
        /\ a = b => Compare(w[u][a].point, w[u][b].point) = "EQUALS"
        /\ a \in Nat /\ b \in Nat
    BY <1>1, <1>2, <1>3, <1>6, WayOrder
  <2> QED BY <1>3, <1>6, <2>1
<1> QED
  BY <1>2, <1>4, <1>6, <1>7 DEF OpResolved, Past, Finished

\* The pairs of a row are resolved only when its operation is the next one.
LEMMA PassableFirst ==
  ASSUME NEW w, NEW mem, NEW pos, Following(w, mem, pos), NEW k \in Tid, NEW row,
         NEW n \in DOMAIN order, RowOf(row, k, n), Quiet(k, Len(trace), n - 1),
         Passable(row, execpoint[k])
  PROVE  n <= Len(trace) + 1
<1>1. /\ order \in Seq(Event) /\ Len(trace) \in Nat /\ DOMAIN order = 1 .. Len(order)
      /\ Len(order) \in Nat
  BY FollowingFacts
<1>2. PICK m : m = Len(trace) + 1
  OBVIOUS
<1>3. SUFFICES ASSUME m < n PROVE FALSE
  BY <1>1, <1>2
<1>4. m \in DOMAIN order /\ m > Len(trace) /\ m \in Nat /\ n \in Nat /\ m <= n - 1
  BY <1>1, <1>2, <1>3
<1>5. PICK u : u = order[m].tid
  OBVIOUS
<1>6. u \in Tid /\ u # k
  <2>1. u \in Tid
    BY <1>4, <1>5, NotResolved
  <2>2. order[m].tid # k
    BY <1>4 DEF Quiet
  <2> QED BY <1>5, <2>1, <2>2
<1>7. LastAt(u, row.op[u], n - 1)
  BY <1>6 DEF RowOf
<1>8. ~Quiet(u, 0, n - 1)
  BY <1>4, <1>5 DEF Quiet
<1>9. PICK e \in DOMAIN order : /\ e <= n - 1 /\ order[e].tid = u
                                /\ order[e].point = row.op[u] /\ Quiet(u, e, n - 1)
  BY <1>7, <1>8 DEF LastAt
<1>10. e \in Nat /\ ~(e < m)
  BY <1>1, <1>4, <1>5, <1>9 DEF Quiet
<1>11. e > Len(trace)
  BY <1>1, <1>2, <1>10
<1>12. ~OpResolved(u, row.op[u])
  BY <1>9, <1>11, NotResolved
<1> QED
  BY <1>6, <1>12 DEF Passable, WaitsResolved

\* A thread has one operation at a point.
LEMMA OneEvent ==
  ASSUME NEW w, Ways(w), Listed(w), order \in Seq(Event), NEW m \in DOMAIN order,
         NEW n \in DOMAIN order, order[m].tid = order[n].tid, order[m].point = order[n].point
  PROVE  m = n
<1>1. /\ m < n => Compare(order[m].point, order[n].point) = "AFTER"
      /\ m > n => Compare(order[m].point, order[n].point) = "BEFORE"
      /\ order[m].point \in BlockPoint /\ m \in Nat /\ n \in Nat
  BY EventOrder
<1>2. Compare(order[m].point, order[n].point) = "EQUALS"
  BY <1>1, CompareSelf, BlockTop
<1> QED
  BY <1>1, <1>2

\* The operation at the point a thread has reached is its next one.
LEMMA StopIsNext ==
  ASSUME NEW w, NEW mem, NEW pos, Following(w, mem, pos), NEW k \in Tid, status[k] # "unborn",
         NEW e \in DOMAIN order, order[e].tid = k, order[e].point = execpoint[k]
  PROVE  e > Len(trace) /\ Quiet(k, Len(trace), e - 1)
<1>1. Ways(w) /\ Listed(w) /\ order \in Seq(Event)
  BY FollowingFacts
<1>2. Access(k, execpoint[k])
  <2>1. Access(k, order[e].point)
    BY <1>1, EventPlace
  <2> QED BY <2>1
<1>3. PICK n \in DOMAIN order : /\ n > Len(trace) /\ Quiet(k, Len(trace), n - 1)
                                /\ order[n].tid = k /\ order[n].point = execpoint[k]
  BY <1>2, NextEvent
<1>4. n = e
  BY <1>1, <1>3, OneEvent
<1> QED
  BY <1>3, <1>4

\* The index checkSet leaves says of the rows what the index before it said.
LEMMA IndexScan ==
  ASSUME NEW w, NEW mem, NEW pos, Following(w, mem, pos), NEW k \in Tid, status[k] # "unborn",
         NEW i, i = NextIndex(waitset[k], waitsetindex[k], execpoint[k]),
         NEW j \in DOMAIN waitset[k], NEW e \in DOMAIN order,
         order[e].tid = k, order[e].point = waitset[k][j].stop
  PROVE  IF j < i THEN e <= Len(trace) + 1 ELSE e > Len(trace)
<1>1. /\ Ways(w) /\ Listed(w) /\ Rows /\ order \in Seq(Event) /\ waitset \in [Tid -> Seq(Row)]
      /\ waitsetindex[k] \in Nat \ {0} /\ execpoint[k] \in BlockPoint
      /\ Len(trace) \in Nat
  BY FollowingFacts
<1>2. waitset[k] \in Seq(Row) /\ j \in Nat
  BY <1>1
<1>3. /\ i \in Nat \ {0} /\ i >= waitsetindex[k]
      /\ waitsetindex[k] <= j /\ j < i => Passable(waitset[k][j], execpoint[k])
  BY <1>1, <1>2, NextIndexFacts
<1>4. IF j < waitsetindex[k] THEN e <= Len(trace) + 1 ELSE e > Len(trace)
  BY DEF Following, Follows, Indices
<1>5. CASE j < waitsetindex[k]
  BY <1>1, <1>2, <1>3, <1>4, <1>5
<1>6. CASE i <= j
  BY <1>1, <1>2, <1>3, <1>4, <1>6
<1>7. CASE waitsetindex[k] <= j /\ j < i
  <2>1. PICK row : row = waitset[k][j]
    OBVIOUS
  <2>2. Passable(row, execpoint[k])
    BY <1>3, <1>7, <2>1
  <2>3. order[e].point \in BlockPoint
    BY <1>1, EventPlace
  <2>4. order[e].point = execpoint[k]
    BY <1>1, <2>1, <2>2, <2>3, EqualsSame DEF Passable, AtStop
  <2>5. Quiet(k, Len(trace), e - 1)
    BY <2>4, StopIsNext
  <2>6. PICK n \in DOMAIN order : RowOf(row, k, n)
    BY <1>1, <2>1 DEF Rows
  <2>7. n = e
    BY <1>1, <2>1, <2>6, OneEvent DEF RowOf
  <2>8. e <= Len(trace) + 1
    BY <2>2, <2>5, <2>6, <2>7, PassableFirst
  <2> QED BY <1>7, <2>8
<1> QED
  BY <1>1, <1>2, <1>3, <1>5, <1>6, <1>7

\* A thread that checkSet lets run has the next operation of the order.
LEMMA FreeTurn ==
  ASSUME NEW w, NEW mem, NEW pos, Following(w, mem, pos), NEW k \in Tid, status[k] = "running",
         ~Blocked(waitset[k], waitsetindex[k], execpoint[k]), Access(k, execpoint[k]),
         NEW i, i = NextIndex(waitset[k], waitsetindex[k], execpoint[k])
  PROVE  /\ Len(trace) + 1 \in DOMAIN order /\ order[Len(trace) + 1].tid = k
         /\ \A j \in DOMAIN waitset[k] : j >= i => waitset[k][j].stop # execpoint[k]
<1>1. /\ Ways(w) /\ Listed(w) /\ Rows /\ order \in Seq(Event) /\ waitset \in [Tid -> Seq(Row)]
      /\ waitsetindex[k] \in Nat \ {0} /\ execpoint[k] \in BlockPoint
      /\ Len(trace) \in Nat /\ DOMAIN order = 1 .. Len(order) /\ Len(order) \in Nat
  BY FollowingFacts
<1>2. PICK n \in DOMAIN order : /\ n > Len(trace) /\ Quiet(k, Len(trace), n - 1)
                                /\ order[n].tid = k /\ order[n].point = execpoint[k]
  BY NextEvent
<1>3. /\ waitset[k] \in Seq(Row) /\ DOMAIN waitset[k] = 1 .. Len(waitset[k])
      /\ Len(waitset[k]) \in Nat
  BY <1>1
<1>4. i \in Nat \ {0} /\ i >= waitsetindex[k]
  BY <1>1, <1>3, NextIndexFacts
<1>5. ASSUME NEW j \in DOMAIN waitset[k], j >= i, waitset[k][j].stop = execpoint[k] PROVE FALSE
  <2>1. i \in DOMAIN waitset[k] /\ i <= Len(waitset[k]) /\ j \in Nat
    BY <1>3, <1>4, <1>5
  <2>2. ~AtStop(waitset[k][i], execpoint[k])
    <3>1. ~newbehavior
      BY DEF Following, Follows
    <3> QED BY <2>1, <3>1 DEF Blocked
  <2>3. i # j
    <3>1. Compare(execpoint[k], execpoint[k]) = "EQUALS"
      BY <1>1, CompareSelf, BlockTop
    <3> QED BY <1>5, <2>2, <3>1 DEF AtStop
  <2>4. Compare(waitset[k][i].stop, execpoint[k]) = "AFTER"
    BY <1>1, <1>4, <1>5, <2>1, <2>3 DEF Rows
  <2>5. PICK e \in DOMAIN order : RowOf(waitset[k][i], k, e)
    BY <1>1, <2>1 DEF Rows
  <2>6. order[e].tid = k /\ order[e].point = waitset[k][i].stop
    BY <2>5 DEF RowOf
  <2>7. e > Len(trace)
    BY <1>4, <2>1, <2>6, IndexScan
  <2>8. /\ e > n => Compare(order[e].point, order[n].point) = "BEFORE"
        /\ e \in Nat /\ n \in Nat
    BY <1>1, <1>2, <2>6, EventOrder
  <2>9. e # n
    BY <1>1, <1>2, <2>4, <2>6, CompareSelf, BlockTop
  <2>10. e < n
    BY <1>2, <2>4, <2>6, <2>8, <2>9
  <2> QED BY <1>1, <1>2, <2>6, <2>7, <2>8, <2>10 DEF Quiet
<1>6. n = Len(trace) + 1
  <2>1. SUFFICES ASSUME Len(trace) + 1 < n PROVE FALSE
    BY <1>1, <1>2
  <2>2. PICK m : m = Len(trace) + 1
    OBVIOUS
  <2>3. m \in DOMAIN order /\ m < n /\ m > Len(trace) /\ m <= n - 1
    BY <1>1, <2>1, <2>2
  <2>4. order[m].tid # order[n].tid
    BY <1>2, <2>3 DEF Quiet
  <2>5. PICK j \in DOMAIN waitset[k] : waitset[k][j].stop = order[n].point
    BY <1>1, <1>2, <2>3, <2>4 DEF Rows
  <2>6. j < i
    BY <1>2, <1>3, <1>4, <1>5, <2>5
  <2>7. n <= Len(trace) + 1
    BY <1>2, <2>5, <2>6, IndexScan
  <2> QED BY <1>1, <2>1, <2>7
<1> QED
  BY <1>2, <1>5, <1>6

\* After a search the indices say of the rows what they said before.
LEMMA IndicesScanned ==
  ASSUME NEW w, NEW mem, NEW pos, Following(w, mem, pos), NEW t, NEW s, ScanTo(t, s),
         UNCHANGED <<order, trace, waitset>>
  PROVE  Indices'
<1>1. waitset \in [Tid -> Seq(Row)] /\ waitsetindex \in [Tid -> Nat] /\ ~newbehavior /\ Indices
  BY FollowingFacts DEF Following, Follows
<1>2. ASSUME NEW k \in Tid, NEW j \in DOMAIN waitset[k], NEW e \in DOMAIN order,
             order[e].tid = k, order[e].point = waitset[k][j].stop
      PROVE  IF j < waitsetindex'[k] THEN e <= Len(trace) + 1 ELSE e > Len(trace)
  <2>1. CASE waitsetindex'[k] = waitsetindex[k]
    BY <1>1, <1>2, <2>1 DEF Indices
  <2>2. CASE waitsetindex'[k] # waitsetindex[k]
    <3>1. PICK r \in 1 .. s : SlotTid(t, r) = k /\ ~IsBuffer(r) /\ Asked(t, r)
      BY <2>2 DEF ScanTo
    <3>2. status[k] = "running"
      BY <3>1 DEF Asked
    <3>3. waitsetindex'[k] = NextIndex(waitset[k], waitsetindex[k], execpoint[k])
      BY <1>1, <2>2 DEF ScanTo, Skipped
    <3> QED BY <1>2, <3>2, <3>3, IndexScan
  <2> QED BY <2>1, <2>2
<1> QED
  BY <1>2 DEF Indices

\* When every thread that exists has finished, every thread exists that has an operation, and
\* the order has been performed to its end.
LEMMA AllDone ==
  ASSUME NEW w, NEW mem, NEW pos, Following(w, mem, pos), \A k \in Tid : status[k] # "running"
  PROVE  trace = order
<1>1. /\ Ways(w) /\ Listed(w) /\ Creations(w) /\ w \in [Tid -> Seq(Config)]
      /\ trace \in Seq(Event) /\ Len(trace) \in Nat /\ DOMAIN trace = 1 .. Len(trace)
      /\ order \in Seq(Event) /\ Len(order) \in Nat /\ DOMAIN order = 1 .. Len(order)
      /\ status \in [Tid -> {"unborn", "running", "complete"}]
      /\ \A k \in Tid : storebuffer[k] = <<>>
      /\ \A k \in Tid : status[k] # "unborn" => OnWay(w, pos, k)
      /\ Tid \subseteq Nat
  <2>1. Tid \subseteq Nat
    BY ProgramAssumption DEF Tid
  <2> QED BY <2>1, FollowingFacts
<1>2. Len(trace) <= Len(order) /\ \A n \in DOMAIN trace : trace[n] = order[n]
  BY DEF Following, Follows
<1>3. \A k \in Tid : status[k] # "unborn" => status[k] = "complete"
  BY <1>1
<1>4. ASSUME NEW k \in Tid, w[k] # <<>> PROVE status[k] # "unborn"
  <2> DEFINE S == {j \in Tid : w[j] # <<>> /\ status[j] = "unborn"}
  <2>1. SUFFICES ASSUME S # {} PROVE FALSE
    BY <1>4
  <2>2. PICK j \in S : \A h \in S : j <= h
    BY <1>1, <2>1, LeastNatural
  <2>3. j \in Tid /\ w[j] # <<>> /\ status[j] = "unborn"
    BY <2>2
  <2>4. j # 0
    <3>1. Prefix
      BY DEF Following, Basis, IInv
    <3>2. 0 \in Created
      BY <3>1, PrefixFacts
    <3> QED BY <2>3, <3>2 DEF Created
  <2>5. PICK u \in Tid : \E b \in DOMAIN w[u] :
          /\ u < j /\ b + 1 \in DOMAIN w[u]
          /\ Instr(u, w[u][b].point) = [op |-> "CREATE", tid |-> j]
    BY <1>1, <2>3, <2>4 DEF Creations
  <2>6. PICK b \in DOMAIN w[u] :
          /\ u < j /\ b + 1 \in DOMAIN w[u]
          /\ Instr(u, w[u][b].point) = [op |-> "CREATE", tid |-> j]
    BY <2>5
  <2>7. u \notin S
    <3>1. ~(j <= u)
      BY <1>1, <2>3, <2>6
    <3> QED BY <2>2, <3>1
  <2>8. status[u] = "complete"
    <3>1. w[u] # <<>>
      BY <2>6
    <3> QED BY <1>3, <2>7, <3>1
  <2>9. PICK a \in DOMAIN w[u] :
          /\ a = pos[u] /\ Instr(u, w[u][a].point).op = "END"
          /\ \A c \in DOMAIN w[u] : c < pos[u] /\ Instr(u, w[u][c].point).op = "CREATE"
               => status[Instr(u, w[u][c].point).tid] # "unborn"
    BY <1>1, <2>8 DEF OnWay, Place
  <2>10. a + 1 \notin DOMAIN w[u]
    BY <1>1, <2>9 DEF Ways, WalksTo
  <2>11. b < a
    <3>1. PICK n : n = Len(w[u])
      OBVIOUS
    <3>2. n \in Nat /\ DOMAIN w[u] = 1 .. n
      BY <1>1, <2>6, <3>1, PlaceFacts
    <3>3. a \in 1 .. n /\ b + 1 \in 1 .. n /\ b \in 1 .. n /\ a + 1 \notin 1 .. n
      BY <2>6, <2>9, <2>10, <3>2
    <3> QED BY <3>2, <3>3
  <2> QED BY <2>3, <2>6, <2>9, <2>11
<1>5. ~(Len(trace) < Len(order))
  <2>1. SUFFICES ASSUME Len(trace) < Len(order) PROVE FALSE
    OBVIOUS
  <2>2. PICK m : m = Len(trace) + 1
    OBVIOUS
  <2>3. m \in DOMAIN order /\ m > Len(trace)
    BY <1>1, <2>1, <2>2
  <2>4. PICK u : u = order[m].tid
    OBVIOUS
  <2>5. u \in Tid /\ ~OpResolved(u, order[m].point)
    BY <2>3, <2>4, NotResolved
  <2>6. w[u] # <<>>
    <3>1. \E b \in DOMAIN w[u] : b + 1 \in DOMAIN w[u]
      BY <1>1, <2>3, <2>4 DEF Listed
    <3> QED BY <3>1
  <2>7. status[u] = "complete"
    BY <1>3, <1>4, <2>5, <2>6
  <2> QED BY <1>1, <2>5, <2>7 DEF OpResolved, Finished
<1>6. PICK n \in Nat : n = Len(trace) /\ n = Len(order)
  <2>5. Len(trace) \in Nat /\ Len(order) \in Nat
    BY <1>1
  <2>1. PICK i \in Nat : i = Len(trace)
    BY <2>5
  <2>2. PICK j \in Nat : j = Len(order)
    BY <2>5
  <2>3. i <= j /\ ~(i < j)
    BY <1>2, <1>5, <2>1, <2>2
  <2>4. i = j
    BY <2>3
  <2> QED BY <2>1, <2>2, <2>4
<1>7. trace \in [1 .. n -> Event] /\ order \in [1 .. n -> Event]
  BY <1>1, <1>6
<1>8. \A m \in 1 .. n : trace[m] = order[m]
  BY <1>1, <1>2, <1>6
<1> QED
  BY <1>7, <1>8

\* Whatever check_preempt does, the schedule is followed.
LEMMA PreemptFollows ==
  ASSUME NEW w, NEW mem, NEW pos, Following(w, mem, pos), NEW t, t = current, Preempt(t),
         Scheduled', UNCHANGED builderVars
  PROVE  Follows(w, mem, pos)'
<1>1. /\ t \in Tid /\ t \in Created /\ Prefix /\ \A k \in Tid : storebuffer[k] = <<>>
      /\ ~TSO /\ IInv /\ Threads /\ Ways(w) /\ Listed(w) /\ Rows
  BY FollowingFacts DEF IInv, Created
<1>2. /\ ~newbehavior /\ Len(trace) <= Len(order) /\ \A m \in DOMAIN trace : trace[m] = order[m]
      /\ memory = mem[Len(trace)] /\ \A k \in Tid : frontier[k] = Nil
      /\ OnWays(w, pos)
  BY DEF Following, Follows
<1>3. ~check_preempt_flush(t)
  <2>1. ASSUME check_preempt_flush(t) PROVE FALSE
    <3>1. PICK s \in Slots : FirstEligible(t, s) /\ IsBuffer(s)
      BY <2>1 DEF check_preempt_flush
    <3>2. storebuffer[SlotTid(t, s)] # <<>>
      BY <3>1 DEF FirstEligible, Eligible, Asked
    <3> QED BY <1>1, <3>2, SlotTidType
  <2> QED BY <2>1
<1>4. phase' # "undefined"
  BY DEF Scheduled
<1>5. ASSUME execVars' = execVars, newbehavior' = newbehavior, order' = order, frontier' = frontier,
             Indices', phase' = "run" => Turn', phase' = "done" => trace = order
      PROVE  Follows(w, mem, pos)'
  <2>1. /\ trace' = trace /\ memory' = memory /\ execpoint' = execpoint /\ reg' = reg
        /\ status' = status
    BY <1>5 DEF execVars
  <2>2. OnWays(w, pos)'
    BY <1>2, <1>5, <2>1 DEF OnWays, OnWay, Place, Quiet
  <2> QED BY <1>2, <1>5, <2>1, <2>2 DEF Follows
<1>6. order' = order /\ frontier' = frontier
  BY DEF builderVars
<1>7. CASE check_preempt_switch(t)
  <2>1. PICK s \in Slots : /\ FirstEligible(t, s) /\ ~IsBuffer(s)
                           /\ SwitchTo(t, SlotTid(t, s)) /\ ScanTo(t, s)
    BY <1>7 DEF check_preempt_switch
  <2>2. PICK k \in Tid : k = SlotTid(t, s)
    BY <1>1, SlotTidType
  <2>3. status[k] = "running" /\ ~Blocked(waitset[k], waitsetindex[k], execpoint[k])
    BY <2>1, <2>2 DEF FirstEligible, Eligible, Asked, SlotHolds
  <2>4. execVars' = execVars /\ newbehavior' = newbehavior /\ waitset' = waitset
    BY <1>7 DEF check_preempt_switch
  <2>5. trace' = trace /\ execpoint' = execpoint
    BY <2>4 DEF execVars
  <2>6. Indices'
    BY <1>6, <2>1, <2>4, <2>5, IndicesScanned
  <2>7. current' = k /\ k # NoThread
    BY <2>1, <2>2, ProgramAssumption DEF SwitchTo, NoThread, Tid
  <2>8. waitsetindex'[k] = NextIndex(waitset[k], waitsetindex[k], execpoint[k])
    <3>1. s \in 1 .. s
      BY <1>1, PrefixFacts, ProgramAssumption DEF Slots
    <3>2. SlotTid(t, s) = k /\ ~IsBuffer(s) /\ Asked(t, s)
      BY <2>1, <2>2 DEF FirstEligible, Eligible
    <3> QED BY <1>2, <2>1, <3>1, <3>2 DEF ScanTo, Skipped
  <2>9. Turn'
    <3>1. CASE ~Access(k, execpoint[k])
      BY <2>5, <2>7, <3>1 DEF Turn
    <3>2. CASE Access(k, execpoint[k])
      <4>1. /\ Len(trace) + 1 \in DOMAIN order /\ order[Len(trace) + 1].tid = k
            /\ \A j \in DOMAIN waitset[k] :
                 j >= waitsetindex'[k] => waitset[k][j].stop # execpoint[k]
        BY <2>3, <2>8, <3>2, FreeTurn
      <4> QED BY <1>6, <2>4, <2>5, <2>7, <4>1 DEF Turn
    <3> QED BY <3>1, <3>2
  <2>10. phase' = "run"
    BY <1>3, <1>4, <2>7 DEF Preempt
  <2> QED BY <1>5, <1>6, <2>4, <2>6, <2>9, <2>10
<1>8. CASE check_preempt_none(t)
  <2>1. /\ \A s \in Slots : ~Eligible(t, s) /\ ~Strays(t, s)
        /\ ScanTo(t, 2 * NumCreated)
        /\ execVars' = execVars /\ newbehavior' = newbehavior /\ waitset' = waitset
    BY <1>8 DEF check_preempt_none
  <2>2. \A k \in Tid : status[k] # "running"
    BY <1>1, <2>1, NoneRunning
  <2>3. trace = order
    BY <2>2, AllDone
  <2>4. trace' = trace
    BY <2>1 DEF execVars
  <2>5. Indices'
    BY <1>6, <2>1, <2>4, IndicesScanned
  <2>6. current' = NoThread
    <3>1. PICK k : k = (t + 1) % NumCreated
      OBVIOUS
    <3>2. t + 1 \in Nat
      BY <1>1, ProgramAssumption DEF Tid
    <3>3. k \in Created /\ k \in Tid
      BY <1>1, <3>1, <3>2, PrefixFacts
    <3>4. status[k] = "complete"
      BY <1>1, <2>2, <3>3 DEF Created, IInv, TypeOK, ExecTypeOK
    <3> QED BY <1>1, <1>8, <3>1, <3>4 DEF check_preempt_none, SwitchTo
  <2>7. phase' = "done"
    BY <1>3, <1>4, <2>6 DEF Preempt
  <2> QED BY <1>5, <1>6, <2>1, <2>3, <2>5, <2>7
<1> QED
  BY <1>3, <1>4, <1>7, <1>8 DEF Preempt

\* A scheduled execution starts where the walk of its main thread does.
LEMMA StartFollows ==
  ASSUME ~TSO, Basis, NEW w, NEW mem, Explained(w, mem), Start, Scheduled'
  PROVE  \E pos \in [Tid -> Nat] : Follows(w, mem, pos)'
<1>1. phase = "build" /\ Built
  BY DEF Start, Basis, Scheduled
<1>2. Unstarted
  BY <1>1 DEF Basis
<1>3. /\ trace = <<>> /\ memory = [l \in Loc |-> 0] /\ ~newbehavior
      /\ \A k \in Tid : /\ execpoint[k] = FirstPoint /\ reg[k] = 0 /\ pc[k] = "run"
                        /\ status[k] = (IF k = 0 THEN "running" ELSE "unborn")
                        /\ waitsetindex[k] = 1
  BY <1>2 DEF Unstarted, ExecInit
<1>4. /\ UNCHANGED <<memory, execpoint, reg, status, trace, order, frontier, waitset, waitsetindex,
                     newbehavior, pc>>
      /\ current' = 0 /\ phase' = "run"
  BY DEF Start, execVars, builderVars
<1>5. /\ Ways(w) /\ Memories(mem) /\ IInv
      /\ order \in Seq(Event) /\ Len(order) \in Nat /\ DOMAIN order = 1 .. Len(order)
      /\ waitset \in [Tid -> Seq(Row)]
  <2>1. IInv /\ Threads
    BY DEF Basis
  <2> QED BY <2>1, FollowTypes
<1>6. 0 \in Tid /\ Len(trace) = 0 /\ DOMAIN trace = {}
  BY <1>3, ProgramAssumption DEF Tid
<1>7. PICK pos \in [Tid -> Nat] : pos[0] = 1
  <2>1. [k \in Tid |-> 1] \in [Tid -> Nat] /\ [k \in Tid |-> 1][0] = 1
    BY <1>6
  <2> QED BY <2>1
<1>8. \A k \in Tid : Quiet(k, 0, 0)
  BY <1>5 DEF Quiet
<1>9. OnWay(w, pos, 0)
  <2>1. /\ w[0] # <<>> /\ w[0][1].time = 0 /\ w[0] \in Seq(Config)
        /\ w[0][1].point = FirstPoint /\ w[0][1].reg = 0
    BY <1>5, <1>6 DEF Ways
  <2>2. 1 \in DOMAIN w[0]
    BY <2>1
  <2>3. \A b \in DOMAIN w[0] : ~(b < 1)
    <3>1. \A b \in DOMAIN w[0] : b \in Nat \ {0}
      BY <1>5, <1>6, PlaceFacts DEF Ways
    <3> QED BY <3>1
  <2> QED BY <1>3, <1>6, <1>7, <1>8, <2>1, <2>2, <2>3 DEF OnWay, Place
<1>10. OnWays(w, pos)
  BY <1>3, <1>6, <1>8, <1>9 DEF OnWays
<1>11. Indices
  <2>1. ASSUME NEW k \in Tid, NEW j \in DOMAIN waitset[k], NEW n \in DOMAIN order
        PROVE  ~(j < waitsetindex[k]) /\ n > Len(trace)
    <3>1. j \in Nat \ {0} /\ n \in Nat \ {0}
      BY <1>5
    <3> QED BY <1>3, <1>6, <3>1
  <2> QED BY <2>1 DEF Indices
<1>12. Turn'
  BY <1>3, <1>4, <1>6 DEF Turn
<1>13. OnWays(w, pos)' /\ Indices'
  BY <1>4, <1>10, <1>11 DEF OnWays, OnWay, Place, Quiet, Indices
<1>14. memory = mem[Len(trace)]
  BY <1>3, <1>5, <1>6 DEF Memories
<1>15. \A k \in Tid : frontier[k] = Nil
  BY <1>1 DEF Built
<1> QED
  BY <1>3, <1>4, <1>5, <1>6, <1>12, <1>13, <1>14, <1>15 DEF Follows

\* A schedule that binds after a step of the execution bound before it.
LEMMA RunFollows ==
  ASSUME ~TSO, Basis, NEW w, NEW mem, Explained(w, mem),
         Scheduled => \E pos \in [Tid -> Nat] : Follows(w, mem, pos), Run, Scheduled'
  PROVE  \E pos \in [Tid -> Nat] : Follows(w, mem, pos)'
<1>1. phase = "run" /\ UNCHANGED builderVars /\ UNCHANGED solved
  BY DEF Run
<1>2. Scheduled
  <2>1. encoded' = encoded /\ known' = encoded' /\ solved
    BY <1>1 DEF builderVars, Scheduled
  <2>2. known \subseteq known'
    BY DEF Run, execVars, Execute, Operation, DrainAtFence, TakeBranch, CallFunction, Finish,
       load, store, rmw, fence, local, function, threadCreate, threadJoin, merge, fenceDrain,
       branchDir, threadFinish, Preempt, check_preempt_flush, check_preempt_switch,
       check_preempt_none, check_preempt_strays
  <2>3. known = encoded
    BY <2>1, <2>2 DEF Basis
  <2> QED BY <1>1, <2>1, <2>3 DEF Scheduled
<1>3. PICK pos \in [Tid -> Nat] : Follows(w, mem, pos)
  BY <1>2
<1>4. Following(w, mem, pos)
  BY <1>1, <1>2, <1>3 DEF Following
<1>5. PICK t : t = current
  OBVIOUS
<1>6. Execute(t) \/ Preempt(t)
  BY <1>5 DEF Run
<1>7. CASE Preempt(t)
  BY <1>1, <1>3, <1>4, <1>5, <1>7, PreemptFollows
<1>8. CASE Execute(t)
  <2>1. UNCHANGED <<waitset, waitsetindex, current, phase, builderVars>>
    BY <1>1, <1>8 DEF Execute
  <2>2. t \in Tid /\ execpoint[t] \in Point
    BY <1>4, <1>5, FollowingFacts
  <2>3. Current(t).op # "FENCE"
    BY <2>2, InstrType DEF Current
  <2>4. CASE Operation(t)
    <3>1. CASE load(t) \/ store(t) \/ rmw(t)
      BY <1>4, <1>5, <2>1, <2>4, <3>1, AccessFollows
    <3>2. CASE local(t) \/ threadJoin(t) \/ merge(t)
      BY <1>4, <1>5, <2>1, <2>4, <3>2, PassFollows
    <3>3. CASE threadCreate(t)
      BY <1>4, <1>5, <2>1, <2>4, <3>3, CreateFollows
    <3>4. ~fence(t)
      BY <2>3 DEF fence
    <3> QED BY <2>4, <3>1, <3>2, <3>3, <3>4 DEF Operation
  <2>5. ~DrainAtFence(t)
    BY <2>3 DEF DrainAtFence, fenceDrain
  <2>6. CASE TakeBranch(t)
    BY <1>4, <1>5, <2>1, <2>6, BranchFollows
  <2>7. CASE CallFunction(t)
    BY <1>4, <1>5, <2>1, <2>7, FunctionFollows
  <2>8. CASE Finish(t)
    BY <1>3, <1>4, <1>5, <2>1, <2>8, FinishFollows
  <2> QED BY <1>8, <2>4, <2>5, <2>6, <2>7, <2>8 DEF Execute
<1> QED
  BY <1>6, <1>7, <1>8

--------------------------------------------------------------------------------
(***************************************************************************)
(* The invariant.                                                          *)
(***************************************************************************)
\* A turn starts in the invariant.
LEMMA InitEInv ==
  ASSUME Init
  PROVE  EInv
BY InitBasis, InitExplained DEF EInv

\* Every step keeps it.
LEMMA StepEInv ==
  ASSUME ~TSO, EInv, [Next]_vars
  PROVE  EInv'
<1>1. PICK w, mem : /\ Explained(w, mem)
                    /\ Scheduled => \E pos \in [Tid -> Nat] : Follows(w, mem, pos)
  BY DEF EInv
<1>2. Basis /\ IInv
  BY DEF EInv, Basis
<1>3. Basis'
  BY <1>1, <1>2, BasisStep
<1>4. CASE Build
  <2>1. PICK w2, mem2 : Explained(w2, mem2)'
    BY <1>1, <1>2, <1>4, BuildExplained
  <2>2. ~Scheduled'
    BY <1>4 DEF Build, Scheduled
  <2> QED BY <1>3, <2>1, <2>2 DEF EInv
<1>5. CASE Start
  <2>1. Explained(w, mem)'
    BY <1>1, <1>5, ExplainedStays DEF Start
  <2>2. Scheduled' => \E pos \in [Tid -> Nat] : Follows(w, mem, pos)'
    BY <1>1, <1>2, <1>5, StartFollows
  <2> QED BY <1>3, <2>1, <2>2 DEF EInv
<1>6. CASE Run
  <2>1. UNCHANGED builderVars /\ waitset' = waitset
    BY <1>6 DEF Run, Execute, Preempt, check_preempt_flush, check_preempt_switch,
       check_preempt_none, check_preempt_strays
  <2>2. Explained(w, mem)'
    BY <1>1, <2>1, ExplainedStays
  <2>3. Scheduled' => \E pos \in [Tid -> Nat] : Follows(w, mem, pos)'
    BY <1>1, <1>2, <1>6, RunFollows
  <2> QED BY <1>3, <2>2, <2>3 DEF EInv
<1>7. CASE UNCHANGED vars
  <2>1. Explained(w, mem)'
    BY <1>1, <1>7, ExplainedStays DEF vars, schedVars
  <2>2. Scheduled' = Scheduled
    BY <1>7 DEF Scheduled, vars, execVars, builderVars
  <2>3. ASSUME NEW pos, Follows(w, mem, pos) PROVE Follows(w, mem, pos)'
    BY <1>7, <2>3 DEF Follows, OnWays, OnWay, Place, Quiet, Indices, Turn, vars, execVars,
       schedVars, builderVars
  <2> QED BY <1>1, <1>3, <2>1, <2>2, <2>3 DEF EInv
<1> QED
  BY <1>4, <1>5, <1>6, <1>7 DEF Next, Stopped

\* The invariant says that a scheduled execution has performed the first operations of the
\* order, and all of them when it is over.
LEMMA EInvExact ==
  ASSUME ~TSO, EInv
  PROVE  ReplayExact
<1>1. SUFFICES ASSUME Scheduled
      PROVE  IsPrefix(trace, order) /\ (phase = "done" => trace = order)
  BY DEF ReplayExact
<1>2. PICK w, mem, pos : Follows(w, mem, pos)
  BY <1>1 DEF EInv
<1>3. /\ trace \in Seq(Event) /\ Len(trace) \in Nat /\ DOMAIN trace = 1 .. Len(trace)
      /\ order \in Seq(Event) /\ Len(order) \in Nat /\ DOMAIN order = 1 .. Len(order)
  <2>1. trace \in Seq(Event) /\ order \in Seq(Event)
    BY DEF EInv, Basis, IInv, TypeOK, ExecTypeOK, BuilderTypeOK
  <2> QED BY <2>1
<1>4. Len(trace) <= Len(order) /\ \A n \in DOMAIN trace : trace[n] = order[n]
  BY <1>2 DEF Follows
<1>5. phase = "done" => trace = order
  BY <1>2 DEF Follows
<1> QED
  BY <1>3, <1>4, <1>5 DEF IsPrefix

\* In an SC build an execution that follows a schedule performs the operations of the solution,
\* in its order and with the values it gives them, and when it ends it has performed all: the
\* wait pairs of buildSchedule are enough for check_preempt, whatever the program, the
\* solution and the branches that are known.
THEOREM SCReplayIsExact ==
  ASSUME ~TSO
  PROVE  Spec => []ReplayExact
<1>1. Init => EInv
  BY InitEInv
<1>2. EInv /\ [Next]_vars => EInv'
  BY StepEInv
<1>3. EInv => ReplayExact
  BY EInvExact
<1> QED
  BY <1>1, <1>2, <1>3, PTL DEF Spec

\* In an SC build check_preempt gives up only when every thread has finished, in scheduled
\* executions and in those that have left their schedule.
THEOREM SCRunsToCompletion ==
  ASSUME ~TSO
  PROVE  Spec => []RunsToCompletion
<1>1. Init => EInv
  BY InitEInv
<1>2. EInv /\ [Next]_vars => EInv'
  BY StepEInv
<1>3. EInv => RunsToCompletion
  BY DEF EInv, Basis
<1> QED
  BY <1>1, <1>2, <1>3, PTL DEF Spec

--------------------------------------------------------------------------------
(***************************************************************************)
(* No wait on a thread that does not exist.  When a thread waits for one   *)
(* that has not been created, it also waits for main, which has still to   *)
(* create it, and this pair is looked at first: main has stopped at an     *)
(* operation ahead of the creation, and the solution has it in the order.  *)
(***************************************************************************)
\* Main creates all threads, and joins none before it has created the last.
MainCreatesFirst ==
  \A t \in Tid : \A c \in DOMAIN Code[t] : Code[t][c].op = "CREATE" =>
    /\ t = 0
    /\ \A j \in DOMAIN Code[0] : Code[0][j].op = "JOIN" => Compare(j, c) # "AFTER"

\* Every encoding knows what has been recorded.
EncodingsCurrent == \A e \in Explored : e.known = e.encoded

\* Where a thread stops that has not finished.
Halts(t) == Access(t, execpoint[t]) \/ Instr(t, execpoint[t]).op = "JOIN"

\* The inductive invariant, beside EInv: main has stopped at an operation or a join.
WInv ==
  /\ WaitsOnCreated
  /\ ~solved => phase # "build" /\ \A t \in Tid : waitset[t] = <<>>
  /\ solved => newbehavior \/ known = encoded
  /\ \A t \in Tid : pc[t] = "search" => status[t] = "complete"
  /\ phase = "run" /\ current # 0 /\ status[0] = "running" => Halts(0)

\* A thread that follows its walk waits for nothing that does not exist.
LEMMA CreatedFirst ==
  ASSUME NEW w, NEW mem, NEW pos, Following(w, mem, pos), MainCreatesFirst,
         status[0] = "running" => Halts(0), NEW k \in Tid
  PROVE  ~ReadsUncreated(waitset[k], waitsetindex[k], execpoint[k])
<1> SUFFICES ASSUME ReadsUncreated(waitset[k], waitsetindex[k], execpoint[k]) PROVE FALSE
  OBVIOUS
<1>1. /\ Ways(w) /\ Listed(w) /\ Creations(w) /\ Rows /\ order \in Seq(Event)
      /\ w \in [Tid -> Seq(Config)] /\ DOMAIN order \subseteq Nat /\ Len(trace) \in Nat
      /\ waitset \in [Tid -> Seq(Row)] /\ waitsetindex[k] \in Nat \ {0}
      /\ \A h \in Tid : execpoint[h] \in BlockPoint
      /\ \A h \in Tid : status[h] # "unborn" => OnWay(w, pos, h)
      /\ status \in [Tid -> {"unborn", "running", "complete"}]
      /\ 0 \in Tid /\ Tid \subseteq Nat /\ Prefix
  <2>1. 0 \in Tid /\ Tid \subseteq Nat
    BY ProgramAssumption DEF Tid
  <2>2. Prefix
    BY FollowingFacts DEF IInv
  <2> QED BY <2>1, <2>2, FollowingFacts
<1>2. PICK i : i = NextIndex(waitset[k], waitsetindex[k], execpoint[k])
  OBVIOUS
<1>3. i <= Len(waitset[k]) /\ AtStop(waitset[k][i], execpoint[k])
  BY <1>2 DEF ReadsUncreated, Blocked
<1>4. i \in DOMAIN waitset[k]
  <2>1. waitset[k] \in Seq(Row)
    BY <1>1
  <2> QED BY <1>1, <1>2, <1>3, <2>1, NextIndexFacts
<1>5. PICK row : row = waitset[k][i]
  OBVIOUS
<1>6. PICK n \in DOMAIN order : RowOf(row, k, n)
  BY <1>1, <1>4, <1>5 DEF Rows
<1>7. PICK x \in Tid : /\ status[x] = "unborn"
                       /\ row.op[x] # Nil \/ row.st[x] # Nil
                       /\ \A h \in 0 .. x - 1 : WaitsResolved(row, h)
  BY <1>2, <1>5 DEF ReadsUncreated
<1>8. row.op[x] # Nil
  BY <1>6, <1>7 DEF RowOf, AllNil
<1>9. PICK m \in DOMAIN order : m <= n - 1 /\ order[m].tid = x
  <2>1. LastAt(x, row.op[x], n - 1)
    BY <1>6, <1>8 DEF RowOf
  <2> QED BY <1>8, <2>1 DEF LastAt
<1>10. w[x] # <<>> /\ w[x][1].time < m /\ w[x][1].time \in Nat
  <2>1. PICK b \in DOMAIN w[x] : w[x][b].time < m
    BY <1>1, <1>9, EventPlace
  <2>2. w[x] \in Seq(Config) /\ b \in Nat \ {0} /\ 1 \in DOMAIN w[x] /\ w[x] # <<>>
    <3>1. w[x] \in Seq(Config)
      BY <1>1
    <3> QED BY <3>1
  <2>3. w[x][1].time <= w[x][b].time
    <3>1. Ways(w) /\ 1 \in DOMAIN w[x] /\ b \in DOMAIN w[x] /\ 1 <= b
      BY <1>1, <2>2
    <3> QED BY <3>1, WayOrder
  <2>4. w[x][1].time \in Nat /\ w[x][b].time \in Nat /\ m \in Nat
    BY <1>1, <2>2, PlaceFacts
  <2> QED BY <2>1, <2>2, <2>3, <2>4
<1>11. status[0] # "unborn" /\ x # 0
  <2>1. 0 \in Created
    BY <1>1, PrefixFacts, ProgramAssumption
  <2> QED BY <1>7, <2>1 DEF Created
<1>20. PICK u \in Tid : \E c \in DOMAIN w[u] :
         /\ c + 1 \in DOMAIN w[u]
         /\ Instr(u, w[u][c].point) = [op |-> "CREATE", tid |-> x]
         /\ w[u][c].time = w[x][1].time
  BY <1>1, <1>10, <1>11 DEF Creations
<1>12. PICK c \in DOMAIN w[u] :
         /\ c + 1 \in DOMAIN w[u]
         /\ Instr(u, w[u][c].point) = [op |-> "CREATE", tid |-> x]
         /\ w[u][c].time = w[x][1].time
  BY <1>20
<1>13. /\ u = 0 /\ Instr(0, w[0][c].point).op = "CREATE"
       /\ \A j \in DOMAIN Code[0] : Code[0][j].op = "JOIN" => Compare(j, w[0][c].point) # "AFTER"
  <2>1. w[u][c].point \in DOMAIN Code[u] /\ Code[u][w[u][c].point].op = "CREATE"
    BY <1>12 DEF Instr
  <2>2. u = 0
    BY <2>1 DEF MainCreatesFirst
  <2> QED BY <1>12, <2>1, <2>2 DEF MainCreatesFirst
<1>14. PICK p : p = pos[0]
  OBVIOUS
<1>15. /\ p \in DOMAIN w[0] /\ execpoint[0] = w[0][p].point
       /\ status[0] = "complete" => Instr(0, w[0][p].point).op = "END"
       /\ p \in Nat /\ c \in Nat /\ p <= c
  <2>1. OnWay(w, pos, 0)
    BY <1>1, <1>11
  <2>2. /\ p \in DOMAIN w[0] /\ execpoint[0] = w[0][p].point
        /\ status[0] = "complete" => Instr(0, w[0][p].point).op = "END"
    BY <1>14, <2>1 DEF OnWay, Place
  <2>3. p \in Nat /\ c \in Nat
    BY <1>1, <1>12, <1>13, <2>2, WayOrder
  <2>4. ~(c < p)
    <3>1. Instr(0, w[0][c].point).tid = x
      BY <1>12, <1>13
    <3> QED BY <1>7, <1>12, <1>13, <1>14, <2>1, <3>1 DEF OnWay
  <2> QED BY <2>2, <2>3, <2>4
<1>16. Instr(0, w[0][p].point).op # "END"
  <2>1. p + 1 \in DOMAIN w[0]
    <3>1. w[0] \in Seq(Config)
      BY <1>1
    <3> QED BY <1>12, <1>13, <1>15, <3>1
  <2> QED BY <1>1, <1>15, <2>1 DEF Ways, WalksTo
<1>17. Halts(0)
  BY <1>1, <1>11, <1>15, <1>16
<1>18. CASE Instr(0, execpoint[0]).op = "JOIN"
  <2>1. execpoint[0] \in DOMAIN Code[0] /\ Code[0][execpoint[0]].op = "JOIN"
    BY <1>18 DEF Instr
  <2>2. p # c
    BY <1>13, <1>15, <1>18
  <2>3. Compare(w[0][p].point, w[0][c].point) = "AFTER"
    <3>1. Ways(w) /\ 0 \in Tid /\ p \in DOMAIN w[0] /\ c \in DOMAIN w[0] /\ p < c
      BY <1>1, <1>12, <1>13, <1>15, <2>2
    <3> QED BY <3>1, WayOrder
  <2> QED BY <1>13, <1>15, <2>1, <2>3
<1>19. CASE Access(0, execpoint[0])
  <2>1. p # c
    BY <1>13, <1>15, <1>19 DEF Access
  <2>2. PICK e \in DOMAIN order :
          /\ e > Len(trace) /\ order[e].tid = 0 /\ order[e].point = execpoint[0]
          /\ p + 1 \in DOMAIN w[0] /\ w[0][p + 1].time = e
    <3>1. 0 \in Tid /\ status[0] # "unborn" /\ Access(0, execpoint[0])
      BY <1>1, <1>11, <1>19
    <3>2. PICK e \in DOMAIN order :
            /\ e > Len(trace) /\ order[e].tid = 0 /\ order[e].point = execpoint[0]
            /\ pos[0] + 1 \in DOMAIN w[0] /\ w[0][pos[0] + 1].time = e
      BY <3>1, NextEvent
    <3> QED BY <1>14, <3>2
  <2>3. e <= w[0][c].time
    <3>1. /\ Ways(w) /\ 0 \in Tid /\ p + 1 \in DOMAIN w[0] /\ c \in DOMAIN w[0]
          /\ p + 1 <= c
      BY <1>1, <1>12, <1>13, <1>15, <2>1, <2>2
    <3>2. w[0][p + 1].time <= w[0][c].time
      BY <3>1, WayOrder
    <3> QED BY <2>2, <3>2
  <2>4. e \in Nat /\ n \in Nat /\ m \in Nat /\ w[0][c].time = w[x][1].time
    BY <1>1, <1>12, <1>13
  <2>5. e <= n - 1
    BY <1>9, <1>10, <2>3, <2>4
  <2>6. CASE k = 0
    <3>1. order[n].tid = 0 /\ order[n].point = row.stop
      BY <1>6, <2>6 DEF RowOf
    <3>2. order[n].point = execpoint[0]
      <4>1. order[n].point \in BlockPoint
        BY <1>1, EventPlace
      <4> QED BY <1>1, <1>3, <1>5, <2>6, <3>1, <4>1, EqualsSame DEF AtStop
    <3>3. n = e
      BY <1>1, <2>2, <3>1, <3>2, OneEvent
    <3> QED BY <2>4, <2>5, <3>3
  <2>7. CASE k # 0
    <3>1. LastAt(0, row.op[0], n - 1)
      BY <1>1, <1>6, <2>7 DEF RowOf
    <3>2. ~Quiet(0, 0, n - 1)
      <4>1. e \in DOMAIN order /\ 0 < e /\ e <= n - 1 /\ order[e].tid = 0
        BY <1>1, <2>2, <2>4, <2>5
      <4> QED BY <4>1 DEF Quiet
    <3>3. PICK f \in DOMAIN order : /\ f <= n - 1 /\ order[f].tid = 0
                                    /\ order[f].point = row.op[0] /\ Quiet(0, f, n - 1)
      BY <3>1, <3>2 DEF LastAt
    <3>4. ~(f < e)
      BY <2>2, <2>5, <3>3 DEF Quiet
    <3>5. f > Len(trace)
      <4>1. f \in Nat /\ e > Len(trace) /\ Len(trace) \in Nat
        BY <1>1, <2>2, <3>3
      <4> QED BY <2>4, <3>4, <4>1
    <3>6. ~OpResolved(0, row.op[0])
      BY <3>3, <3>5, NotResolved
    <3>7. WaitsResolved(row, 0)
      BY <1>1, <1>7, <1>11
    <3> QED BY <3>6, <3>7 DEF WaitsResolved
  <2> QED BY <2>6, <2>7
<1> QED
  BY <1>17, <1>18, <1>19 DEF Halts

\* Main is in check_preempt at an operation, at a join or when it has finished.
LEMMA MainHalts ==
  ASSUME ~TSO, WInv, phase = "run", current # 0 \/ InCheckPreempt(0), status[0] = "running"
  PROVE  Halts(0)
<1>1. 0 \in Tid
  BY ProgramAssumption DEF Tid
<1>2. CASE current # 0
  BY <1>2 DEF WInv
<1>3. CASE InCheckPreempt(0)
  <2>1. pc[0] # "search"
    BY <1>1 DEF WInv
  <2>2. Current(0).op # "FENCE"
    BY <1>1, ProgramAssumption DEF Current, Instr
  <2> QED BY <1>3, <2>1, <2>2 DEF InCheckPreempt, Halts, Access, Current
<1> QED
  BY <1>2, <1>3

\* So no search reads behind the end of ExecPointList.
LEMMA NeverStrays ==
  ASSUME ~TSO, EInv, WInv, MainCreatesFirst, phase = "run"
  PROVE  ~check_preempt_strays(current)
<1> SUFFICES ASSUME check_preempt_strays(current) PROVE FALSE
  OBVIOUS
<1>1. /\ IInv /\ Prefix /\ current \in Tid /\ \A h \in Tid : storebuffer[h] = <<>>
  BY DEF EInv, Basis, IInv, CurrentRuns
<1>2. PICK s \in Slots : Strays(current, s)
  BY DEF check_preempt_strays
<1>3. PICK k \in Tid : k = SlotTid(current, s)
  BY <1>1, SlotTidType
<1>4. ReadsUncreated(waitset[k], waitsetindex[k], execpoint[k])
  <2>1. ~IsBuffer(s)
    BY <1>1, <1>2, <1>3 DEF Strays, Asked
  <2> QED BY <1>2, <1>3, <2>1 DEF Strays, SlotHolds
<1>5. ~newbehavior /\ waitset[k] # <<>>
  <2>1. PICK i : i = NextIndex(waitset[k], waitsetindex[k], execpoint[k])
    OBVIOUS
  <2>2. ~newbehavior /\ i <= Len(waitset[k])
    BY <1>4, <2>1 DEF ReadsUncreated, Blocked
  <2>3. waitset[k] \in Seq(Row) /\ waitsetindex[k] \in Nat \ {0}
    BY <1>1 DEF IInv, TypeOK, SchedTypeOK, EInv, Basis, Threads
  <2>4. i \in DOMAIN waitset[k]
    BY <2>1, <2>2, <2>3, NextIndexFacts
  <2> QED BY <2>2, <2>4
<1>6. solved /\ known = encoded
  BY <1>5 DEF WInv
<1>7. PICK w, mem, pos : Following(w, mem, pos)
  <2>1. Scheduled
    BY <1>6 DEF Scheduled
  <2> QED BY <2>1 DEF EInv, Following
<1>8. status[0] = "running" => Halts(0)
  BY MainHalts DEF check_preempt_strays
<1> QED
  BY <1>3, <1>4, <1>7, <1>8, CreatedFirst

\* What the steps of an execution keep of it.
LEMMA WInvStays ==
  ASSUME WInv, UNCHANGED <<solved, waitset, encoded>>, phase = "run",
         phase' \in {"run", "done"},
         newbehavior' = newbehavior, known' = known,
         \A t \in Tid : pc'[t] = "search" => status'[t] = "complete",
         phase' = "run" /\ current' # 0 /\ status'[0] = "running" => Halts(0)'
  PROVE  WInv'
BY DEF WInv, WaitsOnCreated

\* Every step keeps it.
LEMMA StepWInv ==
  ASSUME ~TSO, MainCreatesFirst, EInv, WInv, [Next]_vars
  PROVE  WInv'
<1>1. /\ IInv /\ 0 \in Tid /\ NoThread # 0
      /\ pc \in [Tid -> {"run", "search", "resume"}]
      /\ status \in [Tid -> {"unborn", "running", "complete"}]
  <2>1. IInv
    BY DEF EInv, Basis
  <2>2. SchedTypeOK /\ ExecTypeOK
    BY <2>1 DEF IInv, TypeOK
  <2>3. 0 \in Tid /\ NoThread # 0
    BY ProgramAssumption DEF Tid, NoThread
  <2> QED BY <2>1, <2>2, <2>3 DEF SchedTypeOK, ExecTypeOK
<1>2. CASE Build
  <2>1. /\ phase = "build" /\ phase' = "build" /\ solved' = solved
        /\ UNCHANGED <<known, encoded, newbehavior, pc, status>>
    BY <1>2 DEF Build, Walk, TakeEarliest, execVars
  <2> QED BY <2>1 DEF WInv, WaitsOnCreated
<1>3. CASE Start
  <2>1. /\ current' = 0 /\ phase' = "run"
        /\ UNCHANGED <<solved, waitset, known, encoded, newbehavior, pc, status>>
    BY <1>3 DEF Start, execVars, builderVars
  <2> QED BY <2>1 DEF WInv, WaitsOnCreated
<1>4. CASE Run
  <2>1. phase = "run" /\ solved' = solved /\ encoded' = encoded
    BY <1>4 DEF Run, builderVars
  <2>2. PICK t \in Tid : t = current
    BY <1>1, <2>1 DEF IInv, CurrentRuns
  <2>3. CASE Preempt(t)
    <3>1. ~check_preempt_strays(t)
      BY <2>1, <2>2, NeverStrays
    <3>2. ~check_preempt_flush(t)
      <4>1. ASSUME check_preempt_flush(t) PROVE FALSE
        <5>1. PICK s \in Slots : FirstEligible(t, s) /\ IsBuffer(s)
          BY <4>1 DEF check_preempt_flush
        <5>2. storebuffer[SlotTid(t, s)] # <<>>
          BY <5>1 DEF FirstEligible, Eligible, Asked
        <5>3. SlotTid(t, s) \in Tid
          BY <1>1, <5>1, SlotTidType DEF IInv
        <5> QED BY <1>1, <5>2, <5>3 DEF IInv
      <4> QED BY <4>1
    <3>3. /\ InCheckPreempt(t) /\ UNCHANGED <<execVars, waitset, newbehavior>>
          /\ pc' = [pc EXCEPT ![t] = "resume"]
          /\ phase' \in {"run", "done"}
      BY <2>3, <3>1, <3>2 DEF Preempt, check_preempt_switch, check_preempt_none, SwitchTo
    <3>4. UNCHANGED <<known, status, execpoint>>
      BY <3>3 DEF execVars
    <3>5. \A k \in Tid : pc'[k] = "search" => status'[k] = "complete"
      BY <1>1, <3>3, <3>4 DEF WInv
    <3>6. status[0] = "running" => Halts(0)
      BY <2>1, <2>2, <3>3, MainHalts
    <3>7. status'[0] = "running" => Halts(0)'
      BY <3>4, <3>6 DEF Halts, Access
    <3> QED BY <2>1, <3>3, <3>4, <3>5, <3>7, WInvStays
  <2>4. CASE Execute(t)
    <3>1. UNCHANGED <<waitset, current, phase>>
      BY <2>4 DEF Execute
    <3>2. ASSUME current' # 0, status'[0] = "running", status'[0] = status[0],
                 execpoint'[0] = execpoint[0]
          PROVE  Halts(0)'
      <4>1. Halts(0)
        BY <2>1, <3>1, <3>2 DEF WInv
      <4> QED BY <3>2, <4>1 DEF Halts, Access
    <3>3. CASE Operation(t)
      <4>1. newbehavior' = newbehavior /\ pc' = [pc EXCEPT ![t] = "run"]
        BY <3>3 DEF Operation
      <4>2. /\ known' = known
            /\ \E p : execpoint' = [execpoint EXCEPT ![t] = p]
            /\ status' = status \/ threadCreate(t)
        BY <3>3 DEF Operation, load, store, rmw, fence, local, threadCreate, threadJoin, merge,
           Advance, MoveTo
      <4>3. \A k \in Tid : pc[k] = "search" => status'[k] = "complete"
        <5>1. CASE status' = status
          BY <5>1 DEF WInv
        <5>2. CASE threadCreate(t)
          <6>1. PICK c : c = Current(t).tid
            OBVIOUS
          <6>2. Created = 0 .. c - 1 /\ status' = [status EXCEPT ![c] = "running"]
            BY <5>2, <6>1 DEF threadCreate, NewThread
          <6>3. \A k \in Tid : status[k] = "complete" => k # c
            <7>1. c \notin 0 .. c - 1
              OBVIOUS
            <7> QED BY <6>2, <7>1 DEF Created
          <6> QED BY <1>1, <6>2, <6>3 DEF WInv
        <5> QED BY <4>2, <5>1, <5>2
      <4>4. \A k \in Tid : pc'[k] = "search" => status'[k] = "complete"
        BY <1>1, <4>1, <4>3
      <4>5. current' # 0 => execpoint'[0] = execpoint[0]
        BY <1>1, <2>2, <3>1, <4>2 DEF IInv, TypeOK, ExecTypeOK
      <4>6. status'[0] = status[0]
        <5>1. CASE threadCreate(t)
          <6>1. Created = 0 .. Current(t).tid - 1 /\ status' = NewThread(Current(t).tid)
            BY <5>1 DEF threadCreate
          <6>2. 0 \in Created
            BY <1>1, PrefixFacts, ProgramAssumption DEF IInv
          <6>3. PICK c : c = Current(t).tid
            OBVIOUS
          <6>4. 0 \in 0 .. c - 1 => 0 # c
            OBVIOUS
          <6> QED BY <1>1, <6>1, <6>2, <6>3, <6>4 DEF NewThread
        <5> QED BY <4>2, <5>1
      <4>7. current' # 0 /\ status'[0] = "running" => Halts(0)'
        BY <3>2, <4>5, <4>6
      <4> QED BY <2>1, <3>1, <4>1, <4>2, <4>4, <4>7, WInvStays
    <3>4. CASE DrainAtFence(t)
      <4>1. storebuffer[t] # <<>>
        BY <3>4 DEF DrainAtFence, fenceDrain
      <4> QED BY <1>1, <4>1 DEF IInv
    <3>5. CASE TakeBranch(t)
      <4>1. /\ newbehavior' = (newbehavior \/ BranchTaken(t) \notin known)
            /\ known' = known \cup {BranchTaken(t)}
            /\ status' = status /\ pc' = [pc EXCEPT ![t] = "run"]
            /\ \E p : execpoint' = [execpoint EXCEPT ![t] = p]
        BY <3>5 DEF TakeBranch, branchDir, MoveTo
      <4>2. known' = known \/ newbehavior'
        BY <4>1
      <4>3. \A k \in Tid : pc'[k] = "search" => status'[k] = "complete"
        BY <1>1, <4>1 DEF WInv
      <4>4. current' # 0 => execpoint'[0] = execpoint[0]
        BY <1>1, <2>2, <3>1, <4>1 DEF IInv, TypeOK, ExecTypeOK
      <4>5. current' # 0 /\ status'[0] = "running" => Halts(0)'
        BY <3>2, <4>1, <4>4
      <4>6. newbehavior => newbehavior'
        BY <4>1
      <4> QED BY <2>1, <3>1, <4>2, <4>3, <4>5, <4>6 DEF WInv, WaitsOnCreated
    <3>6. CASE CallFunction(t)
      <4>1. /\ newbehavior' = (newbehavior \/ GoalOf(t) \notin known)
            /\ known' = known \cup {GoalOf(t)}
            /\ status' = status /\ pc' = [pc EXCEPT ![t] = "run"]
            /\ \E p : execpoint' = [execpoint EXCEPT ![t] = p]
        BY <3>6 DEF CallFunction, function, Advance, MoveTo
      <4>2. known' = known \/ newbehavior'
        BY <4>1
      <4>3. \A k \in Tid : pc'[k] = "search" => status'[k] = "complete"
        BY <1>1, <4>1 DEF WInv
      <4>4. current' # 0 => execpoint'[0] = execpoint[0]
        BY <1>1, <2>2, <3>1, <4>1 DEF IInv, TypeOK, ExecTypeOK
      <4>5. current' # 0 /\ status'[0] = "running" => Halts(0)'
        BY <3>2, <4>1, <4>4
      <4>6. newbehavior => newbehavior'
        BY <4>1
      <4> QED BY <2>1, <3>1, <4>2, <4>3, <4>5, <4>6 DEF WInv, WaitsOnCreated
    <3>7. CASE Finish(t)
      <4>1. /\ newbehavior' = newbehavior /\ known' = known /\ execpoint' = execpoint
            /\ status' = [status EXCEPT ![t] = "complete"] /\ pc' = [pc EXCEPT ![t] = "search"]
        BY <3>7 DEF Finish, threadFinish
      <4>2. \A k \in Tid : pc'[k] = "search" => status'[k] = "complete"
        BY <1>1, <4>1 DEF WInv
      <4>3. current' # 0 => status'[0] = status[0]
        BY <1>1, <2>2, <3>1, <4>1
      <4>4. current' # 0 /\ status'[0] = "running" => Halts(0)'
        BY <3>2, <4>1, <4>3
      <4> QED BY <2>1, <3>1, <4>1, <4>2, <4>4, WInvStays
    <3> QED BY <2>4, <3>3, <3>4, <3>5, <3>6, <3>7 DEF Execute
  <2> QED BY <1>4, <2>2, <2>3, <2>4 DEF Run
<1>5. CASE UNCHANGED vars
  BY <1>5 DEF vars, execVars, schedVars, builderVars, WInv, WaitsOnCreated, Halts, Access
<1> QED
  BY <1>2, <1>3, <1>4, <1>5 DEF Next, Stopped

\* A turn starts in it.
LEMMA InitWInv ==
  ASSUME EncodingsCurrent, Init
  PROVE  WInv
<1>1. \A t \in Tid : waitset[t] = <<>> /\ pc[t] = "run"
  BY DEF Init, SchedInit, SchedReset
<1>2. phase \in {"start", "build"}
  BY DEF Init
<1>3. solved => known = encoded
  BY DEF Init, EncodingsCurrent
<1>4. ~solved => phase # "build"
  BY DEF Init
<1> QED
  BY <1>1, <1>2, <1>3, <1>4 DEF WInv, WaitsOnCreated

\* In an SC build checkSet asks get_execpoint only for threads that exist, if main creates the
\* threads, joins none before it has created the last, and the encoding of a turn knows every
\* direction and goal that has been recorded.  Each hypothesis is needed: a pair on a thread that does
\* not exist yet can come first if another thread has still to create it, if main waits in a
\* join ahead of the creation, or if main is in a body the encoding does not know.
THEOREM SCWaitsOnCreated ==
  ASSUME ~TSO, MainCreatesFirst, EncodingsCurrent
  PROVE  Spec => []WaitsOnCreated
<1>1. Init => EInv /\ WInv
  BY InitEInv, InitWInv
<1>2. EInv /\ WInv /\ [Next]_vars => (EInv /\ WInv)'
  BY StepEInv, StepWInv
<1>3. EInv /\ WInv => WaitsOnCreated
  BY DEF WInv
<1> QED
  BY <1>1, <1>2, <1>3, PTL DEF Spec
================================================================================
