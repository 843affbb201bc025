------------------------------ MODULE MemoryModel ------------------------------
(***************************************************************************)
(* What an execution of a program may do under the memory model the        *)
(* checker is built for: the requirement on MCExecution and its scheduler. *)
(* Any thread may take the next step.  Without TSO a store takes effect at *)
(* once.  With TSO it enters the thread's FIFO buffer and takes effect     *)
(* later; an RMW and a fence wait for the thread's buffer to drain.        *)
(* Creating a thread and joining one synchronise: the creator's earlier    *)
(* stores are in memory before the created thread accesses it, and those   *)
(* of a joined thread before the joining thread accesses it again.         *)
(***************************************************************************)
EXTENDS Program, FiniteSetsExt

VARIABLES memory, storebuffer, execpoint, reg, status

mmVars == <<memory, storebuffer, execpoint, reg, status>>

Init ==
  /\ memory = [l \in Loc |-> 0]
  /\ storebuffer = [t \in Tid |-> <<>>]
  /\ execpoint = [t \in Tid |-> FirstPoint]
  /\ reg = [t \in Tid |-> 0]
  /\ status = [t \in Tid |-> IF t = 0 THEN "running" ELSE "unborn"]

\* The stores that happen before point p of thread t by creation or join.
Synchronised(t, p) ==
  /\ \A c \in Tid : \A i \in DOMAIN storebuffer[c] : \A q \in DOMAIN Code[c] :
       Code[c][q] = [op |-> "CREATE", tid |-> t]
         => Compare(storebuffer[c][i].point, q) # "AFTER"
  /\ \A q \in DOMAIN Code[t] :
       (Code[t][q].op = "JOIN" /\ Compare(q, p) = "AFTER")
         => storebuffer[Code[t][q].tid] = <<>>

\* Thread t is at an instruction of the kind and moves on to point p.
At(t, op)   == status[t] = "running" /\ Instr(t, execpoint[t]).op = op
Goes(t, p)  == execpoint' = [execpoint EXCEPT ![t] = p]
Next1(t)    == Goes(t, IncrementTop(execpoint[t]))
Here(t)     == Instr(t, execpoint[t])

\* The newest own store to the location, or memory.
Sees(t, l) ==
  LET own == {i \in DOMAIN storebuffer[t] : storebuffer[t][i].loc = l}
  IN  IF own = {} THEN memory[l] ELSE storebuffer[t][Max(own)].val

Load(t) ==
  /\ At(t, "LOAD") /\ Synchronised(t, execpoint[t])
  /\ reg' = [reg EXCEPT ![t] = Sees(t, Here(t).loc)]
  /\ Next1(t)
  /\ UNCHANGED <<memory, storebuffer, status>>

Store(t) ==
  /\ At(t, "STORE")
  /\ IF TSO
     THEN /\ storebuffer' = [storebuffer EXCEPT ![t] = Append(@,
                [point |-> execpoint[t], loc |-> Here(t).loc, val |-> Here(t).val])]
          /\ UNCHANGED memory
     ELSE /\ Synchronised(t, execpoint[t])
          /\ memory' = [memory EXCEPT ![Here(t).loc] = Here(t).val]
          /\ UNCHANGED storebuffer
  /\ Next1(t)
  /\ UNCHANGED <<reg, status>>

Commit(t) ==
  /\ storebuffer[t] # <<>>
  /\ Synchronised(t, Head(storebuffer[t]).point)
  /\ memory' = [memory EXCEPT ![Head(storebuffer[t]).loc] = Head(storebuffer[t]).val]
  /\ storebuffer' = [storebuffer EXCEPT ![t] = Tail(@)]
  /\ UNCHANGED <<execpoint, reg, status>>

Rmw(t) ==
  /\ At(t, "RMW") /\ Synchronised(t, execpoint[t])
  /\ storebuffer[t] = <<>>
  /\ reg' = [reg EXCEPT ![t] = memory[Here(t).loc]]
  /\ memory' = [memory EXCEPT ![Here(t).loc] = RmwResult(Here(t), @)]
  /\ Next1(t)
  /\ UNCHANGED <<storebuffer, status>>

Fence(t) ==
  /\ At(t, "FENCE")
  /\ storebuffer[t] = <<>>
  /\ Next1(t)
  /\ UNCHANGED <<memory, storebuffer, reg, status>>

Compute(t) ==
  /\ At(t, "FUNCTION")
  /\ reg' = [reg EXCEPT ![t] = Here(t).result[@]]
  /\ Next1(t)
  /\ UNCHANGED <<memory, storebuffer, status>>

Silent(t) ==
  /\ \/ At(t, "LOCAL") /\ Next1(t)
     \/ At(t, "BRANCH") /\ Goes(t, IntoBranch(execpoint[t], Direction(reg[t])))
     \/ At(t, "MERGE") /\ Goes(t, AfterMerge(execpoint[t]))
     \/ At(t, "JOIN") /\ status[Here(t).tid] = "complete" /\ Next1(t)
  /\ UNCHANGED <<memory, storebuffer, reg, status>>

Create(t) ==
  /\ At(t, "CREATE")
  /\ status[Here(t).tid] = "unborn"
  /\ status' = [status EXCEPT ![Here(t).tid] = "running"]
  /\ Next1(t)
  /\ UNCHANGED <<memory, storebuffer, reg>>

Return(t) ==
  /\ At(t, "END")
  /\ status' = [status EXCEPT ![t] = "complete"]
  /\ UNCHANGED <<memory, storebuffer, execpoint, reg>>

Next == \E t \in Tid : \/ Load(t) \/ Store(t) \/ Commit(t) \/ Rmw(t) \/ Fence(t)
                       \/ Compute(t) \/ Silent(t) \/ Create(t) \/ Return(t)

Spec == Init /\ [][Next]_mmVars
================================================================================
