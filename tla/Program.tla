-------------------------------- MODULE Program --------------------------------
(***************************************************************************)
(* The program under test, as the library sees it: for every thread the    *)
(* instrumented call it makes at each of its execution points.  A thread   *)
(* has one client register, the value its last load, RMW or function       *)
(* returned; a function has it as its input and a branch tests it.  A      *)
(* point with no instruction is the return from the thread's function.     *)
(*                                                                         *)
(* Programs are external to the checker: any code that only uses the calls *)
(* of src/libinterface.cc.  Thread 0 runs the user's main and is the only  *)
(* one that creates threads, in the order of their identifiers: identifiers*)
(* are handed out in creation order (get_next_tid) and are part of every   *)
(* execution point, so a program that creates threads in another order in  *)
(* another execution is outside what the checker supports.                 *)
(***************************************************************************)
EXTENDS ExecPoint

CONSTANTS
  NumThreads,  \* number of threads the program creates, main included
  Loc,         \* shared memory locations
  MaxVal,      \* values are 0 .. MaxVal, arithmetic wraps around
  TSO,         \* the checker was built with TSO defined (src/config.h)
  Code         \* Code[t][p]: the instruction of thread t at point p

Tid == 0 .. NumThreads - 1
Val == 0 .. MaxVal

\* The calls that touch memory: one for every width in the code.
MemoryOperation ==
       [op : {"LOAD"}, loc : Loc]
  \cup [op : {"STORE"}, loc : Loc, val : Val]
  \cup [op : {"RMW"}, kind : {"ADD", "CAS", "EXC"}, loc : Loc, val : Val, old : Val]

\* MC2_function: what the client computes from its register, and the set of goals it is
\* recorded in.  Functions with the same functionidentifier have one set, a function
\* with the identifier 0 has its own.
Function == [op : {"FUNCTION"}, goals : Nat, result : [Val -> Val]]

Instruction ==
       MemoryOperation
  \cup Function
  \cup [op : {"CREATE", "JOIN"}, tid : Tid]
  \cup [op : {"LOCAL", "FENCE", "BRANCH", "MERGE", "END"}]

\* Nothing here is proved from more than this.
ASSUME ProgramAssumption ==
  /\ NumThreads \in Nat \ {0}
  /\ MaxVal \in Nat
  /\ TSO \in BOOLEAN
  /\ DOMAIN Code = Tid
  /\ \A t \in Tid : /\ DOMAIN Code[t] \subseteq Point
                    /\ \A p \in DOMAIN Code[t] : Code[t][p] \in Instruction
  \* A client merges only inside the body of a branch.
  /\ \A t \in Tid : \A p \in DOMAIN Code[t] : Code[t][p].op = "MERGE" => Len(p) > 2
  \* MC2_fence records nothing in an SC build.
  /\ ~TSO => \A t \in Tid : \A p \in DOMAIN Code[t] : Code[t][p].op # "FENCE"

\* A functionidentifier stands for one function: the output of a goal is used at all its calls.
ASSUME FunctionAssumption ==
  \A t, u \in Tid : \A p \in DOMAIN Code[t], q \in DOMAIN Code[u] :
    /\ Code[t][p].op = "FUNCTION" /\ Code[u][q].op = "FUNCTION"
    /\ Code[t][p].goals = Code[u][q].goals
    => Code[t][p].result = Code[u][q].result

\* get_next_tid hands out the identifiers in the order of creation, so a thread is created by
\* one with a smaller identifier, and once: two creations of it are in bodies that exclude
\* each other.
ASSUME CreationAssumption ==
  \A t, u \in Tid : \A p \in DOMAIN Code[t], q \in DOMAIN Code[u] :
    Code[t][p].op = "CREATE" =>
      /\ t < Code[t][p].tid
      /\ Code[u][q] = Code[t][p] => t = u /\ (p = q \/ Compare(p, q) = "INCOMPARABLE")

Instr(t, p) == IF p \in DOMAIN Code[t] THEN Code[t][p] ELSE [op |-> "END"]

\* The direction the client computes from its register.
Direction(v) == IF v = 0 THEN 0 ELSE 1

\* Fault: the sum is not cut to the width of the location.
RmwWide(ins, cur) ==
  CASE ins.kind = "ADD" -> cur + ins.val
    [] ins.kind = "CAS" -> IF cur = ins.old THEN ins.val ELSE cur
    [] ins.kind = "EXC" -> ins.val

\* dormwaction: what an RMW leaves in memory when it finds cur there.
RmwResult(ins, cur) ==
  CASE ins.kind = "ADD" -> (cur + ins.val) % (MaxVal + 1)
    [] ins.kind = "CAS" -> IF cur = ins.old THEN ins.val ELSE cur
    [] ins.kind = "EXC" -> ins.val
================================================================================
