-------------------------------- MODULE Programs --------------------------------
(***************************************************************************)
(* Notation for the values of the constant Code of module Program.         *)
(***************************************************************************)
EXTENDS ExecPoint, TLC

LocalOp         == [op |-> "LOCAL"]
Load(l)         == [op |-> "LOAD", loc |-> l]
Store(l, v)     == [op |-> "STORE", loc |-> l, val |-> v]
Add(l, v)       == [op |-> "RMW", kind |-> "ADD", loc |-> l, val |-> v, old |-> 0]
Cas(l, o, v)    == [op |-> "RMW", kind |-> "CAS", loc |-> l, val |-> v, old |-> o]
Exc(l, v)       == [op |-> "RMW", kind |-> "EXC", loc |-> l, val |-> v, old |-> 0]
Fn(g, f)        == [op |-> "FUNCTION", goals |-> g, result |-> f]
Create(t)       == [op |-> "CREATE", tid |-> t]
Join(t)         == [op |-> "JOIN", tid |-> t]
FenceOp         == [op |-> "FENCE"]
BranchOp        == [op |-> "BRANCH"]
MergeOp         == [op |-> "MERGE"]

\* A block of instructions whose first point is p.
Block(p, ins) ==
  [q \in {[p EXCEPT ![Len(p)] = Counter(n)] : n \in 0 .. Len(ins) - 1}
     |-> ins[q[Len(q)].val + 1]]

Thread(ins)      == Block(FirstPoint, ins)
Arm(n, d, ins)   == Block(IntoBranch(<<Counter(n)>>, d), ins)
At(n)            == <<Counter(n)>>

\* Threads 0, 1 and 2 of a program.
Threads3(a, b, c) == (0 :> a) @@ (1 :> b) @@ (2 :> c)
================================================================================
