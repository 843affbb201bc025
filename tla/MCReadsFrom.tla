------------------------------ MODULE MCReadsFrom ------------------------------
(***************************************************************************)
(* The programs the encoding of loads is checked on.                       *)
(***************************************************************************)
EXTENDS ReadsFrom, Programs

\* Thread 1 stores to either location and, with a fence, in a branch to y; its load is from
\* either location and may read its own stores, which may still be in its buffer.  A store of
\* main and, in a branch of thread 2, an RMW of either location come at any time; main's
\* first store is before all.
CodeReads == Threads3(
  Thread(<<LocalOp, Store("y", 1), Create(1), Create(2), Store("x", 1)>>),
  Thread(<<LocalOp, Store("x", 2), BranchOp, LocalOp, Load("x")>>)
    @@ Arm(2, 0, <<MergeOp>>)
    @@ Arm(2, 1, <<Store("y", 3), FenceOp, MergeOp>>),
  Thread(<<LocalOp, BranchOp, LocalOp>>)
    @@ Arm(1, 0, <<MergeOp>>)
    @@ Arm(1, 1, <<Add("x", 1), MergeOp>>))

EitherLocation ==
  {[tid |-> 1, point |-> At(1)], [tid |-> 1, point |-> At(4)],
   [tid |-> 2, point |-> IntoBranch(At(1), 1)]} \X {"x", "y"}
Loc2 == {"x", "y"}

\* There are pairs of each kind, and a branch to decide on.  (TLC keeps the elements of a set
\* it has compared, and need not find them again in every state.)
ASSUME InstanceAssumption ==
  /\ Action # {} /\ VariablePairs # {} /\ TruePairs # {} /\ AfterPairs # {} /\ ListedPairs # {}
  /\ Reader # {} /\ Writer # {} /\ Branches # {} /\ Fence # {}
================================================================================
