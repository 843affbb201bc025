------------------------------- MODULE MCPrograms -------------------------------
(***************************************************************************)
(* The programs the replay is checked on.                                  *)
(***************************************************************************)
EXTENDS Replay, Programs

\* The branch of thread t at statement n with direction d, and the goals a set of goals has
\* for the inputs of I.
Dir(t, n, d)     == [tid |-> t, point |-> At(n), dir |-> d]
Goals(g, I)      == {[goals |-> g, input |-> v] : v \in I}

Fresh(S)         == [known |-> S, encoded |-> S]
Stale(K, E)      == [known |-> K, encoded |-> E]

--------------------------------------------------------------------------------
(* Message passing.  What thread 2 does depends on a function of the       *)
(* message; statement 4 of it is its MERGE record.  It calls the function  *)
(* again on what it reads from x after the branch.                         *)
IsEven == [v \in 0 .. 2 |-> IF v = 1 THEN 0 ELSE 1]

CodeMP == Threads3(
  Thread(<<LocalOp, Create(1), Create(2), Join(1), Join(2)>>),
  Thread(<<LocalOp, Store("x", 1), Store("y", 1)>>),
  Thread(<<LocalOp, Load("y"), Fn(1, IsEven), BranchOp, LocalOp, Load("x"),
           Fn(1, IsEven), Load("y")>>)
    @@ Arm(3, 0, <<Store("x", 2), Add("y", 2), MergeOp>>)
    @@ Arm(3, 1, <<Load("x"), Cas("x", 0, 2), MergeOp>>))

\* In the first two cases an execution may take a known direction and then meet an
\* input that is new, in the last nothing is new.
ExploredMP ==
  {Fresh({Dir(2, 3, 1)} \cup Goals(1, {0, 1})), Fresh({Dir(2, 3, 1)} \cup Goals(1, {0, 2})),
   Fresh({Dir(2, 3, 0)} \cup Goals(1, {1, 2})),
   Fresh({Dir(2, 3, 0), Dir(2, 3, 1)} \cup Goals(1, {0, 1, 2}))}

--------------------------------------------------------------------------------
(* Store buffering, with fences and an RMW between a store and a later     *)
(* load, in a branch body and outside.  Main's load after the joins shows  *)
(* whether these synchronise.  Its load between the creations lets thread  *)
(* 1 run before thread 2 exists.  Threads 1 and 2 call a function, each    *)
(* with goals of its own, thread 1 with a store in its buffer.             *)
IsSet == [v \in 0 .. 2 |-> IF v = 0 THEN 0 ELSE 1]

CodeFence == Threads3(
  Thread(<<LocalOp, Create(1), Load("y"), Create(2), Join(1), Join(2), Load("x")>>),
  Thread(<<LocalOp, Store("x", 1), Load("y"), Fn(1, IsSet), BranchOp, LocalOp, Load("z")>>)
    @@ Arm(4, 0, <<Store("z", 2), FenceOp, MergeOp>>)
    @@ Arm(4, 1, <<Exc("x", 2), MergeOp>>),
  Thread(<<LocalOp, Store("y", 1), FenceOp, Load("x"), Fn(2, IsSet), Store("z", 1)>>))

\* In the second case the call in thread 2 may be the one that meets a new input.  In the last
\* the encoding is a turn old and lacks the direction with the fence and the input that leads
\* there: the solution may send thread 1 into the body it does not take.
AllFence ==
  {Dir(1, 4, 0), Dir(1, 4, 1)} \cup Goals(1, {0, 1}) \cup Goals(2, {0, 1, 2})

ExploredFence ==
  {Fresh({Dir(1, 4, 0)} \cup Goals(1, {0}) \cup Goals(2, {0, 1})),
   Fresh({Dir(1, 4, 1)} \cup Goals(1, {1}) \cup Goals(2, {0, 1})),
   Fresh(AllFence),
   Stale(AllFence, {Dir(1, 4, 1)} \cup Goals(1, {1}) \cup Goals(2, {0, 1, 2}))}

--------------------------------------------------------------------------------
Loc2 == {"x", "y"}
Loc3 == {"x", "y", "z"}
NoBranches == {Fresh({})}
================================================================================
