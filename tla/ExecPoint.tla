------------------------------- MODULE ExecPoint -------------------------------
(***************************************************************************)
(* Execution points (src/execpoint.cc): the name of a dynamic instruction  *)
(* of one thread.  A point is a non-empty sequence of pairs.  A COUNTER    *)
(* pair counts the statements of a block, a LOOP pair the iterations of a  *)
(* loop, a BRANCH pair holds the direction a branch took.  The scheduler   *)
(* decides from the order of two points of a thread whether the thread is  *)
(* before, at, or past a program point.                                    *)
(*                                                                         *)
(* The thread identifier the class carries is kept beside the points by    *)
(* the modules that use them: two points are only compared inside one      *)
(* thread.  The hash value kept beside the pairs is added by PointHash.     *)
(***************************************************************************)
EXTENDS Integers, Sequences

PairType == {"BRANCH", "COUNTER", "LOOP"}
Pair     == [type : PairType, val : Nat]
Point    == Seq(Pair) \ {<<>>}

\* The points of a program without loops: statement counters, with the direction of a branch
\* between two of them.
BlockPoint ==
  {p \in Point : /\ Len(p) % 2 = 1
                 /\ \A i \in DOMAIN p : p[i].type = IF i % 2 = 1 THEN "COUNTER" ELSE "BRANCH"}

Counter(n) == [type |-> "COUNTER", val |-> n]
Branch(d)  == [type |-> "BRANCH", val |-> d]
Loop(n)    == [type |-> "LOOP", val |-> n]

\* The point a new thread starts at: add_thread pushes one statement counter.
FirstPoint == <<Counter(0)>>

\* The top of the point, counted up.
IncrementTop(p) == [p EXCEPT ![Len(p)].val = @ + 1]

Push(p, pair) == Append(p, pair)
Pop(p)        == SubSeq(p, 1, Len(p) - 1)

(***************************************************************************)
(* How the current point moves: past an instruction, into a branch body,   *)
(* out of it.  merge pops to the branch and counts twice, once for the     *)
(* branch and once for the MERGE record.                                   *)
(***************************************************************************)
IntoBranch(p, d) == Push(Push(p, Branch(d)), Counter(0))
PastBranch(p)    == IncrementTop(IncrementTop(p))
AfterMerge(p)    == PastBranch(Pop(Pop(p)))

\* The innermost enclosing construct is a loop: exitLoop is not a nonlocal exit.
DirectInLoop(p) == p[Len(p) - 1].type = "LOOP"

(***************************************************************************)
(* compare.  The result is read from the first point: "AFTER" means that   *)
(* q occurs after p.  The scan stops at the first pair whose values        *)
(* differ; the types there decide what the difference means.               *)
(***************************************************************************)
FirstDifference(p, q, i) ==
  /\ i \in DOMAIN p \cap DOMAIN q
  /\ p[i].val # q[i].val
  /\ \A j \in 1 .. i - 1 : p[j].val = q[j].val

Compare(p, q) ==
  CASE \E i \in DOMAIN p : FirstDifference(p, q, i) /\ p[i].type = "BRANCH"
         -> "INCOMPARABLE"
    [] \E i \in DOMAIN p : /\ FirstDifference(p, q, i)
                           /\ p[i].type # "BRANCH"
                           /\ p[i].val < q[i].val
         -> "AFTER"
    [] \E i \in DOMAIN p : /\ FirstDifference(p, q, i)
                           /\ p[i].type # "BRANCH"
                           /\ p[i].val > q[i].val
         -> "BEFORE"
    [] OTHER -> CASE Len(p) < Len(q) -> "AFTER"
                  [] Len(p) > Len(q) -> "BEFORE"
                  [] OTHER           -> "EQUALS"

CompareResult == {"AFTER", "BEFORE", "EQUALS", "INCOMPARABLE"}

\* p is past q: the thread at p has executed q, or took another branch direction.
Past(p, q) == Compare(p, q) \in {"BEFORE", "INCOMPARABLE"}
================================================================================
