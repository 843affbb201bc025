------------------------------ MODULE MCEventGraph ------------------------------
(***************************************************************************)
(* The programs the event graph is checked on.  A loop is written out      *)
(* iteration by iteration; its last iteration leaves it in any case, as    *)
(* the client would after some executions.                                 *)
(***************************************************************************)
EXTENDS EventGraph

Op(name)     == [op |-> name]
Event(type)  == [op |-> "EVENT", type |-> type]
Begin        == Event("THREADBEGIN")
Ld           == Event("LOAD")
Br           == [op |-> "BRANCH", dirs |-> {0, 1}]
Create(t)    == [op |-> "CREATE", tid |-> t]

\* Instructions of a block: the counts of a branch's MERGE and a loop's LABEL stay free.
Block(prefix, code) ==
  [p \in {Append(prefix, Counter(k)) : k \in DOMAIN code} |-> code[p[Len(p)].val]]

\* The counter of the first iteration has counted the loop's LOOPSTART.
Iteration(prefix, i, code) ==
  LET n == IF i = 0 THEN 1 ELSE 0
  IN Block(Append(prefix, Loop(i)), [k \in {j + n : j \in DOMAIN code} |-> code[k - n]])
InIteration(prefix, i, k) == Append(Append(prefix, Loop(i)), Counter(IF i = 0 THEN k + 1 ELSE k))

Arm(prefix, d, seq) == Block(Append(prefix, Branch(d)), [k \in 0 .. Len(seq) - 1 |-> seq[k + 1]])

At(n) == <<Counter(n)>>
Leave(i, last) == Op(IF i = last THEN "EXIT" ELSE "ITERATE")

\* A loop that retries, as a reader of a sequence lock: two early exits and a yield.
RetryIteration(i, last) ==
  Iteration(At(1), i, (0 :> Ld) @@ (1 :> Br) @@ (3 :> Ld) @@ (4 :> Br) @@ (6 :> Leave(i, last)))
    @@ Arm(InIteration(At(1), i, 1), 1, <<Ld, Op("EXIT")>>)
    @@ Arm(InIteration(At(1), i, 1), 0, <<Op("YIELD"), Op("MERGE")>>)
    @@ Arm(InIteration(At(1), i, 4), 1, <<Op("EXIT")>>)
    @@ Arm(InIteration(At(1), i, 4), 0, <<Op("MERGE")>>)

Retry ==
  Block(<<>>, (0 :> Begin) @@ (1 :> Op("ENTER")) @@ (3 :> Op("LOOPPHI")) @@ (4 :> Br) @@ (6 :> Ld))
    @@ RetryIteration(0, 1) @@ RetryIteration(1, 1)
    @@ Arm(At(4), 0, <<Op("MERGE")>>) @@ Arm(At(4), 1, <<Ld, Op("MERGE")>>)

\* A loop that is left at once, by an early exit or at its end.
Once(at) ==
  Iteration(at, 0, (0 :> Ld) @@ (1 :> Br) @@ (3 :> Ld) @@ (4 :> Op("EXIT")))
    @@ Arm(InIteration(at, 0, 1), 1, <<Op("EXIT")>>)
    @@ Arm(InIteration(at, 0, 1), 0, <<Ld, Op("MERGE")>>)

\* Loops in a loop, directly and in the body of a branch.
OuterIteration(i, last) ==
  LET branch == InIteration(At(1), i, 4) IN
  Iteration(At(1), i, (0 :> Ld) @@ (1 :> Op("ENTER")) @@ (3 :> Op("LOOPPHI")) @@ (4 :> Br)
                        @@ (6 :> Ld) @@ (7 :> Leave(i, last)))
    @@ Once(InIteration(At(1), i, 1))
    @@ Arm(branch, 1, <<Ld, Op("EXIT")>>)
    @@ Block(Append(branch, Branch(0)), (0 :> Op("ENTER")) @@ (2 :> Ld) @@ (3 :> Op("MERGE")))
    @@ Once(branch \o <<Branch(0), Counter(0)>>)

Nested ==
  Block(<<>>, (0 :> Begin) @@ (1 :> Op("ENTER")) @@ (3 :> Op("LOOPPHI")) @@ (4 :> Ld))
    @@ OuterIteration(0, 0)

\* Two threads that are switched inside of their branches.
Creator ==
  Block(<<>>, (0 :> Begin) @@ (1 :> Create(1)) @@ (2 :> Br) @@ (4 :> Ld))
    @@ Arm(At(2), 0, <<Op("MERGE")>>) @@ Arm(At(2), 1, <<Ld, Ld, Op("MERGE")>>)

Created ==
  Block(<<>>, (0 :> Begin) @@ (1 :> Op("ENTER")) @@ (3 :> Op("LOOPPHI"))) @@ Once(At(1))

Single(code) == (0 :> code) @@ (1 :> <<>>)

MCPrograms == <<Single(Retry), Single(Nested), (0 :> Creator) @@ (1 :> Created)>>
MCTid == {0, 1}

\* The hypothesis of ReplaysEveryExecutionHolds: these programs merge in every body or leave the loop from it.
ASSUME InstanceAssumption == BodiesAreLeft
================================================================================
