# SATCheck: specifications

SATCheck is a model checker for small concurrent C programs. It runs the program under
test on one kernel thread, records what happens at each *execution point*, encodes the
recorded operations as a SAT problem whose solutions are executions with some behaviour
not seen yet, and replays a solution by making threads wait for each other. It is built
for sequential consistency, or for TSO with `#define TSO` in `src/config.h`.

The specifications here are about the question a user of the tool relies on: does the
tool run exactly the executions it means to run, and does it miss none? A second group is
about what the first takes for granted: memory that is rolled back, tables that find what
was put into them, a solver that answers what it was asked.

## The system

```
MC::check        snapshot
   |          +------------------------------------------------------------+
   v          v                                                            |
 run_execution: client -> libinterface -> MCExecution -> check_preempt     |
                                |  records, new values        |            |
                                v                             | wait pairs |
 Planner::plan: canReuseEncoding? -- no --> processChanges,   |            |
                    | yes                   ConstGen::process |            |
                    v                              v          |            |
                 IncrementalSolver <---- clauses, variables   |            |
                    | solution                                |            |
                    v                                         |            |
                 ScheduleBuilder -----------------------------+    rollback+
```

| Component | State | Operations | What is hard | What makes it correct |
|---|---|---|---|---|
| Execution points (`execpoint.cc`) | pairs (kind, counter), hash value | push, pop, incrementTop, compare | points of different length, branches taken in different directions, a hash value that is never recomputed | compare orders the points of a thread in program order; a point has one hash value |
| Execution (`mcexecution.cc`, `libinterface.cc`) | memory, store buffers, point of each thread, threads, tables of records and values | load, store, rmw, fence, branchDir, merge, loops, create, join, finish, function, equals, alloc | buffered stores; a switch inside nearly every call | every execution is one the memory model allows |
| Scheduler (`mcschedule.cc`) | wait pairs and indices, new-behaviour flag, current thread | addWaitPair, check_preempt, checkSet | which thread goes on; pairs that were missed; threads that do not exist yet; polling | the replay is exact; every execution ends with all threads complete |
| Schedule builder (`schedulebuilder.cc`) | one record per thread, walked stores, last operations | buildSchedule | parts of the program the encoding does not know | the pairs are enough for the replay |
| Order encoding (`constgen.cc`) | table of pairs, clauses | insertAction, genTransOrderConstraints, processFence, getOrder | constants, skipped clauses, TSO's pairs in one thread | the solutions are exactly the executions |
| Value, address, branch and function encodings (`constgen.cc`, `*record.cc`, `storeloadset.cc`, `loadrf.cc`) | groups, codes per record | groupMemoryOperations, process* | unused codes, forwarding, groups that merge | a solution does what the program would |
| Goals (`constgen.cc`, `cgoal.cc`) | goals, goal variables | translateGoals, achievedGoal, canReuseEncoding | stale encodings | each turn reaches a new goal, or none is left |
| Planner (`planner.cc`) | queue of changes, sets of values, load and store tables, dependences | processChanges | fixpoint over values and addresses | every value a load may see is encoded |
| Event graph (`eprecord.cc`, `mcexecution.cc`, `constgen.cc`) | next pointers, first and last records of branches, exits | getOrCreateCurrRecord, enterLoop, exitLoop, merge, traverse | loops, nonlocal exits, graphs that several executions have built | the graph replays each of them |
| Constraints (`constraint.cc`) | formulas | negate, simplify | constants | simplify keeps the meaning |
| Incremental solver (`inc_solver.cc`) | buffer, pipes, child | addClauseLiteral, solve, freeze | a dead child, partial reads and writes | the two sides agree on the protocol |
| Snapshots (`snapshot.cc`) | backing pages, protection, sleeping processes | take, roll back, page fault | each page once; a chain of processes | rollback restores memory |
| Hash tables (`hashtable.h`, `hashset.h`) | open addressing, linked list | put, get, remove, iterate, copy | removed slots, resize | an ordered set |
| Program's heap (`mymemory.cc`) | heap pointer, array for the linker | malloc, calloc, free | addresses that stay the same in every execution | allocations do not overlap |
| Main loop (`model.cc`) | finished | check | all of the above | the search ends with all goals reached or impossible |

## The modules

| Module | Models |
|---|---|
| `ExecPoint`, `PointHash` | execution points: moves and `compare`; the hash value kept with them |
| `Program` | the program under test as the calls it makes at its points; what an RMW computes |
| `MCExecution` | memory, store buffers and the effect of each library call after its `check_preempt` |
| `MCScheduler` | wait pairs, `checkSet` and `check_preempt` |
| `ScheduleBuilder` | `buildSchedule`, for an arbitrary solution |
| `Replay` | one turn of `MC::check`: build a schedule, run; composes the three modules above |
| `MemoryModel` | what an execution may do under SC or TSO: the abstract specification `Replay` implements |
| `OrderEncoding` | the order variables and their clauses |
| `ReadsFrom` | the codes and clauses of loads and the clause of a fence, over the variables of `OrderEncoding` |
| `Constraint` | formulas, negation, simplification, the formulas that say something of a code |
| `Clauses` | `ConstGen` building formulas and sending their clauses to the solver |
| `BranchEncoding` | the codes and clauses of branches and yields and of the values branches depend on, as formulas of `Constraint` |
| `Planner` | what executions record of values and what the planner makes of it |
| `ValueEncoding` | the groups of memory operations, the codes of values and their clauses; extends `Planner` |
| `EventGraph` | the records executions link, and the traversal by the encoding; its points are those of `PointHash` |
| `CheckLoop` | the loop of `MC::check`: goals, reuse of the encoding, the end of the search |
| `HashTable`, `HashSet` | open addressing; the set with its list and its iterator |
| `OrderedSet` | the abstract set `HashSet` implements |
| `Snapshot` | snapshots by page protection, with and without the short cut, and by fork; the regions they cover |
| `SavedMemory` | the abstract memory `Snapshot` implements |
| `IncSolver` | the checker's end of the two pipes, and a solver at the other |
| `UserHeap` | the program's allocations over several executions |
| `Programs` | notation for programs |
| `MCPrograms`, `MCReadsFrom`, `MCBranchEncoding`, `MCCheckLoop`, `MCEventGraph`, `MCValues`, `MCHashSet`, `MCSnapshot`, `MCIncSolver` | the programs and values TLC runs on |
| `OrderEncodingProofs`, `ReplayProofs`, `EventGraphProofs`, `CheckLoopProofs`, `SnapshotProofs`, `IncSolverProofs`, `HashSetProofs` | theorems about the module in their name; `OrderEncodingProofs` also about `ReadsFrom`, `EventGraphProofs` also about `PointHash`, `HashSetProofs` also about `HashTable` |
| `Lemmas` | for the proofs: the comparison of execution points, least and greatest elements of sets of numbers, induction and loops over vectors |

`MemoryModel`, `OrderedSet` and `SavedMemory` are not derived from the code. They say what SC and
TSO, a set and a rollback are, and the code is checked against them.

### Correspondence

*Points.* A point is a sequence of pairs. `Compare(p, q)` is `p.compare(q)`: "AFTER" means
that `q` is after `p`. The class also holds the thread; here a point always goes with one. `PointHash`
keeps the hash value beside it as the class does: rotated and combined with the counter by push, undone by pop. A word
is the set of its bits.

*Programs.* `Code[t][p]` is the call thread `t` makes at point `p`. A client has one register,
the value it read or computed last, and branches on whether it is zero. A call of `MC2_function` has the function the client computes from its
register and the set of goals it is recorded in, which calls with the same `functionidentifier` share. Thread 0 creates all
threads. Loops are in the programs of `EventGraph`.

*Execution.* One action per library call, except the part before `check_preempt` returns,
which is an action of the scheduler. Since all threads share one kernel thread nothing
else runs during a call but at `check_preempt`. `trace` is a history variable: the memory
operations in the order in which they take effect, a buffered store when it leaves its buffer.
The tables that are only read by the encoding are left out here, but for the
recorded branch directions and goals of functions (`known`), which decide whether `setNewFlag` is called: by `branchDir` on a new direction, by `function` on an input
its set of goals does not have (`TakeBranch`, `CallFunction`).

*Scheduler.* `waitset`, `storeset`, the two indices, `newbehavior` and the current thread are the
code's. The pairs of one stop point are one row of the model, and an index counts rows. This
is exact since `checkSet` never returns between two pairs of a row with the index advanced and
another result: it returns at the first pair that is not resolved and re-evaluates the earlier
ones next time only if they were resolved, which they stay. `check_preempt` is a search over slots: the
threads, in a TSO build alternating with the store buffers. `check_preempt_flush` is a turn that ends
at `goto restart_search`; `check_preempt_switch` and `check_preempt_none` are its two ends.
`pc` tells whether a thread runs, is inside the restarted search, or returns from
`check_preempt` when it next runs.
When `checkSet` would index `ExecPointList` out of range, nothing is said of the rest of the
execution: `check_preempt_strays` ends in the phase "undefined".

*Builder.* `frontier` is the vector `threads`, and `Nil` its NULL entries. One `Walk` action is one
record of the loop of lines 66-93, one `TakeEarliest` is lines 94-147. Which operation is
earliest is the solver's choice, limited to the orders the memory model allows, with the values
that follow; `barrier` keeps a load behind a fence from passing the stores before it. Whether the clauses
limit the solver to these orders is what `OrderEncoding` is about. A branch whose direction the encoding does not
know is walked past, as in `processRecord`. `getNextRecord` would go on to the branch around if the record behind were missing or of a type it drops; in these programs every body ends in a MERGE, so there is one; `Successor` of
`EventGraph` has the climb. A function takes the output of its goal for an input the encoding knows
and any value for another one, as the clauses of `processFunction` leave it (`WalkFunction`); its goal forbids nothing.

*Order encoding.* `decided` holds the pairs the solver has decided; constants come from thread creation, join and
program order. `Satisfied` says that all clauses hold of a complete assignment. The clauses of
the code are listed operator by operator, skipped ones and the index of the inner loop of
`genTSOTransOrderConstraints` included.

*Loads.* `reads` holds for each load what `LoadRF::genConstraints` asserts: the stores in the order of their codes and, for each, the
stores that `computeConflictSet` leaves. `Allowed` says that the clauses hold of one code; the invariants go
through all directions, addresses and codes the solver could choose in an order. That a load has the value of its store
is one clause more, in `ValueEncoding`. The order in which the tables hold the stores, on which pruning depends, is any in which they can have been
executed first. `processFence(f, d)` is the one clause of a fence in a body.

*Formulas.* `negate` and `simplify` follow the code case by case, with two surprises kept: the negation of an implication is its converse, and a conjunction with a FALSE in it becomes TRUE. No
caller runs into either: `Clauses` states what callers observe (`NegatesImplies`, `AssertsFalse`) as guards.
`True` and the rest are values; sharing of nodes and freeing them is left out. Variables are numbers, and variable `j + 1` is bit `j` of a code.

*Branches.* `recorded` and `source` stand for the records at the time of the encoding. `insertBranch` and `processBranch` are the two traversals, `computeYieldCond` and `processYield` those of yields; `solve` picks a
solution of the clauses. A source is a load, a comparison or a function. What else limits its code is the subject of `ValueEncoding`, so it may have any value
that has a code. `getBranchValue` is read back as `processRecord` of the builder does.

*Planner.* A program is a list of operations with operands: constants or the results of earlier ones. `tables.sets[r][i]` are the sets
of values of record `r` (`VC_ADDRINDEX` and so on), `tables.changeset` the queue, `deps` is `eprecorddep`. One action executes an operation and records what the library call records; one `processChanges`
takes one change. Executions are sequentially consistent and take any schedule: which one the solver asks for is the subject of `Replay`. Addresses are values.

*Values.* A solution is a code for every record, and the clauses are predicates on codes: that they are clauses is what `Clauses` and `BranchEncoding` are
about. `groups` is `storeloadtable`; an operation joins the group of each address it may have, and groups merge. A load may read from any store `getMayReadFromSet`
has for it. Where the code makes a clause of a NULL encoding (`HasNullClause`) the checker crashes, and the behaviour ends.

*Event graph.* `records` is `EPTable`: type, branch around, next and child pointer, known directions. `bodies` holds for each branch direction its first
and last record. A thread runs until a call that may switch, a branch takes any direction. `traverseRecord` and `popWork` are the loop of `traverse` with its work stack,
`Conditions` is `recordExecCond`. The walk of the builder over the graph is the operator `Successor`; that it follows a *solution* is `ScheduleBuilder`. What `reset`
and the rollback bring back is in `FirstExecution`; `lastloopexit` is not in it, as in the code.

*The loop.* A program is a set of behaviours: a value for every record, that is, a direction for a branch, a combination of inputs for a function. Records of one thread follow each other by
`Succ`; the threads interleave. `known` is what executions have recorded, `encoded` what the encoding at hand was built from, `goalset` and `open` are `goalset`
and the entries of `goalvararray` that are not NULL. A solution is a behaviour up to where it leaves the encoding, and its execution is one that agrees with it
until one of the threads has left it. The solver may claim other goals than the one it reaches, as the variables behind the first unknown value are free.
That executions follow solutions is `ReplayExact`, that solutions are executions is the subject of the modules on the encoding: here both are assumed.

*Hash tables.* A slot has a key and a value; a removed slot has no key and a value that is not null. `PutSlot`, `Get` and `Delete` stop where the loops of the code stop. `HashSet` adds the list
and the iterator, which may remove the element it has returned; the list's nodes are records named by their keys.

*Snapshots.* A page has one cell, a region one page. `build` is `USE_MPROTECT_SNAPSHOT`: 1 and 2 share the fault handler, 2 has the short cut of `snapshot.cc:242`. With fork, `processes` are the
parents asleep in `waitpid`; `ParentExits` and `ParentForks` are the two ways on from it. `LineName` is what the parser of `/proc/self/maps` has in its buffer.

*Solver.* The words still to be written by the checker's call are `todo`; `flushBuffer` is one `write` and `getSolution` one `read`, of any length the pipes allow. The
solver answers with any solution, UNSAT if there is none, or that it does not know; it may die at any time.

*Heap.* An allocation has a record, found by its point, which keeps the address and the size for all executions.

## What TLC checks

Every property has been checked to fail when the code it is about is changed; the operators whose
comment begins with "Fault" are these changes, and nothing else uses them.

| Run | States | Question |
|---|---|---|
| `ReplayTSO` | 45284 | store buffering with a branch on a function of the value read, a fence in one body and an RMW in the other, main loading between its creations; unscheduled, under every solution, with old and new encodings |
| `MPSC` | 4429 | message passing, a branch on a function of the message, CAS and ADD in its bodies, the function again behind it, for four sets of known directions and inputs |
| `Reads` | 49152 | all assignments of the order variables of a TSO program, and in each all directions, addresses and codes |
| `Branches` | 55155 | a switch with a branch in it, and two yields: all recorded directions, sources and solutions, with and without `-Y` |
| `Values` | 47723 | four programs, every schedule, up to three executions, each planned and encoded, every solution |
| `EventGraph` | 86485 | three programs with loops, early exits, nested loops and two threads, up to three executions in every choice of directions |
| `CheckLoop` | 48796 | all programs of up to three behaviours, with and without `-b`, from the first execution to "Finished!" |
| `Clauses` | 4606694 | all formulas of up to three parts over three variables |
| `HashSet` | 29392 | five keys that collide, a table that grows, an iterator that removes, a copy |
| `Snapshot` | 63328 | the three builds, up to three snapshots, five backing pages |
| `Solver` | 7870 | pipes of two words, a buffer of three, literals with the numbers of commands, two questions, a solver that may die |
| `HeapGrowth` | violation | an allocation that asks for more in a later execution |

Replay:

- `ReplayExact`: as long as the encoding knows all recorded branch directions and goals of functions, the operations that took effect are a prefix of the solution's order, values
  included, and all of it at the end. Of an encoding that is used again after new ones were recorded it says nothing: the other properties do. This is the contract between `buildSchedule` and `check_preempt`, which no single function states.
- `RunsToCompletion`, `ExecutionEnds`: an execution ends, and only with all threads complete and all buffers empty.
- `CurrentRuns`: `check_preempt` gives the processor only to a thread that exists and has not finished, also when its search fails and it takes the
  thread its loop variable is left at.
- `WaitsOnCreated`: `checkSet` does not look up a thread that does not exist yet. It holds in `ReplayTSO`, although main can be switched out between two
  creations (it loads there): the pairs on main come first in a row, and main has not passed its creation. It is no property of every program (disagreement 11); `SCWaitsOnCreated` says of which.
- `ImplementsMemoryModel`: each step of an execution is a step of `MemoryModel` or changes nothing in it; scheduled or not.
- `TypeOK` is checked for `MPSC` and proved for every program. The type invariants of the other modules (`EventGraph`, `CheckLoop`, `Snapshot`, `HashSet`, `IncSolver`, `OrderEncoding`) hold in their runs too; they are kept as
  documentation of the state and are not among the properties.

Encoding:

- `ThreadsAreOrdered`, `ExecutionIsSolution` (of `OrderEncoding`): the complete assignments that satisfy the clauses have no circle of operations of several threads, and every order of all records that is transitive satisfies them.
- `LoadsReadLatest`, `LatestCanBeRead`: a code that is allowed is that of the last store the load can see in the order, in its thread's buffer or in memory, and that code is always allowed; a load that is
  not executed can have a code, too. Together: the stores that were pruned change nothing.
- `FencesDrain`: in a solution a load behind an executed fence comes after every store before it, though the code has one clause for all of them.
- `ClausesAreMeant`: the solver gets clauses, and their solutions are the assignments in which all asserted formulas are true, with codes read as numbers.
- `SolutionFollowsProgram`, `NewDirectionIsReachable`: the direction the builder reads from a solution is that of the source's value, and none if the branch around goes elsewhere; a
  new direction is claimed only where it is not known; and for every choice of source values some solution has them and claims every new direction that they lead to, unless a yield is in the way. The
  exception is stated in `Determined`: a value that the source has a code for but has not been seen with, when 0 has no code (`constgen.cc:1207`).
- `YieldsAvoided`: with `-Y` a solution comes to a recorded yield only if it takes a new direction ahead of it.
- `Foreseen`: while an execution brings nothing new, every value it handles is one the planner has for that operand of that record.
- `PlanEnds`: `processChanges` ends, although values go round in circles.
- `SolutionFollowsCode`: an executed operation of a solution returns, stores and compares what the program would with its operands' values, at the address the program would use.
- `ExecutionIsSolution` (of `ValueEncoding`): an execution that brings nothing new is a solution of the encoding, so the solver cannot have excluded it.
- `NewGoalsAreNew`: a function that claims a new result has inputs it has not been called with, and an RMW that claims a new sum has one that no store stores.
- `ReplaysEveryExecution`: the builder's walk under the directions of any past execution meets the records it met, in their order.
- `TraversedInOrder`, `ConditionsExact`: the traversal visits every record once, in the order of every execution; and the condition it derives for a record, its branch and
  the nonlocal exits before it, is true in exactly the executions that met it.
- `LoopPhiTakesInput`: the function behind a loop is tied to the value it had with the exit taken, and to none of another exit.
- `RecordIsFound`: a thread that comes to a recorded point has the hash value of the record.

Loop and substrate:

- `SearchIsComplete`: when `check` says "Finished!", every behaviour of the program has been recorded to its end; with `-b`, every branch direction that the program can take.
- `NewEncodingLearns`: an execution that `process` scheduled records something. A turn that uses the encoding again need not: a claimed goal may already be reached.
- `OpenGoalsUnachieved`: what the solver is asked for has not been reached since the encoding was built. It is stated for records with goals of their own: of two functions that share
  goals one may have an open goal that the other has reached.
- `SearchEnds`: the loop ends.
- `LookupsAgree`, `PutEnds`, `ImplementsOrderedSet`: the table finds exactly the elements of the list; a slot without a key is left, which is what the loop of `put` needs (of the other loops see disagreement 9); the steps of the set and its iterator are those of `OrderedSet`.
- `CopiedOnce`, `OneTakesOver`, `ImplementsSavedMemory`: between two snapshots a page is copied once; one sleeping process takes over; a rollback is one step of `SavedMemory`, and the
  faults, copies and awakenings are none. The short cut of mode 2 lets the last copy of a page win (`RestoredLatest`), the loop behind it the first (`Restored`); that the two restore the same rests on `CopiedOnce`.
- `EncodingArrives`, `AnswerIsRight`, `SolveReturns`: the solver works on exactly what was added; the answer read back is a solution of it, or there is none; and a question is answered while the solver lives.
- `AllocationsDisjoint` is violated: disagreement 8.

Refinements: `ImplementsMemoryModel` maps memory, buffers and threads as they are; the builder, `check_preempt` and branches are stutters. `ImplementsOrderedSet` maps the linked list to the sequence and forgets the table; the iterator's
position is mapped unless its node is gone. `ImplementsSavedMemory` maps a snapshot by page protection to the earliest copies since (`AtSnapshot`), one by fork to the memory of the sleeping process; while processes wake, the memory is already that of the one that will go on.

Bounds. `ReplayTSO`, `MPSC`: three threads, one to three locations, at most five memory operations and one branch per thread; values 0 to 2 and arithmetic modulo 3.
In `MPSC` (`ExploredMP`) an execution may take a known direction and meet an input that is new, before or behind the branch; in `ReplayTSO` (`ExploredFence`) direction and input are new together, or the input of thread 2 alone, and the old encoding
lacks the input that leads to the body it does not know, so that the solution may send the thread into the other one.
Three threads are needed for a thread that runs while two others wait
and for a creation that comes after another thread's first operation. The pairs of the scheduler relate two threads at a time.
`MaxVal` is the only bound on data, no counter is cut off. An execution that ends stutters in `Stopped`.
`Reads` has three threads, the fewest for a circle in three, and three or four stores to a location, the fewest for which one can be pruned wrongly: one read from, one pruned, one that is taken to be between. `MaxParts = 3` in `Clauses` gives
each connective an operand made by each other one; three variables give codes of three bits, the fewest with a carry over two. `MaxFeasible = 3` in `CheckLoop` allows a program in which
reaching one goal opens another behind it; one thread has a branch that decides which of two records comes next, a function or another branch, the other a function with the same goals. What a record that is not
executed would give is not told apart. Nothing in the loop's state is cut off: `known` only grows.
In `Values` three executions (`MaxTurns`) let the second find what the first made possible and the third follow an encoding that knows both; `Width = 8` lets sums wrap without meeting the addresses 4 and 5 sooner. In `EventGraph` three executions let two
disagree about a branch and a third mix them; loops are left after one or two iterations; eight bits (`HashWidth`) hold every counter, and a rotation by three comes round. The table of `HashSet` starts with four slots, so five keys make it grow once, with removed slots in
it; keys that are equal modulo four collide before, those modulo eight after. `Snapshot` has a page of the heap, one of globals and one of the checker; five backing pages are fewer than three snapshots of two pages need, so the store can run out. `Solver` has
pipes smaller than a clause and than an answer, and a buffer that ends inside a question.
`CHECK_DEADLOCK FALSE` is used where the system or the bound stops: the encoding is made once (`Reads`, `Clauses`, `Branches`), the executions are used up (`Values`, `EventGraph`), the process has ended (`Snapshot`, `Solver`, `HeapGrowth`).

Fairness. In `Replay`, `FairSpec` is `WF_vars(Next)`, that is, the program goes on as long as it can. There is one kernel
thread, which thread runs next is determined by `check_preempt`, and no action waits for anything outside. Client code between two calls is
assumed to end. In `CheckLoop` it is `WF_vars(Next)` as well: the loop is sequential, each execution ends (`ExecutionEnds`) and the solver is assumed to answer.
Which thread runs and which solution the solver gives is not fair: the loop ends whatever they choose. `ValueEncoding` has weak fairness of a round of `processChanges` and of `process`: `plan` is one call and does not wait.
`IncSolver` has weak fairness of the steps of a call under way and of the solver's reads and writes, each a process the operating system runs; nothing says that the checker makes a call or that the solver lives.

## Disagreements

Where the code does not do what the rest of it expects. Numbers 1, 2, 8, 11 and 12 were found as violated properties, the others while
translating; where a program would only run into one of them, the programs of the runs avoid it, and the text says so.

1. An RMW in a branch body that was recorded after the encoding was built has no wait pair, and `rmw` does not drain
   the buffer (`mcexecution.cc:211`): it overtakes the thread's own stores. `fence` drains. The program of `ReplayTSO` has the RMW in a body that is known when the encoding is old.
2. `genTSOTransOrderConstraints` reads its inner record at the index of the outer loop (`constgen.cc:665`), so it generates no clause: with two stores before a load of one thread a solution puts the load before the first and behind the
   second. The shortcut for a constant pair (`constgen.cc:751`) leaves out the clause `intradelayedstore`, which that constant does not satisfy: a thread with a store before its creation
   of another and a load after its join has solutions that are no order. `ThreadsAreOrdered` is about operations of several threads, and `LoadsReadLatest` about solutions that are orders (`OrderFound`).
3. In a TSO build a fence or RMW in a body that is not executed still takes part in the transitivity clauses (`constgen.cc:754`), and so keeps a load from passing an earlier store: the search misses these executions. `ExecutionIsSolution`
   is about orders into which all records fit.
4. What the planner does not spread: the operand of a CAS that failed (`recordRMWChange` adds it to the set itself, `mcexecution.cc:439`, so `doRMWBaseChange` does not see it as new), and if it is a constant nobody stored its clause is
   made of NULL (`constgen.cc:1335`; in the run `Values` the checker ends there); values found before a record became a dependent (`mcexecution.cc:997`); values stored before to a new address of an RMW that has been executed (`planner.cc:98`);
   what an exchange with a computed operand stores.
5. `processAdd` with a computed addend goes through the sums and not through the addends (`constgen.cc:1431`), the goals of additions are never cleared (`constgen.cc:1404`), `getReturnValueSet` gives for an RMW what it
   stores instead of what it read (`eprecord.cc:106`), and `processEquals` with a constant that the other operand never had makes a clause of NULL (`constgen.cc:1756`). `keepbytes` shifts by bits instead of bytes (`mcutil.h:22`).
   The additions of `Values` have constant addends.
6. `isAlwaysExecuted` and `subsumesExecutionConstraint` (`constgen.cc:1096`) compare the branches around two records and not the early exits between them.
7. When the solver dies, `readSolver` never returns (`inc_solver.cc:97`); if it cannot be started, the child goes on as a second checker (`inc_solver.cc:128`). The loop that reads a solution takes one variable more than asked (`constgen.cc:885`).
8. `HeapGrowth`: `alloc` promises twice the size of the first execution and reserves it once (`mcexecution.cc:866`). `free`, `delete` and `Thread_free` hand a block of this heap to `mspace_free`, which aborts (`mymemory.cc:246`).
9. `remove` and `contains` of the hash table end only at the key or at a slot that was never used (`hashtable.h:279`, `hashtable.h:312`), and a table may have only entries and removed slots left, where `get` stops after one round. No caller runs into it: `HashSet` asks `get` before it removes, and the tables `contains` is called
   on have nothing removed, so that the free slot `PutEnds` and the capacity leave is one never used. `resetanddelete` and `resetandfree` leave the marks of removed slots (`hashtable.h:124`); `SnapshotStack::backTrackBeforeStep` counts up instead of down (`snapshot-interface.cc:167`); the destructor of a record frees `completed` twice (`eprecord.cc:40`).
10. The parser of the mappings does not clear its buffer (`snapshot-interface.cc:129`), so a mapping without a file has the name of the one before. That the program's zeroed data is part of the snapshot depends on this; `LineName` and `ImplementsSavedMemory` show that it works.
11. `checkSet` can look up a thread that does not exist (`mcschedule.cc:190`; `get_execpoint` then reads behind the list's end) in three kinds of programs: where main joins a thread before it has created the next, where another thread than main creates one, and, with an
   encoding that is used again, where main creates threads ahead of and behind a branch: in a body that this encoding does not know main stops at an operation that is not in the order, has no pair on it any more that could hold the others back,
   and one of them waits for the thread main has still to create. The execution after a new encoding has been made does not do this. The programs of the runs create their threads first.
12. The clang plugin inserts no `MC2_merge` ahead of a `return` (`add_mc2_annotations.cpp:1127`); only in a loop `MC2_exitLoop` stands there, as in every benchmark. A function of a thread that returns from a body outside of a loop leaves the thread's point in the body. If the thread
   ends there and another direction of the branch has been taken and goes on, the walk of the builder does too (`getNextRecord`, `schedulebuilder.cc:151`), and orders operations the thread does not perform: TLC finds `ReplaysEveryExecution` violated by
   a branch with one such body, another that merges, and a load behind it. The programs of `EventGraph` leave their bodies (`BodiesAreLeft`).

## What is proved

For every value of the constants, by TLAPS. The inductive invariants below hold in the runs too.

*Points and encoding*

- `CompareAntisymmetric` (`Lemmas`), for points of any length. The scan of `compare` is turned into a lexicographic order, which is shown irreflexive
  and transitive without induction: the first difference of two sequences exists because the natural numbers are well-founded.
- `TypeCorrect` (`OrderEncodingProofs`): only variables are decided. With it the invariant `Consistent`, that no pair is decided both ways, is inductive.
- `CirclesExcluded`: `[]ThreadsAreOrdered` in both builds, for every program in which no other thread's operation always lies between a store and a load that may pass it (`NoThreadBetween`: such a thread is created behind the store
  and joined before the load; the shortcut for constant pairs loses its clause, disagreement 2). An SC build has no such loads (`NoThreadBetweenSC`); the program of `Reads`, a TSO build, has loads that may pass and meets the hypothesis.
  Two operations of one execution are ordered by their points (`CompareAntisymmetric`), or by their variable or constant (`TableOrdered`). A circle is excluded by a clause of three
  threads or by one of two, which is generated for this circle unless both of its pairs with the other thread are constant.
- `SCSolutionIsOrder`: without TSO, `[]SolutionIsOrder` for every program: to the above come the circles in one thread, excluded by the order of points.
- `EveryExecutionIsSolution`: in both builds `[]ExecutionIsSolution`: the clauses exclude no execution into whose order all records fit.
- `LatestIsRead`, `LatestIsAllowed`, `FencesOrder`: in both builds `[]LoadsReadLatest`, `[]LatestCanBeRead` and `[]FencesDrain`, for every program, all directions and addresses and every table of stores. The invariant `RfInv`
  says that the clauses are those of `genConstraints` and that the solver decides no pair both ways. What is left out is shown not to matter: a store that is superseded in its own thread has the last of those that
  supersede it after it (`LaterIsFound`), and each later store that `computeConflictSet` drops is replaced by another later one to the same address that is executed and seen too
  (`RedundantReplaced`), so one is left when the loop ends (`ConflictsKept`: the set shrinks while it is looked at, and a store may be replaced by one that is dropped next). That a last store exists, and the last store before a fence, follows
  from the order being total on what is executed (`ExecutedInARow`, `VectorInARow`, `LastOfRow`). The loops are recursive functions, and what holds of them is proved by induction over sets (`Iteration`, `LoopInduction` of `Lemmas`).
  That a code has enough bits (`BitsSuffice`) is where the bound on the number of operations is used.

*Replay*

- `ReplayTypeCorrect`, `ProcessorGoesToRunning` (`ReplayProofs`): `[]TypeOK` and `[]CurrentRuns` for a whole turn of the loop, every program, every
  explored set of branch directions and goals, both builds. The inductive invariant `IInv` adds to the two that the threads that exist are a prefix
  of the identifiers (`Prefix`; without it the fallback of `check_preempt`, which counts modulo their number, could name a thread that does not exist),
  that main runs before the execution starts, and that in an SC build no store is buffered.
- `SCImplementsMemoryModel`: without TSO, `Spec => ImplementsMemoryModel`. With empty buffers each library call of the running thread is the step of
  `MemoryModel` of its kind, and the builder, the start of an execution and `check_preempt` stutter. That the running thread has not finished is
  `CurrentRuns`; that a created thread did not exist is the order in which identifiers are handed out. A wait pair can be wrong, missing
  or void: it only chooses among interleavings.
- `SCReplayIsExact`: without TSO, `[]ReplayExact`: for every program, with branches and functions, every solution and encoding the wait pairs are enough for `check_preempt` to
  reproduce the solution until a direction or a goal is recorded that the encoding does not know. From then on the code has voided the pairs, or the encoding is an old one, and nothing is claimed. A call on an input that the encoding knows computes what the solution has
  (`FunctionFollows`), so that the branches behind it go where the builder's walk went (`BranchFollows`). The state does not say why: the builder forgets the way it has walked, and a wait pair is about a place of a walk. So `EInv` says that there *is* a
  walk of each thread, with the number of operations ordered at each place of it, that explains the rows, the order and the creations (`Explained`), memories between the operations of the order
  (`Memories`), and, while the execution follows the schedule, a place on its walk for every thread, with what the thread has performed and read (`Follows`). `Indices` says which rows `checkSet` has passed: those of operations that are over, or of the next one of all;
  and `Turn`, that a thread that returns from `check_preempt` to an operation has the next one of the order. The step that needs all of it is the search for a thread: a row of a thread
  holds exactly if the thread has the next operation of the order or is between two of them.
- `SCRunsToCompletion`: without TSO, `[]RunsToCompletion`, also of executions that have left their schedule: `check_preempt` returns to the system context only when all threads have
  finished. While a schedule binds, the thread with the next operation of the order is never held back, nor is one that only has calls without a pair left (`join` polls); and once it does not bind, none is.
- `SCWaitsOnCreated`: without TSO, `[]WaitsOnCreated`, under two hypotheses that name what disagreement 11 is about: main creates all threads and joins none before it has created the last (`MainCreatesFirst`), and an encoding knows what has been recorded, directions and goals
  (`EncodingsCurrent`); the program and the encodings of `MPSC` are of this kind. `WInv` adds to `EInv` that main, when another thread runs, has stopped at an operation or a join, or has finished. `CreatedFirst`: a row that waits on a thread not yet created belongs to an operation behind
  the first of that thread, which is behind the creation, which is behind the operation main has stopped at; so the row's pair on main, which is looked at first, is not resolved. Replay is exact, so the order says all this of the walk.

*Loop and substrate*

- `RecordIsFoundHolds` (`EventGraphProofs`), for every program, every width of a word above three and any number of executions. `IInv` says of each thread's point and of the point of each record
  that the hash value is that of the pairs (`HashRight`: there are values, one for each length, that pushing the pairs in their order leaves, and the last is the point's; such values are unique, `HashUnique`). `push`, `pop`, `incrementTop` and the
  pops up to a branch or a loop keep that (`PushRight`, `PopRight`, `IncrementRight`, `PopToRight`), because `rotate_right` undoes `rotate_left` and a second exclusive or undoes the first. A record keeps the hash value of the point it was made
  at, so whoever has its pairs has its hash value, on whatever way and in whichever execution.
- `ReplaysEveryExecutionHolds` (`EventGraphProofs`), for every program, any number of threads and executions, under the hypothesis `BodiesAreLeft`: a thread does not end in the body of a branch (disagreement 12 says what happens otherwise). The inductive
  invariant `WInv` has three parts. Of the graph (`GraphOk`, `ChildrenOk`): type and branch of a record are a matter of its point alone, and its `next` pointer, once written, is the one record that may follow (`NextOf`): the way two executions come to a
  point may differ, what stands behind it does not. Of each execution that is over (`RunOk`): every record of its ways leads to the next one under its directions (`Linked`), through a `next` pointer, into the body of the direction taken, or out of
  as many bodies as end there, and nothing leads on from the last. Of each running thread (`ThreadOk`): its way so far is linked, the last record of every block around it is the one the next record will be linked to, and the directions of the bodies it is in
  are those taken. A step only adds to the graph (`Grown`), and a thread writes the last records only of blocks on its own place (`Wrote`, `Untouched`); so the ways of the other threads and of earlier executions stay (`QuietWInv`, `StepWInv`).
  `getNextRecord` climbs out of bodies until one has a `next` pointer: the hypothesis is needed where a way is at its end, since a body whose end is the thread's end has a branch with a `next` pointer that another direction has written.
- `CheckLoopTypeCorrect`, `SearchIsCompleteHolds`, `NewEncodingLearnsHolds`, `OpenGoalsUnachievedHolds` (`CheckLoopProofs`): the three invariants of the loop for any number of threads, records and behaviours.
  `IInv` adds that each thread of an execution is on the way of its behaviour and has recorded all of it up to where it is (`OnItsWay`, `Recorded`), that whatever follows a recorded value has been
  seen or is where a thread stands (`FollowedUp`; this is why nothing is missed when an execution ends), and that an execution `process` has scheduled leaves the encoding (`Leaves`). That
  a behaviour that leaves the records makes an open goal that some solution claims is the least-fixpoint argument of `Reached`.
- `SnapshotTypeCorrect`, `CopiedOnceHolds`, `OneTakesOverHolds`, `SnapshotsAreSavedMemory` (`SnapshotProofs`), for every layout of the regions, any number of pages, snapshots and backing pages and all
  three builds. The core of `IInv` is `CopiesMatchProtection`: a page of the program is writable exactly if it has a copy since the latest snapshot; the fault handler and the rollback keep it up for each other. `RegionsComplete` says what is protected by
  when, `ProcessesNumbered` that a process is known by its place in the chain. For the refinement, each snapshot's memory is read from the earliest copies since; a write that faults adds a copy that no earlier snapshot sees differently, and the
  short cut restores what the loop would (`ShortCutRestores`, from `CopiedOnce`).
- `IncSolverTypeCorrect`, `EncodingArrivesHolds`, `AnswerIsRightHolds` (`IncSolverProofs`), for every size of the buffer and the pipes and any clauses. The invariant looks at what is on its way as one sequence of words, wherever they are (`Words`: the part the
  solver has read, the pipe, the buffer, what is still to be added): a first part of it holds clauses each with a zero behind it and together with the known ones exactly those sent (`Encoded`), the rest is the question (`Rest`).
  A flush, a short write or a short read moves words from one place to the next and leaves the sequence alone.
- `HashSetTypeCorrect`, `LookupsAgreeHolds`, `PutEndsHolds`, `HashSetIsOrderedSet` (`HashSetProofs`), for every finite set of keys, every hash function, every initial capacity and every sequence of operations. `IInv` says
  that there is one sequence of keys that everything stands for (`Represents`): the nodes and their links (`ListHolds`), the entries of the table (`Holds`) and the iterator, which returned an earlier key than the one it returns next (`IteratorHolds`). The part
  of it that a test would not reach is in `SlotsHold`: a search for a stored key never meets a slot that was not used before it finds the key (`Reached`). Removed slots keep that, so `KeyFound` and `GetRight` say what a lookup
  finds; a put stops at a free slot that may have been an entry, and is right because the key is in none behind it (`PutFree`). `resize` and `copy` are loops over slots and keys, whose invariants are `ResizeLoop` and `FillLoop`. That a slot is free
  is a count: at most half of the slots and one more are entries when the loop of put starts (`FreeSlotLeft`, `KeysFitSlots`). The list is one of nodes in memory: that following its links gives the sequence back is `WalkRight`, for which
  `AppendHolds` and `UnlinkHolds` show that add and remove change exactly the neighbours' links.

Assumptions, all named and evaluated by TLC on every run of the modules concerned: `ProgramAssumption` (constants are typed, thread identifiers are an interval, a client merges only inside a branch body, no fence is recorded in an SC build),
`CreationAssumption` (a thread is created by one with a smaller identifier and at one place of an execution: identifiers are handed out in the order of creation), `FunctionAssumption` (a `functionidentifier` stands for one function), `ExploredAssumption` and `EncodedAssumption` (what has been explored is directions and goals, and an encoding is
made from records), `ThreadOrderAssumption` (no two operations are each before the other by creation and join), `ReadsFromAssumption` (a restriction of that model: its programs have no loops, whose exits add conditions that `EventGraph` derives; and fewer than 2^30 operations with finitely many addresses, which executions have recorded one by one), `LoopAssumption` (records are branches or functions, a function goes on in one way), `SnapshotAssumption` and
`LayoutAssumption` (the program's memory is its heap and the segments of its binary; there are finitely many pages), `SolverAssumption` (clauses are not empty, sizes are positive), `TableAssumption` (a table starts with a power of two of slots, keys have a hash, there are finitely many keys and 0 is one of them), `GraphAssumption` and `ClientAssumption` (each thread has code; a client merges only directly in the body of a branch, goes on only directly in the iteration of a loop and leaves only a loop it is in, and the counts of a MERGE or LABEL are those of no call of its own:
what the instrumentation emits, without which `merge` and `exitLoop` would pop an empty point), `InstanceAssumption` (the programs of `EventGraph`'s run meet `BodiesAreLeft`, the hypothesis of `ReplaysEveryExecutionHolds`), `HashAssumption` (a word has more bits than a rotation moves). The assumptions of the modules without theorems type their constants.

Not theorems, because they are false of some program or build: `SolutionIsOrder` and `ImplementsMemoryModel` with TSO (disagreements 1 and 2), `ThreadsAreOrdered` with TSO and a thread that is created and joined between a store and a
load of another (disagreement 2), `WaitsOnCreated` without the hypotheses of `SCWaitsOnCreated` (disagreement 11),
`ReplaysEveryExecution` of a thread that ends in the body of a branch (disagreement 12).

Model-checked only:

- `ReplayExact`, `RunsToCompletion` and `WaitsOnCreated` with TSO: they hold only of programs without disagreement 1, and the walk has two actors per thread, the thread and its buffer.
- `Foreseen`, `SolutionFollowsCode`, `ExecutionIsSolution` of `ValueEncoding`, `NewGoalsAreNew` (a fixpoint over the sets of values).
- `TraversedInOrder`, `ConditionsExact`, `LoopPhiTakesInput` of `EventGraph`: the traversal keeps its place on a stack of bodies and loops, and what it has left when it returns is said by induction over the tree of records. The ways of the executions are not such a tree, which is why `ReplaysEveryExecution` could be proved.
- `ClausesAreMeant` and the properties of `BranchEncoding`: formulas are recursive, and the modules declare RECURSIVE operators.
- `ExecutionEnds`, `SearchEnds`, `PlanEnds`, `SolveReturns`: liveness, which the prover does not support.

## Not modelled

The stacks and start routines of threads; `SnapshotStack`; the goals of RMWs that add in the loop; sharing and freeing of formulas and records; widths of operands beyond the cut to the location's width. The library's mutexes and the
redirection of the program's output (`common.cc`) are wrappers around what is modelled, or I/O. dlmalloc (`malloc.c`) is vendored; statistics, printing, the command line and the clang plugin, which rewrites
source and has no state at run time, are left out for good; benchmarks and tests are inputs.

The parts are not composed into one module: `Replay` has the buffers and the scheduler but no loops, `EventGraph` the loops but no memory, `ValueEncoding` the values but no order. What joins them is stated above: each takes as its
environment any behaviour that another is shown to have.

## Plan

1. That a fence or RMW known to the encoding finds an empty buffer in a TSO build, then `ReplayExact` of that build.
2. `ScheduleBuilder` driven by an assignment of the variables of `OrderEncoding`, and over the records of `EventGraph`.
