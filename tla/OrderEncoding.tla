----------------------------- MODULE OrderEncoding -----------------------------
(***************************************************************************)
(* How an execution order is encoded for the SAT solver                    *)
(* (src/constgen.cc).  There is a variable for every pair of memory        *)
(* operations of two threads, constant if thread creation or join orders   *)
(* the pair; the operations of one thread are in program order, but in a   *)
(* TSO build for the pairs of a store and a later load.  The clauses are   *)
(* to make the relation a solution defines an order: the schedule builder  *)
(* takes the operations one by one from it.                                *)
(*                                                                         *)
(* The solver is external: it decides the variables one by one, in any     *)
(* way.  The invariants look at complete assignments.                      *)
(***************************************************************************)
EXTENDS Program, FiniteSets

VARIABLE
  decided     \* the ordered pairs the solver has decided: <<a, b>> is a before b

--------------------------------------------------------------------------------
(* The operations and the variables of the encoding.                       *)

ActionKind == {"LOAD", "STORE", "RMW"} \cup (IF TSO THEN {"FENCE"} ELSE {})

\* threadactions: insertAction is called for every record of these types.
Action == {a \in [tid : Tid, point : UNION {DOMAIN Code[t] : t \in Tid}] :
             a.point \in DOMAIN Code[a.tid] /\ Code[a.tid][a.point].op \in ActionKind}

Kind(a) == Code[a.tid][a.point].op

\* a comes before b in the vector of their thread; the bodies of a branch are
\* visited one after the other.
Listed(a, b) ==
  /\ a.tid = b.tid
  /\ \/ \E i \in DOMAIN a.point : /\ FirstDifference(a.point, b.point, i)
                                  /\ a.point[i].val < b.point[i].val
     \/ Compare(a.point, b.point) = "AFTER"

\* a is in no branch: it is executed whenever its thread is.
isAlwaysExecuted(a) == Len(a.point) = 1

\* A record that orders the stores before it and the loads after it for good.
Separates(a) == Kind(a) \in {"RMW", "FENCE"} /\ isAlwaysExecuted(a)

\* insertTSOAction: the pairs of a store and a later load that have a variable.
MayPass(load, store) ==
  /\ TSO
  /\ Kind(load) = "LOAD" /\ Kind(store) = "STORE"
  /\ Listed(store, load)
  /\ \A c \in Action : ~(Listed(store, c) /\ Listed(c, load) /\ Separates(c))

\* The pair is in the table of pairs: createOrderConstraint was called for it.
InTable(a, b) == a.tid # b.tid \/ MayPass(a, b) \/ MayPass(b, a)

\* a comes before b by thread creation or by a join.
orderThread(a, b) ==
  \/ \E q \in DOMAIN Code[a.tid] : /\ Code[a.tid][q] = [op |-> "CREATE", tid |-> b.tid]
                                   /\ Compare(a.point, q) = "AFTER"
  \/ \E q \in DOMAIN Code[b.tid] : /\ Code[b.tid][q] = [op |-> "JOIN", tid |-> a.tid]
                                   /\ Compare(q, b.point) = "AFTER"

\* b is after a in their thread.
AfterPairs ==
  {p \in Action \X Action : p[1].tid = p[2].tid /\ Compare(p[1].point, p[2].point) = "AFTER"}

ListedPairs == {p \in Action \X Action : Listed(p[1], p[2])}

\* getOrderConstraint is the constant TRUE: by createOrderConstraint for a pair
\* of the table, by the execution points for another pair.
TruePairs ==
  {p \in Action \X Action : IF InTable(p[1], p[2]) THEN orderThread(p[1], p[2])
                                                  ELSE p \in AfterPairs}

\* It is a variable or a negated one.  For the other pairs it is FALSE.
VariablePairs ==
  {p \in Action \X Action :
     InTable(p[1], p[2]) /\ ~orderThread(p[1], p[2]) /\ ~orderThread(p[2], p[1])}

\* getOrder: the value of the constraint in the solution.
Before(a, b) == <<a, b>> \in TruePairs \/ <<a, b>> \in decided

--------------------------------------------------------------------------------
(* The clauses.  Each operator says that the clauses of a kind hold.       *)

\* The clause that a, b, c do not follow each other in a circle.
NoCircle(a, b, c) == Before(b, a) \/ Before(c, b) \/ Before(a, c)

\* Fault: the clause of one of the two directions round a circle is missing.
InterTransOrderHalf(a, b, c) == NoCircle(c, b, a)

\* Fault: its clauses lack a literal.
InterTransOrderShort(a, b, c) ==
  /\ Before(b, a) \/ Before(c, b)
  /\ Before(a, b) \/ Before(b, c)

\* genTransOrderConstraint: three operations of three threads.
InterTransOrder(a, b, c) == NoCircle(a, b, c) /\ NoCircle(c, b, a)

\* An operation a of one thread, b and c of another, b listed before c; the second
\* clause is generated for a store b and a load c that may pass it.
IntraTransOrder(a, b, c) ==
  /\ NoCircle(a, b, c)
  /\ <<c, b>> \in TruePairs \cup VariablePairs => NoCircle(c, b, a)

\* genTransOrderConstraints of two threads generates this in both its inner loops,
\* each of which skips what it calls trivial: the first if b is before a by
\* construction, the second if a is before c.
TwoThreadTransOrder(a, b, c) ==
  (<<b, a>> \notin TruePairs \/ <<a, c>> \notin TruePairs) => IntraTransOrder(a, b, c)

\* The record the inner loop of genTSOTransOrderConstraints looks at for the
\* store it has reached and a later index: it is read at the index of the store.
InnerRecord(store, later) == store

\* genTSOTransOrderConstraints: a pair of stores and a load, a pair of loads and
\* a store.
EarlyStore(early, store, later) ==
  LET rec == InnerRecord(store, later)
  IN  (Kind(rec) = "LOAD" /\ Before(store, rec)) => Before(early, rec)

EarlyLoad(store, early, later) ==
  LET rec == InnerRecord(store, later)
  IN  (Kind(rec) = "LOAD" /\ Before(store, early)) => Before(store, rec)

TSOTransOrder ==
  \A s, l, e \in Action : MayPass(l, s) =>
    /\ (Kind(e) = "STORE" /\ Listed(e, s)) => EarlyStore(e, s, l)
    /\ (MayPass(e, s) /\ Listed(e, l)) => EarlyLoad(s, e, l)

Satisfied ==
  /\ \A a, b, c \in Action :
       /\ (a.tid > b.tid /\ b.tid > c.tid) => InterTransOrder(a, b, c)
       /\ (a.tid # b.tid /\ <<b, c>> \in ListedPairs) => TwoThreadTransOrder(a, b, c)
  /\ TSO => TSOTransOrder

--------------------------------------------------------------------------------
(* The solver.                                                             *)

Undecided == {p \in VariablePairs : p \notin decided /\ <<p[2], p[1]>> \notin decided}

\* The next variable is decided, one way or the other.
Decide ==
  /\ Undecided # {}
  /\ LET p == CHOOSE p \in Undecided : TRUE
     IN  \E q \in {p, <<p[2], p[1]>>} : decided' = decided \cup {q}

Init == decided = {}
Next == Decide
Spec == Init /\ [][Next]_decided

\* A thread is not joined before it is created, and no thread joins itself.
ASSUME ThreadOrderAssumption ==
  \A a, b \in Action : ~(orderThread(a, b) /\ orderThread(b, a))

--------------------------------------------------------------------------------
TypeOK == decided \subseteq VariablePairs

Complete == Undecided = {}

\* a and b can be part of one execution.
Comparable(a, b) == a.tid # b.tid \/ <<a, b>> \in AfterPairs \/ <<b, a>> \in AfterPairs

IsOrder ==
  /\ \A a, b \in Action : Comparable(a, b) => (Before(a, b) <=> ~Before(b, a))
  /\ \A a, b, c \in Action :
       /\ Comparable(a, b) /\ Comparable(b, c) /\ Comparable(a, c)
       /\ Before(a, b) /\ Before(b, c)
       => Before(a, c)

\* What a solution of the clauses says of operations of one execution is a total
\* order: buildSchedule finds one first operation, whatever the order in which it
\* compares them.
SolutionIsOrder == (Complete /\ Satisfied) => IsOrder

\* Every circle a solution has is in one thread: those of operations of several threads, of which
\* the clauses are many and differ, are all excluded.
ThreadsAreOrdered ==
  (Complete /\ Satisfied) =>
    \A a, b, c \in Action :
      /\ Comparable(a, b) /\ Comparable(b, c) /\ Comparable(a, c)
      /\ {a.tid} # {b.tid, c.tid}
      /\ Before(a, b) /\ Before(b, c)
      => Before(a, c)

\* The order in which the operations take effect, where those the execution left
\* out, being on another side of a branch, may be put where it suits.
Precedes(a, b) == Before(a, b) \/ (~Comparable(a, b) /\ <<a, b>> \in ListedPairs)

IsExecution == \A a, b, c \in Action : Precedes(a, b) /\ Precedes(b, c) => Precedes(a, c)

\* No clause excludes an execution the memory model allows and into whose order all records fit,
\* also the fences and read-modify-writes it left out: the search of the solver misses none of
\* these.
ExecutionIsSolution == (Complete /\ IsExecution) => Satisfied
================================================================================
