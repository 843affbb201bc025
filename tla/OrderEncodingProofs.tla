-------------------------- MODULE OrderEncodingProofs --------------------------
(***************************************************************************)
(* The order encoding and the loads in it for programs of any size: the    *)
(* clauses exclude no execution, in an SC build they admit nothing but     *)
(* orders, and a load has the code of the last store it can see.           *)
(***************************************************************************)
EXTENDS ReadsFrom, Lemmas, FiniteSetTheorems

\* The variables that are decided are variables of the encoding, each decided
\* in one way only.
Consistent ==
  /\ TypeOK
  /\ \A a, b \in Action : ~(<<a, b>> \in decided /\ <<b, a>> \in decided)

\* The points of operations are points.
LEMMA ActionPoint ==
  ASSUME NEW a \in Action
  PROVE  a.tid \in Tid /\ a.point \in Point
BY ProgramAssumption DEF Action

\* The solver keeps its variables typed: what it decides are pairs of the table.
THEOREM TypeCorrect == Spec => []TypeOK
<1>1. Init => TypeOK
  BY DEF Init, TypeOK
<1>2. TypeOK /\ [Next]_decided => TypeOK'
  <2>1. ASSUME TypeOK, Decide PROVE TypeOK'
    <3>1. PICK p \in Undecided : \E q \in {p, <<p[2], p[1]>>} : decided' = decided \cup {q}
      BY <2>1 DEF Decide
    <3>2. p \in VariablePairs /\ <<p[2], p[1]>> \in VariablePairs
      BY <3>1 DEF Undecided, VariablePairs, InTable
    <3> QED
      BY <2>1, <3>1, <3>2 DEF TypeOK
  <2>2. ASSUME TypeOK, UNCHANGED decided PROVE TypeOK'
    BY <2>2 DEF TypeOK
  <2> QED
    BY <2>1, <2>2 DEF Next
<1> QED
  BY <1>1, <1>2, PTL DEF Spec

\* A decision is about a pair of the table that was not decided either way.
LEMMA DecideConsistent ==
  ASSUME Consistent, Decide
  PROVE  Consistent'
<1>1. PICK p \in Undecided : \E q \in {p, <<p[2], p[1]>>} : decided' = decided \cup {q}
  BY DEF Decide
<1>2. p \in VariablePairs /\ <<p[2], p[1]>> \in VariablePairs
  BY <1>1 DEF Undecided, VariablePairs, InTable
<1>3. TypeOK'
  BY <1>1, <1>2 DEF Consistent, TypeOK
<1>4. p \in Action \X Action /\ p[1] # p[2]
  <2>1. p \in Action \X Action /\ InTable(p[1], p[2])
    BY <1>2 DEF VariablePairs
  <2>2. ~InTable(p[1], p[1])
    BY <2>1 DEF InTable, MayPass
  <2> QED BY <2>1, <2>2
<1>5. p \notin decided /\ <<p[2], p[1]>> \notin decided
  BY <1>1 DEF Undecided
<1>6. ASSUME NEW a \in Action, NEW b \in Action, <<a, b>> \in decided', <<b, a>> \in decided'
      PROVE  FALSE
  BY <1>1, <1>4, <1>5, <1>6 DEF Consistent
<1> QED
  BY <1>3, <1>6 DEF Consistent

\* The solver never decides a variable of orderconstrainttable in both directions.
LEMMA Consistency == Spec => []Consistent
<1>1. Init => Consistent
  BY DEF Init, Consistent, TypeOK
<1>2. Consistent /\ [Next]_decided => Consistent'
  <2>1. ASSUME Consistent, UNCHANGED decided PROVE Consistent'
    BY <2>1 DEF Consistent, TypeOK
  <2> QED
    BY <2>1, DecideConsistent DEF Next
<1> QED
  BY <1>1, <1>2, PTL DEF Spec

--------------------------------------------------------------------------------
\* One of a pair of the table comes first in a complete assignment, and only one.
LEMMA TableOrdered ==
  ASSUME Consistent, Complete, NEW a \in Action, NEW b \in Action, InTable(a, b)
  PROVE  Before(a, b) <=> ~Before(b, a)
<1>1. InTable(b, a)
  BY DEF InTable
<1>2. /\ <<a, b>> \in TruePairs <=> orderThread(a, b)
      /\ <<b, a>> \in TruePairs <=> orderThread(b, a)
  BY <1>1 DEF TruePairs
<1>3. ~(orderThread(a, b) /\ orderThread(b, a))
  BY ThreadOrderAssumption
<1>4. CASE <<a, b>> \in VariablePairs
  <2>1. <<a, b>> \in decided \/ <<b, a>> \in decided
    BY <1>4 DEF Complete, Undecided
  <2>2. ~orderThread(a, b) /\ ~orderThread(b, a)
    BY <1>4 DEF VariablePairs
  <2> QED
    BY <1>2, <2>1, <2>2 DEF Before, Consistent
<1>5. CASE <<a, b>> \notin VariablePairs
  <2>1. orderThread(a, b) \/ orderThread(b, a)
    BY <1>5 DEF VariablePairs
  <2>2. <<b, a>> \notin VariablePairs
    BY <2>1 DEF VariablePairs
  <2>3. <<a, b>> \notin decided /\ <<b, a>> \notin decided
    BY <1>5, <2>2 DEF Consistent, TypeOK
  <2> QED
    BY <1>2, <1>3, <2>1, <2>3 DEF Before
<1> QED
  BY <1>4, <1>5

\* Another pair is in program order, whatever is decided.
LEMMA ProgramOrder ==
  ASSUME Consistent, NEW a \in Action, NEW b \in Action, ~InTable(a, b)
  PROVE  Before(a, b) <=> <<a, b>> \in AfterPairs
<1>1. <<a, b>> \notin VariablePairs
  BY DEF VariablePairs
<1> QED
  BY <1>1 DEF Before, TruePairs, Consistent, TypeOK

\* Of two operations of a thread at most one is after the other; the vector of the
\* thread lists it behind.
LEMMA AfterListed ==
  ASSUME NEW a \in Action, NEW b \in Action, <<a, b>> \in AfterPairs
  PROVE  <<b, a>> \notin AfterPairs /\ <<a, b>> \in ListedPairs
<1>1. a.tid = b.tid /\ Compare(a.point, b.point) = "AFTER"
  BY DEF AfterPairs
<1>2. Compare(b.point, a.point) # "AFTER"
  BY <1>1, ActionPoint, CompareAntisymmetric
<1> QED
  BY <1>1, <1>2 DEF AfterPairs, ListedPairs, Listed

\* Operations listed one behind the other are in the order of their counters.
LEMMA ListedLex ==
  ASSUME NEW a \in Action, NEW b \in Action, <<a, b>> \in ListedPairs
  PROVE  a.tid = b.tid /\ LexLess(a.point, b.point)
BY ActionPoint, CompareLex DEF ListedPairs, Listed, LexLess

\* Of two operations of one execution a complete assignment puts one before the other, and only one.
LEMMA ComparableOrdered ==
  ASSUME Consistent, Complete, NEW a \in Action, NEW b \in Action, Comparable(a, b)
  PROVE  Before(a, b) <=> ~Before(b, a)
<1>1. CASE InTable(a, b)
  BY <1>1, TableOrdered
<1>2. CASE ~InTable(a, b)
  <2>1. ~InTable(b, a) /\ a.tid = b.tid
    BY <1>2 DEF InTable
  <2> QED
    BY <1>2, <2>1, ProgramOrder, AfterListed DEF Comparable
<1> QED
  BY <1>1, <1>2

--------------------------------------------------------------------------------
(***************************************************************************)
(* In both builds no solution has a circle of operations of several        *)
(* threads, if no thread is created and joined between a store and a load  *)
(* that may pass it: genTransOrderConstraints takes the pair for ordered   *)
(* there.                                                                  *)
(***************************************************************************)
NoThreadBetween ==
  \A s, x, l \in Action :
    MayPass(l, s) /\ x.tid # s.tid => ~(<<s, x>> \in TruePairs /\ <<x, l>> \in TruePairs)

LEMMA NoThreadBetweenSC == ~TSO => NoThreadBetween
BY DEF NoThreadBetween, MayPass

\* Two operations of one thread do not go round in a circle with one of another.
LEMMA NoCircleOfTwo ==
  ASSUME NoThreadBetween, Consistent, Complete, Satisfied,
         NEW x \in Action, NEW y \in Action, NEW z \in Action,
         y.tid = z.tid, x.tid # y.tid, Before(x, y), Before(y, z), Before(z, x)
  PROVE  FALSE
<1>1. Comparable(x, y) /\ Comparable(x, z) /\ Comparable(z, x) /\ Comparable(y, x)
  BY DEF Comparable
<1>2. ~Before(y, x) /\ ~Before(x, z)
  BY <1>1, ComparableOrdered
<1>3. ~Before(z, y)
  <2>1. CASE InTable(y, z)
    BY <2>1, TableOrdered
  <2>2. CASE ~InTable(y, z)
    <3>1. ~InTable(z, y)
      BY <2>2 DEF InTable
    <3> QED BY <2>2, <3>1, ProgramOrder, AfterListed
  <2> QED BY <2>1, <2>2
<1>4. CASE InTable(y, z) /\ MayPass(y, z)
  <2>1. <<z, y>> \in ListedPairs /\ z.tid = y.tid
    BY <1>4 DEF MayPass, ListedPairs
  <2>2. TwoThreadTransOrder(x, z, y)
    BY <2>1 DEF Satisfied
  <2>3. <<y, z>> \in TruePairs \cup VariablePairs
    BY DEF Before, Consistent, TypeOK
  <2>4. ~(<<z, x>> \in TruePairs /\ <<x, y>> \in TruePairs)
    BY <1>4, <2>1 DEF NoThreadBetween
  <2> QED
    BY <1>2, <1>3, <2>2, <2>3, <2>4 DEF TwoThreadTransOrder, IntraTransOrder, NoCircle
<1>5. CASE <<y, z>> \in ListedPairs
  <2>1. TwoThreadTransOrder(x, y, z)
    BY <1>5 DEF Satisfied
  <2>2. <<y, x>> \notin TruePairs
    BY <1>2 DEF Before
  <2> QED
    BY <1>2, <1>3, <2>1, <2>2 DEF TwoThreadTransOrder, IntraTransOrder, NoCircle
<1>6. CASE InTable(y, z) /\ MayPass(z, y)
  BY <1>5, <1>6 DEF MayPass, ListedPairs
<1>7. CASE ~InTable(y, z)
  BY <1>5, <1>7, ProgramOrder, AfterListed
<1> QED
  BY <1>4, <1>6, <1>7 DEF InTable

\* Nor do three operations of three threads.
LEMMA NoCircleOfThree ==
  ASSUME Consistent, Complete, Satisfied,
         NEW a \in Action, NEW b \in Action, NEW c \in Action,
         a.tid # b.tid, b.tid # c.tid, c.tid # a.tid, Before(a, b), Before(b, c), Before(c, a)
  PROVE  FALSE
<1>1. ~Before(b, a) /\ ~Before(c, b) /\ ~Before(a, c)
  BY ComparableOrdered DEF Comparable
<1>2. a.tid \in Int /\ b.tid \in Int /\ c.tid \in Int
  BY ActionPoint, ProgramAssumption DEF Tid
<1>3. \/ a.tid > b.tid /\ b.tid > c.tid
      \/ b.tid > c.tid /\ c.tid > a.tid
      \/ c.tid > a.tid /\ a.tid > b.tid
      \/ c.tid > b.tid /\ b.tid > a.tid
      \/ b.tid > a.tid /\ a.tid > c.tid
      \/ a.tid > c.tid /\ c.tid > b.tid
  BY <1>2
<1>4. \/ InterTransOrder(a, b, c) \/ InterTransOrder(b, c, a) \/ InterTransOrder(c, a, b)
      \/ InterTransOrder(c, b, a) \/ InterTransOrder(b, a, c) \/ InterTransOrder(a, c, b)
  BY <1>3 DEF Satisfied
<1> QED
  BY <1>1, <1>4 DEF InterTransOrder, NoCircle

\* A solution puts the operations of different threads, the stores in the buffers among them, in
\* an order without circles: the clauses of genTransOrderConstraints and
\* genTransOrderConstraint are enough.
THEOREM CirclesExcluded ==
  ASSUME NoThreadBetween
  PROVE  Spec => []ThreadsAreOrdered
<1>1. Consistent => ThreadsAreOrdered
  <2>1. SUFFICES ASSUME Consistent, Complete, Satisfied,
                        NEW a \in Action, NEW b \in Action, NEW c \in Action,
                        Comparable(a, c), {a.tid} # {b.tid, c.tid}, Before(a, b), Before(b, c),
                        Before(c, a)
                 PROVE  FALSE
    BY ComparableOrdered DEF ThreadsAreOrdered
  <2>2. CASE a.tid = b.tid /\ c.tid # a.tid
    BY <2>1, <2>2, NoCircleOfTwo
  <2>3. CASE b.tid = c.tid /\ a.tid # b.tid
    BY <2>1, <2>3, NoCircleOfTwo
  <2>4. CASE a.tid = c.tid /\ a.tid # b.tid
    BY <2>1, <2>4, NoCircleOfTwo
  <2>5. CASE a.tid # b.tid /\ b.tid # c.tid /\ c.tid # a.tid
    BY <2>1, <2>5, NoCircleOfThree
  <2> QED
    BY <2>1, <2>2, <2>3, <2>4, <2>5
<1> QED
  BY <1>1, Consistency, PTL

--------------------------------------------------------------------------------
(***************************************************************************)
(* In an SC build every solution is a total order of the operations of an  *)
(* execution (genTransOrderConstraints: the pairs of clauses it skips as   *)
(* trivial are not missed).                                                *)
(***************************************************************************)
\* An SC solution that satisfies the transitivity clauses is transitive, also over
\* the triples genTransOrderConstraints adds no clause for.
LEMMA SCTransitive ==
  ASSUME ~TSO, Consistent, Complete, Satisfied,
         NEW a \in Action, NEW b \in Action, NEW c \in Action,
         Comparable(a, b), Comparable(b, c), Comparable(a, c),
         Before(a, b), Before(b, c)
  PROVE  Before(a, c)
<1>1. SUFFICES ASSUME Before(c, a) PROVE FALSE
  <2>1. Comparable(c, a)
    BY DEF Comparable
  <2> QED
    BY <2>1, ComparableOrdered
<1>2. Comparable(b, a) /\ Comparable(c, b)
  BY DEF Comparable
<1>3. ~Before(b, a) /\ ~Before(c, b) /\ ~Before(a, c)
  BY <1>1, <1>2, ComparableOrdered
<1>4. CASE a.tid = b.tid /\ b.tid = c.tid
  <2>1. ~InTable(a, b) /\ ~InTable(b, c) /\ ~InTable(c, a)
    BY <1>4 DEF InTable, MayPass
  <2>2. <<a, b>> \in AfterPairs /\ <<b, c>> \in AfterPairs /\ <<c, a>> \in AfterPairs
    BY <1>1, <2>1, ProgramOrder
  <2>3. /\ LexLess(a.point, b.point) /\ LexLess(b.point, c.point)
        /\ LexLess(c.point, a.point)
    BY <2>2, AfterListed, ListedLex
  <2> QED
    BY <2>3, ActionPoint, LexTransitive, LexIrreflexive
<1>5. CASE a.tid = b.tid /\ b.tid # c.tid
  BY <1>1, <1>5, NoThreadBetweenSC, NoCircleOfTwo
<1>6. CASE a.tid # b.tid /\ b.tid = c.tid
  BY <1>1, <1>6, NoThreadBetweenSC, NoCircleOfTwo
<1>7. CASE a.tid # b.tid /\ a.tid = c.tid
  BY <1>1, <1>7, NoThreadBetweenSC, NoCircleOfTwo
<1>8. CASE a.tid # b.tid /\ b.tid # c.tid /\ c.tid # a.tid
  BY <1>1, <1>8, NoCircleOfThree
<1> QED
  BY <1>4, <1>5, <1>6, <1>7, <1>8

\* In an SC build a complete assignment that satisfies the clauses of
\* genTransOrderConstraints is a total order of the operations: printOrder and
\* buildSchedule can sort by it.
THEOREM SCSolutionIsOrder ==
  ASSUME ~TSO
  PROVE  Spec => []SolutionIsOrder
<1>1. Consistent => SolutionIsOrder
  <2>1. SUFFICES ASSUME Consistent, Complete, Satisfied PROVE IsOrder
    BY DEF SolutionIsOrder
  <2> QED
    BY <2>1, ComparableOrdered, SCTransitive DEF IsOrder
<1> QED
  BY <1>1, Consistency, PTL

--------------------------------------------------------------------------------
(***************************************************************************)
(* In both builds the clauses hold for every execution: no order of the    *)
(* operations that respects creation, join and program order is lost.      *)
(***************************************************************************)
LEMMA PrecedesInTable ==
  ASSUME NEW a \in Action, NEW b \in Action, a.tid # b.tid, Precedes(a, b)
  PROVE  Before(a, b)
BY DEF Precedes, Comparable

\* An execution that orders a before b before c does not order c before a.
LEMMA NoCircleInExecution ==
  ASSUME Consistent, Complete, IsExecution,
         NEW a \in Action, NEW b \in Action, NEW c \in Action,
         a.tid # b.tid, a.tid # c.tid, Before(c, b) \/ Precedes(b, c)
  PROVE  NoCircle(a, b, c)
<1>1. SUFFICES ASSUME ~Before(b, a), ~Before(c, b), ~Before(a, c) PROVE FALSE
  BY DEF NoCircle
<1>2. InTable(a, b) /\ InTable(a, c)
  BY DEF InTable
<1>3. Before(a, b) /\ Before(c, a)
  BY <1>1, <1>2, TableOrdered
<1>4. Precedes(a, b) /\ Precedes(b, c)
  BY <1>1, <1>3 DEF Precedes
<1>5. Precedes(a, c)
  BY <1>4 DEF IsExecution
<1> QED
  BY <1>1, <1>5, PrecedesInTable

\* A complete assignment that is an execution satisfies all clauses of
\* genTransOrderConstraints and genTransOrderConstraint, in SC and in TSO builds.
THEOREM EveryExecutionIsSolution == Spec => []ExecutionIsSolution
<1>1. Consistent => ExecutionIsSolution
  <2>1. SUFFICES ASSUME Consistent, Complete, IsExecution PROVE Satisfied
    BY DEF ExecutionIsSolution
  <2>2. ASSUME NEW a \in Action, NEW b \in Action, NEW c \in Action,
               a.tid > b.tid, b.tid > c.tid
        PROVE  InterTransOrder(a, b, c)
    <3>0. a.tid # b.tid /\ b.tid # c.tid /\ c.tid # a.tid
      <4>1. a.tid \in Int /\ b.tid \in Int /\ c.tid \in Int
        BY ActionPoint, ProgramAssumption DEF Tid
      <4> QED
        BY <2>2, <4>1
    <3>1. InTable(b, c)
      BY <3>0 DEF InTable
    <3>2. (Before(c, b) \/ Precedes(b, c)) /\ (Before(a, b) \/ Precedes(b, a))
      <4>1. InTable(a, b)
        BY <3>0 DEF InTable
      <4> QED
        BY <2>1, <3>1, <4>1, TableOrdered DEF Precedes
    <3>3. NoCircle(a, b, c)
      BY <2>1, <3>0, <3>2, NoCircleInExecution
    <3>4. NoCircle(c, b, a)
      BY <2>1, <3>0, <3>2, NoCircleInExecution
    <3> QED
      BY <3>3, <3>4 DEF InterTransOrder
  <2>3. ASSUME NEW a \in Action, NEW b \in Action, NEW c \in Action,
               a.tid # b.tid, <<b, c>> \in ListedPairs
        PROVE  TwoThreadTransOrder(a, b, c)
    <3>1. b.tid = c.tid /\ <<c, b>> \notin AfterPairs
      <4>1. b.tid = c.tid /\ LexLess(b.point, c.point)
        BY <2>3, ListedLex
      <4>2. ~LexLess(c.point, b.point)
        BY <4>1, ActionPoint, LexTransitive, LexIrreflexive
      <4> QED
        BY <4>1, <4>2, ActionPoint, CompareLex DEF AfterPairs
    <3>2. Before(c, b) \/ Precedes(b, c)
      <4>1. CASE InTable(b, c)
        BY <2>1, <4>1, TableOrdered DEF Precedes
      <4>2. CASE ~InTable(b, c)
        <5>1. Comparable(b, c) => Before(b, c)
          BY <2>1, <3>1, <4>2, ProgramOrder DEF Comparable
        <5> QED
          BY <2>3, <5>1 DEF Precedes
      <4> QED BY <4>1, <4>2
    <3>3. NoCircle(a, b, c)
      BY <2>1, <2>3, <3>1, <3>2, NoCircleInExecution
    <3>4. ASSUME <<c, b>> \in TruePairs \cup VariablePairs PROVE NoCircle(c, b, a)
      <4>1. Before(c, b) \/ Before(b, c)
        <5>1. CASE <<c, b>> \in TruePairs
          BY <5>1 DEF Before
        <5>2. CASE <<c, b>> \in VariablePairs
          <6>1. InTable(c, b)
            BY <5>2 DEF VariablePairs
          <6> QED
            BY <2>1, <6>1, TableOrdered
        <5> QED BY <3>4, <5>1, <5>2
      <4>2. Before(b, c) \/ Precedes(c, b)
        BY <4>1 DEF Precedes
      <4>3. NoCircle(a, c, b)
        BY <2>1, <2>3, <3>1, <4>2, NoCircleInExecution
      <4> QED
        BY <4>3 DEF NoCircle
    <3> QED
      BY <3>3, <3>4 DEF TwoThreadTransOrder, IntraTransOrder
  <2>4. TSOTransOrder
    <3>1. ASSUME NEW s \in Action, NEW l \in Action, NEW e \in Action, MayPass(l, s)
          PROVE  EarlyStore(e, s, l) /\ EarlyLoad(s, e, l)
      BY <3>1 DEF EarlyStore, EarlyLoad, InnerRecord, MayPass
    <3> QED
      BY <3>1 DEF TSOTransOrder
  <2> QED
    BY <2>2, <2>3, <2>4 DEF Satisfied
<1> QED
  BY <1>1, Consistency, PTL

--------------------------------------------------------------------------------
(***************************************************************************)
(* The loads (src/loadrf.cc).  First, what is always so of the operations  *)
(* a solution executes, in both builds.                                    *)
(***************************************************************************)
\* Operations are at points of blocks.
LEMMA CodePoint ==
  ASSUME NEW t \in Tid, NEW p \in DOMAIN Code[t]
  PROVE  p \in BlockPoint
BY ReadsFromAssumption

\* A pair of a reader and a writer are operations; a writer never is a plain load.
LEMMA Operations ==
  /\ Reader \subseteq Action /\ Writer \subseteq Action
  /\ \A a \in Action : a.tid \in Tid /\ a.point \in BlockPoint /\ a.point \in DOMAIN Code[a.tid]
  /\ \A a \in Writer : Kind(a) # "LOAD"
<1>1. \A a \in Action : a.tid \in Tid /\ a.point \in DOMAIN Code[a.tid]
  BY DEF Action
<1> QED
  BY <1>1, CodePoint DEF Reader, Writer

\* Of two operations of a thread that are both executed one is after the other: the branches
\* around both have been taken the same way.
LEMMA BothExecuted ==
  ASSUME NEW a \in Action, NEW b \in Action, NEW d, a.tid = b.tid, a # b,
         Executed(a, d), Executed(b, d)
  PROVE  <<a, b>> \in AfterPairs \/ <<b, a>> \in AfterPairs
<1> DEFINE p == a.point
           q == b.point
<1>1. p \in BlockPoint /\ q \in BlockPoint /\ p \in Point /\ q \in Point
  BY Operations DEF BlockPoint
<1>2. SUFFICES Compare(p, q) = "AFTER" \/ Compare(q, p) = "AFTER"
  BY DEF AfterPairs
<1>3. /\ Len(p) \in Nat /\ Len(q) \in Nat /\ DOMAIN p = 1 .. Len(p) /\ DOMAIN q = 1 .. Len(q)
      /\ \A i \in DOMAIN p : p[i] \in Pair /\ p[i].val \in Nat
      /\ \A i \in DOMAIN q : q[i] \in Pair /\ q[i].val \in Nat
  BY <1>1, PointFacts
<1>4. ASSUME NEW i \in DOMAIN p, FirstDifference(p, q, i)
      PROVE  Compare(p, q) = "AFTER" \/ Compare(q, p) = "AFTER"
  <2>1. i \in DOMAIN q /\ p[i].type = q[i].type /\ FirstDifference(q, p, i)
    BY <1>1, <1>4 DEF FirstDifference, BlockPoint
  <2>2. CASE p[i].type = "BRANCH"
    <3>1. SubSeq(p, 1, i - 1) = SubSeq(q, 1, i - 1)
      <4>1. \A j \in 1 .. i - 1 : p[j] = q[j]
        <5> SUFFICES ASSUME NEW j \in 1 .. i - 1 PROVE p[j] = q[j]
          OBVIOUS
        <5>1. j \in DOMAIN p /\ j \in DOMAIN q
          BY <1>3, <2>1
        <5>2. p[j].val = q[j].val /\ p[j].type = q[j].type
          BY <1>1, <1>4, <5>1 DEF FirstDifference, BlockPoint
        <5> QED BY SMTT(30), <1>3, <5>1, <5>2 DEF Pair
      <4>2. i - 1 \in Int /\ i - 1 <= Len(p) /\ i - 1 <= Len(q)
        BY <1>3, <2>1
      <4> QED BY <1>1, <1>3, <4>1, <4>2, SubSeqProperties DEF Point
    <3> DEFINE g == [tid |-> a.tid, point |-> SubSeq(p, 1, i - 1)]
               h == [tid |-> b.tid, point |-> SubSeq(q, 1, i - 1)]
    <3>2. g = h
      BY <3>1
    <3>3. <<g, p[i].val>> \in Guards[a] /\ <<h, q[i].val>> \in Guards[b]
      BY <1>4, <2>1, <2>2 DEF Guards
    <3>4. d[g] = p[i].val /\ d[h] = q[i].val
      <4> HIDE DEF g, h, p, q
      <4> QED BY <3>3 DEF Executed
    <3> QED BY <1>4, <3>2, <3>4 DEF FirstDifference
  <2>3. CASE p[i].type # "BRANCH"
    <3>1. p[i].val < q[i].val \/ q[i].val < p[i].val
      BY <1>3, <1>4, <2>1 DEF FirstDifference
    <3> QED BY <1>1, <1>4, <2>1, <2>3, <3>1, CompareAt
  <2> QED BY <2>2, <2>3
<1>5. CASE Agree(p, q)
  <2>1. Agree(q, p)
    BY <1>5 DEF Agree
  <2>2. Len(p) # Len(q)
    <3> SUFFICES ASSUME Len(p) = Len(q) PROVE FALSE
      OBVIOUS
    <3>1. p = q
      BY <1>1, <1>3, <1>5, CompareAgreeing, EqualsSame
    <3> QED BY <3>1 DEF Action
  <2> QED BY <1>1, <1>3, <1>5, <2>1, <2>2, CompareAgreeing
<1> QED
  BY <1>1, <1>4, <1>5, DifferOrAgree

\* After is transitive for the operations of a thread.
LEMMA AfterPairsChain ==
  ASSUME NEW a \in Action, NEW b \in Action, NEW c \in Action,
         <<a, b>> \in AfterPairs, <<b, c>> \in AfterPairs
  PROVE  <<a, c>> \in AfterPairs /\ a # b /\ a # c
<1>1. Compare(a.point, c.point) = "AFTER"
  BY Operations, AfterAfter DEF AfterPairs
<1> QED
  BY <1>1, AfterListed DEF AfterPairs

\* Two writers of a thread are in program order: neither may pass the other.
LEMMA OwnWriters ==
  ASSUME Consistent, NEW a \in Writer, NEW b \in Writer, a.tid = b.tid
  PROVE  /\ Before(a, b) <=> <<a, b>> \in AfterPairs
         /\ <<a, b>> \in TruePairs <=> <<a, b>> \in AfterPairs
<1>1. a \in Action /\ b \in Action /\ ~InTable(a, b)
  BY Operations DEF InTable, MayPass
<1> QED
  BY <1>1, ProgramOrder DEF TruePairs, AfterPairs

\* A store that comes before an executed load of its own thread is before it in the program.
LEMMA OwnStoreBefore ==
  ASSUME Consistent, NEW a \in Writer, NEW l \in Reader, a.tid = l.tid, NEW d,
         Executed(a, d), Executed(l, d), Before(a, l)
  PROVE  <<a, l>> \in AfterPairs
<1>1. a \in Action /\ l \in Action
  BY Operations
<1>2. CASE InTable(a, l)
  <2>1. MayPass(l, a) /\ Listed(a, l)
    BY <1>2, Operations DEF InTable, MayPass
  <2>2. a # l
    BY <2>1, Operations DEF MayPass
  <2>3. CASE <<l, a>> \in AfterPairs
    <3>1. <<l, a>> \in ListedPairs /\ <<a, l>> \in ListedPairs
      BY <1>1, <2>1, <2>3, AfterListed DEF ListedPairs
    <3>2. LexLess(l.point, a.point) /\ LexLess(a.point, l.point)
      BY <1>1, <3>1, ListedLex
    <3> QED BY <1>1, <3>2, ActionPoint, LexTransitive, LexIrreflexive
  <2> QED BY <1>1, <2>2, <2>3, BothExecuted
<1>3. CASE ~InTable(a, l)
  BY <1>1, <1>3, ProgramOrder
<1> QED
  BY <1>2, <1>3

\* A solution puts one of two executed writers before the other, and only one.
LEMMA WritersOrdered ==
  ASSUME Consistent, Complete, NEW a \in Writer, NEW b \in Writer, a # b, NEW d,
         Executed(a, d), Executed(b, d)
  PROVE  Before(a, b) <=> ~Before(b, a)
<1>1. a \in Action /\ b \in Action
  BY Operations
<1>2. CASE a.tid # b.tid
  BY <1>1, <1>2, TableOrdered DEF InTable
<1>3. CASE a.tid = b.tid
  BY <1>1, <1>3, OwnWriters, BothExecuted, AfterListed
<1> QED
  BY <1>2, <1>3

\* No operation comes before itself.
LEMMA NotBeforeItself ==
  ASSUME Consistent, NEW a \in Action
  PROVE  ~Before(a, a)
<1>1. ~InTable(a, a)
  <2>1. ~MayPass(a, a)
    BY DEF MayPass
  <2> QED BY <2>1 DEF InTable
<1> QED
  BY <1>1, ProgramOrder, AfterListed

\* The order of a solution is transitive on what is executed.
LEMMA OrderChain ==
  ASSUME OrderFound, NEW a \in Reader \cup Writer, NEW b \in Reader \cup Writer,
         NEW c \in Reader \cup Writer, a # c, NEW d, Executed(a, d), Executed(c, d),
         Before(a, b), Before(b, c)
  PROVE  Before(a, c)
<1>1. a \in Action /\ c \in Action
  BY Operations
<1>2. Comparable(a, c)
  BY <1>1, BothExecuted DEF Comparable
<1>3. Precedes(a, c)
  BY DEF OrderFound, Precedes
<1> QED
  BY <1>2, <1>3 DEF Precedes

--------------------------------------------------------------------------------
(***************************************************************************)
(* What a load sees.                                                       *)
(***************************************************************************)
\* No operation sees itself.
LEMMA SeesOthers ==
  ASSUME NEW a \in Action
  PROVE  ~Sees(a, a)
BY AfterListed DEF Sees

\* What the code looks at and what the memory model says agree on executed stores: the store
\* comes before the load, or is one of its thread's own.
LEMMA VisibleSeen ==
  ASSUME Consistent, NEW c \in Writer, NEW l \in Reader, NEW d, NEW ad, Executed(l, d)
  PROVE  c \in Visible(l, d, ad) <=> Executed(c, d) /\ ad[c] = ad[l] /\ Sees(l, c)
<1>1. c \in Action /\ l \in Action
  BY Operations
<1>2. CASE c.tid = l.tid
  BY <1>1, <1>2, OwnStoreBefore, SeesOthers DEF Visible, Sees
<1>3. CASE c.tid # l.tid
  BY <1>3 DEF Visible, Sees, AfterPairs
<1> QED
  BY <1>2, <1>3

\* A store that another store an executed load sees always follows is seen as well.
LEMMA SeesEarlier ==
  ASSUME Consistent, OrderFound, NEW b \in Writer, NEW c \in Writer, NEW l \in Reader, NEW d,
         Executed(b, d), Executed(c, d), Executed(l, d), <<b, c>> \in TruePairs, Sees(l, c)
  PROVE  Sees(l, b)
<1>1. b \in Action /\ c \in Action /\ l \in Action
  BY Operations
<1>2. Before(b, c)
  BY DEF Before
<1>3. CASE c.tid = l.tid /\ b.tid = l.tid
  BY <1>1, <1>3, OwnWriters, AfterPairsChain DEF Sees
<1>4. CASE c.tid = l.tid /\ b.tid # l.tid
  <2>1. <<c, l>> \in AfterPairs /\ orderThread(b, c)
    BY <1>4 DEF Sees, TruePairs, InTable
  <2>2. orderThread(b, l)
    <3>1. CASE \E q \in DOMAIN Code[b.tid] : /\ Code[b.tid][q] = [op |-> "CREATE", tid |-> c.tid]
                                             /\ Compare(b.point, q) = "AFTER"
      BY <1>4, <3>1 DEF orderThread
    <3>2. CASE \E q \in DOMAIN Code[c.tid] : /\ Code[c.tid][q] = [op |-> "JOIN", tid |-> b.tid]
                                             /\ Compare(q, c.point) = "AFTER"
      <4>1. PICK q \in DOMAIN Code[c.tid] : /\ Code[c.tid][q] = [op |-> "JOIN", tid |-> b.tid]
                                            /\ Compare(q, c.point) = "AFTER"
        BY <3>2
      <4>2. Compare(c.point, l.point) = "AFTER"
        BY <2>1 DEF AfterPairs
      <4>3. Compare(q, l.point) = "AFTER"
        BY <1>1, <4>1, <4>2, Operations, CodePoint, AfterAfter
      <4> QED BY <1>4, <4>1, <4>3 DEF orderThread
    <3> QED BY <2>1, <3>1, <3>2 DEF orderThread
  <2>3. <<b, l>> \in TruePairs
    BY <1>1, <1>4, <2>2 DEF TruePairs, InTable
  <2> QED BY <1>4, <2>3 DEF Sees, Before
<1>5. CASE c.tid # l.tid
  <2>1. Before(c, l)
    BY <1>5 DEF Sees
  <2>2. b # l
    <3> SUFFICES ASSUME b = l PROVE FALSE
      OBVIOUS
    <3>1. Complete /\ InTable(c, l)
      BY <1>5 DEF OrderFound, InTable
    <3> QED BY <1>1, <1>2, <2>1, <3>1, TableOrdered
  <2>3. Before(b, l)
    BY <1>2, <2>1, <2>2, OrderChain
  <2> QED BY <2>3, OwnStoreBefore DEF Sees
<1> QED
  BY <1>3, <1>4, <1>5

--------------------------------------------------------------------------------
(***************************************************************************)
(* The loops over the stores.                                              *)
(***************************************************************************)
\* The loop of computeConflictSet: left[i] are the stores left when i have been looked at.
Narrows(left, store, load, stores) ==
  /\ left[0] = ToSet(stores)
  /\ \A i \in 1 .. Len(stores) :
       left[i] = IF Redundant(store, load, CHOOSE a \in Addresses[store] \cap Addresses[load] : TRUE,
                              stores[i], left[i - 1])
                 THEN left[i - 1] \ {stores[i]} ELSE left[i - 1]

LEMMA ConflictsLoop ==
  ASSUME NEW store, NEW load, NEW stores \in Seq(Writer)
  PROVE  \E left : /\ computeConflictSet(store, load, stores) \in {ToSet(stores), left[Len(stores)]}
                   /\ Narrows(left, store, load, stores)
<1> DEFINE common == CHOOSE a \in Addresses[store] \cap Addresses[load] : TRUE
           n == Len(stores)
           X == SUBSET Writer
           Next1(c, S) == IF Redundant(store, load, common, c, S) THEN S \ {c} ELSE S
           step == [x \in (1 .. n) \X X |-> Next1(stores[x[1]], x[2])]
           Fills(f) == f = [i \in 0 .. n |-> IF i = 0 THEN ToSet(stores) ELSE Next1(stores[i], f[i - 1])]
           left == CHOOSE f : Fills(f)
<1>1. computeConflictSet(store, load, stores) \in {ToSet(stores), left[n]}
  BY DEF computeConflictSet
<1>2. n \in Nat /\ DOMAIN stores = 1 .. n /\ \A i \in 1 .. n : stores[i] \in Writer
  OBVIOUS
<1>3. ToSet(stores) \in X
  BY <1>2 DEF ToSet
<1>4. step \in [(1 .. n) \X X -> X]
  OBVIOUS
<1>5. PICK f : f \in [0 .. n -> X] /\ f[0] = ToSet(stores) /\ \A i \in 1 .. n : f[i] = step[<<i, f[i - 1]>>]
  <2>1. n \in Nat
    BY <1>2
  <2> HIDE DEF X, step, n
  <2>2. PICK f : Iterates(f, ToSet(stores), step, n, X)
    BY <1>3, <1>4, <2>1, Iteration
  <2> QED BY <2>2 DEF Iterates
<1>6. \A i \in 1 .. n : f[i - 1] \in X /\ f[i] = Next1(stores[i], f[i - 1])
  <2> SUFFICES ASSUME NEW i \in 1 .. n PROVE f[i - 1] \in X /\ f[i] = Next1(stores[i], f[i - 1])
    OBVIOUS
  <2>1. i - 1 \in 0 .. n
    BY <1>2
  <2>2. f[i - 1] \in X /\ <<i, f[i - 1]>> \in (1 .. n) \X X
    BY <1>5, <2>1
  <2> HIDE DEF Next1, X
  <2>3. step[<<i, f[i - 1]>>] = Next1(stores[i], f[i - 1])
    BY <2>2
  <2> QED BY <1>5, <2>2, <2>3
<1>7. Fills(f)
  <2> HIDE DEF Next1, step
  <2>1. \A i \in 0 .. n : f[i] = IF i = 0 THEN ToSet(stores) ELSE Next1(stores[i], f[i - 1])
    BY <1>2, <1>5, <1>6
  <2> QED BY <1>2, <1>5, <2>1
<1>8. Fills(left)
  <2> HIDE DEF Fills
  <2> QED BY <1>7
<1>9. left[0] = ToSet(stores) /\ \A i \in 1 .. n : left[i] = Next1(stores[i], left[i - 1])
  <2> HIDE DEF Next1, left
  <2> QED BY <1>2, <1>8
<1>10. Narrows(left, store, load, stores)
  <2> HIDE DEF left
  <2> QED BY <1>9 DEF Narrows
<1> HIDE DEF left, X, step, Fills, Next1, common
<1> QED
  BY <1>1, <1>10

\* If each store of B that is left out of the conflicts has another of B in its place, one of B
\* is left in the end.
LEMMA ConflictsKept ==
  ASSUME NEW store, NEW load, NEW stores \in Seq(Writer), NEW B,
         B \cap ToSet(stores) # {},
         \A S \in SUBSET Writer : \A c \in B \cap S :
           Redundant(store, load, CHOOSE a \in Addresses[store] \cap Addresses[load] : TRUE, c, S)
             => \E e \in B \cap S : e # c
  PROVE  computeConflictSet(store, load, stores) \cap B # {}
<1> DEFINE common == CHOOSE a \in Addresses[store] \cap Addresses[load] : TRUE
           n == Len(stores)
           Next1(c, S) == IF Redundant(store, load, common, c, S) THEN S \ {c} ELSE S
<1>0. PICK left : /\ computeConflictSet(store, load, stores) \in {ToSet(stores), left[n]}
                  /\ Narrows(left, store, load, stores)
  BY ConflictsLoop
<1>1. /\ computeConflictSet(store, load, stores) \in {ToSet(stores), left[n]}
      /\ left[0] = ToSet(stores)
      /\ \A i \in 1 .. n : left[i] = Next1(stores[i], left[i - 1])
  BY <1>0 DEF Narrows
<1>2. n \in Nat /\ DOMAIN stores = 1 .. n /\ \A i \in 1 .. n : stores[i] \in Writer
  OBVIOUS
<1>3. ToSet(stores) \in SUBSET Writer
  BY <1>2 DEF ToSet
<1> DEFINE S == {i \in 0 .. n : left[i] \in SUBSET Writer /\ left[i] \cap B # {}}
<1>10. 0 \in S
  BY <1>1, <1>2, <1>3
<1>11. ASSUME NEW i \in 1 .. n, i - 1 \in S PROVE i \in S
  <2> DEFINE c == stores[i]
             A == left[i - 1]
  <2>1. A \in SUBSET Writer /\ A \cap B # {} /\ left[i] = Next1(c, A)
    <3> HIDE DEF Next1
    <3> QED BY <1>1, <1>11
  <2> HIDE DEF A, c
  <2>2. CASE Redundant(store, load, common, c, A) /\ c \in A \cap B
    <3>1. \E e \in B \cap A : e # c
      BY <2>1, <2>2
    <3> QED BY <2>1, <2>2, <3>1
  <2>3. CASE ~(Redundant(store, load, common, c, A) /\ c \in A \cap B)
    BY <2>1, <2>3
  <2> QED BY <2>2, <2>3
<1>12. n \in S
  <2> HIDE DEF S
  <2> QED BY <1>2, <1>10, <1>11, LoopInduction
<1> QED
  BY <1>1, <1>12

\* Only stores are left that were there.
LEMMA ConflictsAmong ==
  ASSUME NEW store, NEW load, NEW stores \in Seq(Writer)
  PROVE  computeConflictSet(store, load, stores) \subseteq ToSet(stores)
<1> DEFINE n == Len(stores)
<1>0. PICK left : /\ computeConflictSet(store, load, stores) \in {ToSet(stores), left[n]}
                  /\ Narrows(left, store, load, stores)
  BY ConflictsLoop
<1>1. /\ computeConflictSet(store, load, stores) \in {ToSet(stores), left[n]}
      /\ left[0] = ToSet(stores)
      /\ \A i \in 1 .. n : left[i] \in {left[i - 1], left[i - 1] \ {stores[i]}}
  BY <1>0 DEF Narrows
<1> DEFINE S == {i \in 0 .. n : left[i] \subseteq ToSet(stores)}
<1>2. n \in Nat /\ 0 \in S
  BY <1>1
<1>3. ASSUME NEW i \in 1 .. n, i - 1 \in S PROVE i \in S
  BY <1>1, <1>3
<1>4. n \in S
  <2> HIDE DEF S
  <2> QED BY <1>2, <1>3, LoopInduction
<1> QED
  BY <1>1, <1>4

\* Every store is recorded, and no more often than there are stores.
LEMMA RecordedAll ==
  ASSUME recorded \in Recordings
  PROVE  /\ recorded \in Seq(Writer) /\ {recorded[i] : i \in 1 .. Len(recorded)} = Writer
         /\ Len(recorded) \in Nat /\ Len(recorded) <= Cardinality(Action)
<1> DEFINE n == Cardinality(Writer)
<1>1. IsFiniteSet(Writer) /\ n <= Cardinality(Action)
  BY ReadsFromAssumption, FS_Subset, Operations
<1>2. n \in Nat
  BY <1>1, FS_CardinalityType
<1>3. recorded \in [1 .. n -> Writer] /\ \A i, j \in 1 .. n : i # j => recorded[i] # recorded[j]
  BY DEF Recordings, SetToSeqs
<1>4. recorded \in Injection(1 .. n, Writer)
  BY <1>3 DEF Injection, IsInjective
<1>5. Cardinality(1 .. n) = n
  BY <1>2, FS_Interval
<1>6. recorded \in Surjection(1 .. n, Writer)
  <2> HIDE DEF n
  <2> QED BY <1>1, <1>4, <1>5, FS_Injection DEF n
<1>7. recorded \in Seq(Writer) /\ Len(recorded) = n
  BY <1>2, <1>3
<1> QED
  BY <1>1, <1>2, <1>3, <1>6, <1>7 DEF Surjection

\* The loop of getMayReadFromSet over the table: found[i] are those of the first i that the load
\* may read from.
Finds(found, load) ==
  /\ found[0] = <<>>
  /\ \A i \in 1 .. Len(recorded) :
       found[i] = IF recorded[i] \in getMayReadFromSet(load)
                  THEN Append(found[i - 1], recorded[i]) ELSE found[i - 1]

LEMMA StoresLoop ==
  ASSUME recorded \in Seq(Writer), NEW load
  PROVE  \E found : genConstraints(load).stores = found[Len(recorded)] /\ Finds(found, load)
<1> DEFINE n == Len(recorded)
           X == Seq(Writer)
           Next1(c, s) == IF c \in getMayReadFromSet(load) THEN Append(s, c) ELSE s
           step == [x \in (1 .. n) \X X |-> Next1(recorded[x[1]], x[2])]
           Fills(f) == f = [i \in 0 .. n |-> IF i = 0 THEN <<>> ELSE Next1(recorded[i], f[i - 1])]
           found == CHOOSE f : Fills(f)
<1>1. genConstraints(load).stores = found[n]
  BY DEF genConstraints
<1>2. n \in Nat /\ \A i \in 1 .. n : recorded[i] \in Writer
  OBVIOUS
<1>3. <<>> \in X
  OBVIOUS
<1>4. step \in [(1 .. n) \X X -> X]
  <2>1. \A c \in Writer, s \in X : Next1(c, s) \in X
    OBVIOUS
  <2> HIDE DEF X, Next1
  <2> QED BY <1>2, <2>1
<1>5. PICK f : f \in [0 .. n -> X] /\ f[0] = <<>> /\ \A i \in 1 .. n : f[i] = step[<<i, f[i - 1]>>]
  <2>1. n \in Nat
    BY <1>2
  <2> HIDE DEF X, step, n
  <2>2. PICK f : Iterates(f, <<>>, step, n, X)
    BY <1>3, <1>4, <2>1, Iteration
  <2> QED BY <2>2 DEF Iterates
<1>6. \A i \in 1 .. n : f[i] = Next1(recorded[i], f[i - 1])
  <2> SUFFICES ASSUME NEW i \in 1 .. n PROVE f[i] = Next1(recorded[i], f[i - 1])
    OBVIOUS
  <2>1. i - 1 \in 0 .. n
    BY <1>2
  <2>2. f[i - 1] \in X /\ <<i, f[i - 1]>> \in (1 .. n) \X X
    <3> HIDE DEF X
    <3> QED BY <1>5, <2>1
  <2> HIDE DEF Next1, X
  <2>3. step[<<i, f[i - 1]>>] = Next1(recorded[i], f[i - 1])
    BY <2>2
  <2> QED BY <1>5, <2>2, <2>3
<1>7. Fills(f)
  <2> HIDE DEF Next1, step
  <2>1. \A i \in 0 .. n : f[i] = IF i = 0 THEN <<>> ELSE Next1(recorded[i], f[i - 1])
    BY <1>2, <1>5, <1>6
  <2> HIDE DEF X
  <2> QED BY <1>2, <1>5, <2>1
<1>8. Fills(found)
  <2> HIDE DEF Fills
  <2> QED BY <1>7
<1>9. found[0] = <<>> /\ \A i \in 1 .. n : found[i] = Next1(recorded[i], found[i - 1])
  <2> HIDE DEF Next1, found
  <2> QED BY <1>2, <1>8
<1>10. Finds(found, load)
  <2> HIDE DEF found
  <2> QED BY <1>9 DEF Finds
<1> HIDE DEF found, X, step, Fills, Next1
<1> QED
  BY <1>1, <1>10

\* The stores of a load's codes are those it may read from.
LEMMA StoresFound ==
  ASSUME recorded \in Recordings, NEW load \in Reader
  PROVE  LET stores == genConstraints(load).stores IN
         /\ stores \in Seq(Writer) /\ ToSet(stores) = getMayReadFromSet(load)
         /\ Len(stores) \in Nat /\ Len(stores) <= Cardinality(Action)
<1> DEFINE n == Len(recorded)
           mrf == getMayReadFromSet(load)
<1>1. /\ recorded \in Seq(Writer) /\ {recorded[i] : i \in 1 .. n} = Writer
      /\ n \in Nat /\ n <= Cardinality(Action)
  BY RecordedAll
<1>2. PICK found : genConstraints(load).stores = found[n] /\ Finds(found, load)
  BY <1>1, StoresLoop
<1>3. /\ found[0] = <<>>
      /\ \A i \in 1 .. n : found[i] = IF recorded[i] \in mrf THEN Append(found[i - 1], recorded[i])
                                      ELSE found[i - 1]
  BY <1>2 DEF Finds
<1> DEFINE Upto(i) == {recorded[j] : j \in 1 .. i}
           Good(i, s) == s \in Seq(Writer) /\ Len(s) <= i /\ ToSet(s) = Upto(i) \cap mrf
           S == {i \in 0 .. n : Good(i, found[i])}
<1>4. 0 \in S
  <2>1. <<>> \in Seq(Writer) /\ Len(<<>>) = 0 /\ ToSet(<<>>) = {} /\ Upto(0) = {}
    BY DEF ToSet
  <2>2. Good(0, <<>>)
    BY <2>1
  <2> HIDE DEF Good
  <2> QED BY <1>1, <1>3, <2>2
<1>5. ASSUME NEW i \in 1 .. n, i - 1 \in S PROVE i \in S
  <2> DEFINE s == found[i - 1]
             c == recorded[i]
  <2>1. /\ s \in Seq(Writer) /\ Len(s) <= i - 1 /\ ToSet(s) = Upto(i - 1) \cap mrf
        /\ i \in Nat /\ i - 1 \in Nat
    BY <1>1, <1>5
  <2>2. Upto(i) = Upto(i - 1) \cup {c} /\ c \in Writer
    <3>1. 1 .. i = (1 .. i - 1) \cup {i}
      BY <2>1, <1>5
    <3>2. c \in Writer
      BY <1>1
    <3> QED BY <3>1, <3>2
  <2>3. found[i] = IF c \in mrf THEN Append(s, c) ELSE s
    <3> HIDE DEF mrf
    <3> QED BY <1>3
  <2>4. SUFFICES Good(i, found[i])
    <3> HIDE DEF Good
    <3> QED BY <1>1
  <2> HIDE DEF s, c, Upto, mrf
  <2>5. Len(s) \in Nat /\ DOMAIN s = 1 .. Len(s)
    BY <2>1
  <2>6. CASE c \in mrf
    <3>1. Append(s, c) \in Seq(Writer) /\ Len(Append(s, c)) = Len(s) + 1
      BY <2>1, <2>2
    <3>2. ToSet(Append(s, c)) = ToSet(s) \cup {c}
      <4>1. DOMAIN Append(s, c) = (1 .. Len(s)) \cup {Len(s) + 1}
        BY <2>5, <3>1
      <4>2. Append(s, c)[Len(s) + 1] = c /\ \A j \in 1 .. Len(s) : Append(s, c)[j] = s[j]
        BY <2>1, <2>2, <2>5
      <4> QED BY <2>5, <4>1, <4>2 DEF ToSet
    <3>3. Len(Append(s, c)) <= i
      BY <2>1, <2>5, <3>1
    <3>4. ToSet(Append(s, c)) = Upto(i) \cap mrf
      BY <2>1, <2>2, <2>6, <3>2
    <3>5. Good(i, Append(s, c))
      BY <3>1, <3>3, <3>4
    <3> HIDE DEF Good
    <3> QED BY <2>3, <2>6, <3>5
  <2>7. CASE c \notin mrf
    <3>1. Len(s) <= i /\ ToSet(s) = Upto(i) \cap mrf
      BY <2>1, <2>2, <2>5, <2>7
    <3> QED BY <2>1, <2>3, <2>7, <3>1
  <2> QED BY <2>6, <2>7
<1>6. n \in S
  <2> HIDE DEF S
  <2> QED BY <1>1, <1>4, <1>5, LoopInduction
<1>7. mrf \subseteq Writer /\ Upto(n) = Writer
  BY <1>1 DEF getMayReadFromSet
<1>8. Cardinality(Action) \in Nat
  BY ReadsFromAssumption, FS_CardinalityType
<1>9. genConstraints(load).stores \in Seq(Writer) /\ Len(found[n]) <= n /\ ToSet(found[n]) = mrf
  BY <1>2, <1>6, <1>7
<1> QED
  BY <1>1, <1>2, <1>8, <1>9

--------------------------------------------------------------------------------
(***************************************************************************)
(* Last and first of finitely many.                                        *)
(***************************************************************************)
InARow(S, R) ==
  /\ \A a \in S : <<a, a>> \notin R
  /\ \A a, b \in S : a # b => <<a, b>> \in R \/ <<b, a>> \in R
  /\ \A a, b, c \in S : <<a, b>> \in R /\ <<b, c>> \in R => <<a, c>> \in R

\* Of finitely many things in a row one is the last.
LEMMA LastOfRow ==
  ASSUME NEW S, IsFiniteSet(S), S # {}, NEW R, InARow(S, R)
  PROVE  \E m \in S : \A a \in S \ {m} : <<a, m>> \in R
<1> DEFINE Below(x) == {y \in S : <<y, x>> \in R}
           N == Cardinality(S)
           Ranks == {Cardinality(Below(x)) : x \in S}
<1>1. N \in Nat
  BY FS_CardinalityType
<1>2. ASSUME NEW x \in S PROVE IsFiniteSet(Below(x)) /\ Cardinality(Below(x)) \in 0 .. N
  <2>1. Below(x) \subseteq S
    OBVIOUS
  <2> HIDE DEF Below
  <2>2. IsFiniteSet(Below(x)) /\ Cardinality(Below(x)) <= N
    BY <2>1, FS_Subset
  <2>3. Cardinality(Below(x)) \in Nat
    BY <2>2, FS_CardinalityType
  <2> QED BY <1>1, <2>2, <2>3
<1>3. Ranks \in SUBSET (0 .. N) /\ Ranks # {}
  <2> HIDE DEF Below, N
  <2> QED BY <1>2
<1>4. PICK r \in Ranks : \A q \in Ranks : r >= q
  <2> HIDE DEF Ranks, N
  <2> QED BY <1>1, <1>3, GreatestNatural
<1>5. PICK m \in S : r = Cardinality(Below(m))
  BY <1>4
<1>6. ASSUME NEW a \in S \ {m}, <<a, m>> \notin R PROVE FALSE
  <2>1. <<m, a>> \in R
    BY <1>6 DEF InARow
  <2>2. Below(m) \cup {m} \subseteq Below(a) /\ m \notin Below(m)
    BY <2>1, <1>6 DEF InARow
  <2>3. Cardinality(Below(a)) \in Ranks
    BY <1>6
  <2>4. /\ IsFiniteSet(Below(m)) /\ IsFiniteSet(Below(a))
        /\ Cardinality(Below(m)) \in Nat /\ Cardinality(Below(a)) \in Nat
    <3> HIDE DEF Below, N
    <3> QED BY <1>1, <1>2, <1>6
  <2> HIDE DEF Below, Ranks, N
  <2>5. Cardinality(Below(m) \cup {m}) = Cardinality(Below(m)) + 1
    BY <2>2, <2>4, FS_AddElement
  <2>6. Cardinality(Below(m) \cup {m}) <= Cardinality(Below(a))
    BY <2>2, <2>4, FS_Subset
  <2>7. Cardinality(Below(a)) <= Cardinality(Below(m))
    BY <1>4, <1>5, <2>3, <2>4
  <2> QED BY <2>4, <2>5, <2>6, <2>7
<1> QED
  BY <1>6

\* And one the first.
LEMMA FirstOfRow ==
  ASSUME NEW S, IsFiniteSet(S), S # {}, NEW R, InARow(S, R)
  PROVE  \E m \in S : \A a \in S \ {m} : <<m, a>> \in R
<1> DEFINE Q == {<<x[2], x[1]>> : x \in R \cap (S \X S)}
<1>1. ASSUME NEW a \in S, NEW b \in S PROVE <<a, b>> \in Q <=> <<b, a>> \in R
  OBVIOUS
<1> HIDE DEF Q
<1>2. InARow(S, Q)
  BY <1>1 DEF InARow
<1>3. \E m \in S : \A a \in S \ {m} : <<a, m>> \in Q
  BY <1>2, LastOfRow
<1> QED
  BY <1>1, <1>3

--------------------------------------------------------------------------------
(***************************************************************************)
(* The last store a load can see.                                          *)
(***************************************************************************)
\* What the operations of a table are to, and what is in no branch is executed in every execution.
LEMMA AddressFacts ==
  /\ \A a \in Reader \cup Writer : IsFiniteSet(Addresses[a]) /\ Cardinality(Addresses[a]) \in Nat
  /\ \A ad \in Locations : \A a \in Reader \cup Writer : ad[a] \in Addresses[a]
<1>1. ASSUME NEW a \in Reader \cup Writer
      PROVE  IsFiniteSet(Addresses[a]) /\ Cardinality(Addresses[a]) \in Nat
  <2> DEFINE more == {l \in Loc : <<a, l>> \in MoreAddresses}
             all == {x[2] : x \in MoreAddresses}
  <2>1. IsFiniteSet(all)
    <3> DEFINE f == [x \in MoreAddresses |-> x[2]]
    <3>1. f \in Surjection(MoreAddresses, all)
      BY DEF Surjection
    <3> HIDE DEF f, all
    <3> QED BY <3>1, ReadsFromAssumption, FS_Surjection
  <2>2. more \in SUBSET all
    OBVIOUS
  <2> HIDE DEF all, more
  <2>3. IsFiniteSet(more)
    BY <2>1, <2>2, FS_Subset
  <2>4. IsFiniteSet({Code[a.tid][a.point].loc})
    BY FS_Singleton
  <2>5. IsFiniteSet({Code[a.tid][a.point].loc} \cup more)
    BY <2>3, <2>4, FS_Union
  <2>6. Addresses[a] = {Code[a.tid][a.point].loc} \cup more
    BY DEF Addresses, more
  <2> QED BY <2>5, <2>6, FS_CardinalityType
<1> QED
  BY <1>1 DEF Locations

LEMMA AlwaysExecuted ==
  ASSUME NEW a \in Action, isAlwaysExecuted(a), NEW d
  PROVE  Executed(a, d)
<1>1. {j \in DOMAIN a.point : a.point[j].type = "BRANCH"} = {}
  BY Operations DEF isAlwaysExecuted, BlockPoint, Point
<1> QED
  BY <1>1 DEF Guards, Executed

\* The pairs of the order.
BeforePairs == {p \in Action \X Action : Before(p[1], p[2])}

\* A solution puts the writers that are executed in a row.
LEMMA ExecutedInARow ==
  ASSUME Consistent, OrderFound, NEW S \in SUBSET Writer, NEW d, \A a \in S : Executed(a, d)
  PROVE  InARow(S, BeforePairs)
<1>0. Complete /\ S \subseteq Action /\ S \subseteq Writer
  BY Operations DEF OrderFound
<1>1. \A a, b \in S : <<a, b>> \in BeforePairs <=> Before(a, b)
  BY <1>0 DEF BeforePairs
<1>2. ASSUME NEW a \in S PROVE ~Before(a, a)
  BY <1>0, NotBeforeItself
<1>3. ASSUME NEW a \in S, NEW b \in S, a # b PROVE Before(a, b) <=> ~Before(b, a)
  BY <1>0, <1>3, WritersOrdered
<1>4. ASSUME NEW a \in S, NEW b \in S, NEW c \in S, Before(a, b), Before(b, c) PROVE Before(a, c)
  <2>1. a # c
    BY <1>2, <1>3, <1>4
  <2> QED BY <1>0, <1>4, <2>1, OrderChain
<1> QED
  BY <1>1, <1>2, <1>3, <1>4 DEF InARow

\* A load that sees a store sees a last one.
LEMMA LastIsVisible ==
  ASSUME Consistent, OrderFound, NEW l \in Reader, NEW d, NEW ad, Visible(l, d, ad) # {}
  PROVE  \E s : ReadsLatest(l, s, d, ad)
<1> DEFINE V == Visible(l, d, ad)
<1>1. V \in SUBSET Writer /\ V \in SUBSET Action /\ \A a \in V : Executed(a, d)
  BY Operations DEF Visible
<1>2. IsFiniteSet(V)
  BY <1>1, ReadsFromAssumption, FS_Subset
<1>3. InARow(V, BeforePairs)
  BY <1>1, ExecutedInARow
<1>4. PICK s \in V : \A a \in V \ {s} : <<a, s>> \in BeforePairs
  BY <1>2, <1>3, LastOfRow
<1>5. \A a \in V \ {s} : Before(a, s)
  BY <1>4 DEF BeforePairs
<1> QED
  BY <1>4, <1>5 DEF ReadsLatest

\* A store that is left out of the codes because its thread always stores again is not the last.
LEMMA SupersededByOwn ==
  ASSUME Consistent, OrderFound, NEW l \in Reader, NEW c \in Writer, NEW d, NEW ad \in Locations,
         Executed(l, d), Cardinality(Addresses[l]) = 1, NEW latest \in LatestOwn(l),
         <<c, latest>> \in AfterPairs
  PROVE  latest \in Visible(l, d, ad) /\ Before(c, latest)
<1>1. /\ latest \in Writer /\ latest \in Action /\ c \in Action /\ l \in Action
      /\ <<latest, l>> \in AfterPairs /\ isAlwaysExecuted(latest) /\ Addresses[latest] = Addresses[l]
  BY Operations DEF LatestOwn
<1>2. ad[latest] = ad[l]
  <2>1. PICK x : Addresses[l] = {x}
    BY AddressFacts, FS_Singleton
  <2> QED BY <1>1, <2>1, AddressFacts
<1>3. Executed(latest, d)
  BY <1>1, AlwaysExecuted
<1>4. Sees(l, latest)
  BY <1>1 DEF Sees, AfterPairs
<1>5. Before(c, latest)
  <2>1. c.tid = latest.tid
    BY DEF AfterPairs
  <2> QED BY <1>1, <2>1, OwnWriters
<1> QED
  BY <1>1, <1>2, <1>3, <1>4, <1>5, VisibleSeen

\* A store that may be read, or that is not superseded, is among those of the load's codes.
LEMMA SeenIsFound ==
  ASSUME Consistent, OrderFound, NEW l \in Reader, NEW d, NEW ad \in Locations, Executed(l, d),
         NEW c \in Visible(l, d, ad),
         ~(\E latest \in LatestOwn(l) : Cardinality(Addresses[l]) = 1 /\ <<c, latest>> \in AfterPairs)
  PROVE  c \in getMayReadFromSet(l)
<1>1. c \in Writer /\ ad[c] = ad[l] /\ Sees(l, c)
  <2>1. c \in Writer
    BY DEF Visible
  <2> QED BY <2>1, VisibleSeen
<1>2. ad[c] \in Addresses[c] /\ ad[l] \in Addresses[l]
  BY <1>1, AddressFacts
<1> QED
  BY <1>1, <1>2 DEF getMayReadFromSet, Sees

LEMMA LastIsFound ==
  ASSUME Consistent, OrderFound, NEW l \in Reader, NEW d, NEW ad \in Locations, Executed(l, d),
         NEW s, ReadsLatest(l, s, d, ad)
  PROVE  s \in getMayReadFromSet(l)
<1>1. s \in Visible(l, d, ad) /\ s \in Writer /\ Executed(s, d)
  BY DEF ReadsLatest, Visible
<1>2. ASSUME NEW latest \in LatestOwn(l), Cardinality(Addresses[l]) = 1, <<s, latest>> \in AfterPairs
      PROVE  FALSE
  <2>1. latest \in Visible(l, d, ad) /\ Before(s, latest)
    BY <1>1, <1>2, SupersededByOwn
  <2>2. latest \in Writer /\ Executed(latest, d)
    BY <2>1 DEF Visible
  <2>3. latest # s
    BY <1>1, <2>1, NotBeforeItself, Operations
  <2>4. Before(latest, s)
    BY <2>1, <2>3 DEF ReadsLatest
  <2> QED BY <1>1, <2>1, <2>2, <2>3, <2>4, WritersOrdered DEF OrderFound
<1> QED
  BY <1>1, <1>2, SeenIsFound

--------------------------------------------------------------------------------
(***************************************************************************)
(* The bits of a code.                                                     *)
(***************************************************************************)
LEMMA Powers ==
  ASSUME NEW n \in 0 .. 32
  PROVE  2^n \in Nat
<1>1. 2^0 \in Nat
  OBVIOUS
<1>2. 2^1 \in Nat
  OBVIOUS
<1>3. 2^2 \in Nat
  OBVIOUS
<1>4. 2^3 \in Nat
  OBVIOUS
<1>5. 2^4 \in Nat
  OBVIOUS
<1>6. 2^5 \in Nat
  OBVIOUS
<1>7. 2^6 \in Nat
  OBVIOUS
<1>8. 2^7 \in Nat
  OBVIOUS
<1>9. 2^8 \in Nat
  OBVIOUS
<1>10. 2^9 \in Nat
  OBVIOUS
<1>11. 2^10 \in Nat
  OBVIOUS
<1>12. 2^11 \in Nat
  OBVIOUS
<1>13. 2^12 \in Nat
  OBVIOUS
<1>14. 2^13 \in Nat
  OBVIOUS
<1>15. 2^14 \in Nat
  OBVIOUS
<1>16. 2^15 \in Nat
  OBVIOUS
<1>17. 2^16 \in Nat
  OBVIOUS
<1>18. 2^17 \in Nat
  OBVIOUS
<1>19. 2^18 \in Nat
  OBVIOUS
<1>20. 2^19 \in Nat
  OBVIOUS
<1>21. 2^20 \in Nat
  OBVIOUS
<1>22. 2^21 \in Nat
  OBVIOUS
<1>23. 2^22 \in Nat
  OBVIOUS
<1>24. 2^23 \in Nat
  OBVIOUS
<1>25. 2^24 \in Nat
  OBVIOUS
<1>26. 2^25 \in Nat
  OBVIOUS
<1>27. 2^26 \in Nat
  OBVIOUS
<1>28. 2^27 \in Nat
  OBVIOUS
<1>29. 2^28 \in Nat
  OBVIOUS
<1>30. 2^29 \in Nat
  OBVIOUS
<1>31. 2^30 \in Nat
  OBVIOUS
<1>32. 2^31 \in Nat
  OBVIOUS
<1>33. 2^32 \in Nat
  OBVIOUS
<1>40. n \in {0, 1, 2, 3, 4, 5, 6, 7, 8, 9, 10, 11, 12, 13, 14, 15, 16, 17, 18, 19, 20, 21, 22, 23, 24, 25, 26, 27, 28, 29, 30, 31, 32}
  OBVIOUS
<1> QED
  BY <1>1, <1>2, <1>3, <1>4, <1>5, <1>6, <1>7, <1>8, <1>9, <1>10, <1>11, <1>12, <1>13, <1>14, <1>15, <1>16, <1>17, <1>18, <1>19, <1>20, <1>21, <1>22, <1>23, <1>24, <1>25, <1>26, <1>27, <1>28, <1>29, <1>30, <1>31, <1>32, <1>33, <1>40

\* A number has no more values than its bits.
LEMMA BitsSuffice ==
  ASSUME NEW x \in Nat, x < 2^30
  PROVE  2^NumBits(x) \in Nat /\ x < 2^NumBits(x)
<1> DEFINE S == {n \in 0 .. 32 : x < 2^n}
<1>1. 30 \in S
  OBVIOUS
<1>2. PICK n \in S : \A m \in S : n <= m
  <2>1. S \in SUBSET Nat
    OBVIOUS
  <2> HIDE DEF S
  <2> QED BY <1>1, <2>1, LeastNatural
<1>3. ASSUME NEW m \in 0 .. n - 1 PROVE 2^m <= x
  <2>1. m \in 0 .. 32 /\ m \notin S
    BY <1>2
  <2>2. 2^m \in Nat
    BY <2>1, Powers
  <2> QED BY <2>1, <2>2
<1>4. n \in 0 .. 32 /\ x < 2^n
  BY <1>2
<1> DEFINE P(k) == x < 2^k /\ \A m \in 0 .. k - 1 : 2^m <= x
<1>5. P(n)
  BY <1>3, <1>4
<1>6. NumBits(x) \in 0 .. 32 /\ P(NumBits(x))
  <2>1. NumBits(x) = CHOOSE k \in 0 .. 32 : P(k)
    BY DEF NumBits
  <2> HIDE DEF P
  <2> QED BY <1>4, <1>5, <2>1
<1> QED
  BY <1>6, Powers

--------------------------------------------------------------------------------
(***************************************************************************)
(* The clauses of the loads are those genConstraints makes of the table.   *)
(***************************************************************************)
RfInv ==
  /\ Consistent
  /\ recorded \in Recordings
  /\ reads = <<>> \/ reads = [load \in Reader |-> genConstraints(load)]

LEMMA ReadsInvariant == RfSpec => []RfInv
<1>1. RfInit => RfInv
  BY DEF RfInit, Init, RfInv, Consistent, TypeOK
<1>2. RfInv /\ [RfNext]_vars => RfInv'
  <2>1. ASSUME RfInv, generate PROVE RfInv'
    <3>1. Consistent' /\ recorded' \in Recordings
      BY <2>1 DEF RfInv, generate, Consistent, TypeOK
    <3>2. recorded' = recorded /\ reads' = [load \in Reader |-> genConstraints(load)]
      BY <2>1 DEF generate
    <3>3. [load \in Reader |-> genConstraints(load)]' = [load \in Reader |-> genConstraints(load)]
      BY <3>2 DEF genConstraints
    <3> QED BY <3>1, <3>2, <3>3 DEF RfInv
  <2>2. ASSUME RfInv, decide PROVE RfInv'
    <3>1. Consistent'
      BY <2>2, DecideConsistent DEF RfInv, decide
    <3>2. recorded' = recorded /\ reads' = reads
      BY <2>2 DEF decide
    <3>3. [load \in Reader |-> genConstraints(load)]' = [load \in Reader |-> genConstraints(load)]
      BY <3>2 DEF genConstraints
    <3> QED BY <2>2, <3>1, <3>2, <3>3 DEF RfInv
  <2>3. ASSUME RfInv, UNCHANGED vars PROVE RfInv'
    <3>1. decided' = decided /\ recorded' = recorded /\ reads' = reads
      BY <2>3 DEF vars
    <3>2. [load \in Reader |-> genConstraints(load)]' = [load \in Reader |-> genConstraints(load)]
      BY <3>1 DEF genConstraints
    <3> QED BY <2>3, <3>1, <3>2 DEF RfInv, Consistent, TypeOK
  <2> QED
    BY <2>1, <2>2, <2>3 DEF RfNext
<1> QED
  BY <1>1, <1>2, PTL DEF RfSpec

\* The clauses of a load, once they are generated.
LEMMA ReadsFacts ==
  ASSUME RfInv, OrderFound, NEW l \in Reader
  PROVE  LET stores == reads[l].stores IN
         /\ stores \in Seq(Writer) /\ ToSet(stores) = getMayReadFromSet(l)
         /\ Len(stores) \in Nat /\ 0 .. Len(stores) \subseteq RfCodes(l) /\ RfCodes(l) \subseteq Nat
         /\ \A i \in DOMAIN stores :
              reads[l].conflicts[i] =
                {c \in computeConflictSet(stores[i], l, stores) : ~IsFalse(stores[i], c)}
<1> DEFINE stores == genConstraints(l).stores
<1>1. reads[l] = genConstraints(l)
  BY DEF RfInv, OrderFound
<1>2. /\ stores \in Seq(Writer) /\ ToSet(stores) = getMayReadFromSet(l)
      /\ Len(stores) \in Nat /\ Len(stores) <= Cardinality(Action)
  BY StoresFound DEF RfInv
<1>3. \A i \in DOMAIN stores :
        genConstraints(l).conflicts[i] =
          {c \in computeConflictSet(stores[i], l, stores) : ~IsFalse(stores[i], c)}
  <2> DEFINE Fills(f) == f = [n \in 0 .. Len(recorded) |->
                               IF n = 0 THEN <<>>
                               ELSE IF recorded[n] \in getMayReadFromSet(l)
                                    THEN Append(f[n - 1], recorded[n]) ELSE f[n - 1]]
             found == CHOOSE f : Fills(f)
             last  == found[Len(recorded)]
             C(st) == [i \in DOMAIN st |-> {c \in computeConflictSet(st[i], l, st) : ~IsFalse(st[i], c)}]
  <2>1. genConstraints(l) = [stores |-> last, conflicts |-> C(last)]
    BY DEF genConstraints
  <2> HIDE DEF last, C
  <2>2. stores = last /\ genConstraints(l).conflicts = C(last)
    BY <2>1
  <2>3. \A i \in DOMAIN last : C(last)[i] = {c \in computeConflictSet(last[i], l, last) : ~IsFalse(last[i], c)}
    BY DEF C
  <2> QED BY <2>2, <2>3
<1>4. 0 .. Len(stores) \subseteq RfCodes(l) /\ RfCodes(l) \subseteq Nat
  <2>1. Cardinality(Action) \in Nat /\ Cardinality(Action) < 2^30 /\ 2^30 \in Nat
    BY ReadsFromAssumption, FS_CardinalityType
  <2> HIDE DEF stores
  <2>2. Len(stores) < 2^30
    BY <1>2, <2>1
  <2>3. 2^NumBits(Len(stores)) \in Nat /\ Len(stores) < 2^NumBits(Len(stores))
    BY <1>2, <2>2, BitsSuffice
  <2>4. RfCodes(l) = 0 .. 2^NumBits(Len(stores)) - 1
    BY <1>1 DEF RfCodes, RfBits, stores
  <2> QED BY <1>2, <2>3, <2>4
<1> HIDE DEF stores
<1> QED
  BY <1>1, <1>2, <1>3, <1>4 DEF stores

\* The clauses allow a load the code of the last store it sees (loadrf.cc, getMayReadFromSet,
\* computeConflictSet): what is left out of the codes and of the clauses hides no execution.
THEOREM LatestIsAllowed == RfSpec => []LatestCanBeRead
<1>1. RfInv => LatestCanBeRead
  <2> SUFFICES ASSUME RfInv, OrderFound, NEW d \in Directions, NEW ad \in Locations, NEW l \in Reader
               PROVE  \/ Executed(l, d) /\ Visible(l, d, ad) = {}
                      \/ \E i \in RfCodes(l) :
                           /\ Allowed(l, i, d, ad)
                           /\ Executed(l, d) => ReadsLatest(l, reads[l].stores[i + 1], d, ad)
    BY DEF LatestCanBeRead
  <2> DEFINE stores == reads[l].stores
  <2>0. Consistent /\ Complete
    BY DEF RfInv, OrderFound
  <2>1. /\ stores \in Seq(Writer) /\ ToSet(stores) = getMayReadFromSet(l)
        /\ Len(stores) \in Nat /\ 0 .. Len(stores) \subseteq RfCodes(l) /\ RfCodes(l) \subseteq Nat
        /\ \A i \in DOMAIN stores :
             reads[l].conflicts[i] =
               {c \in computeConflictSet(stores[i], l, stores) : ~IsFalse(stores[i], c)}
    BY ReadsFacts
  <2> HIDE DEF stores
  <2>2. CASE ~Executed(l, d)
    <3>1. Len(stores) \in RfCodes(l)
      BY <2>1
    <3>2. Allowed(l, Len(stores), d, ad)
      BY <2>1, <2>2 DEF Allowed, stores
    <3> QED BY <2>2, <3>1, <3>2
  <2>3. CASE Executed(l, d) /\ Visible(l, d, ad) # {}
    <3>1. PICK s : ReadsLatest(l, s, d, ad)
      BY <2>0, <2>3, LastIsVisible
    <3>2. s \in Visible(l, d, ad) /\ s \in Writer /\ Executed(s, d) /\ ad[s] = ad[l] /\ Sees(l, s)
      <4>1. s \in Visible(l, d, ad) /\ s \in Writer
        BY <3>1 DEF ReadsLatest, Visible
      <4> QED BY <2>0, <2>3, <4>1, VisibleSeen
    <3>3. s \in ToSet(stores)
      BY <2>0, <2>1, <2>3, <3>1, LastIsFound
    <3>4. PICK k \in 1 .. Len(stores) : stores[k] = s
      BY <2>1, <3>3 DEF ToSet
    <3>5. k - 1 \in 0 .. Len(stores) /\ k - 1 < Len(stores) /\ (k - 1) + 1 = k /\ k \in DOMAIN stores
      BY <2>1, <3>4
    <3>6. ASSUME NEW c \in reads[l].conflicts[k], Before(s, c), Sees(l, c), Executed(c, d), ad[c] = ad[l]
          PROVE  FALSE
      <4>1. c \in Writer
        <5>1. c \in computeConflictSet(s, l, stores)
          BY <2>1, <3>4, <3>5, <3>6
        <5>2. c \in ToSet(stores)
          BY <2>1, <5>1, ConflictsAmong
        <5> QED BY <2>1, <5>2 DEF getMayReadFromSet
      <4>2. c \in Visible(l, d, ad)
        BY <2>0, <2>3, <3>6, <4>1, VisibleSeen
      <4>3. c # s
        BY <2>0, <3>2, <3>6, NotBeforeItself, Operations
      <4>4. Before(c, s)
        BY <3>1, <4>2, <4>3 DEF ReadsLatest
      <4> QED BY <2>0, <3>2, <3>6, <4>1, <4>3, <4>4, WritersOrdered
    <3>7. Allowed(l, k - 1, d, ad)
      BY <3>2, <3>4, <3>5, <3>6 DEF Allowed, stores
    <3>8. k - 1 \in RfCodes(l)
      BY <2>1, <3>5
    <3>9. ReadsLatest(l, reads[l].stores[(k - 1) + 1], d, ad)
      BY <3>1, <3>4, <3>5 DEF stores
    <3> QED BY <3>7, <3>8, <3>9
  <2> QED BY <2>2, <2>3
<1> QED
  BY <1>1, ReadsInvariant, PTL

--------------------------------------------------------------------------------
(***************************************************************************)
(* No clause that is left out is missed.                                   *)
(***************************************************************************)
\* A later store that is left out of the load's codes has one of the codes after it.
LEMMA LaterIsFound ==
  ASSUME RfInv, OrderFound, NEW l \in Reader, NEW d, NEW ad \in Locations, Executed(l, d),
         NEW s \in Writer, Executed(s, d), NEW c \in Visible(l, d, ad), Before(s, c)
  PROVE  \E m \in Visible(l, d, ad) : m \in getMayReadFromSet(l) /\ Before(s, m)
<1>0. Consistent /\ Complete /\ c \in Writer /\ c \in Action /\ Executed(c, d)
  BY Operations DEF RfInv, OrderFound, Visible
<1>1. SUFFICES ASSUME c \notin getMayReadFromSet(l)
               PROVE  \E m \in Visible(l, d, ad) : m \in getMayReadFromSet(l) /\ Before(s, m)
  OBVIOUS
<1> DEFINE L == {x \in LatestOwn(l) : <<c, x>> \in AfterPairs}
<1>2. L # {} /\ Cardinality(Addresses[l]) = 1
  BY <1>0, <1>1, SeenIsFound
<1>3. ASSUME NEW x \in L
      PROVE  x \in Visible(l, d, ad) /\ Before(c, x) /\ x \in Writer /\ x \in Action /\ Executed(x, d)
  <2>1. x \in Visible(l, d, ad) /\ Before(c, x)
    BY <1>0, <1>2, SupersededByOwn
  <2> QED BY <2>1, Operations DEF Visible
<1>4. PICK m \in L : \A a \in L \ {m} : <<a, m>> \in BeforePairs
  <2>1. L \in SUBSET Writer /\ L \in SUBSET Action /\ \A a \in L : Executed(a, d)
    BY <1>3
  <2> HIDE DEF L
  <2>2. IsFiniteSet(L)
    BY <2>1, ReadsFromAssumption, FS_Subset
  <2>3. InARow(L, BeforePairs)
    BY <1>0, <2>1, ExecutedInARow
  <2> QED BY <1>2, <2>2, <2>3, LastOfRow
<1>5. ASSUME NEW x \in LatestOwn(l), <<m, x>> \in AfterPairs PROVE FALSE
  <2>1. x \in Writer /\ x \in Action
    BY Operations DEF LatestOwn
  <2>2. <<c, x>> \in AfterPairs /\ m # x
    BY <1>0, <1>3, <1>4, <1>5, <2>1, AfterPairsChain
  <2>3. x \in L /\ Before(x, m)
    BY <1>4, <2>2 DEF BeforePairs
  <2>4. Before(m, x)
    <3>1. m.tid = x.tid
      BY <1>5 DEF AfterPairs
    <3> QED BY <1>0, <1>3, <1>4, <1>5, <2>1, <3>1, OwnWriters
  <2> QED BY <1>0, <1>3, <1>4, <2>2, <2>3, <2>4, WritersOrdered
<1> HIDE DEF L
<1>6. m \in getMayReadFromSet(l)
  BY <1>0, <1>3, <1>4, <1>5, SeenIsFound
<1>7. Before(s, m)
  <2>1. c # s
    BY <1>0, NotBeforeItself
  <2>2. s # m
    BY <1>0, <1>3, <1>4, <2>1, WritersOrdered
  <2> QED BY <1>0, <1>3, <1>4, <2>2, OrderChain
<1> QED
  BY <1>3, <1>4, <1>6, <1>7

\* What makes a later store redundant is a later store itself.
LEMMA RedundantReplaced ==
  ASSUME RfInv, OrderFound, NEW l \in Reader, NEW d, NEW ad \in Locations, Executed(l, d),
         NEW s \in Writer, Executed(s, d), NEW c \in Visible(l, d, ad), Before(s, c),
         NEW e \in Writer, Addresses[e] = {ad[l]}, Subsumes(e, c), AlwaysBetween(s, l, c, e)
  PROVE  e \in Visible(l, d, ad) /\ Before(s, e) /\ e # c
<1>0. /\ Consistent /\ Complete /\ c \in Writer /\ Executed(c, d) /\ Sees(l, c)
      /\ c \in Action /\ e \in Action /\ s \in Action /\ l \in Action
  <2>1. Consistent /\ Complete /\ c \in Writer
    BY DEF RfInv, OrderFound, Visible
  <2> QED BY <2>1, VisibleSeen, Operations
<1>1. Executed(e, d) /\ ad[e] = ad[l]
  BY <1>0, AddressFacts DEF Subsumes, Executed
<1>2. CASE IsTrue(s, c) /\ IsTrue(s, e) /\ IsTrue(e, c)
  <2>1. Before(s, e) /\ Before(e, c) /\ <<e, c>> \in TruePairs
    BY <1>2 DEF IsTrue, Before
  <2>2. Sees(l, e)
    BY <1>0, <1>1, <2>1, SeesEarlier
  <2>3. e # c
    BY <1>0, <2>1, NotBeforeItself
  <2> QED BY <1>0, <1>1, <2>1, <2>2, <2>3, VisibleSeen
<1>3. CASE IsTrue(c, l) /\ IsTrue(c, e) /\ IsTrue(e, l)
  <2>1. Before(c, e) /\ Before(e, l)
    BY <1>3 DEF IsTrue, Before
  <2>2. e # c /\ s # c
    BY <1>0, <2>1, NotBeforeItself
  <2>3. s # e
    BY <1>0, <2>1, <2>2, WritersOrdered
  <2>4. Before(s, e)
    BY <1>0, <1>1, <2>1, <2>3, OrderChain
  <2>5. Sees(l, e)
    BY <1>0, <1>1, <2>1, OwnStoreBefore DEF Sees
  <2> QED BY <1>0, <1>1, <2>2, <2>4, <2>5, VisibleSeen
<1> QED
  BY <1>2, <1>3 DEF AlwaysBetween

\* An executed load has the code of the last store it can see (genConstraints and
\* computeConflictSet): the clauses that are left out are implied by those that are not.
THEOREM LatestIsRead == RfSpec => []LoadsReadLatest
<1>1. RfInv => LoadsReadLatest
  <2> SUFFICES ASSUME RfInv, OrderFound, NEW d \in Directions, NEW ad \in Locations, NEW l \in Reader,
                      NEW i \in RfCodes(l), Allowed(l, i, d, ad), Executed(l, d)
               PROVE  i < Len(reads[l].stores) /\ ReadsLatest(l, reads[l].stores[i + 1], d, ad)
    BY DEF LoadsReadLatest
  <2> DEFINE stores == reads[l].stores
             s == stores[i + 1]
  <2>0. Consistent /\ Complete
    BY DEF RfInv, OrderFound
  <2>1. /\ stores \in Seq(Writer) /\ ToSet(stores) = getMayReadFromSet(l)
        /\ Len(stores) \in Nat /\ i \in Nat
        /\ \A k \in DOMAIN stores :
             reads[l].conflicts[k] =
               {c \in computeConflictSet(stores[k], l, stores) : ~IsFalse(stores[k], c)}
    BY ReadsFacts
  <2>2. /\ i < Len(stores) /\ Sees(l, s) /\ Executed(s, d) /\ ad[s] = ad[l]
        /\ \A c \in reads[l].conflicts[i + 1] :
             (Before(s, c) /\ Sees(l, c) /\ Executed(c, d)) => ad[c] # ad[l]
    BY DEF Allowed
  <2> HIDE DEF stores
  <2>3. i + 1 \in DOMAIN stores /\ s \in Writer /\ s \in getMayReadFromSet(l)
    BY <2>1, <2>2 DEF ToSet
  <2> HIDE DEF s
  <2>4. s \in Visible(l, d, ad)
    BY <2>0, <2>2, <2>3, VisibleSeen
  <2>5. ASSUME NEW c \in Visible(l, d, ad), c # s, ~Before(c, s) PROVE FALSE
    <3> DEFINE B == {x \in Visible(l, d, ad) : Before(s, x)}
               common == Addresses[s] \cap Addresses[l]
    <3>1. Before(s, c)
      <4>1. c \in Writer /\ Executed(c, d)
        BY DEF Visible
      <4> QED BY <2>0, <2>2, <2>3, <2>5, <4>1, WritersOrdered
    <3>2. B \cap ToSet(stores) # {}
      BY <2>1, <2>2, <2>3, <3>1, LaterIsFound
    <3>3. computeConflictSet(s, l, stores) \cap B # {}
      <4>1. CASE Cardinality(common) # 1
        <5>1. computeConflictSet(s, l, stores) = ToSet(stores)
          BY <4>1 DEF computeConflictSet
        <5> QED BY <3>2, <5>1
      <4>2. CASE Cardinality(common) = 1
        <5>1. common = {ad[l]}
          <6>1. IsFiniteSet(common)
            <7>1. IsFiniteSet(Addresses[l]) /\ common \in SUBSET Addresses[l]
              BY AddressFacts
            <7> QED BY <7>1, FS_Subset
          <6>2. \E x : common = {x}
            BY <4>2, <6>1, FS_Singleton
          <6>3. ad[l] \in common
            BY <2>2, <2>3, AddressFacts
          <6> QED BY <6>2, <6>3
        <5>2. (CHOOSE a \in common : TRUE) = ad[l]
          BY <5>1
        <5>3. ASSUME NEW S \in SUBSET Writer, NEW x \in B \cap S,
                     Redundant(s, l, CHOOSE a \in common : TRUE, x, S)
              PROVE  \E e \in B \cap S : e # x
          <6>1. PICK e \in S : Addresses[e] = {ad[l]} /\ Subsumes(e, x) /\ AlwaysBetween(s, l, x, e)
            BY <5>2, <5>3 DEF Redundant
          <6>2. e \in Visible(l, d, ad) /\ Before(s, e) /\ e # x
            BY <2>2, <2>3, <5>3, <6>1, RedundantReplaced
          <6> QED BY <6>1, <6>2
        <5> HIDE DEF B
        <5> QED BY <2>1, <2>3, <3>2, <5>3, ConflictsKept
      <4> QED BY <4>1, <4>2
    <3>4. PICK x \in computeConflictSet(s, l, stores) : x \in Visible(l, d, ad) /\ Before(s, x)
      BY <3>3
    <3>5. ~IsFalse(s, x)
      BY <2>0, <3>4 DEF Before, IsFalse, Consistent, TypeOK
    <3>6. x \in reads[l].conflicts[i + 1]
      BY <2>1, <2>3, <3>4, <3>5 DEF s
    <3>7. Sees(l, x) /\ Executed(x, d) /\ ad[x] = ad[l]
      <4>1. x \in Writer
        BY <3>4 DEF Visible
      <4> QED BY <2>0, <3>4, <4>1, VisibleSeen
    <3> QED BY <2>2, <3>4, <3>6, <3>7
  <2>6. ReadsLatest(l, s, d, ad)
    BY <2>4, <2>5 DEF ReadsLatest
  <2> QED BY <2>2, <2>6 DEF s, stores
<1> QED
  BY <1>1, ReadsInvariant, PTL

--------------------------------------------------------------------------------
(***************************************************************************)
(* The fences: one clause for all stores before a fence and all loads      *)
(* after it.                                                               *)
(***************************************************************************)
\* The vector of a thread is in the order of the counters.
LEMMA LexListed ==
  ASSUME NEW a \in Action, NEW b \in Action, a.tid = b.tid, LexLess(a.point, b.point)
  PROVE  <<a, b>> \in ListedPairs
<1>1. CASE Agree(a.point, b.point) /\ Len(a.point) < Len(b.point)
  <2>1. Compare(a.point, b.point) = "AFTER"
    BY <1>1, ActionPoint, CompareAgreeing
  <2> QED BY <2>1 DEF ListedPairs, Listed
<1> QED
  BY <1>1 DEF LexLess, ListedPairs, Listed

\* The operations of a thread are in a row in its vector.
LEMMA VectorInARow ==
  ASSUME NEW S \in SUBSET Action, \A a, b \in S : a.tid = b.tid
  PROVE  InARow(S, ListedPairs)
<1>1. ASSUME NEW a \in S PROVE <<a, a>> \notin ListedPairs
  BY ListedLex, ActionPoint, LexIrreflexive
<1>2. ASSUME NEW a \in S, NEW b \in S, NEW c \in S, <<a, b>> \in ListedPairs, <<b, c>> \in ListedPairs
      PROVE  <<a, c>> \in ListedPairs
  <2>1. /\ a.point \in Point /\ b.point \in Point /\ c.point \in Point /\ a.tid = c.tid
        /\ LexLess(a.point, b.point) /\ LexLess(b.point, c.point)
    BY <1>2, ListedLex, ActionPoint
  <2> QED BY <2>1, LexTransitive, LexListed
<1>3. ASSUME NEW a \in S, NEW b \in S, a # b
      PROVE  <<a, b>> \in ListedPairs \/ <<b, a>> \in ListedPairs
  <2> DEFINE p == a.point
             q == b.point
  <2>1. p \in BlockPoint /\ q \in BlockPoint /\ p \in Point /\ q \in Point /\ p # q /\ a.tid = b.tid
    BY <1>3, Operations DEF BlockPoint, Action
  <2>2. SUFFICES LexLess(p, q) \/ LexLess(q, p)
    BY <2>1, LexListed
  <2> HIDE DEF p, q
  <2>3. ASSUME NEW i \in DOMAIN p, FirstDifference(p, q, i) PROVE LexLess(p, q) \/ LexLess(q, p)
    <3>1. i \in DOMAIN q /\ FirstDifference(q, p, i)
      BY <2>3 DEF FirstDifference
    <3>2. p[i].val \in Nat /\ q[i].val \in Nat /\ p[i].val # q[i].val
      BY <2>1, <2>3, <3>1, PointFacts DEF FirstDifference
    <3>3. p[i].val < q[i].val \/ q[i].val < p[i].val
      BY <3>2
    <3> QED BY <2>3, <3>1, <3>3 DEF LexLess
  <2>4. CASE Agree(p, q)
    <3>1. Agree(q, p)
      BY <2>4 DEF Agree
    <3>2. Len(p) # Len(q)
      <4>1. CASE Len(p) = Len(q)
        <5>1. Compare(p, q) = "EQUALS"
          BY <2>1, <2>4, <4>1, CompareAgreeing, PointFacts
        <5> QED BY <2>1, <5>1, EqualsSame
      <4> QED BY <4>1
    <3>3. Len(p) \in Nat /\ Len(q) \in Nat
      BY <2>1, PointFacts
    <3>4. Len(p) < Len(q) \/ Len(q) < Len(p)
      BY <3>2, <3>3
    <3> QED BY <2>4, <3>1, <3>4 DEF LexLess
  <2> QED BY <2>1, <2>3, <2>4, DifferOrAgree
<1> QED
  BY <1>1, <1>2, <1>3 DEF InARow

\* Operations that cannot pass each other are in the order of their vector.
LEMMA ListedPrecedes ==
  ASSUME Consistent, NEW a \in Action, NEW b \in Action, Listed(a, b), Kind(a) = Kind(b)
  PROVE  Precedes(a, b)
<1>1. a.tid = b.tid /\ ~InTable(a, b) /\ <<a, b>> \in ListedPairs
  BY DEF Listed, InTable, MayPass, ListedPairs
<1>2. <<b, a>> \notin AfterPairs
  <2>1. ASSUME <<b, a>> \in AfterPairs PROVE FALSE
    <3>1. LexLess(a.point, b.point) /\ LexLess(b.point, a.point)
      BY <1>1, <2>1, AfterListed, ListedLex
    <3> QED BY <3>1, ActionPoint, LexTransitive, LexIrreflexive
  <2> QED BY <2>1
<1>3. Comparable(a, b) => Before(a, b)
  BY <1>1, <1>2, ProgramOrder DEF Comparable
<1> QED
  BY <1>1, <1>3 DEF Precedes

\* An executed fence keeps every load after it behind every store before it (processFence,
\* insertTSOAction): the one clause of a fence in a branch is enough.
THEOREM FencesOrder == RfSpec => []FencesDrain
<1>1. RfInv => FencesDrain
  <2> SUFFICES ASSUME RfInv, OrderFound, NEW d \in Directions, NEW f \in Fence,
                      processFence(f, d), Executed(f, d), NEW s \in Writer, NEW l \in Reader,
                      <<s, f>> \in AfterPairs, <<f, l>> \in AfterPairs
               PROVE  Before(s, l)
    BY DEF FencesDrain
  <2>0. Consistent /\ s \in Action /\ f \in Action /\ l \in Action /\ Kind(f) = "FENCE"
    BY Operations DEF RfInv, Fence
  <2>1. /\ <<s, l>> \in AfterPairs /\ s.tid = f.tid /\ f.tid = l.tid
        /\ Listed(s, f) /\ Listed(f, l) /\ <<s, l>> \in ListedPairs
    <3>1. <<s, l>> \in AfterPairs /\ s.tid = f.tid /\ f.tid = l.tid
      BY <2>0, AfterPairsChain DEF AfterPairs
    <3> QED BY <2>0, <3>1, AfterListed DEF ListedPairs
  <2>2. CASE ~InTable(s, l)
    BY <2>0, <2>1, <2>2, ProgramOrder
  <2>3. CASE InTable(s, l)
    <3>1. ~MayPass(s, l)
      <4>1. ASSUME MayPass(s, l) PROVE FALSE
        <5>1. Listed(l, s)
          BY <4>1 DEF MayPass
        <5>2. LexLess(l.point, s.point) /\ LexLess(s.point, l.point)
          BY <2>0, <2>1, <5>1, ListedLex DEF ListedPairs
        <5> QED BY <2>0, <5>2, ActionPoint, LexTransitive, LexIrreflexive
      <4> QED BY <4>1
    <3>2. MayPass(l, s)
      BY <2>1, <2>3, <3>1 DEF InTable
    <3>3. Kind(l) = "LOAD" /\ Kind(s) = "STORE" /\ ~isAlwaysExecuted(f)
      BY <2>0, <2>1, <3>2 DEF MayPass, Separates
    <3> DEFINE stores == {a \in Action : Kind(a) = "STORE" /\ Listed(a, f)}
               loads  == {a \in Action : Kind(a) = "LOAD" /\ Listed(f, a)}
               s1 == ListedLast(stores)
               l1 == ListedFirst(loads)
    <3>4. s \in stores /\ l \in loads
      BY <2>0, <2>1, <3>3
    <3>5. Before(s1, l1)
      BY <3>3, <3>4 DEF processFence
    <3>6. s1 \in stores /\ \A b \in stores \ {s1} : Listed(b, s1)
      <4>1. stores \in SUBSET Action /\ \A a, b \in stores : a.tid = b.tid
        BY DEF Listed
      <4> HIDE DEF stores
      <4>2. IsFiniteSet(stores) /\ InARow(stores, ListedPairs)
        BY <4>1, VectorInARow, ReadsFromAssumption, FS_Subset
      <4>3. \E m \in stores : \A b \in stores \ {m} : <<b, m>> \in ListedPairs
        BY <3>4, <4>2, LastOfRow
      <4>4. \E m \in stores : \A b \in stores \ {m} : Listed(b, m)
        BY <4>3 DEF ListedPairs
      <4> QED BY <4>4 DEF ListedLast
    <3>7. l1 \in loads /\ \A b \in loads \ {l1} : Listed(l1, b)
      <4>1. loads \in SUBSET Action /\ \A a, b \in loads : a.tid = b.tid
        BY DEF Listed
      <4> HIDE DEF loads
      <4>2. IsFiniteSet(loads) /\ InARow(loads, ListedPairs)
        BY <4>1, VectorInARow, ReadsFromAssumption, FS_Subset
      <4>3. \E m \in loads : \A b \in loads \ {m} : <<m, b>> \in ListedPairs
        BY <3>4, <4>2, FirstOfRow
      <4>4. \E m \in loads : \A b \in loads \ {m} : Listed(m, b)
        BY <4>3 DEF ListedPairs
      <4> QED BY <4>4 DEF ListedFirst
    <3> HIDE DEF s1, l1
    <3>8. s1 \in Writer /\ l1 \in Reader /\ s1 \in Action /\ l1 \in Action
          /\ Kind(s1) = "STORE" /\ Kind(l1) = "LOAD"
      BY <3>6, <3>7 DEF Writer, Reader
    <3>9. s = s1 \/ Precedes(s, s1)
      BY <2>0, <3>3, <3>4, <3>6, <3>8, ListedPrecedes
    <3>10. l = l1 \/ Precedes(l1, l)
      BY <2>0, <3>3, <3>4, <3>7, <3>8, ListedPrecedes
    <3>11. Precedes(s, l)
      <4>1. \A a, b, c \in Reader \cup Writer : Precedes(a, b) /\ Precedes(b, c) => Precedes(a, c)
        BY DEF OrderFound
      <4>2. Precedes(s1, l1)
        BY <3>5 DEF Precedes
      <4> HIDE DEF stores, loads
      <4>3. Precedes(s, l1)
        BY <3>8, <3>9, <4>1, <4>2
      <4> QED BY <3>8, <3>10, <4>1, <4>3
    <3> QED BY <2>1, <3>11 DEF Precedes, Comparable
  <2> QED BY <2>2, <2>3
<1> QED
  BY <1>1, ReadsInvariant, PTL
================================================================================
