--------------------------------- MODULE Lemmas ---------------------------------
(***************************************************************************)
(* What several proofs need: of the natural numbers least and greatest     *)
(* elements, induction and iteration, with sets in the place of            *)
(* predicates; and what the comparison of execution points guarantees, for *)
(* points of any length.                                                   *)
(***************************************************************************)
EXTENDS ExecPoint, SequenceTheorems, WellFoundedInduction, TLAPS

\* A set of natural numbers has a least element: what "the earliest copy" and
\* "the first slot" of the code are.
LEMMA LeastNatural ==
  ASSUME NEW S \in SUBSET Nat, S # {}
  PROVE  \E x \in S : \A y \in S : x <= y
<1>1. PICK x \in S : \A y \in S : ~ (<<y, x>> \in OpToRel(<, Nat))
  BY WFMin, NatLessThanWellFounded
<1>2. ASSUME NEW y \in S PROVE x <= y
  <2>1. x \in Nat /\ y \in Nat /\ ~ (y < x)
    BY <1>1 DEF OpToRel
  <2> QED BY <2>1
<1> QED
  BY <1>2

\* A set of natural numbers with a bound has a greatest element.
LEMMA GreatestNatural ==
  ASSUME NEW n \in Nat, NEW S \in SUBSET (0 .. n), S # {}
  PROVE  \E x \in S : \A y \in S : x >= y
<1> DEFINE D == {n - x : x \in S}
<1>1. D # {} /\ D \in SUBSET Nat
  <2>1. \A x \in S : n - x \in Nat
    OBVIOUS
  <2> QED BY <2>1
<1>2. PICK d \in D : \A e \in D : d <= e
  BY <1>1, LeastNatural
<1>3. PICK x \in S : d = n - x
  BY <1>2
<1>4. ASSUME NEW y \in S PROVE x >= y
  <2>1. n - y \in D /\ d <= n - y
    BY <1>2
  <2> QED BY <1>3, <2>1
<1> QED
  BY <1>4

\* Induction over the natural numbers.
LEMMA SetInduction ==
  ASSUME NEW S, 0 \in S, \A n \in Nat : n \in S => n + 1 \in S
  PROVE  Nat \subseteq S
<1> SUFFICES ASSUME Nat \ S # {} PROVE FALSE
  OBVIOUS
<1>1. PICK x \in Nat \ S : \A y \in Nat \ S : x <= y
  BY LeastNatural
<1>2. x # 0 /\ x - 1 \in Nat /\ x - 1 < x
  BY <1>1
<1>3. x - 1 \in S
  BY <1>1, <1>2
<1>4. (x - 1) + 1 \in S
  BY <1>2, <1>3
<1>5. (x - 1) + 1 = x
  BY <1>1
<1> QED
  BY <1>1, <1>4, <1>5

\* A step taken n times, which may depend on how many have been taken: the loops over the elements
\* of a vector.
Iterates(f, first, step, n, X) ==
  f \in [0 .. n -> X] /\ f[0] = first /\ \A i \in 1 .. n : f[i] = step[<<i, f[i - 1]>>]

LEMMA Iteration ==
  ASSUME NEW X, NEW first \in X, NEW n \in Nat, NEW step \in [(1 .. n) \X X -> X]
  PROVE  \E f : Iterates(f, first, step, n, X)
<1> DEFINE Good(m) == \E f \in [0 .. m -> X] : f[0] = first /\ \A i \in 1 .. m : f[i] = step[<<i, f[i - 1]>>]
           S == {m \in Nat : m <= n => Good(m)}
<1>1. 0 \in S
  <2> DEFINE f == [i \in 0 .. 0 |-> first]
  <2>1. f \in [0 .. 0 -> X] /\ f[0] = first /\ \A i \in 1 .. 0 : f[i] = step[<<i, f[i - 1]>>]
    OBVIOUS
  <2>2. Good(0)
    BY <2>1
  <2> QED BY <2>2
<1>2. ASSUME NEW m \in Nat, m \in S PROVE m + 1 \in S
  <2> SUFFICES ASSUME m + 1 <= n PROVE Good(m + 1)
    OBVIOUS
  <2>1. PICK f \in [0 .. m -> X] : f[0] = first /\ \A i \in 1 .. m : f[i] = step[<<i, f[i - 1]>>]
    BY <1>2
  <2> DEFINE last == step[<<m + 1, f[m]>>]
             g == [i \in 0 .. m + 1 |-> IF i <= m THEN f[i] ELSE last]
  <2>2. last \in X
    BY <2>1
  <2>3. g \in [0 .. m + 1 -> X] /\ g[0] = first
    <3> HIDE DEF last
    <3> QED BY <2>1, <2>2
  <2>4. ASSUME NEW i \in 1 .. m + 1 PROVE g[i] = step[<<i, g[i - 1]>>]
    <3>1. CASE i <= m
      BY <2>1, <3>1
    <3>2. CASE i = m + 1
      <4>1. i - 1 = m /\ g[m] = f[m] /\ g[m + 1] = last
        BY <3>2
      <4> HIDE DEF g
      <4> QED BY <3>2, <4>1
    <3> QED BY <3>1, <3>2
  <2>5. Good(m + 1)
    <3> HIDE DEF g
    <3> QED BY <2>3, <2>4
  <2> QED BY <2>5
<1>3. Nat \subseteq S
  <2> HIDE DEF S
  <2> QED BY <1>1, <1>2, SetInduction
<1> QED
  BY <1>3 DEF Iterates

\* What holds before the first step and is kept by each, holds after the last.
LEMMA LoopInduction ==
  ASSUME NEW n \in Nat, NEW S, 0 \in S, \A i \in 1 .. n : i - 1 \in S => i \in S
  PROVE  n \in S
<1> DEFINE T == {m \in Nat : m <= n => m \in S}
<1>1. 0 \in T
  OBVIOUS
<1>2. ASSUME NEW m \in Nat, m \in T PROVE m + 1 \in T
  <2> SUFFICES ASSUME m + 1 <= n PROVE m + 1 \in S
    OBVIOUS
  <2>1. m + 1 \in 1 .. n /\ m \in S /\ (m + 1) - 1 = m
    BY <1>2
  <2> QED BY <2>1
<1>3. Nat \subseteq T
  <2> HIDE DEF T
  <2> QED BY <1>1, <1>2, SetInduction
<1> QED
  BY <1>3

--------------------------------------------------------------------------------
(***************************************************************************)
(* Execution points.  The order of the statement counters alone, LexLess,  *)
(* is a strict order; "AFTER" and "BEFORE" agree with it.                  *)
(***************************************************************************)
\* The values of p and q are the same as far as both go.
Agree(p, q) == \A i \in DOMAIN p \cap DOMAIN q : p[i].val = q[i].val

LexLess(p, q) ==
  \/ \E i \in DOMAIN p : FirstDifference(p, q, i) /\ p[i].val < q[i].val
  \/ Agree(p, q) /\ Len(p) < Len(q)

\* A point is a non-empty sequence of pairs.
LEMMA PointFacts ==
  ASSUME NEW p \in Point
  PROVE  /\ Len(p) \in Nat \ {0}
         /\ DOMAIN p = 1 .. Len(p)
         /\ \A i \in DOMAIN p : p[i] \in Pair /\ p[i].val \in Nat /\ i \in Nat
<1>1. p \in Seq(Pair) /\ p # <<>>
  BY DEF Point
<1>2. Len(p) \in Nat /\ DOMAIN p = 1 .. Len(p) /\ \A i \in DOMAIN p : p[i] \in Pair
  BY <1>1
<1>3. Len(p) # 0
  BY <1>1, EmptySeq
<1> QED
  BY <1>2, <1>3 DEF Pair

\* compare's scan finds a first difference, or there is none.
LEMMA DifferOrAgree ==
  ASSUME NEW p \in Point, NEW q \in Point
  PROVE  Agree(p, q) \/ \E i \in DOMAIN p : FirstDifference(p, q, i)
<1>1. SUFFICES ASSUME ~Agree(p, q)
               PROVE  \E i \in DOMAIN p : FirstDifference(p, q, i)
  OBVIOUS
<1> DEFINE D == {i \in DOMAIN p \cap DOMAIN q : p[i].val # q[i].val}
<1>2. D # {} /\ D \subseteq Nat
  BY <1>1, PointFacts DEF Agree
<1>3. PICK i \in D : \A j \in D : ~ (<<j, i>> \in OpToRel(<, Nat))
  BY <1>2, WFMin, NatLessThanWellFounded
<1>4. \A j \in D : ~ (j < i)
  BY <1>2, <1>3 DEF OpToRel
<1>5. FirstDifference(p, q, i)
  <2>1. \A j \in 1 .. i - 1 : j \in DOMAIN p \cap DOMAIN q /\ j < i
    BY PointFacts
  <2> QED
    BY <1>4, <2>1 DEF FirstDifference
<1> QED
  BY <1>5

\* A point does not precede itself.
LEMMA LexIrreflexive ==
  ASSUME NEW p \in Point
  PROVE  ~LexLess(p, p)
BY PointFacts DEF LexLess, FirstDifference

\* The order of the statement counters is transitive.
LEMMA LexTransitive ==
  ASSUME NEW p \in Point, NEW q \in Point, NEW r \in Point,
         LexLess(p, q), LexLess(q, r)
  PROVE  LexLess(p, r)
<1> DEFINE Smaller(x, y, i) == FirstDifference(x, y, i) /\ x[i].val < y[i].val
<1>1. /\ DOMAIN p = 1 .. Len(p) /\ DOMAIN q = 1 .. Len(q) /\ DOMAIN r = 1 .. Len(r)
      /\ Len(p) \in Nat /\ Len(q) \in Nat /\ Len(r) \in Nat
  BY PointFacts
<1>2. /\ \A i \in DOMAIN p : p[i].val \in Nat
      /\ \A i \in DOMAIN q : q[i].val \in Nat
      /\ \A i \in DOMAIN r : r[i].val \in Nat
  BY PointFacts
<1>3. CASE \E i \in DOMAIN p : Smaller(p, q, i)
  <2>1. PICK i \in DOMAIN p : Smaller(p, q, i)
    BY <1>3
  <2>2. CASE \E j \in DOMAIN q : Smaller(q, r, j)
    <3>1. PICK j \in DOMAIN q : Smaller(q, r, j)
      BY <2>2
    <3>2. CASE i <= j
      <4>1. Smaller(p, r, i)
        BY SMTT(30), <1>1, <1>2, <2>1, <3>1, <3>2 DEF FirstDifference
      <4> QED BY <4>1 DEF LexLess
    <3>3. CASE j < i
      <4>1. Smaller(p, r, j) /\ j \in DOMAIN p
        BY SMTT(30), <1>1, <1>2, <2>1, <3>1, <3>3 DEF FirstDifference
      <4> QED BY <4>1 DEF LexLess
    <3> QED BY <1>1, <3>2, <3>3
  <2>3. CASE Agree(q, r) /\ Len(q) < Len(r)
    <3>1. Smaller(p, r, i)
      BY <1>1, <1>2, <2>1, <2>3 DEF FirstDifference, Agree
    <3> QED BY <3>1 DEF LexLess
  <2> QED BY <2>2, <2>3 DEF LexLess
<1>4. CASE Agree(p, q) /\ Len(p) < Len(q)
  <2>1. CASE \E j \in DOMAIN q : Smaller(q, r, j)
    <3>1. PICK j \in DOMAIN q : Smaller(q, r, j)
      BY <2>1
    <3>2. CASE j \in DOMAIN p
      <4>1. Smaller(p, r, j)
        BY <1>1, <1>2, <1>4, <3>1, <3>2 DEF FirstDifference, Agree
      <4> QED BY <3>2, <4>1 DEF LexLess
    <3>3. CASE j \notin DOMAIN p
      <4>1. Agree(p, r) /\ Len(p) < Len(r)
        BY <1>1, <1>2, <1>4, <3>1, <3>3 DEF FirstDifference, Agree
      <4> QED BY <4>1 DEF LexLess
    <3> QED BY <3>2, <3>3
  <2>2. CASE Agree(q, r) /\ Len(q) < Len(r)
    <3>1. Agree(p, r) /\ Len(p) < Len(r)
      BY <1>1, <1>4, <2>2 DEF Agree
    <3> QED BY <3>1 DEF LexLess
  <2> QED BY <2>1, <2>2 DEF LexLess
<1> QED BY <1>3, <1>4 DEF LexLess

\* "AFTER" implies a smaller point, "BEFORE" a larger one.
LEMMA CompareLex ==
  ASSUME NEW p \in Point, NEW q \in Point
  PROVE  /\ Compare(p, q) = "AFTER" => LexLess(p, q)
         /\ Compare(p, q) = "BEFORE" => LexLess(q, p)
<1> DEFINE Stop(i) == FirstDifference(p, q, i)
<1>1. CASE \E i \in DOMAIN p : Stop(i)
  <2>1. PICK i \in DOMAIN p : Stop(i)
    BY <1>1
  <2>2. \A j \in DOMAIN p : Stop(j) => j = i
    BY SMTT(30), <2>1, PointFacts DEF FirstDifference
  <2>3. p[i].val \in Nat /\ q[i].val \in Nat /\ i \in DOMAIN q
    BY <2>1, PointFacts DEF FirstDifference
  <2>4. /\ (\E j \in DOMAIN p : Stop(j) /\ p[j].type = "BRANCH") <=> p[i].type = "BRANCH"
        /\ (\E j \in DOMAIN p : Stop(j) /\ p[j].type # "BRANCH" /\ p[j].val < q[j].val)
             <=> p[i].type # "BRANCH" /\ p[i].val < q[i].val
        /\ (\E j \in DOMAIN p : Stop(j) /\ p[j].type # "BRANCH" /\ p[j].val > q[j].val)
             <=> p[i].type # "BRANCH" /\ p[i].val > q[i].val
    BY <2>1, <2>2
  <2>5. Compare(p, q) = IF p[i].type = "BRANCH" THEN "INCOMPARABLE"
                        ELSE IF p[i].val < q[i].val THEN "AFTER" ELSE "BEFORE"
    <3>1. p[i].val # q[i].val
      BY <2>1 DEF FirstDifference
    <3> HIDE DEF Stop
    <3>2. CASE p[i].type = "BRANCH"
      BY <2>4, <3>2 DEF Compare, Stop
    <3>3. CASE p[i].type # "BRANCH" /\ p[i].val < q[i].val
      BY <2>3, <2>4, <3>3 DEF Compare, Stop
    <3>4. CASE p[i].type # "BRANCH" /\ p[i].val > q[i].val
      BY <2>3, <2>4, <3>4 DEF Compare, Stop
    <3> QED BY <2>3, <3>1, <3>2, <3>3, <3>4
  <2>6. FirstDifference(q, p, i)
    BY <2>1, <2>3 DEF FirstDifference
  <2>7. Compare(p, q) = "AFTER" => LexLess(p, q)
    <3>1. Compare(p, q) = "AFTER" => p[i].val < q[i].val
      BY <2>5
    <3> QED BY <2>1, <3>1 DEF LexLess
  <2>8. Compare(p, q) = "BEFORE" => LexLess(q, p)
    <3>1. Compare(p, q) = "BEFORE" => q[i].val < p[i].val
      BY <2>1, <2>3, <2>5 DEF FirstDifference
    <3> QED BY <2>3, <2>6, <3>1 DEF LexLess
  <2> QED BY <2>7, <2>8
<1>2. CASE ~ \E i \in DOMAIN p : Stop(i)
  <2>1. Agree(p, q) /\ Agree(q, p)
    BY <1>2, DifferOrAgree DEF Agree
  <2>2. Len(p) \in Nat /\ Len(q) \in Nat
    BY PointFacts
  <2>3. Compare(p, q) = IF Len(p) < Len(q) THEN "AFTER"
                        ELSE IF Len(p) > Len(q) THEN "BEFORE" ELSE "EQUALS"
    BY <1>2, <2>2 DEF Compare
  <2> QED
    BY <2>1, <2>2, <2>3 DEF LexLess
<1> QED
  BY <1>1, <1>2

(***************************************************************************)
(* A thread never is both before and after a point: what compare says of   *)
(* two points in one order of its arguments it does not contradict in the  *)
(* other, and no point is after itself.                                    *)
(***************************************************************************)
THEOREM CompareAntisymmetric ==
  ASSUME NEW p \in Point, NEW q \in Point, Compare(p, q) = "AFTER"
  PROVE  p # q /\ Compare(q, p) # "AFTER" /\ Compare(p, q) # "BEFORE"
<1>1. LexLess(p, q)
  BY CompareLex
<1>2. ~LexLess(q, p)
  BY <1>1, LexIrreflexive, LexTransitive
<1> QED
  BY <1>1, <1>2, CompareLex, LexIrreflexive

--------------------------------------------------------------------------------
(***************************************************************************)
(* Points of programs without loops.  On the way of one thread the points  *)
(* are in compare's order, which is transitive for them: where two of them *)
(* part, both have a counter or both have a branch.                        *)
(***************************************************************************)
\* What compare's scan returns at the first difference, and without one.
LEMMA CompareAt ==
  ASSUME NEW p \in Point, NEW q \in Point, NEW i, FirstDifference(p, q, i)
  PROVE  Compare(p, q) = IF p[i].type = "BRANCH" THEN "INCOMPARABLE"
                         ELSE IF p[i].val < q[i].val THEN "AFTER" ELSE "BEFORE"
<1> DEFINE Stop(j) == FirstDifference(p, q, j)
<1>1. i \in DOMAIN p /\ i \in DOMAIN q /\ p[i].val \in Nat /\ q[i].val \in Nat /\ p[i].val # q[i].val
  BY PointFacts DEF FirstDifference
<1>2. \A j \in DOMAIN p : Stop(j) => j = i
  BY SMTT(30), <1>1, PointFacts DEF FirstDifference
<1>3. /\ (\E j \in DOMAIN p : Stop(j) /\ p[j].type = "BRANCH") <=> p[i].type = "BRANCH"
      /\ (\E j \in DOMAIN p : Stop(j) /\ p[j].type # "BRANCH" /\ p[j].val < q[j].val)
           <=> p[i].type # "BRANCH" /\ p[i].val < q[i].val
      /\ (\E j \in DOMAIN p : Stop(j) /\ p[j].type # "BRANCH" /\ p[j].val > q[j].val)
           <=> p[i].type # "BRANCH" /\ p[i].val > q[i].val
  BY <1>1, <1>2
<1> HIDE DEF Stop
<1>4. CASE p[i].type = "BRANCH"
  BY <1>3, <1>4 DEF Compare, Stop
<1>5. CASE p[i].type # "BRANCH" /\ p[i].val < q[i].val
  BY <1>1, <1>3, <1>5 DEF Compare, Stop
<1>6. CASE p[i].type # "BRANCH" /\ p[i].val > q[i].val
  BY <1>1, <1>3, <1>6 DEF Compare, Stop
<1> QED
  BY <1>1, <1>4, <1>5, <1>6

LEMMA CompareAgreeing ==
  ASSUME NEW p \in Point, NEW q \in Point, Agree(p, q)
  PROVE  Compare(p, q) = IF Len(p) < Len(q) THEN "AFTER"
                         ELSE IF Len(p) > Len(q) THEN "BEFORE" ELSE "EQUALS"
<1>1. \A i : ~FirstDifference(p, q, i)
  BY DEF FirstDifference, Agree
<1>2. Len(p) \in Nat /\ Len(q) \in Nat
  BY PointFacts
<1> QED
  BY <1>1, <1>2 DEF Compare

\* A point is at itself, and two points that are at each other are the same.
LEMMA CompareSelf ==
  ASSUME NEW p \in Point
  PROVE  Compare(p, p) = "EQUALS"
<1>1. Agree(p, p) /\ Len(p) \in Nat
  BY PointFacts DEF Agree
<1> QED
  BY <1>1, CompareAgreeing

LEMMA EqualsSame ==
  ASSUME NEW p \in BlockPoint, NEW q \in BlockPoint, Compare(p, q) = "EQUALS"
  PROVE  p = q
<1>1. p \in Point /\ q \in Point
  BY DEF BlockPoint
<1>2. ~ \E i \in DOMAIN p : FirstDifference(p, q, i)
  BY <1>1, CompareAt
<1>3. Agree(p, q)
  BY <1>1, <1>2, DifferOrAgree
<1>4. Len(p) = Len(q)
  BY <1>1, <1>3, CompareAgreeing, PointFacts
<1>5. DOMAIN p = DOMAIN q /\ p \in Seq(Pair) /\ q \in Seq(Pair)
  BY <1>1, <1>4, PointFacts DEF Point
<1>6. ASSUME NEW i \in DOMAIN p PROVE p[i] = q[i]
  <2>1. p[i] \in Pair /\ q[i] \in Pair
    BY <1>1, <1>5, PointFacts
  <2>2. p[i].type = q[i].type
    BY <1>5 DEF BlockPoint
  <2>3. p[i].val = q[i].val
    BY <1>3, <1>5 DEF Agree
  <2> QED BY <2>1, <2>2, <2>3 DEF Pair
<1> QED
  BY <1>4, <1>5, <1>6, SeqEqual

\* q is after p: a counter is smaller where they part, or p is the beginning of q.
Ahead(p, q) ==
  \/ \E i \in DOMAIN p : FirstDifference(p, q, i) /\ p[i].type # "BRANCH" /\ p[i].val < q[i].val
  \/ Agree(p, q) /\ Len(p) < Len(q)

LEMMA AfterIsAhead ==
  ASSUME NEW p \in Point, NEW q \in Point
  PROVE  Compare(p, q) = "AFTER" <=> Ahead(p, q)
<1>1. CASE \E i \in DOMAIN p : FirstDifference(p, q, i)
  <2>1. PICK i \in DOMAIN p : FirstDifference(p, q, i)
    BY <1>1
  <2>2. Compare(p, q) = "AFTER" <=> p[i].type # "BRANCH" /\ p[i].val < q[i].val
    BY <2>1, CompareAt
  <2>3. ~Agree(p, q)
    BY <2>1 DEF FirstDifference, Agree
  <2>4. \A j \in DOMAIN p : FirstDifference(p, q, j) => j = i
    BY SMTT(30), <2>1, PointFacts DEF FirstDifference
  <2> QED BY <2>1, <2>2, <2>3, <2>4 DEF Ahead
<1>2. CASE ~ \E i \in DOMAIN p : FirstDifference(p, q, i)
  <2>1. Agree(p, q)
    BY <1>2, DifferOrAgree
  <2>2. Compare(p, q) = "AFTER" <=> Len(p) < Len(q)
    BY <2>1, CompareAgreeing
  <2> QED BY <1>2, <2>1, <2>2 DEF Ahead
<1> QED
  BY <1>1, <1>2

\* Past the later of two points of one way is past the earlier one.
LEMMA AfterBefore ==
  ASSUME NEW p \in BlockPoint, NEW q \in BlockPoint, Compare(p, q) = "AFTER"
  PROVE  Compare(q, p) = "BEFORE"
<1>1. p \in Point /\ q \in Point /\ Ahead(p, q)
  BY AfterIsAhead DEF BlockPoint
<1>2. Len(p) \in Nat /\ Len(q) \in Nat /\ DOMAIN p = 1 .. Len(p) /\ DOMAIN q = 1 .. Len(q)
  BY <1>1, PointFacts
<1>3. CASE \E i \in DOMAIN p : FirstDifference(p, q, i) /\ p[i].type # "BRANCH" /\ p[i].val < q[i].val
  <2>1. PICK i \in DOMAIN p : FirstDifference(p, q, i) /\ p[i].type # "BRANCH" /\ p[i].val < q[i].val
    BY <1>3
  <2>2. i \in DOMAIN q /\ FirstDifference(q, p, i)
    BY <2>1 DEF FirstDifference
  <2>3. q[i].type = p[i].type
    BY <2>1, <2>2 DEF BlockPoint
  <2>4. p[i].val \in Nat /\ q[i].val \in Nat
    BY <1>1, <2>1, <2>2, PointFacts
  <2> QED BY <1>1, <2>1, <2>2, <2>3, <2>4, CompareAt
<1>4. CASE Agree(p, q) /\ Len(p) < Len(q)
  <2>1. Agree(q, p)
    BY <1>4 DEF Agree
  <2> QED BY <1>1, <1>2, <1>4, <2>1, CompareAgreeing
<1> QED
  BY <1>1, <1>3, <1>4 DEF Ahead

\* What is after a point that is after p, is after p.
LEMMA AfterAfter ==
  ASSUME NEW p \in BlockPoint, NEW q \in BlockPoint, NEW r \in BlockPoint,
         Compare(p, q) = "AFTER", Compare(q, r) = "AFTER"
  PROVE  Compare(p, r) = "AFTER"
<1> DEFINE Smaller(x, y, i) ==
             FirstDifference(x, y, i) /\ x[i].type # "BRANCH" /\ x[i].val < y[i].val
<1>1. /\ p \in Point /\ q \in Point /\ r \in Point
      /\ DOMAIN p = 1 .. Len(p) /\ DOMAIN q = 1 .. Len(q) /\ DOMAIN r = 1 .. Len(r)
      /\ Len(p) \in Nat /\ Len(q) \in Nat /\ Len(r) \in Nat
  BY PointFacts DEF BlockPoint
<1>2. /\ \A i \in DOMAIN p : p[i].val \in Nat
      /\ \A i \in DOMAIN q : q[i].val \in Nat
      /\ \A i \in DOMAIN r : r[i].val \in Nat
  BY <1>1, PointFacts
<1>3. \A i \in DOMAIN p \cap DOMAIN q : p[i].type = q[i].type
  BY DEF BlockPoint
<1>4. Ahead(p, q) /\ Ahead(q, r)
  BY <1>1, AfterIsAhead
<1>5. SUFFICES Ahead(p, r)
  BY <1>1, AfterIsAhead
<1>6. CASE \E i \in DOMAIN p : Smaller(p, q, i)
  <2>1. PICK i \in DOMAIN p : Smaller(p, q, i)
    BY <1>6
  <2>2. CASE \E j \in DOMAIN q : Smaller(q, r, j)
    <3>1. PICK j \in DOMAIN q : Smaller(q, r, j)
      BY <2>2
    <3>2. CASE i <= j
      <4>1. i \in DOMAIN q /\ i \in DOMAIN r /\ p[i].val # q[i].val
        BY <1>1, <2>1, <3>1, <3>2 DEF FirstDifference
      <4>2. q[i].val <= r[i].val
        BY <1>1, <1>2, <3>1, <3>2, <4>1 DEF FirstDifference
      <4>3. p[i].val # r[i].val /\ p[i].val < r[i].val
        BY <1>2, <2>1, <4>1, <4>2
      <4>4. \A k \in 1 .. i - 1 : p[k].val = r[k].val
        BY <1>1, <2>1, <3>1, <3>2 DEF FirstDifference
      <4>5. Smaller(p, r, i)
        BY <2>1, <4>1, <4>3, <4>4 DEF FirstDifference
      <4> QED BY <4>5 DEF Ahead
    <3>3. CASE j < i
      <4>1. j \in DOMAIN p /\ j \in DOMAIN q /\ j \in DOMAIN r /\ p[j].type = q[j].type
        BY <1>1, <1>3, <2>1, <3>1, <3>3 DEF FirstDifference
      <4>2. p[j].val = q[j].val
        BY <1>1, <2>1, <3>3, <4>1 DEF FirstDifference
      <4>3. p[j].val # r[j].val /\ p[j].val < r[j].val /\ p[j].type # "BRANCH"
        BY <3>1, <4>1, <4>2 DEF FirstDifference
      <4>4. \A k \in 1 .. j - 1 : p[k].val = r[k].val
        BY <1>1, <2>1, <3>1, <3>3 DEF FirstDifference
      <4>5. Smaller(p, r, j)
        BY <4>1, <4>3, <4>4 DEF FirstDifference
      <4> QED BY <4>1, <4>5 DEF Ahead
    <3> QED BY <1>1, <3>2, <3>3
  <2>3. CASE Agree(q, r) /\ Len(q) < Len(r)
    <3>1. Smaller(p, r, i)
      BY <1>1, <1>2, <2>1, <2>3 DEF FirstDifference, Agree
    <3> QED BY <3>1 DEF Ahead
  <2> QED BY <1>4, <2>2, <2>3 DEF Ahead
<1>7. CASE Agree(p, q) /\ Len(p) < Len(q)
  <2>1. CASE \E j \in DOMAIN q : Smaller(q, r, j)
    <3>1. PICK j \in DOMAIN q : Smaller(q, r, j)
      BY <2>1
    <3>2. CASE j \in DOMAIN p
      <4>1. Smaller(p, r, j)
        BY SMTT(30), <1>1, <1>2, <1>3, <1>7, <3>1, <3>2 DEF FirstDifference, Agree
      <4> QED BY <3>2, <4>1 DEF Ahead
    <3>3. CASE j \notin DOMAIN p
      <4>1. Agree(p, r) /\ Len(p) < Len(r)
        BY <1>1, <1>2, <1>7, <3>1, <3>3 DEF FirstDifference, Agree
      <4> QED BY <4>1 DEF Ahead
    <3> QED BY <3>2, <3>3
  <2>2. CASE Agree(q, r) /\ Len(q) < Len(r)
    <3>1. Agree(p, r) /\ Len(p) < Len(r)
      BY <1>1, <1>7, <2>2 DEF Agree
    <3> QED BY <3>1 DEF Ahead
  <2> QED BY <1>4, <2>1, <2>2 DEF Ahead
<1> QED
  BY <1>4, <1>6, <1>7 DEF Ahead
================================================================================
