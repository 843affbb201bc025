---------------------------- MODULE EventGraphProofs ----------------------------
(***************************************************************************)
(* A record is found again.  The hash value of an execution point is       *)
(* brought up to date with every move and never computed; that it depends  *)
(* on the pairs alone, however the thread has come to the point, is what   *)
(* the table of the records relies on.                                     *)
(*                                                                         *)
(* And the graph replays every execution.  What stands behind a place of   *)
(* the program is the same in all executions that come there, so a record  *)
(* is linked to one other; and an execution writes only into bodies its    *)
(* own directions lead to, so an earlier way through the graph stays.      *)
(* WInv says so for the ways of past executions and of the current one.    *)
(***************************************************************************)
EXTENDS EventGraph, Lemmas, FiniteSetTheorems

Word     == 0 .. HashWidth - 1
Position == [pairs : Seq(Pair), hashvalue : SUBSET Word]

\* What pushing the pairs one by one leaves in the hash value after each.
Hashes(tid, p, h) ==
  /\ h \in [0 .. Len(p) -> SUBSET Word]
  /\ h[0] = Bits(tid)
  /\ \A n \in 1 .. Len(p) : h[n] = SymDiff(rotate_left(h[n - 1]), Bits(p[n].val))

\* The hash value is the one of its pairs.
HashRight(tid, e) ==
  /\ e \in Position
  /\ \E h : Hashes(tid, e.pairs, h) /\ e.hashvalue = h[Len(e.pairs)]

--------------------------------------------------------------------------------
(***************************************************************************)
(* The moves of a point.                                                   *)
(***************************************************************************)
\* A rotation back undoes one forth, for every width of a word.
LEMMA RotatedBack ==
  ASSUME NEW h \in SUBSET Word
  PROVE  /\ rotate_left(h) \in SUBSET Word /\ rotate_right(h) \in SUBSET Word
         /\ rotate_right(rotate_left(h)) = h
<1>1. HashWidth \in Nat /\ HashWidth > 3
  BY HashAssumption
<1>2. ASSUME NEW b \in Word
      PROVE  /\ (b + 3) % HashWidth = IF b + 3 < HashWidth THEN b + 3 ELSE b + 3 - HashWidth
             /\ (b + HashWidth - 3) % HashWidth = IF b < 3 THEN b + HashWidth - 3 ELSE b - 3
  <2>1. b \in Nat /\ b < HashWidth
    BY <1>1 DEF Word
  <2>2. ASSUME NEW x \in Nat, x < 2 * HashWidth
        PROVE  x % HashWidth = IF x < HashWidth THEN x ELSE x - HashWidth
    BY <1>1, <2>2
  <2>3. /\ b + 3 \in Nat /\ b + 3 < 2 * HashWidth
        /\ b + HashWidth - 3 \in Nat /\ b + HashWidth - 3 < 2 * HashWidth
    BY <1>1, <2>1
  <2>4. /\ (b + 3) % HashWidth = IF b + 3 < HashWidth THEN b + 3 ELSE b + 3 - HashWidth
        /\ (b + HashWidth - 3) % HashWidth
             = IF b + HashWidth - 3 < HashWidth THEN b + HashWidth - 3
                                                ELSE b + HashWidth - 3 - HashWidth
    <3>1. PICK x \in Nat, y \in Nat : x = b + 3 /\ y = b + HashWidth - 3
      BY <2>3
    <3>2. x < 2 * HashWidth /\ y < 2 * HashWidth
      BY <2>3, <3>1
    <3>3. /\ x % HashWidth = IF x < HashWidth THEN x ELSE x - HashWidth
          /\ y % HashWidth = IF y < HashWidth THEN y ELSE y - HashWidth
      BY <2>2, <3>2
    <3> QED BY <1>1, <2>1, <3>1, <3>3
  <2> QED BY <1>1, <2>1, <2>4
<1>3. ASSUME NEW b \in Word
      PROVE  /\ (b + 3) % HashWidth \in Word /\ (b + HashWidth - 3) % HashWidth \in Word
             /\ (((b + 3) % HashWidth) + HashWidth - 3) % HashWidth = b
  <2>1. b \in Nat /\ b < HashWidth
    BY <1>1 DEF Word
  <2>2. (b + 3) % HashWidth \in Word /\ (b + HashWidth - 3) % HashWidth \in Word
    BY <1>1, <1>2, <2>1 DEF Word
  <2>3. PICK c \in Word : c = (b + 3) % HashWidth
    BY <2>2
  <2>4. c = IF b + 3 < HashWidth THEN b + 3 ELSE b + 3 - HashWidth
    BY <1>2, <2>3
  <2>5. (c + HashWidth - 3) % HashWidth = IF c < 3 THEN c + HashWidth - 3 ELSE c - 3
    BY <1>2
  <2>6. (c + HashWidth - 3) % HashWidth = b
    BY <1>1, <2>1, <2>4, <2>5
  <2> QED BY <2>2, <2>3, <2>6
<1>4. rotate_left(h) \in SUBSET Word /\ rotate_right(h) \in SUBSET Word
  BY <1>3 DEF rotate_left, rotate_right
<1>5. rotate_right(rotate_left(h)) = {(((b + 3) % HashWidth) + HashWidth - 3) % HashWidth : b \in h}
  BY DEF rotate_left, rotate_right
<1>6. {(((b + 3) % HashWidth) + HashWidth - 3) % HashWidth : b \in h} = h
  BY <1>3
<1> QED
  BY <1>4, <1>5, <1>6

\* Exclusive or twice with the same word changes nothing.
LEMMA XorTwice ==
  ASSUME NEW a, NEW b, NEW c
  PROVE  /\ SymDiff(SymDiff(a, b), b) = a
         /\ SymDiff(SymDiff(SymDiff(a, b), b), c) = SymDiff(a, c)
         /\ a \subseteq Word /\ b \subseteq Word => SymDiff(a, b) \subseteq Word
<1>1. SymDiff(SymDiff(a, b), b) = a
  BY DEF SymDiff
<1> QED
  BY <1>1 DEF SymDiff

LEMMA BitsType == ASSUME NEW n PROVE Bits(n) \in SUBSET Word
BY DEF Bits, Word

\* Two hash values of the same pairs are the same.
LEMMA HashUnique ==
  ASSUME NEW tid, NEW e, NEW f, HashRight(tid, e), HashRight(tid, f), e.pairs = f.pairs
  PROVE  e.hashvalue = f.hashvalue
<1>1. PICK p \in Seq(Pair) : p = e.pairs /\ p = f.pairs
  BY DEF HashRight, Position
<1>2. PICK h : Hashes(tid, p, h) /\ e.hashvalue = h[Len(p)]
  BY <1>1 DEF HashRight
<1>3. PICK g : Hashes(tid, p, g) /\ f.hashvalue = g[Len(p)]
  BY <1>1 DEF HashRight
<1> DEFINE S == {n \in 0 .. Len(p) : h[n] = g[n]}
<1>4. Len(p) \in Nat
  BY <1>1
<1>5. 0 \in S
  BY <1>2, <1>3, <1>4 DEF Hashes
<1>6. \A i \in 1 .. Len(p) : i - 1 \in S => i \in S
  BY <1>2, <1>3, <1>4 DEF Hashes
<1>7. Len(p) \in S
  <2> HIDE DEF S
  <2> QED BY <1>4, <1>5, <1>6, LoopInduction
<1> QED
  BY <1>2, <1>3, <1>7

\* A pair that is pushed.
LEMMA PushRight ==
  ASSUME NEW tid, NEW e, HashRight(tid, e), NEW pair \in Pair
  PROVE  HashRight(tid, push(e, pair)) /\ push(e, pair).pairs = Append(e.pairs, pair)
<1>1. PICK p \in Seq(Pair) : p = e.pairs
  BY DEF HashRight, Position
<1>2. PICK h : Hashes(tid, p, h) /\ e.hashvalue = h[Len(p)]
  BY <1>1 DEF HashRight
<1>3. PICK q : q = Append(p, pair)
  OBVIOUS
<1>4. /\ q \in Seq(Pair) /\ Len(q) = Len(p) + 1 /\ Len(p) \in Nat
      /\ \A n \in 1 .. Len(p) : q[n] = p[n]
      /\ q[Len(p) + 1] = pair
  BY <1>3
<1>5. PICK w : w = SymDiff(rotate_left(h[Len(p)]), Bits(pair.val))
  OBVIOUS
<1>6. w \in SUBSET Word /\ \A n \in 0 .. Len(p) : h[n] \in SUBSET Word
  <2>1. \A n \in 0 .. Len(p) : h[n] \in SUBSET Word
    BY <1>2 DEF Hashes
  <2>2. Len(p) \in 0 .. Len(p)
    BY <1>4
  <2>3. rotate_left(h[Len(p)]) \in SUBSET Word
    BY <2>1, <2>2, RotatedBack
  <2> QED BY <1>5, <2>1, <2>3, BitsType, XorTwice
<1> DEFINE g == [n \in 0 .. Len(p) + 1 |-> IF n <= Len(p) THEN h[n] ELSE w]
<1>7. Hashes(tid, q, g) /\ g[Len(q)] = w
  <2>1. g \in [0 .. Len(q) -> SUBSET Word]
    BY <1>4, <1>6
  <2>2. g[0] = Bits(tid) /\ g[Len(q)] = w
    BY <1>2, <1>4 DEF Hashes
  <2>3. ASSUME NEW n \in 1 .. Len(q)
        PROVE  g[n] = SymDiff(rotate_left(g[n - 1]), Bits(q[n].val))
    <3>1. CASE n <= Len(p)
      <4>1. n \in 1 .. Len(p) /\ n - 1 \in 0 .. Len(p) /\ g[n] = h[n] /\ g[n - 1] = h[n - 1]
        BY <1>4, <3>1
      <4> HIDE DEF g
      <4> QED BY <1>2, <1>4, <4>1 DEF Hashes
    <3>2. CASE n = Len(p) + 1
      <4>1. n - 1 = Len(p) /\ g[n] = w /\ g[n - 1] = h[Len(p)] /\ q[n] = pair
        BY <1>4, <3>2
      <4> HIDE DEF g
      <4> QED BY <1>5, <4>1
    <3> QED BY <1>4, <3>1, <3>2
  <2> HIDE DEF g
  <2> QED BY <2>1, <2>2, <2>3 DEF Hashes
<1>8. push(e, pair) = [pairs |-> q, hashvalue |-> w]
  BY <1>1, <1>2, <1>3, <1>5 DEF push, Push
<1> HIDE DEF g
<1> QED
  BY <1>1, <1>3, <1>4, <1>6, <1>7, <1>8 DEF HashRight, Position

\* The pair on top taken away.
LEMMA PopRight ==
  ASSUME NEW tid, NEW e, HashRight(tid, e), Len(e.pairs) > 0
  PROVE  /\ HashRight(tid, pop(e)) /\ pop(e).pairs = SubSeq(e.pairs, 1, Len(e.pairs) - 1)
         /\ Len(pop(e).pairs) = Len(e.pairs) - 1
<1>1. PICK p \in Seq(Pair) : p = e.pairs
  BY DEF HashRight, Position
<1>2. PICK h : Hashes(tid, p, h) /\ e.hashvalue = h[Len(p)]
  BY <1>1 DEF HashRight
<1>3. PICK m \in Nat : Len(p) = m + 1
  BY <1>1
<1>4. PICK q : q = SubSeq(p, 1, m)
  OBVIOUS
<1>5. q \in Seq(Pair) /\ Len(q) = m /\ \A n \in 1 .. m : q[n] = p[n]
  BY <1>3, <1>4
<1> DEFINE g == [n \in 0 .. m |-> h[n]]
<1>6. Hashes(tid, q, g) /\ g[m] = h[m]
  <2>1. g \in [0 .. Len(q) -> SUBSET Word]
    BY <1>2, <1>3, <1>5 DEF Hashes
  <2>2. g[0] = Bits(tid) /\ g[m] = h[m]
    BY <1>2 DEF Hashes
  <2>3. ASSUME NEW n \in 1 .. Len(q)
        PROVE  g[n] = SymDiff(rotate_left(g[n - 1]), Bits(q[n].val))
    <3>1. n \in 1 .. Len(p) /\ g[n] = h[n] /\ g[n - 1] = h[n - 1] /\ q[n] = p[n]
      BY <1>3, <1>5
    <3> HIDE DEF g
    <3> QED BY <1>2, <3>1 DEF Hashes
  <2> HIDE DEF g
  <2> QED BY <2>1, <2>2, <2>3 DEF Hashes
<1>7. rotate_right(SymDiff(e.hashvalue, Top(e))) = h[m]
  <2>1. h[m] \in SUBSET Word /\ h[m + 1] = SymDiff(rotate_left(h[m]), Bits(p[m + 1].val))
    <3>1. m + 1 \in 1 .. Len(p) /\ m \in 0 .. Len(p) /\ (m + 1) - 1 = m
      BY <1>3
    <3> QED BY <1>2, <3>1 DEF Hashes
  <2>2. Top(e) = Bits(p[m + 1].val) /\ e.hashvalue = h[m + 1]
    BY <1>1, <1>2, <1>3 DEF Top
  <2>3. SymDiff(e.hashvalue, Top(e)) = rotate_left(h[m])
    <3>1. PICK a, b : a = rotate_left(h[m]) /\ b = Bits(p[m + 1].val)
      OBVIOUS
    <3>2. SymDiff(SymDiff(a, b), b) = a
      BY XorTwice
    <3> QED BY <2>1, <2>2, <3>1, <3>2
  <2> QED BY <2>1, <2>3, RotatedBack
<1>8. pop(e) = [pairs |-> q, hashvalue |-> h[m]]
  <2>1. Pop(e.pairs) = q
    BY <1>1, <1>3, <1>4 DEF Pop
  <2> QED BY <1>7, <2>1 DEF pop
<1>9. h[m] \in SUBSET Word
  <2>1. m \in 0 .. Len(p)
    BY <1>3
  <2> QED BY <1>2, <2>1 DEF Hashes
<1> HIDE DEF g
<1> QED
  BY <1>1, <1>3, <1>4, <1>5, <1>6, <1>8, <1>9 DEF HashRight, Position

\* The pair on top counted up.
LEMMA IncrementRight ==
  ASSUME NEW tid, NEW e, HashRight(tid, e), Len(e.pairs) > 0
  PROVE  /\ HashRight(tid, incrementTop(e)) /\ incrementTop(e).pairs = IncrementTop(e.pairs)
         /\ Len(incrementTop(e).pairs) = Len(e.pairs)
<1>1. PICK p \in Seq(Pair) : p = e.pairs
  BY DEF HashRight, Position
<1>2. PICK h : Hashes(tid, p, h) /\ e.hashvalue = h[Len(p)]
  BY <1>1 DEF HashRight
<1>3. PICK m \in Nat : Len(p) = m + 1
  BY <1>1
<1>4. PICK q : q = IncrementTop(p)
  OBVIOUS
<1>5. PICK x : x = q[m + 1]
  OBVIOUS
<1>6. /\ q \in Seq(Pair) /\ Len(q) = m + 1 /\ \A n \in 1 .. m : q[n] = p[n]
  <2>1. m + 1 \in DOMAIN p /\ p[m + 1] \in Pair
    BY <1>3
  <2>2. [p[m + 1] EXCEPT !.val = @ + 1] \in Pair
    BY <2>1 DEF Pair
  <2>3. q = [p EXCEPT ![m + 1] = [p[m + 1] EXCEPT !.val = @ + 1]]
    BY <1>3, <1>4 DEF IncrementTop
  <2> QED BY <1>3, <2>2, <2>3
<1>7. PICK w : w = SymDiff(rotate_left(h[m]), Bits(x.val))
  OBVIOUS
<1>8. h \in [0 .. m + 1 -> SUBSET Word] /\ w \in SUBSET Word
  <2>1. h \in [0 .. m + 1 -> SUBSET Word]
    BY <1>2, <1>3 DEF Hashes
  <2>2. rotate_left(h[m]) \in SUBSET Word
    BY <2>1, RotatedBack
  <2> QED BY <1>7, <2>1, <2>2, BitsType, XorTwice
<1> DEFINE g == [n \in 0 .. m + 1 |-> IF n <= m THEN h[n] ELSE w]
<1>9. Hashes(tid, q, g) /\ g[m + 1] = w
  <2>1. g \in [0 .. Len(q) -> SUBSET Word]
    BY <1>6, <1>8
  <2>2. g[0] = Bits(tid) /\ g[m + 1] = w
    BY <1>2 DEF Hashes
  <2>3. ASSUME NEW n \in 1 .. Len(q)
        PROVE  g[n] = SymDiff(rotate_left(g[n - 1]), Bits(q[n].val))
    <3>1. CASE n <= m
      <4>1. n \in 1 .. Len(p) /\ g[n] = h[n] /\ g[n - 1] = h[n - 1] /\ q[n] = p[n]
        BY <1>3, <1>6, <3>1
      <4> HIDE DEF g
      <4> QED BY <1>2, <4>1 DEF Hashes
    <3>2. CASE n = m + 1
      <4>1. n - 1 = m /\ g[n] = w /\ g[n - 1] = h[m] /\ q[n] = x
        BY <1>5, <3>2
      <4> HIDE DEF g
      <4> QED BY <1>7, <4>1
    <3> QED BY <1>6, <3>1, <3>2
  <2> HIDE DEF g
  <2> QED BY <2>1, <2>2, <2>3 DEF Hashes
<1>10. SymDiff(SymDiff(e.hashvalue, Top(e)), Bits(x.val)) = w
  <2>1. h[m + 1] = SymDiff(rotate_left(h[m]), Bits(p[m + 1].val))
    <3>1. m + 1 \in 1 .. Len(p) /\ (m + 1) - 1 = m
      BY <1>3
    <3> QED BY <1>2, <3>1 DEF Hashes
  <2>2. Top(e) = Bits(p[m + 1].val) /\ e.hashvalue = h[m + 1]
    BY <1>1, <1>2, <1>3 DEF Top
  <2>3. PICK a, b : a = rotate_left(h[m]) /\ b = Bits(p[m + 1].val)
    OBVIOUS
  <2>4. SymDiff(SymDiff(SymDiff(a, b), b), Bits(x.val)) = SymDiff(a, Bits(x.val))
    BY XorTwice
  <2> QED BY <1>7, <2>1, <2>2, <2>3, <2>4
<1>11. incrementTop(e) = [pairs |-> q, hashvalue |-> w]
  <2>1. IncrementTop(e.pairs) = q /\ q[Len(q)] = x
    BY <1>1, <1>4, <1>5, <1>6
  <2> QED BY <1>10, <2>1 DEF incrementTop
<1> HIDE DEF g
<1> QED
  BY <1>1, <1>3, <1>4, <1>6, <1>8, <1>9, <1>11 DEF HashRight, Position

\* Pairs popped until size are left.
LEMMA PopToRight ==
  ASSUME NEW tid, NEW e, HashRight(tid, e), NEW size \in Nat, size <= Len(e.pairs)
  PROVE  /\ HashRight(tid, popTo(e, size)) /\ Len(popTo(e, size).pairs) = size
         /\ \A i \in 1 .. size : popTo(e, size).pairs[i] = e.pairs[i]
<1>1. Len(e.pairs) \in Nat
  BY DEF HashRight, Position
<1>2. PICK k \in Nat : k = Len(e.pairs) - size
  <2>1. PICK len \in Nat : len = Len(e.pairs)
    BY <1>1
  <2>2. len - size \in Nat
    BY <2>1
  <2> QED BY <2>1, <2>2
<1> DEFINE Pops(f) == f = [n \in 0 .. k |-> IF n = 0 THEN e ELSE pop(f[n - 1])]
           popped == CHOOSE f : Pops(f)
           X == [pairs : Seq(Pair), hashvalue : SUBSET Word]
           step == [x \in (1 .. k) \X X |-> pop(x[2])]
           Good(n, f) == /\ HashRight(tid, f) /\ Len(f.pairs) = Len(e.pairs) - n
                         /\ \A i \in 1 .. size : f.pairs[i] = e.pairs[i]
<1>3. popTo(e, size) = popped[k]
  BY <1>2 DEF popTo
<1>4. step \in [(1 .. k) \X X -> X]
  <2>1. ASSUME NEW f \in Position PROVE pop(f) \in Position
    <3>1. Pop(f.pairs) \in Seq(Pair)
      <4>1. PICK p \in Seq(Pair) : p = f.pairs
        BY DEF Position
      <4>2. CASE p = <<>>
        <5>1. SubSeq(p, 1, Len(p) - 1) = <<>>
          BY <4>2
        <5> QED BY <4>1, <5>1 DEF Pop
      <4>3. CASE p # <<>>
        <5>1. Len(p) - 1 \in Nat /\ Len(p) - 1 <= Len(p)
          BY <4>3
        <5> QED BY <4>1, <5>1 DEF Pop
      <4> QED BY <4>2, <4>3
    <3>2. SymDiff(f.hashvalue, Top(f)) \in SUBSET Word
      BY BitsType, XorTwice DEF Position, Top
    <3>3. rotate_right(SymDiff(f.hashvalue, Top(f))) \in SUBSET Word
      BY <3>2, RotatedBack
    <3> QED BY <3>1, <3>3 DEF pop, Position
  <2> QED BY <2>1 DEF Position
<1>5. e \in X
  BY DEF HashRight, Position
<1>6. PICK f : Iterates(f, e, step, k, X)
  <2> HIDE DEF X, step
  <2> QED BY <1>4, <1>5, Iteration
<1>7. f \in [0 .. k -> X] /\ f[0] = e /\ \A i \in 1 .. k : f[i] = pop(f[i - 1])
  <2>1. f \in [0 .. k -> X] /\ f[0] = e /\ \A i \in 1 .. k : f[i] = step[<<i, f[i - 1]>>]
    BY <1>6 DEF Iterates
  <2>2. ASSUME NEW i \in 1 .. k PROVE f[i] = pop(f[i - 1])
    <3>1. f[i - 1] \in X
      BY <2>1
    <3> QED BY <2>1, <3>1
  <2> QED BY <2>1, <2>2
<1>8. Pops(f)
  <2> HIDE DEF X
  <2>1. \A n \in 0 .. k : f[n] = IF n = 0 THEN e ELSE pop(f[n - 1])
    BY <1>7
  <2> QED BY <1>7, <2>1
<1>9. Pops(popped)
  <2> HIDE DEF Pops
  <2> QED BY <1>8
<1>10. popped[0] = e /\ \A i \in 1 .. k : popped[i] = pop(popped[i - 1])
  <2> HIDE DEF popped
  <2> QED BY <1>9
<1> DEFINE S == {n \in 0 .. k : Good(n, popped[n])}
<1>11. 0 \in S
  <2> HIDE DEF popped
  <2> QED BY <1>1, <1>10
<1>12. ASSUME NEW i \in 1 .. k, i - 1 \in S PROVE i \in S
  <2> HIDE DEF popped
  <2>1. PICK g : g = popped[i - 1]
    OBVIOUS
  <2>2. /\ HashRight(tid, g) /\ Len(g.pairs) = Len(e.pairs) - (i - 1)
        /\ \A n \in 1 .. size : g.pairs[n] = e.pairs[n]
    BY <1>12, <2>1
  <2>3. Len(g.pairs) > 0
    BY <1>1, <1>2, <2>2
  <2>4. /\ HashRight(tid, pop(g)) /\ Len(pop(g).pairs) = Len(g.pairs) - 1
        /\ pop(g).pairs = SubSeq(g.pairs, 1, Len(g.pairs) - 1)
    BY <2>2, <2>3, PopRight
  <2>7. \A n \in 1 .. size : pop(g).pairs[n] = e.pairs[n]
    <3>1. PICK q \in Seq(Pair), l \in Nat : q = g.pairs /\ l = Len(q) - 1
      <4>1. PICK q \in Seq(Pair) : q = g.pairs
        BY <2>2 DEF HashRight, Position
      <4>2. Len(q) - 1 \in Nat
        BY <2>3, <4>1
      <4> QED BY <4>1, <4>2
    <3>2. size <= l /\ l <= Len(q)
      BY <1>1, <1>2, <2>2, <3>1
    <3>3. \A n \in 1 .. l : SubSeq(q, 1, l)[n] = q[n]
      BY <3>1, <3>2
    <3>4. \A n \in 1 .. size : n \in 1 .. l
      BY <3>2
    <3> QED BY <2>2, <2>4, <3>1, <3>3, <3>4
  <2>8. Len(pop(g).pairs) = Len(e.pairs) - i
    <3>1. PICK len \in Nat : len = Len(e.pairs)
      BY <1>1
    <3>2. Len(pop(g).pairs) = (len - (i - 1)) - 1
      BY <2>2, <2>4, <3>1
    <3> QED BY <3>1, <3>2
  <2>5. Good(i, pop(g))
    BY <2>4, <2>7, <2>8
  <2>6. popped[i] = pop(g)
    BY <1>10, <2>1
  <2> QED BY <2>5, <2>6
<1>13. k \in S
  <2> HIDE DEF S
  <2> QED BY <1>11, <1>12, LoopInduction
<1>14. Good(k, popped[k])
  BY <1>13
<1> HIDE DEF popped
<1> QED
  BY <1>1, <1>2, <1>3, <1>14

\* The point of a new thread.
LEMMA NewPointRight ==
  ASSUME NEW tid
  PROVE  HashRight(tid, NewPoint(tid)) /\ Len(NewPoint(tid).pairs) = 1
<1> DEFINE e == [pairs |-> <<>>, hashvalue |-> Bits(tid)]
<1>1. HashRight(tid, e) /\ e.pairs = <<>>
  <2>1. e \in Position
    BY BitsType DEF Position
  <2>2. Hashes(tid, <<>>, [n \in 0 .. 0 |-> Bits(tid)])
    BY BitsType DEF Hashes
  <2> QED BY <2>1, <2>2 DEF HashRight
<1>2. Counter(0) \in Pair
  BY DEF Counter, Pair, PairType
<1>3. HashRight(tid, push(e, Counter(0))) /\ push(e, Counter(0)).pairs = Append(<<>>, Counter(0))
  <2> HIDE DEF e
  <2> QED BY <1>1, <1>2, PushRight
<1>4. NewPoint(tid) = push(e, Counter(0))
  BY DEF NewPoint
<1>5. Len(Append(<<>>, Counter(0))) = 1
  BY <1>2
<1> QED
  BY <1>3, <1>4, <1>5

--------------------------------------------------------------------------------
(***************************************************************************)
(* The table of the records.                                               *)
(***************************************************************************)
\* A record keeps the hash value of its point.
RecordRight(r, record) ==
  /\ "hashvalue" \in DOMAIN record
  /\ \E e : HashRight(r[1], e) /\ e.pairs = r[2] /\ e.hashvalue = record.hashvalue

RecordsRight(table) == \A r \in DOMAIN table : RecordRight(r, table[r])

\* The invariant: every hash value, of a thread's point and of a record, is that of the pairs.
IInv ==
  /\ current \in Tid /\ program \in DOMAIN Programs
  /\ execpoint \in [Tid -> Position]
  /\ \A t \in Tid : HashRight(t, execpoint[t]) /\ Len(execpoint[t].pairs) > 0
  /\ RecordsRight(records)

\* A record whose other fields are written keeps its hash value.
LEMMA FieldWritten ==
  ASSUME NEW r, NEW record, RecordRight(r, record), NEW x
  PROVE  /\ RecordRight(r, [record EXCEPT !.next = x])
         /\ RecordRight(r, [record EXCEPT !.child = x])
         /\ RecordRight(r, [record EXCEPT !.dirs = x])
<1>1. "hashvalue" \in DOMAIN record
  BY DEF RecordRight
<1>2. PICK a : a = [record EXCEPT !.next = x]
  OBVIOUS
<1>3. PICK b : b = [record EXCEPT !.child = x]
  OBVIOUS
<1>4. PICK c : c = [record EXCEPT !.dirs = x]
  OBVIOUS
<1>5. "hashvalue" \in DOMAIN a /\ a.hashvalue = record.hashvalue
  BY <1>1, <1>2
<1>6. "hashvalue" \in DOMAIN b /\ b.hashvalue = record.hashvalue
  BY <1>1, <1>3
<1>7. "hashvalue" \in DOMAIN c /\ c.hashvalue = record.hashvalue
  BY <1>1, <1>4
<1> QED
  BY <1>2, <1>3, <1>4, <1>5, <1>6, <1>7 DEF RecordRight

LEMMA TableWritten ==
  ASSUME NEW table, RecordsRight(table), NEW k, NEW x
  PROVE  /\ RecordsRight([table EXCEPT ![k].next = x])
         /\ RecordsRight([table EXCEPT ![k].child = x])
         /\ RecordsRight([table EXCEPT ![k].dirs = x])
<1>1. ASSUME NEW record, k \in DOMAIN table => RecordRight(k, record)
      PROVE  RecordsRight([table EXCEPT ![k] = record])
  <2>1. ASSUME NEW r \in DOMAIN [table EXCEPT ![k] = record]
        PROVE  RecordRight(r, [table EXCEPT ![k] = record][r])
    <3>1. r \in DOMAIN table
      OBVIOUS
    <3>2. CASE r = k
      BY <1>1, <3>1, <3>2
    <3>3. CASE r # k
      BY <3>1, <3>3 DEF RecordsRight
    <3> QED BY <3>2, <3>3
  <2> QED BY <2>1 DEF RecordsRight
<1>2. k \in DOMAIN table => RecordRight(k, table[k])
  BY DEF RecordsRight
<1>3. k \in DOMAIN table => /\ RecordRight(k, [table[k] EXCEPT !.next = x])
                            /\ RecordRight(k, [table[k] EXCEPT !.child = x])
                            /\ RecordRight(k, [table[k] EXCEPT !.dirs = x])
  BY <1>2, FieldWritten
<1> QED
  BY <1>1, <1>3

\* getOrCreateCurrRecord enters the hash value of the thread's point.
LEMMA RecordEntered ==
  ASSUME NEW g, RecordsRight(g.records), NEW branch, NEW et, NEW e, HashRight(current, e)
  PROVE  RecordsRight(WithRecord(g, branch, et, e).records)
<1> DEFINE r == <<current, e.pairs>>
           new == NewRecord(et, branch, e.hashvalue)
           known == [q \in DOMAIN g.records \cup {r} |->
                       IF q \in DOMAIN g.records THEN g.records[q] ELSE new]
           prev == LinkedFrom(g, branch, current)
<1>1. RecordRight(r, new)
  <2>1. "hashvalue" \in DOMAIN new /\ new.hashvalue = e.hashvalue
    BY DEF NewRecord
  <2>2. r[1] = current /\ r[2] = e.pairs
    OBVIOUS
  <2> HIDE DEF new, r
  <2> QED BY <2>1, <2>2 DEF RecordRight
<1>2. RecordsRight(known)
  <2> HIDE DEF r, new
  <2>1. ASSUME NEW x \in DOMAIN known PROVE RecordRight(x, known[x])
    <3>1. CASE x \in DOMAIN g.records
      BY <3>1 DEF RecordsRight
    <3>2. CASE x \notin DOMAIN g.records
      <4>1. x = r
        BY <3>2
      <4>2. known[x] = new
        BY <3>2
      <4> HIDE DEF known
      <4> QED BY <1>1, <4>1, <4>2
    <3> QED BY <3>1, <3>2
  <2> HIDE DEF known
  <2> QED BY <2>1 DEF RecordsRight
<1>3. \/ WithRecord(g, branch, et, e).records = known
      \/ WithRecord(g, branch, et, e).records = [known EXCEPT ![prev].next = r]
  BY DEF WithRecord
<1>4. RecordsRight([known EXCEPT ![prev].next = r])
  <2>1. PICK table, k, x : table = known /\ k = prev /\ x = r
    OBVIOUS
  <2> HIDE DEF known, r, prev
  <2>2. RecordsRight(table)
    BY <1>2, <2>1
  <2>3. RecordsRight([table EXCEPT ![k].next = x])
    BY <2>2, TableWritten
  <2> QED BY <2>1, <2>3
<1> HIDE DEF known, r, prev
<1> QED
  BY <1>2, <1>3, <1>4

\* A step of the running thread to a right point, with right records, keeps the invariant.
LEMMA StepRight ==
  ASSUME IInv, NEW e, HashRight(current, e), Len(e.pairs) > 0, MoveTo(e),
         current' = current, program' = program, RecordsRight(records')
  PROVE  IInv'
<1>1. execpoint' = [execpoint EXCEPT ![current] = e] /\ current \in Tid
  BY DEF MoveTo, IInv
<1>2. e \in Position
  BY DEF HashRight
<1>3. execpoint' \in [Tid -> Position]
  BY <1>1, <1>2 DEF IInv
<1>4. ASSUME NEW t \in Tid PROVE HashRight(t, execpoint'[t]) /\ Len(execpoint'[t].pairs) > 0
  <2>1. CASE t = current
    BY <1>1, <2>1 DEF IInv
  <2>2. CASE t # current
    <3>1. execpoint'[t] = execpoint[t]
      BY <1>1, <2>2 DEF IInv
    <3> QED BY <3>1 DEF IInv
  <2> QED BY <2>1, <2>2
<1> QED
  BY <1>3, <1>4 DEF IInv

\* What the program's structure gives at a call.
LEMMA CallPlace ==
  ASSUME IInv, NEW op \in {"MERGE", "ITERATE", "EXIT", "BRANCH"}, Instr(current).op = op
  PROVE  /\ op = "MERGE" => Len(Place(current)) > 2
         /\ op = "ITERATE" => Len(Place(current)) > 1
         /\ op = "EXIT" => \E j \in 2 .. Len(Place(current)) : Place(current)[j].type = "LOOP"
         /\ op = "BRANCH" => Instr(current).dirs \subseteq Nat
<1>1. PICK p : p = Place(current)
  OBVIOUS
<1>2. p \in DOMAIN Programs[program][current]
  BY <1>1 DEF Instr
<1>3. Programs[program][current][p].op = op /\ Instr(current) = Programs[program][current][p]
  BY <1>1, <1>2 DEF Instr
<1>4. program \in DOMAIN Programs /\ current \in Tid
  BY DEF IInv
<1> QED
  BY <1>1, <1>2, <1>3, <1>4, ClientAssumption

\* The point of the loop around p.
LEMMA LoopPointLen ==
  ASSUME NEW p \in Seq(Pair), NEW j \in 2 .. Len(p), p[j].type = "LOOP"
  PROVE  /\ Len(LoopPoint(p)) \in Nat /\ 0 < Len(LoopPoint(p)) /\ Len(LoopPoint(p)) <= Len(p)
         /\ \E m \in 2 .. Len(p) : /\ p[m].type = "LOOP" /\ Len(LoopPoint(p)) = m - 1
                                   /\ LoopPoint(p) = SubSeq(p, 1, m - 1)
<1> DEFINE I == {i \in 1 .. Len(p) : p[i].type = "LOOP"}
<1>1. Len(p) \in Nat /\ j \in I /\ j \in Nat /\ j >= 2
  OBVIOUS
<1>2. \E x \in I : \A y \in I : x >= y
  <2>1. I \in SUBSET (0 .. Len(p)) /\ I # {}
    BY <1>1
  <2> HIDE DEF I
  <2> QED BY <1>1, <2>1, GreatestNatural
<1>3. PICK m : m = Max(I)
  OBVIOUS
<1>4. m \in I /\ \A y \in I : m >= y
  BY <1>2, <1>3 DEF Max
<1>5. m \in Nat /\ m <= Len(p) /\ m >= j
  BY <1>1, <1>4
<1>6. SelectLastInSeq(p, LAMBDA pair : pair.type = "LOOP") = m
  BY <1>1, <1>3 DEF SelectLastInSeq
<1>7. LoopPoint(p) = SubSeq(p, 1, m - 1)
  BY <1>6 DEF LoopPoint
<1>8. m - 1 \in Nat /\ m - 1 <= Len(p) /\ m - 1 > 0
  BY <1>1, <1>5
<1>9. Len(SubSeq(p, 1, m - 1)) = m - 1
  BY <1>8
<1>10. m \in 2 .. Len(p) /\ p[m].type = "LOOP"
  BY <1>1, <1>4, <1>5
<1> QED
  BY <1>7, <1>8, <1>9, <1>10

--------------------------------------------------------------------------------
(***************************************************************************)
(* The steps.                                                              *)
(***************************************************************************)
\* The point of the running thread, and counted up.
LEMMA HereRight ==
  ASSUME IInv
  PROVE  /\ current \in Tid /\ currexecpoint = execpoint[current]
         /\ HashRight(current, currexecpoint) /\ Len(currexecpoint.pairs) > 0
         /\ Place(current) = currexecpoint.pairs /\ currexecpoint.pairs \in Seq(Pair)
         /\ HashRight(current, incrementTop(currexecpoint))
         /\ Len(incrementTop(currexecpoint).pairs) = Len(currexecpoint.pairs)
<1>1. /\ current \in Tid /\ currexecpoint = execpoint[current]
      /\ HashRight(current, currexecpoint) /\ Len(currexecpoint.pairs) > 0
      /\ Place(current) = currexecpoint.pairs
  BY DEF IInv, currexecpoint, Place
<1>2. currexecpoint.pairs \in Seq(Pair)
  BY <1>1 DEF HashRight, Position
<1> QED
  BY <1>1, <1>2, IncrementRight

\* The calls that record one event and count it.
LEMMA EventRight ==
  ASSUME IInv, UNCHANGED <<program>>,
         event \/ threadCreate \/ loop_phi \/ threadYield
  PROVE  IInv'
<1>1. /\ HashRight(current, currexecpoint) /\ HashRight(current, incrementTop(currexecpoint))
      /\ Len(incrementTop(currexecpoint).pairs) > 0
  BY HereRight
<1>2. RecordsRight(records)
  BY DEF IInv
<1>3. \A branch, et : RecordsRight(WithRecord(Tables, branch, et, currexecpoint).records)
  <2>1. PICK g : g = Tables
    OBVIOUS
  <2>2. RecordsRight(g.records)
    BY <1>2, <2>1 DEF Tables
  <2> QED BY <1>1, <2>1, <2>2, RecordEntered
<1>4. current' = current /\ MoveTo(incrementTop(currexecpoint))
  BY DEF event, threadCreate, loop_phi, threadYield
<1>5. RecordsRight(records')
  <2>1. CASE event
    <3> DEFINE g == WithRecord(Tables, currbranch, Instr(current).type, currexecpoint)
               parents == {r \in DOMAIN records : records[r].type = "THREADCREATE"}
               linked == [r \in DOMAIN g.records |->
                            IF r \in parents THEN [g.records[r] EXCEPT !.child = Here]
                                             ELSE g.records[r]]
    <3>1. records' = g.records \/ records' = [g EXCEPT !.records = linked].records
      BY <2>1 DEF event, SetTables
    <3>2. RecordsRight(g.records)
      BY <1>3
    <3>3. PICK table : table = g.records
      OBVIOUS
    <3>4. "records" \in DOMAIN g
      BY DEF WithRecord
    <3>5. RecordsRight(linked)
      <4> HIDE DEF g, parents
      <4>1. ASSUME NEW r \in DOMAIN linked PROVE RecordRight(r, linked[r])
        <5>1. r \in DOMAIN table /\ RecordRight(r, table[r])
          BY <3>2, <3>3 DEF RecordsRight
        <5>2. RecordRight(r, [table[r] EXCEPT !.child = Here])
          BY <5>1, FieldWritten
        <5>3. linked[r] = table[r] \/ linked[r] = [table[r] EXCEPT !.child = Here]
          BY <3>3
        <5> QED BY <5>1, <5>2, <5>3
      <4> HIDE DEF linked
      <4> QED BY <4>1 DEF RecordsRight
    <3> HIDE DEF g, linked
    <3> QED BY <3>1, <3>2, <3>4, <3>5
  <2>2. CASE threadCreate \/ loop_phi \/ threadYield
    <3>1. \E branch, et : records' = WithRecord(Tables, branch, et, currexecpoint).records
      BY <2>2 DEF threadCreate, loop_phi, threadYield, SetTables
    <3> QED BY <1>3, <3>1
  <2> QED BY <2>1, <2>2
<1> QED
  BY <1>1, <1>4, <1>5, StepRight

LEMMA BranchRight ==
  ASSUME IInv, UNCHANGED <<program>>, branchDir
  PROVE  IInv'
<1>1. Running("BRANCH") /\ current' = current
  BY DEF branchDir
<1>2. PICK d \in Instr(current).dirs :
        LET g == WithRecord(Tables, currbranch, "BRANCHDIR", currexecpoint)
            branch == <<Here, d>>
        IN /\ SetTables([g EXCEPT !.bodies = Entered(g.bodies, branch),
                                  !.records = IF branch \in DOMAIN bodies THEN g.records
                                              ELSE [g.records EXCEPT ![Here].dirs = Append(@, d)]])
           /\ MoveTo(push(push(currexecpoint, Branch(d)), Counter(0)))
  BY DEF branchDir
<1>3. d \in Nat
  BY <1>1, CallPlace DEF Running
<1>4. Branch(d) \in Pair /\ Counter(0) \in Pair
  BY <1>3 DEF Branch, Counter, Pair, PairType
<1>5. HashRight(current, currexecpoint)
  BY HereRight
<1>6. PICK e : e = push(push(currexecpoint, Branch(d)), Counter(0))
  OBVIOUS
<1>7. HashRight(current, e) /\ Len(e.pairs) > 0
  <2>1. PICK f : f = push(currexecpoint, Branch(d))
    OBVIOUS
  <2>2. HashRight(current, f) /\ f.pairs \in Seq(Pair)
    <3>1. PICK b \in Pair : b = Branch(d)
      BY <1>4
    <3>2. HashRight(current, push(currexecpoint, b))
      BY <1>5, PushRight
    <3>3. HashRight(current, f)
      BY <2>1, <3>1, <3>2
    <3> QED BY <3>3 DEF HashRight, Position
  <2>3. HashRight(current, e) /\ e.pairs = Append(f.pairs, Counter(0))
    BY <1>4, <1>6, <2>1, <2>2, PushRight
  <2> QED BY <1>4, <2>2, <2>3
<1>8. RecordsRight(records')
  <2> DEFINE g == WithRecord(Tables, currbranch, "BRANCHDIR", currexecpoint)
  <2>1. RecordsRight(g.records)
    <3>1. PICK h : h = Tables
      OBVIOUS
    <3>2. RecordsRight(h.records)
      BY <3>1 DEF Tables, IInv
    <3> QED BY <1>5, <3>1, <3>2, RecordEntered
  <2>2. PICK table : table = g.records
    OBVIOUS
  <2>3. "records" \in DOMAIN g /\ "bodies" \in DOMAIN g
    BY DEF WithRecord
  <2>4. records' = table \/ records' = [table EXCEPT ![Here].dirs = Append(@, d)]
    <3>1. SetTables([g EXCEPT !.bodies = Entered(g.bodies, <<Here, d>>),
                              !.records = IF <<Here, d>> \in DOMAIN bodies THEN g.records
                                          ELSE [g.records EXCEPT ![Here].dirs = Append(@, d)]])
      BY <1>2
    <3> HIDE DEF g
    <3> QED BY <2>2, <2>3, <3>1 DEF SetTables
  <2>5. RecordsRight(table)
    BY <2>1, <2>2
  <2>6. \A x : RecordsRight([table EXCEPT ![Here].dirs = x])
    <3>1. PICK k : k = Here
      OBVIOUS
    <3> QED BY <2>5, <3>1, TableWritten
  <2> QED BY <2>4, <2>5, <2>6
<1> QED
  BY <1>1, <1>2, <1>6, <1>7, <1>8, StepRight

LEMMA MergeRight ==
  ASSUME IInv, UNCHANGED <<program>>, merge
  PROVE  IInv'
<1>1. Running("MERGE") /\ current' = current
  BY DEF merge
<1>2. Len(currexecpoint.pairs) > 2 /\ Len(currexecpoint.pairs) \in Nat
  BY <1>1, CallPlace, HereRight DEF Running
<1>3. PICK e, f, branch, here :
        /\ e = pop(currexecpoint) /\ branch = pop(e) /\ here = incrementTop(branch)
        /\ f = incrementTop(here)
  OBVIOUS
<1>4. PICK outer : outer = records[<<current, branch.pairs>>].branch
  OBVIOUS
<1>5. SetTables(WithRecord(Tables, outer, "MERGE", here)) /\ MoveTo(f)
  BY <1>3, <1>4 DEF merge
<1>6. HashRight(current, e) /\ Len(e.pairs) > 1 /\ Len(e.pairs) \in Nat
  <2>1. PICK c : c = currexecpoint
    OBVIOUS
  <2>2. HashRight(current, c) /\ Len(c.pairs) > 2 /\ Len(c.pairs) \in Nat
    BY <1>2, <2>1, HereRight
  <2>3. HashRight(current, pop(c)) /\ Len(pop(c).pairs) = Len(c.pairs) - 1
    BY <2>2, PopRight
  <2> QED BY <1>3, <2>1, <2>2, <2>3
<1>7. HashRight(current, branch) /\ Len(branch.pairs) > 0
  BY <1>3, <1>6, PopRight
<1>8. HashRight(current, here) /\ Len(here.pairs) > 0
  BY <1>3, <1>7, IncrementRight
<1>9. HashRight(current, f) /\ Len(f.pairs) > 0
  BY <1>3, <1>8, IncrementRight
<1>10. RecordsRight(records')
  <2>1. PICK h : h = Tables
    OBVIOUS
  <2>2. RecordsRight(h.records)
    BY <2>1 DEF Tables, IInv
  <2>3. RecordsRight(WithRecord(h, outer, "MERGE", here).records)
    BY <1>8, <2>2, RecordEntered
  <2> QED BY <1>5, <2>1, <2>3 DEF SetTables
<1> QED
  BY <1>1, <1>5, <1>9, <1>10, StepRight

LEMMA EnterRight ==
  ASSUME IInv, UNCHANGED <<program>>, enterLoop
  PROVE  IInv'
<1>1. PICK a, inner, f : /\ a = push(currexecpoint, Loop(0)) /\ inner = push(a, Counter(0))
                         /\ f = incrementTop(inner)
  OBVIOUS
<1> DEFINE g1 == WithRecord(Tables, currbranch, "LOOPENTER", currexecpoint)
           g == WithRecord(g1, currbranch, "LOOPSTART", inner)
           start == <<current, inner.pairs>>
<1>2. /\ SetTables([g EXCEPT !.records[Here].child = start])
      /\ MoveTo(f) /\ current' = current
  BY <1>1 DEF enterLoop
<1>3. Loop(0) \in Pair /\ Counter(0) \in Pair
  BY DEF Loop, Counter, Pair, PairType
<1>4. HashRight(current, currexecpoint)
  BY HereRight
<1>5. HashRight(current, a) /\ a.pairs \in Seq(Pair)
  <2>1. PICK b \in Pair : b = Loop(0)
    BY <1>3
  <2>2. HashRight(current, push(currexecpoint, b))
    BY <1>4, PushRight
  <2>3. HashRight(current, a)
    BY <1>1, <2>1, <2>2
  <2> QED BY <2>3 DEF HashRight, Position
<1>6. HashRight(current, inner) /\ Len(inner.pairs) > 0
  <2>1. HashRight(current, inner) /\ inner.pairs = Append(a.pairs, Counter(0))
    BY <1>1, <1>3, <1>5, PushRight
  <2> QED BY <1>3, <1>5, <2>1
<1>7. HashRight(current, f) /\ Len(f.pairs) > 0
  BY <1>1, <1>6, IncrementRight
<1>8. RecordsRight(g.records)
  <2>1. PICK h : h = Tables
    OBVIOUS
  <2>2. RecordsRight(h.records)
    BY <2>1 DEF Tables, IInv
  <2>3. RecordsRight(WithRecord(h, currbranch, "LOOPENTER", currexecpoint).records)
    BY <1>4, <2>2, RecordEntered
  <2>4. RecordsRight(g1.records)
    BY <2>1, <2>3
  <2> HIDE DEF g1
  <2> QED BY <1>6, <2>4, RecordEntered
<1>9. RecordsRight(records')
  <2>1. PICK table, k, x : table = g.records /\ k = Here /\ x = start
    OBVIOUS
  <2>2. "records" \in DOMAIN g
    BY DEF WithRecord
  <2>3. records' = [table EXCEPT ![k].child = x]
    <3> HIDE DEF g, start
    <3> QED BY <1>2, <2>1, <2>2 DEF SetTables
  <2>4. RecordsRight(table)
    BY <1>8, <2>1
  <2> QED BY <2>3, <2>4, TableWritten
<1> HIDE DEF g, start
<1> QED
  BY <1>2, <1>7, <1>9, StepRight

LEMMA IterateRight ==
  ASSUME IInv, UNCHANGED <<program>>, loopIterate
  PROVE  IInv'
<1>1. /\ Running("ITERATE") /\ current' = current /\ records' = records
      /\ MoveTo(push(incrementTop(pop(currexecpoint)), Counter(0)))
  BY DEF loopIterate, tableVars
<1>2. Len(currexecpoint.pairs) > 1 /\ Len(currexecpoint.pairs) \in Nat
  BY <1>1, CallPlace, HereRight DEF Running
<1>3. PICK a, b, e : a = pop(currexecpoint) /\ b = incrementTop(a) /\ e = push(b, Counter(0))
  OBVIOUS
<1>4. HashRight(current, a) /\ Len(a.pairs) > 0
  BY <1>2, <1>3, HereRight, PopRight
<1>5. HashRight(current, b) /\ b.pairs \in Seq(Pair)
  BY <1>3, <1>4, IncrementRight DEF HashRight, Position
<1>6. Counter(0) \in Pair
  BY DEF Counter, Pair, PairType
<1>7. HashRight(current, e) /\ e.pairs = Append(b.pairs, Counter(0))
  BY <1>3, <1>5, <1>6, PushRight
<1>8. Len(e.pairs) > 0
  BY <1>5, <1>6, <1>7
<1>9. RecordsRight(records')
  BY <1>1 DEF IInv
<1> QED
  BY <1>1, <1>3, <1>7, <1>8, <1>9, StepRight

LEMMA ExitRight ==
  ASSUME IInv, UNCHANGED <<program>>, exitLoop
  PROVE  IInv'
<1>1. Running("EXIT") /\ current' = current
  BY DEF exitLoop
<1>2. PICK p : p = Place(current)
  OBVIOUS
<1>3. PICK et : et = IF DirectInLoop(p) THEN "LOOPEXIT" ELSE "NONLOCALTRANS"
  OBVIOUS
<1>4. PICK g : g = WithRecord(Tables, currbranch, et, currexecpoint)
  OBVIOUS
<1>5. PICK outer : outer = BranchAfterExit(g.records, currbranch, p)
  OBVIOUS
<1>6. PICK size : size = Len(LoopPoint(p))
  OBVIOUS
<1>7. PICK up, enter, label, f :
        /\ up = incrementTop(currexecpoint) /\ enter = popTo(up, size)
        /\ label = incrementTop(enter) /\ f = incrementTop(label)
  OBVIOUS
<1>8. PICK h : h = WithRecord(g, outer, "LABEL", label)
  OBVIOUS
<1>9. PICK from, to : from = <<current, enter.pairs>> /\ to = <<current, label.pairs>>
  OBVIOUS
<1>10. /\ SetTables([h EXCEPT !.records = ExitLinks(h.records, Here, from, to)])
       /\ MoveTo(f)
  BY <1>2, <1>3, <1>4, <1>5, <1>6, <1>7, <1>8, <1>9 DEF exitLoop
<1>11. size \in Nat /\ 0 < size /\ size <= Len(p) /\ p = currexecpoint.pairs /\ p \in Seq(Pair)
  <2>1. p = currexecpoint.pairs /\ p \in Seq(Pair)
    BY <1>2, HereRight
  <2>2. \E j \in 2 .. Len(p) : p[j].type = "LOOP"
    BY <1>1, <1>2, CallPlace DEF Running
  <2> QED BY <1>6, <2>1, <2>2, LoopPointLen
<1>12. HashRight(current, up) /\ Len(up.pairs) = Len(p)
  BY <1>7, <1>11, HereRight
<1>13. HashRight(current, enter) /\ Len(enter.pairs) > 0
  <2>1. HashRight(current, popTo(up, size)) /\ Len(popTo(up, size).pairs) = size
    BY <1>11, <1>12, PopToRight
  <2> QED BY <1>7, <1>11, <2>1
<1>14. HashRight(current, label) /\ Len(label.pairs) > 0
  BY <1>7, <1>13, IncrementRight
<1>15. HashRight(current, f) /\ Len(f.pairs) > 0
  BY <1>7, <1>14, IncrementRight
<1>16. RecordsRight(h.records)
  <2>1. PICK t : t = Tables
    OBVIOUS
  <2>2. RecordsRight(t.records)
    BY <2>1 DEF Tables, IInv
  <2>3. RecordsRight(g.records)
    BY <1>4, <2>1, <2>2, HereRight, RecordEntered
  <2> QED BY <1>8, <1>14, <2>3, RecordEntered
<1>17. RecordsRight(records')
  <2>1. PICK table, here : table = h.records /\ here = Here
    OBVIOUS
  <2>2. "records" \in DOMAIN h
    BY <1>8 DEF WithRecord
  <2>3. records' = ExitLinks(table, here, from, to)
    BY <1>10, <2>1, <2>2 DEF SetTables
  <2>4. PICK x : x = IF table[from].next = None THEN to ELSE table[from].next
    OBVIOUS
  <2>5. PICK linked : linked = [table EXCEPT ![from].next = x]
    OBVIOUS
  <2>6. ExitLinks(table, here, from, to) = [linked EXCEPT ![here].next = to]
    BY <2>4, <2>5 DEF ExitLinks
  <2>7. RecordsRight(linked)
    BY <1>16, <2>1, <2>5, TableWritten
  <2>8. RecordsRight([linked EXCEPT ![here].next = to])
    BY <2>7, TableWritten
  <2> QED BY <2>3, <2>6, <2>8
<1> QED
  BY <1>1, <1>10, <1>15, <1>17, StepRight

\* Every step keeps the invariant: also the rollback, which gives the threads new points and
\* leaves the records.
LEMMA StepIInv ==
  ASSUME IInv, [Next]_vars
  PROVE  IInv'
<1>1. CASE Execute
  <2>1. UNCHANGED program
    BY <1>1 DEF Execute
  <2>2. CASE event \/ threadCreate \/ loop_phi \/ threadYield
    BY <2>1, <2>2, EventRight
  <2>3. CASE branchDir
    BY <2>1, <2>3, BranchRight
  <2>4. CASE merge
    BY <2>1, <2>4, MergeRight
  <2>5. CASE enterLoop
    BY <2>1, <2>5, EnterRight
  <2>6. CASE loopIterate
    BY <2>1, <2>6, IterateRight
  <2>7. CASE exitLoop
    BY <2>1, <2>7, ExitRight
  <2>8. CASE threadFinish
    BY <2>1, <2>8 DEF threadFinish, tableVars, IInv
  <2>9. CASE set_current_thread
    BY <2>1, <2>9 DEF set_current_thread, tableVars, IInv
  <2> QED BY <1>1, <2>2, <2>3, <2>4, <2>5, <2>6, <2>7, <2>8, <2>9 DEF Execute
<1>2. CASE startTraversal \/ traverseRecord \/ popWork \/ UNCHANGED vars
  <2>1. UNCHANGED <<program, current, execpoint, records>>
    BY <1>2 DEF startTraversal, traverseRecord, popWork, execVars, tableVars, vars
  <2> QED BY <2>1 DEF IInv
<1>3. CASE reset
  <2>1. /\ UNCHANGED <<program, records>> /\ current' = 0
        /\ execpoint' = [t \in Tid |-> NewPoint(t)]
    BY <1>3 DEF reset, FirstExecution
  <2>2. \A t \in Tid : HashRight(t, NewPoint(t)) /\ Len(NewPoint(t).pairs) > 0
    BY NewPointRight
  <2>3. \A t \in Tid : NewPoint(t) \in Position
    BY <2>2 DEF HashRight
  <2> QED BY <2>1, <2>2, <2>3, GraphAssumption DEF IInv
<1> QED
  BY <1>1, <1>2, <1>3 DEF Next

LEMMA InitIInv ==
  ASSUME Init
  PROVE  IInv
<1>1. \A t \in Tid : HashRight(t, NewPoint(t)) /\ Len(NewPoint(t).pairs) > 0
  BY NewPointRight
<1>2. \A t \in Tid : NewPoint(t) \in Position
  BY <1>1 DEF HashRight
<1>3. /\ program \in DOMAIN Programs /\ current = 0 /\ records = <<>>
      /\ execpoint = [t \in Tid |-> NewPoint(t)]
  BY DEF Init
<1>4. RecordsRight(records)
  BY <1>3 DEF RecordsRight
<1> QED
  BY <1>1, <1>2, <1>3, <1>4, GraphAssumption DEF IInv

LEMMA IInvFound ==
  ASSUME IInv
  PROVE  RecordIsFound
<1>1. SUFFICES ASSUME NEW t \in Tid, <<t, Place(t)>> \in DOMAIN records
               PROVE  records[<<t, Place(t)>>].hashvalue = execpoint[t].hashvalue
  BY DEF RecordIsFound
<1>2. PICK r : r = <<t, Place(t)>>
  OBVIOUS
<1>3. RecordRight(r, records[r]) /\ HashRight(t, execpoint[t])
  BY <1>1, <1>2 DEF IInv, RecordsRight
<1>4. PICK e : HashRight(t, e) /\ e.pairs = execpoint[t].pairs /\ e.hashvalue = records[r].hashvalue
  BY <1>2, <1>3 DEF RecordRight, Place
<1> QED
  BY <1>2, <1>3, <1>4, HashUnique

\* A thread that comes to a point with a record finds it, whatever the program, the width of a
\* word and the number of executions: the hash value, brought up to date by push, pop and
\* incrementTop on different ways and in different executions, is that of the pairs.
THEOREM RecordIsFoundHolds == Spec => []RecordIsFound
<1>1. Init => IInv
  BY InitIInv
<1>2. IInv /\ [Next]_vars => IInv'
  BY StepIInv
<1>3. IInv => RecordIsFound
  BY IInvFound
<1> QED
  BY <1>1, <1>2, <1>3, PTL DEF Spec
--------------------------------------------------------------------------------
(***************************************************************************)
(* The graph replays every execution.  code is the program, stop the       *)
(* option noexecyields.                                                    *)
(***************************************************************************)
\* The call of thread t at p, and the kind of the record there: counts no call has are those of a
\* MERGE behind a branch, a LABEL behind a loop, or the LOOPSTART of a loop.
Call(code, t, p) == IF p \in DOMAIN code[t] THEN code[t][p].op ELSE "END"
Behind(code, t, p, op) == p[Len(p)].val > 0 /\ Call(code, t, [p EXCEPT ![Len(p)].val = @ - 1]) = op

Kind(code, t, p) ==
  LET call == Call(code, t, p) IN
  CASE call = "EVENT"   -> code[t][p].type
    [] call = "CREATE"  -> "THREADCREATE"
    [] call = "BRANCH"  -> "BRANCHDIR"
    [] call = "ENTER"   -> "LOOPENTER"
    [] call = "LOOPPHI" -> "FUNCTION"
    [] call = "YIELD"   -> "YIELD"
    [] call = "EXIT"    -> IF DirectInLoop(p) THEN "LOOPEXIT" ELSE "NONLOCALTRANS"
    [] OTHER -> IF Behind(code, t, p, "BRANCH") THEN "MERGE"
                ELSE IF Behind(code, t, p, "ENTER") THEN "LABEL" ELSE "LOOPSTART"

\* Where a thread can be; the branches and the loops around it, and the innermost of the branches.
Spot(p) == p \in Point /\ p[Len(p)].type = "COUNTER"
Upto(p, j) == SubSeq(p, 1, j - 1)
Places(p, type) == {j \in 1 .. Len(p) : p[j].type = type}
BranchAt(t, p, j) == <<<<t, Upto(p, j)>>, p[j].val>>
Open(t, p) == {BranchAt(t, p, j) : j \in Places(p, "BRANCH")}
Loops(t, p) == {<<t, Upto(p, j)>> : j \in Places(p, "LOOP")}
Around(t, p) == IF Places(p, "BRANCH") = {} THEN None ELSE BranchAt(t, p, Max(Places(p, "BRANCH")))

\* A thread at p comes to q without making a record: iterations of a loop in a row.
Iterated(p, n) == [[p EXCEPT ![Len(p)] = Counter(0)] EXCEPT ![Len(p) - 1].val = @ + n]
Leads(code, t, p, q) ==
  \/ q = p
  \/ /\ Call(code, t, p) = "ITERATE"
     /\ \E n \in Nat \ {0} : /\ q = Iterated(p, n)
                             /\ \A m \in 1 .. n - 1 : Call(code, t, Iterated(p, m)) = "ITERATE"

Exits == {"NONLOCALTRANS", "LOOPEXIT"}
Silent == {"MERGE", "ITERATE", "END"}
IsId(r) == r \in Tid \X Point /\ Spot(r[2])

\* What may follow record r in its block: it is the same in all executions.
NextOf(code, r, n) ==
  LET kind == Kind(code, r[1], r[2]) IN
  /\ n = <<r[1], n[2]>>
  /\ CASE kind \in Exits -> n[2] = IncrementTop(LoopPoint(r[2]))
       [] kind \in {"BRANCHDIR", "LOOPENTER"} -> n[2] = IncrementTop(r[2])
       [] OTHER -> Leads(code, r[1], IncrementTop(r[2]), n[2]) /\ Call(code, r[1], n[2]) \notin Silent

RecordOk(code, r, rec) ==
  /\ IsId(r)
  /\ {"type", "branch", "next", "child", "dirs"} \subseteq DOMAIN rec
  /\ rec.type = Kind(code, r[1], r[2]) /\ rec.branch = Around(r[1], r[2])
  /\ rec.next # None => NextOf(code, r, rec.next)

InBody(b)    == IntoBranch(b[1][2], b[2])
StartOf(b)   == <<b[1][1], InBody(b)>>
InLoop(p)    == Push(Push(p, Loop(0)), Counter(0))
LoopStart(r) == <<r[1], InLoop(r[2])>>

BodyOk(code, b, body) ==
  /\ {"first", "last"} \subseteq DOMAIN body
  /\ IsId(b[1]) /\ b[2] \in Nat /\ b = <<b[1], b[2]>>
  /\ body.first # None => body.first = StartOf(b) /\ Call(code, b[1][1], InBody(b)) # "MERGE"
  /\ body.last # None => body.first # None

GraphOk(code, g) ==
  /\ \A r \in DOMAIN g.records : RecordOk(code, r, g.records[r])
  /\ \A b \in DOMAIN g.bodies : BodyOk(code, b, g.bodies[b])
  /\ DOMAIN g.always = Tid

ChildrenOk(code, g) ==
  \A r \in DOMAIN g.records : Kind(code, r[1], r[2]) = "LOOPENTER" => g.records[r].child = LoopStart(r)

\* The schedule builder goes from r to s: over the next pointer, into a loop or a body, or from the
\* last record of a body to the MERGE.
Link(code, stop, g, dirs, r, s) ==
  /\ r \in DOMAIN g.records /\ s # None
  /\ LET kind   == Kind(code, r[1], r[2])
         branch == Around(r[1], r[2]) IN
     CASE kind = "LOOPENTER" -> s = LoopStart(r)
       [] kind = "BRANCHDIR" ->
            \E b \in dirs : /\ b[1] = r /\ b \in DOMAIN g.bodies
                            /\ IF Call(code, r[1], InBody(b)) = "MERGE" THEN g.records[r].next = s
                               ELSE g.bodies[b].first = s
       [] OTHER ->
            /\ ~(kind = "YIELD" /\ stop)
            /\ \/ g.records[r].next = s
               \/ /\ kind \notin Exits
                  /\ \E a : Leads(code, r[1], IncrementTop(r[2]), a) /\ Call(code, r[1], a) = "MERGE"
                  /\ branch # None /\ branch[1] \in DOMAIN g.records
                  /\ g.records[branch[1]].next = s

Ends(code, stop, g, r) ==
  LET kind == Kind(code, r[1], r[2]) IN
  /\ r \in DOMAIN g.records
  /\ \/ kind = "YIELD" /\ stop
     \/ /\ kind \notin Exits \cup {"LOOPENTER", "BRANCHDIR"}
        /\ Around(r[1], r[2]) = None
        /\ \E a : Leads(code, r[1], IncrementTop(r[2]), a) /\ Call(code, r[1], a) = "END"

Linked(code, stop, g, dirs, w) ==
  /\ w \in Seq(Tid \X Point)
  /\ \A i \in 1 .. Len(w) - 1 : Link(code, stop, g, dirs, w[i], w[i + 1])
OneWay(dirs) == \A b \in dirs, c \in dirs : b[1] = c[1] => b = c

\* p comes after x, whatever happens in between.
Passed(x, p) ==
  \E j \in 1 .. Len(p) : /\ \A i \in 1 .. j - 1 : i <= Len(x) /\ x[i] = p[i]
                         /\ j <= Len(x) => x[j].val < p[j].val

\* Thread t at p: every branch around it is entered, and the last record outside of it is its own.
ThreadAt(code, g, dirs, t, p) ==
  /\ Spot(p)
  /\ \A b \in Open(t, p) : /\ b[1] \in DOMAIN g.records /\ Call(code, t, b[1][2]) = "BRANCH"
                           /\ b \in dirs /\ b \in DOMAIN g.bodies
                           /\ LinkedFrom(g, Around(t, b[1][2]), t) = b[1]
  /\ \A r \in Loops(t, p) : r \in DOMAIN g.records /\ Call(code, t, r[2]) = "ENTER"

\* It has come there from the last record it met.
Comes(code, g, dirs, t, p, l) ==
  LET kind == Kind(code, t, l[2]) IN
  /\ l \in DOMAIN g.records /\ l[1] = t
  /\ kind \notin Exits \cup {"LOOPENTER"}
  /\ IF kind = "BRANCHDIR"
     THEN \E b \in dirs : b[1] = l /\ p = InBody(b) /\ b \in DOMAIN g.bodies /\ g.bodies[b].last = None
     ELSE LinkedFrom(g, Around(t, l[2]), t) = l /\ Leads(code, t, IncrementTop(l[2]), p)

ThreadWay(code, stop, g, dirs, t, p, w) ==
  /\ Linked(code, stop, g, dirs, w)
  /\ w = <<>> => p = FirstPoint /\ g.always[t] = None
  /\ w # <<>> => Comes(code, g, dirs, t, p, w[Len(w)])

ThreadStatus(code, stop, t, p, w, s) ==
  /\ s = "unborn" => w = <<>>
  /\ w # <<>> => LET yielded == Kind(code, t, w[Len(w)][2]) = "YIELD" /\ stop
                 IN CASE s = "running"  -> ~yielded
                      [] s = "complete" -> yielded \/ Call(code, t, p) = "END"
                      [] OTHER -> FALSE
  /\ Open(t, p) # {} => Call(code, t, p) # "END"

DirsOk(dirs, t, p) ==
  \A b \in dirs : b[1][1] = t => b[1][2] \in Point /\ Passed(b[1][2], p)

ThreadOk(code, stop, g, dirs, t, p, w, s) ==
  /\ ThreadAt(code, g, dirs, t, p) /\ ThreadWay(code, stop, g, dirs, t, p, w)
  /\ ThreadStatus(code, stop, t, p, w, s) /\ DirsOk(dirs, t, p)

RunOk(code, stop, g, run) ==
  /\ OneWay(run.taken)
  /\ \A t \in Tid : /\ Linked(code, stop, g, run.taken, run.walked[t])
                    /\ run.walked[t] # <<>> => Ends(code, stop, g, run.walked[t][Len(run.walked[t])])

BranchOf(t) == IF t = current THEN currbranch ELSE CurrBranchList[t]

\* The invariant: the executions are linked in the graph, and the running one so far.
WInv ==
  LET code == Programs[program] IN
  /\ GraphOk(code, Tables) /\ ChildrenOk(code, Tables)
  /\ \A run \in runs : RunOk(code, noexecyields, Tables, run)
  /\ DOMAIN walked = Tid /\ DOMAIN status = Tid /\ DOMAIN CurrBranchList = Tid
  /\ phase = "execute" =>
       /\ OneWay(taken)
       /\ \A t \in Tid : /\ BranchOf(t) = Around(t, Place(t))
                         /\ ThreadOk(code, noexecyields, Tables, taken, t, Place(t), walked[t], status[t])

--------------------------------------------------------------------------------
(***************************************************************************)
(* The points a thread moves to.                                           *)
(***************************************************************************)
LEMMA SpotFacts ==
  ASSUME NEW p, Spot(p)
  PROVE  /\ p \in Seq(Pair) /\ p \in Point /\ Len(p) \in Nat \ {0} /\ DOMAIN p = 1 .. Len(p)
         /\ \A i \in 1 .. Len(p) : p[i] \in Pair /\ p[i].val \in Nat
         /\ p[Len(p)].type = "COUNTER"
<1>1. p \in Point
  BY DEF Spot
<1> QED
  BY <1>1, PointFacts DEF Spot, Point

LEMMA LongEnough ==
  ASSUME NEW p, Spot(p), Len(p) > 1
  PROVE  \E k \in Nat : Len(p) = k + 2
<1>1. PICK n \in Nat : n = Len(p)
  BY SpotFacts
<1>2. \E k \in Nat : n = k + 2
  <2>1. n - 2 \in Nat /\ n = (n - 2) + 2
    BY <1>1
  <2> QED BY <2>1
<1> QED
  BY <1>1, <1>2

\* Counted up.
LEMMA Counted ==
  ASSUME NEW p, Spot(p), NEW q, q = IncrementTop(p)
  PROVE  /\ Spot(q) /\ Len(q) = Len(p) /\ \A i \in 1 .. Len(p) - 1 : q[i] = p[i]
         /\ q[Len(p)].val = p[Len(p)].val + 1
         /\ [q EXCEPT ![Len(q)].val = @ - 1] = p
<1>1. PICK n \in Nat \ {0} : n = Len(p)
  BY SpotFacts
<1>2. /\ p \in Seq(Pair) /\ DOMAIN p = 1 .. n /\ n \in 1 .. n
      /\ p[n] \in Pair /\ p[n].type = "COUNTER" /\ p[n].val \in Nat
  BY <1>1, SpotFacts
<1>3. PICK x : x = [p[n] EXCEPT !.val = @ + 1]
  OBVIOUS
<1>4. x \in Pair /\ x.type = "COUNTER" /\ x.val = p[n].val + 1 /\ [x EXCEPT !.val = @ - 1] = p[n]
  <2>1. PICK v \in Nat : v = p[n].val
    BY <1>2
  <2>2. p[n] = [type |-> "COUNTER", val |-> v] /\ x = [type |-> "COUNTER", val |-> v + 1]
    <3>1. PICK t \in PairType, w \in Nat : p[n] = [type |-> t, val |-> w]
      BY <1>2 DEF Pair
    <3>2. t = "COUNTER" /\ w = v
      BY <1>2, <2>1, <3>1
    <3> QED BY <1>3, <3>1, <3>2
  <2>3. x \in Pair
    BY <2>2 DEF Pair, PairType
  <2>4. [x EXCEPT !.val = @ - 1] = [type |-> "COUNTER", val |-> (v + 1) - 1]
    BY <2>2
  <2> QED BY <2>1, <2>2, <2>3, <2>4
<1>5. q = [p EXCEPT ![n] = x]
  BY <1>1, <1>3 DEF IncrementTop
<1>6. q \in Seq(Pair) /\ Len(q) = n /\ DOMAIN q = 1 .. n /\ q[n] = x /\ \A i \in 1 .. n : i # n => q[i] = p[i]
  BY <1>1, <1>2, <1>4, <1>5
<1>7. q # <<>>
  BY <1>1, <1>6
<1>8. [q EXCEPT ![n].val = @ - 1] = p
  <2>1. PICK r : r = [q EXCEPT ![n] = [x EXCEPT !.val = @ - 1]]
    OBVIOUS
  <2>2. r \in Seq(Pair) /\ Len(r) = n /\ \A i \in 1 .. n : r[i] = p[i]
    BY <1>1, <1>2, <1>4, <1>6, <2>1
  <2>3. r = p
    BY <1>1, <1>2, <2>2
  <2>4. [q EXCEPT ![n].val = @ - 1] = [q EXCEPT ![n] = [q[n] EXCEPT !.val = @ - 1]]
    OBVIOUS
  <2> QED BY <1>6, <2>1, <2>3, <2>4
<1> QED
  BY <1>1, <1>4, <1>6, <1>7, <1>8 DEF Spot, Point

\* Into a body or a loop: a pair is pushed, and a counter.
Under(p, a, c) == Push(Push(p, a), c)

LEMMA WentIn ==
  ASSUME NEW p, Spot(p), NEW a \in Pair, NEW c \in Pair, c.type = "COUNTER"
  PROVE  /\ Spot(Under(p, a, c)) /\ Len(Under(p, a, c)) = Len(p) + 2
         /\ \A i \in 1 .. Len(p) : Under(p, a, c)[i] = p[i]
         /\ Under(p, a, c)[Len(p) + 1] = a /\ Under(p, a, c)[Len(p) + 2] = c
<1>1. PICK m \in Nat : p \in Seq(Pair) /\ Len(p) = m
  BY SpotFacts
<1>2. PICK r, q : r = Append(p, a) /\ q = Append(r, c)
  OBVIOUS
<1>3. r \in Seq(Pair) /\ Len(r) = m + 1 /\ r[m + 1] = a /\ \A i \in 1 .. m : r[i] = p[i]
  BY <1>1, <1>2
<1>4. /\ q \in Seq(Pair) /\ Len(q) = m + 2 /\ q[m + 2] = c
      /\ q[m + 1] = a /\ \A i \in 1 .. m : q[i] = p[i]
  BY <1>2, <1>3
<1>5. q # <<>> /\ q[Len(q)].type = "COUNTER"
  BY <1>4
<1>6. Spot(q)
  BY <1>4, <1>5 DEF Spot, Point
<1> QED
  BY <1>1, <1>2, <1>4, <1>6 DEF Under, Push

\* On to a later iteration.
LEMMA WentOn ==
  ASSUME NEW p, Spot(p), Len(p) > 1, NEW n \in Nat, NEW q, q = Iterated(p, n)
  PROVE  /\ Spot(q) /\ Len(q) = Len(p) /\ \A i \in 1 .. Len(p) - 2 : q[i] = p[i]
         /\ q[Len(p) - 1] = [p[Len(p) - 1] EXCEPT !.val = @ + n] /\ q[Len(p)] = Counter(0)
<1>1. PICK k \in Nat : Len(p) = k + 2
  BY LongEnough
<1>2. p \in Seq(Pair) /\ DOMAIN p = 1 .. k + 2 /\ p[k + 1] \in Pair
  BY <1>1, SpotFacts
<1>3. PICK c \in Pair : c = Counter(0) /\ c.type = "COUNTER"
  <2>1. Counter(0) \in Pair /\ Counter(0).type = "COUNTER"
    BY DEF Counter, Pair, PairType
  <2> QED BY <2>1
<1>4. PICK x \in Pair : x = [p[k + 1] EXCEPT !.val = @ + n]
  <2>1. PICK y \in Pair : y = p[k + 1]
    BY <1>2
  <2>2. [y EXCEPT !.val = @ + n] \in Pair
    BY DEF Pair
  <2> QED BY <2>1, <2>2
<1>5. PICK r : r = [p EXCEPT ![k + 2] = c]
  OBVIOUS
<1>6. /\ r \in Seq(Pair) /\ Len(r) = k + 2 /\ DOMAIN r = 1 .. k + 2
      /\ r[k + 2] = c /\ \A i \in 1 .. k + 1 : r[i] = p[i]
  BY <1>1, <1>2, <1>5
<1>7. q = [r EXCEPT ![k + 1] = x]
  <2>1. Len(p) - 1 = k + 1 /\ r[k + 1] = p[k + 1]
    BY <1>1, <1>6
  <2>2. q = [r EXCEPT ![k + 1] = [r[k + 1] EXCEPT !.val = @ + n]]
    BY <1>1, <1>3, <1>5, <2>1 DEF Iterated
  <2> QED BY <1>4, <2>1, <2>2
<1>8. /\ q \in Seq(Pair) /\ Len(q) = k + 2 /\ q[k + 1] = x /\ q[k + 2] = c
      /\ \A i \in 1 .. k : q[i] = p[i]
  BY <1>6, <1>7
<1>9. q # <<>>
  BY <1>8
<1> QED
  BY <1>1, <1>3, <1>4, <1>8, <1>9 DEF Spot, Point

WentOnTo(p, n, q) ==
  /\ Spot(q) /\ Len(q) = Len(p) /\ \A i \in 1 .. Len(p) - 2 : q[i] = p[i]
  /\ q[Len(p) - 1] = [p[Len(p) - 1] EXCEPT !.val = @ + n] /\ q[Len(p)] = Counter(0)

LEMMA WentOnIs ==
  ASSUME NEW p, Spot(p), Len(p) > 1, NEW n \in Nat
  PROVE  WentOnTo(p, n, Iterated(p, n))
<1>1. PICK q : q = Iterated(p, n)
  OBVIOUS
<1> QED
  BY <1>1, WentOn DEF WentOnTo

\* The iterations of a loop in a row.
LEMMA IteratedTwice ==
  ASSUME NEW p, Spot(p), Len(p) > 1, NEW n \in Nat, NEW m \in Nat
  PROVE  Iterated(Iterated(p, n), m) = Iterated(p, n + m)
<1>1. PICK a, b, c : a = Iterated(p, n) /\ b = Iterated(a, m) /\ c = Iterated(p, n + m)
  OBVIOUS
<1>2. PICK k \in Nat : Len(p) = k + 2
  BY LongEnough
<1>3. PICK x \in Pair : x = p[k + 1]
  BY <1>2, SpotFacts
<1>4. /\ Spot(a) /\ Len(a) = k + 2 /\ \A i \in 1 .. k : a[i] = p[i]
      /\ a[k + 1] = [x EXCEPT !.val = @ + n] /\ a[k + 2] = Counter(0)
  <2>1. Len(p) - 1 = k + 1 /\ Len(p) - 2 = k
    BY <1>2
  <2> QED BY <1>1, <1>2, <1>3, <2>1, WentOn
<1>5. /\ Spot(b) /\ Len(b) = k + 2 /\ \A i \in 1 .. k : b[i] = a[i]
      /\ b[k + 1] = [a[k + 1] EXCEPT !.val = @ + m] /\ b[k + 2] = Counter(0)
  <2>1. Len(a) = k + 2 /\ Len(a) - 1 = k + 1 /\ Len(a) - 2 = k /\ Len(a) > 1 /\ Spot(a)
    BY <1>4
  <2>2. b = Iterated(a, m)
    BY <1>1
  <2>3. WentOnTo(a, m, b)
    BY <2>1, <2>2, WentOnIs
  <2> QED BY <2>1, <2>3 DEF WentOnTo
<1>6. /\ Spot(c) /\ Len(c) = k + 2 /\ \A i \in 1 .. k : c[i] = p[i]
      /\ c[k + 1] = [x EXCEPT !.val = @ + (n + m)] /\ c[k + 2] = Counter(0)
  <2>1. Len(p) - 1 = k + 1 /\ Len(p) - 2 = k /\ n + m \in Nat
    BY <1>2
  <2> QED BY <1>1, <1>2, <1>3, <2>1, WentOn
<1>7. [[x EXCEPT !.val = @ + n] EXCEPT !.val = @ + m] = [x EXCEPT !.val = @ + (n + m)]
  <2>1. PICK t \in PairType, v \in Nat : x = [type |-> t, val |-> v]
    BY <1>3 DEF Pair
  <2>2. PICK y : y = [x EXCEPT !.val = @ + n]
    OBVIOUS
  <2>3. y = [type |-> t, val |-> v + n] /\ y \in Pair
    BY <2>1, <2>2 DEF Pair
  <2>4. [y EXCEPT !.val = @ + m] = [type |-> t, val |-> (v + n) + m]
    BY <2>3
  <2>5. [x EXCEPT !.val = @ + (n + m)] = [type |-> t, val |-> v + (n + m)]
    BY <2>1
  <2> QED BY <2>2, <2>4, <2>5
<1>8. b \in Seq(Pair) /\ c \in Seq(Pair)
  BY <1>5, <1>6, SpotFacts
<1>9. b[k + 1] = c[k + 1]
  BY <1>4, <1>5, <1>6, <1>7
<1>10. \A i \in 1 .. k + 2 : b[i] = c[i]
  BY <1>4, <1>5, <1>6, <1>9
<1> QED
  BY <1>1, <1>5, <1>6, <1>8, <1>10

\* A first part.
LEMMA UptoFacts ==
  ASSUME NEW p \in Seq(Pair), NEW j \in 1 .. Len(p) + 1
  PROVE  /\ Upto(p, j) \in Seq(Pair) /\ Len(Upto(p, j)) = j - 1
         /\ \A i \in 1 .. j - 1 : Upto(p, j)[i] = p[i]
         /\ \A k \in 1 .. j : Upto(Upto(p, j), k) = Upto(p, k)
<1>1. Len(p) \in Nat /\ j - 1 \in Nat /\ j - 1 <= Len(p)
  OBVIOUS
<1>2. PICK m \in Nat : m = j - 1
  BY <1>1
<1>3. PICK q : q = SubSeq(p, 1, m)
  OBVIOUS
<1>4. q \in Seq(Pair) /\ Len(q) = m /\ \A i \in 1 .. m : q[i] = p[i]
  BY <1>1, <1>2, <1>3
<1>5. ASSUME NEW k \in 1 .. j PROVE SubSeq(q, 1, k - 1) = SubSeq(p, 1, k - 1)
  <2>1. PICK l \in Nat : l = k - 1 /\ l <= m
    BY <1>2
  <2>2. PICK x, y : x = SubSeq(q, 1, l) /\ y = SubSeq(p, 1, l)
    OBVIOUS
  <2>3. /\ x \in Seq(Pair) /\ y \in Seq(Pair) /\ Len(x) = l /\ Len(y) = l
        /\ \A i \in 1 .. l : x[i] = q[i] /\ y[i] = p[i]
    BY <1>1, <1>2, <1>4, <2>1, <2>2
  <2>4. x = y
    BY <1>4, <2>1, <2>3
  <2> QED BY <2>1, <2>2, <2>4
<1> QED
  BY <1>2, <1>3, <1>4, <1>5 DEF Upto

\* The calls that move a point, as the code moves it.
LEMMA Moves ==
  ASSUME NEW p, Spot(p), Len(p) > 1
  PROVE  /\ Append(IncrementTop(Pop(p)), Counter(0)) = Iterated(p, 1)
         /\ Pop(Pop(p)) = Upto(p, Len(p) - 1)
<1>1. PICK k \in Nat : Len(p) = k + 2
  BY LongEnough
<1>2. p \in Seq(Pair) /\ DOMAIN p = 1 .. k + 2
  BY <1>1, SpotFacts
<1>3. PICK x \in Pair : x = p[k + 1]
  BY <1>1, SpotFacts
<1>4. PICK c \in Pair : c = Counter(0)
  <2>1. Counter(0) \in Pair
    BY DEF Counter, Pair, PairType
  <2> QED BY <2>1
<1>5. PICK y \in Pair : y = [x EXCEPT !.val = @ + 1]
  <2>1. [x EXCEPT !.val = @ + 1] \in Pair
    BY DEF Pair
  <2> QED BY <2>1
<1>6. PICK a : a = SubSeq(p, 1, k + 1)
  OBVIOUS
<1>7. /\ a \in Seq(Pair) /\ Len(a) = k + 1 /\ DOMAIN a = 1 .. k + 1
      /\ \A i \in 1 .. k + 1 : a[i] = p[i]
  BY <1>1, <1>2, <1>6
<1>8. Pop(p) = a
  <2>1. Len(p) - 1 = k + 1
    BY <1>1
  <2> QED BY <1>6, <2>1 DEF Pop
<1>9. PICK b : b = [a EXCEPT ![k + 1] = y]
  OBVIOUS
<1>10. /\ b \in Seq(Pair) /\ Len(b) = k + 1 /\ DOMAIN b = 1 .. k + 1 /\ b[k + 1] = y
       /\ \A i \in 1 .. k : b[i] = p[i]
  BY <1>7, <1>9
<1>11. IncrementTop(Pop(p)) = b
  <2>1. a[k + 1] = x
    BY <1>3, <1>7
  <2> QED BY <1>5, <1>7, <1>8, <1>9, <2>1 DEF IncrementTop
<1>12. Append(b, c) = Iterated(p, 1)
  <2>1. PICK d : d = Append(b, c)
    OBVIOUS
  <2>2. /\ d \in Seq(Pair) /\ Len(d) = k + 2 /\ d[k + 2] = c /\ d[k + 1] = y
        /\ \A i \in 1 .. k : d[i] = p[i]
    BY <1>10, <2>1
  <2>3. PICK q : q = Iterated(p, 1)
    OBVIOUS
  <2>4. /\ Spot(q) /\ Len(q) = k + 2 /\ \A i \in 1 .. k : q[i] = p[i]
        /\ q[k + 1] = y /\ q[k + 2] = c
    <3>1. Len(p) - 1 = k + 1 /\ Len(p) - 2 = k /\ 1 \in Nat
      BY <1>1
    <3>2. PICK n \in Nat : n = 1
      OBVIOUS
    <3>3. /\ Spot(q) /\ Len(q) = Len(p) /\ \A i \in 1 .. Len(p) - 2 : q[i] = p[i]
          /\ q[Len(p) - 1] = [p[Len(p) - 1] EXCEPT !.val = @ + n] /\ q[Len(p)] = Counter(0)
      <4>1. q = Iterated(p, n)
        BY <2>3, <3>2
      <4> QED BY <4>1, WentOn
    <3> QED BY <1>1, <1>3, <1>4, <1>5, <3>1, <3>2, <3>3
  <2>5. q \in Seq(Pair)
    BY <2>4, SpotFacts
  <2>6. \A i \in 1 .. k + 2 : d[i] = q[i]
    BY <2>2, <2>4
  <2> QED BY <2>1, <2>2, <2>3, <2>4, <2>5, <2>6
<1>13. Pop(a) = Upto(p, k + 1)
  <2>1. PICK e, f : e = SubSeq(a, 1, k) /\ f = SubSeq(p, 1, k)
    OBVIOUS
  <2>2. /\ e \in Seq(Pair) /\ Len(e) = k /\ f \in Seq(Pair) /\ Len(f) = k
        /\ \A i \in 1 .. k : e[i] = a[i] /\ f[i] = p[i]
    BY <1>1, <1>2, <1>7, <2>1
  <2>3. \A i \in 1 .. k : e[i] = f[i]
    BY <1>7, <2>2
  <2>4. e = f
    BY <2>2, <2>3
  <2>5. Len(a) - 1 = k /\ (k + 1) - 1 = k
    BY <1>7
  <2> QED BY <2>1, <2>4, <2>5 DEF Pop, Upto
<1>14. Len(p) - 1 = k + 1
  BY <1>1
<1> QED
  BY <1>4, <1>8, <1>11, <1>12, <1>13, <1>14

\* Points that agree up to a place have the same first part.
LEMMA PrefixSame ==
  ASSUME NEW p \in Seq(Pair), NEW q \in Seq(Pair), NEW j \in 1 .. Len(p) + 1, j \in 1 .. Len(q) + 1,
         \A i \in 1 .. j - 1 : p[i] = q[i]
  PROVE  Upto(p, j) = Upto(q, j)
<1>1. PICK x, y : x = Upto(p, j) /\ y = Upto(q, j)
  OBVIOUS
<1>2. /\ x \in Seq(Pair) /\ y \in Seq(Pair) /\ Len(x) = j - 1 /\ Len(y) = j - 1
      /\ \A i \in 1 .. j - 1 : x[i] = p[i] /\ y[i] = q[i]
  BY <1>1, UptoFacts
<1>3. \A i \in 1 .. j - 1 : x[i] = y[i]
  BY <1>2
<1> QED
  BY <1>1, <1>2, <1>3

\* The innermost branch is the last one.
LEMMA AroundIs ==
  ASSUME NEW t, NEW p \in Seq(Pair)
  PROVE  IF Places(p, "BRANCH") = {} THEN Around(t, p) = None /\ Open(t, p) = {}
         ELSE \E m \in Places(p, "BRANCH") : /\ \A j \in Places(p, "BRANCH") : j <= m
                                             /\ Around(t, p) = BranchAt(t, p, m)
<1> DEFINE B == Places(p, "BRANCH")
<1>1. CASE B = {}
  BY <1>1 DEF Around, Open
<1>2. CASE B # {}
  <2>1. Len(p) \in Nat /\ B \in SUBSET (0 .. Len(p))
    BY DEF Places
  <2>2. \A j \in B : j \in Nat
    BY <2>1
  <2>3. \E x \in B : \A y \in B : x >= y
    <3> HIDE DEF B
    <3> QED BY <1>2, <2>1, GreatestNatural
  <2>4. PICK m : m = Max(B)
    OBVIOUS
  <2>5. m \in B /\ \A y \in B : m >= y
    <3> HIDE DEF B
    <3> QED BY <2>3, <2>4 DEF Max
  <2>6. Around(t, p) = BranchAt(t, p, m)
    BY <1>2, <2>4 DEF Around
  <2>7. \A y \in B : y <= m
    BY <2>2, <2>5
  <2> HIDE DEF B
  <2> QED BY <1>2, <2>5, <2>6, <2>7 DEF B
<1> QED
  BY <1>1, <1>2

\* The same, for its place in Open.
LEMMA AroundOpen ==
  ASSUME NEW t, NEW p \in Seq(Pair)
  PROVE  /\ Around(t, p) = None \/ Around(t, p) \in Open(t, p)
         /\ Open(t, p) = {} <=> Places(p, "BRANCH") = {}
         /\ Open(t, p) = {} => Around(t, p) = None
BY AroundIs DEF Open

\* Points that agree up to their last branch are in the same branches.
LEMMA SameBlock ==
  ASSUME NEW t, NEW p \in Seq(Pair), NEW q \in Seq(Pair), NEW m \in Nat, m <= Len(p), m <= Len(q),
         \A i \in 1 .. m : p[i] = q[i],
         \A j \in Places(p, "BRANCH") \cup Places(q, "BRANCH") : j <= m
  PROVE  Around(t, q) = Around(t, p) /\ Open(t, q) = Open(t, p)
<1>1. Len(p) \in Nat /\ Len(q) \in Nat
  OBVIOUS
<1>2. Places(p, "BRANCH") = Places(q, "BRANCH")
  BY <1>1 DEF Places
<1>3. ASSUME NEW j \in Places(p, "BRANCH") PROVE BranchAt(t, p, j) = BranchAt(t, q, j)
  <2>1. j \in 1 .. m /\ p[j] = q[j]
    BY <1>1 DEF Places
  <2>2. j - 1 < m /\ j \in 1 .. Len(p) + 1 /\ j \in 1 .. Len(q) + 1
    BY <1>1, <2>1
  <2>3. \A i \in 1 .. j - 1 : p[i] = q[i]
    <3>1. 1 .. j - 1 \subseteq 1 .. m
      BY <2>1, <2>2
    <3> QED BY <3>1
  <2>4. Upto(p, j) = Upto(q, j)
    BY <2>2, <2>3, PrefixSame
  <2> QED BY <2>1, <2>4 DEF BranchAt
<1>4. Open(t, q) = Open(t, p)
  BY <1>2, <1>3 DEF Open
<1>5. Around(t, q) = Around(t, p)
  <2>1. CASE Places(p, "BRANCH") = {}
    BY <1>2, <2>1 DEF Around
  <2>2. CASE Places(p, "BRANCH") # {}
    <3>1. PICK n \in Places(p, "BRANCH") : /\ \A j \in Places(p, "BRANCH") : j <= n
                                           /\ Around(t, p) = BranchAt(t, p, n)
      BY <2>2, AroundIs
    <3>2. PICK l \in Places(q, "BRANCH") : /\ \A j \in Places(q, "BRANCH") : j <= l
                                           /\ Around(t, q) = BranchAt(t, q, l)
      BY <1>2, <2>2, AroundIs
    <3>3. n = l
      BY <1>1, <1>2, <3>1, <3>2 DEF Places
    <3> QED BY <1>3, <3>1, <3>2, <3>3
  <2> QED BY <2>1, <2>2
<1> QED
  BY <1>4, <1>5

\* A branch around p is around the points in it.
LEMMA OpenUpto ==
  ASSUME NEW t, NEW p \in Seq(Pair), NEW j \in 1 .. Len(p) + 1
  PROVE  /\ Open(t, Upto(p, j)) \subseteq Open(t, p)
         /\ Loops(t, Upto(p, j)) \subseteq Loops(t, p)
         /\ \A i \in Places(p, "BRANCH") : i < j => BranchAt(t, p, i) \in Open(t, Upto(p, j))
<1>1. PICK q : q = Upto(p, j)
  OBVIOUS
<1>2. /\ q \in Seq(Pair) /\ Len(q) = j - 1 /\ \A i \in 1 .. j - 1 : q[i] = p[i]
      /\ \A k \in 1 .. j : Upto(q, k) = Upto(p, k)
  BY <1>1, UptoFacts
<1>3. Len(p) \in Nat /\ j \in Nat
  OBVIOUS
<1>4. ASSUME NEW type, NEW i \in Places(q, type) PROVE i \in Places(p, type) /\ i < j
  BY <1>2, <1>3 DEF Places
<1>5. ASSUME NEW type, NEW i \in Places(p, type), i < j PROVE i \in Places(q, type)
  BY <1>2, <1>3, <1>5 DEF Places
<1>6. ASSUME NEW i \in 1 .. j - 1 PROVE BranchAt(t, q, i) = BranchAt(t, p, i)
  BY <1>2, <1>3 DEF BranchAt
<1>7. ASSUME NEW type, NEW i \in Places(q, type) PROVE i \in 1 .. j - 1
  BY <1>2 DEF Places
<1>8. Open(t, q) \subseteq Open(t, p)
  BY <1>4, <1>6, <1>7 DEF Open
<1>9. Loops(t, q) \subseteq Loops(t, p)
  <2>1. ASSUME NEW i \in Places(q, "LOOP") PROVE Upto(q, i) = Upto(p, i) /\ i \in Places(p, "LOOP")
    BY <1>2, <1>3, <1>4, <1>7
  <2> QED BY <2>1 DEF Loops
<1>10. ASSUME NEW i \in Places(p, "BRANCH"), i < j PROVE BranchAt(t, p, i) \in Open(t, q)
  <2>1. i \in Places(q, "BRANCH") /\ i \in 1 .. j - 1
    BY <1>5, <1>7, <1>10
  <2>2. BranchAt(t, q, i) \in Open(t, q)
    BY <2>1 DEF Open
  <2> QED BY <1>6, <2>1, <2>2
<1> QED
  BY <1>1, <1>8, <1>9, <1>10

\* The branch point of a branch around p is in outer branches only.
LEMMA AroundOuter ==
  ASSUME NEW t \in Tid, NEW p \in Seq(Pair), NEW b \in Open(t, p)
  PROVE  /\ b[2] \in Nat /\ b = <<<<t, b[1][2]>>, b[2]>>
         /\ b[1][2] \in Seq(Pair) /\ Len(b[1][2]) < Len(p)
         /\ Around(t, p) # None /\ Around(t, b[1][2]) # Around(t, p)
         /\ Open(t, b[1][2]) \subseteq Open(t, p) /\ Loops(t, b[1][2]) \subseteq Loops(t, p)
<1>1. PICK j \in Places(p, "BRANCH") : b = BranchAt(t, p, j)
  BY DEF Open
<1>2. Len(p) \in Nat /\ j \in 1 .. Len(p) /\ p[j] \in Pair /\ j \in 1 .. Len(p) + 1
  BY DEF Places
<1>3. PICK q : q = Upto(p, j)
  OBVIOUS
<1>4. q \in Seq(Pair) /\ Len(q) = j - 1
  BY <1>2, <1>3, UptoFacts
<1>5. b = <<<<t, q>>, p[j].val>> /\ p[j].val \in Nat
  BY <1>1, <1>2, <1>3 DEF BranchAt, Pair
<1>6. PICK m \in Places(p, "BRANCH") : /\ \A i \in Places(p, "BRANCH") : i <= m
                                       /\ Around(t, p) = BranchAt(t, p, m)
  BY AroundIs
<1>7. m \in 1 .. Len(p) /\ m \in 1 .. Len(p) + 1 /\ j <= m
  BY <1>2, <1>6 DEF Places
<1>8. PICK x : x = Upto(p, m)
  OBVIOUS
<1>9. Len(x) = m - 1 /\ Around(t, p) = <<<<t, x>>, p[m].val>>
  BY <1>6, <1>7, <1>8, UptoFacts DEF BranchAt
<1>10. Around(t, p) # None
  <2>1. p[m] \in Pair /\ x \in Seq(Pair)
    BY <1>7, <1>8, UptoFacts
  <2>2. p[m].val \in Nat
    BY <2>1 DEF Pair
  <2> QED BY <1>9, <2>1, <2>2, GraphAssumption
<1>11. Around(t, q) # Around(t, p)
  <2>1. CASE Places(q, "BRANCH") = {}
    <3>1. Around(t, q) = None /\ Open(t, q) = {}
      BY <1>4, <2>1, AroundIs
    <3> QED BY <3>1, <1>10
  <2>2. CASE Places(q, "BRANCH") # {}
    <3>1. PICK n \in Places(q, "BRANCH") : Around(t, q) = BranchAt(t, q, n)
      BY <1>4, <2>2, AroundIs
    <3>2. n \in 1 .. j - 1 /\ n \in 1 .. Len(q) + 1
      BY <1>2, <1>4, <3>1 DEF Places
    <3>3. PICK y : y = Upto(q, n)
      OBVIOUS
    <3>4. Len(y) = n - 1 /\ Around(t, q)[1][2] = y
      BY <1>4, <3>1, <3>2, <3>3, UptoFacts DEF BranchAt
    <3>5. Around(t, p)[1][2] = x
      BY <1>9
    <3> QED BY <1>2, <1>7, <1>9, <3>2, <3>4, <3>5
  <2> QED BY <2>1, <2>2
<1> QED
  <2>1. b[1][2] = q /\ b[2] = p[j].val
    BY <1>5
  <2>2. Open(t, q) \subseteq Open(t, p) /\ Loops(t, q) \subseteq Loops(t, p)
    BY <1>2, <1>3, OpenUpto
  <2> QED BY <1>2, <1>4, <1>5, <1>10, <1>11, <2>1, <2>2

\* What comes later.
LEMMA PassedOn ==
  ASSUME NEW x \in Point, NEW p \in Point, NEW q \in Point, Passed(x, p), Passed(p, q)
  PROVE  Passed(x, q)
<1>1. /\ Len(x) \in Nat /\ Len(p) \in Nat /\ Len(q) \in Nat
      /\ \A i \in 1 .. Len(x) : x[i].val \in Nat
      /\ \A i \in 1 .. Len(p) : p[i].val \in Nat
      /\ \A i \in 1 .. Len(q) : q[i].val \in Nat
  <2>1. ASSUME NEW r \in Point PROVE Len(r) \in Nat /\ \A i \in 1 .. Len(r) : r[i].val \in Nat
    BY PointFacts
  <2> QED BY <2>1
<1>2. PICK j \in 1 .. Len(p) : /\ \A i \in 1 .. j - 1 : i <= Len(x) /\ x[i] = p[i]
                               /\ j <= Len(x) => x[j].val < p[j].val
  BY DEF Passed
<1>3. PICK k \in 1 .. Len(q) : /\ \A i \in 1 .. k - 1 : i <= Len(p) /\ p[i] = q[i]
                               /\ k <= Len(p) => p[k].val < q[k].val
  BY DEF Passed
<1>4. CASE k < j
  <2>1. k \in 1 .. j - 1 /\ k <= Len(p)
    BY <1>1, <1>4
  <2>2. k <= Len(x) /\ x[k] = p[k]
    BY <1>2, <2>1
  <2>3. ASSUME NEW i \in 1 .. k - 1 PROVE i <= Len(x) /\ x[i] = q[i]
    <3>1. i \in 1 .. j - 1
      BY <1>4
    <3> QED BY <1>2, <1>3, <3>1
  <2> QED BY <1>3, <2>1, <2>2, <2>3 DEF Passed
<1>5. CASE k = j
  <2>1. p[j].val < q[j].val /\ j \in 1 .. Len(q)
    BY <1>3, <1>5
  <2>2. ASSUME NEW i \in 1 .. j - 1 PROVE i <= Len(x) /\ x[i] = q[i]
    BY <1>2, <1>3, <1>5
  <2>3. j <= Len(x) => x[j].val < q[j].val
    <3>1. SUFFICES ASSUME j <= Len(x) PROVE x[j].val < q[j].val
      OBVIOUS
    <3>2. x[j].val \in Nat /\ p[j].val \in Nat /\ q[j].val \in Nat
      BY <1>1, <2>1, <3>1
    <3>3. x[j].val < p[j].val
      BY <1>2, <3>1
    <3>4. PICK a \in Nat, b \in Nat, c \in Nat : a = x[j].val /\ b = p[j].val /\ c = q[j].val
      BY <3>2
    <3>5. a < b /\ b < c
      BY <2>1, <3>3, <3>4
    <3>6. a < c
      BY <3>5
    <3> QED BY <3>4, <3>6
  <2> QED BY <2>1, <2>2, <2>3 DEF Passed
<1>6. CASE j < k
  <2>1. j \in 1 .. k - 1 /\ j \in 1 .. Len(q)
    BY <1>1, <1>6
  <2>2. p[j] = q[j]
    BY <1>3, <2>1
  <2>3. ASSUME NEW i \in 1 .. j - 1 PROVE i <= Len(x) /\ x[i] = q[i]
    <3>1. i \in 1 .. k - 1
      BY <1>6
    <3> QED BY <1>2, <1>3, <3>1
  <2> QED BY <1>2, <2>1, <2>2, <2>3 DEF Passed
<1>7. j \in Nat /\ k \in Nat
  BY <1>1
<1> QED
  BY <1>4, <1>5, <1>6, <1>7

LEMMA NotPassed ==
  ASSUME NEW p \in Point
  PROVE  ~Passed(p, p)
<1>1. Len(p) \in Nat /\ \A i \in 1 .. Len(p) : p[i].val \in Nat
  BY PointFacts
<1> QED
  BY <1>1 DEF Passed

\* Counted up, p or a point p is in.
LEMMA PassedUp ==
  ASSUME NEW p, Spot(p), NEW j \in 2 .. Len(p) + 1, Spot(Upto(p, j))
  PROVE  Passed(p, IncrementTop(Upto(p, j)))
<1>1. PICK q, r : q = Upto(p, j) /\ r = IncrementTop(q)
  OBVIOUS
<1>2. p \in Seq(Pair) /\ Len(p) \in Nat /\ j \in 1 .. Len(p) + 1
  BY SpotFacts
<1>3. Len(q) = j - 1 /\ \A i \in 1 .. j - 1 : q[i] = p[i]
  BY <1>1, <1>2, UptoFacts
<1>4. Spot(q) /\ Spot(r) /\ Len(r) = Len(q) /\ \A i \in 1 .. Len(q) - 1 : r[i] = q[i]
  BY <1>1, Counted
<1>5. r[Len(q)].val = q[Len(q)].val + 1
  BY <1>1, <1>4, Counted
<1>6. PICK k \in 1 .. Len(p) : k = j - 1
  BY <1>2
<1>7. p[k] = q[k] /\ p[k].val \in Nat
  BY <1>2, <1>3, <1>6, SpotFacts
<1>8. k \in 1 .. Len(r) /\ p[k].val < r[k].val
  BY <1>3, <1>4, <1>5, <1>6, <1>7
<1>9. \A i \in 1 .. k - 1 : i <= Len(p) /\ p[i] = r[i]
  BY <1>2, <1>3, <1>4, <1>6
<1> QED
  BY <1>1, <1>6, <1>8, <1>9 DEF Passed

\* Points with the same loops around them.
LEMMA SameLoops ==
  ASSUME NEW t, NEW p \in Seq(Pair), NEW q \in Seq(Pair), NEW m \in Nat, m <= Len(p), m <= Len(q),
         \A i \in 1 .. m : p[i] = q[i],
         Places(p, "LOOP") = Places(q, "LOOP"), \A j \in Places(p, "LOOP") : j <= m + 1
  PROVE  Loops(t, q) = Loops(t, p)
<1>1. ASSUME NEW j \in Places(p, "LOOP") PROVE Upto(p, j) = Upto(q, j)
  <2>1. j \in 1 .. Len(p) + 1 /\ j \in 1 .. Len(q) + 1 /\ 1 .. j - 1 \subseteq 1 .. m
    BY DEF Places
  <2>2. \A i \in 1 .. j - 1 : p[i] = q[i]
    BY <2>1
  <2> QED BY <2>1, <2>2, PrefixSame
<1> QED
  BY <1>1 DEF Loops

LEMMA MovedUp ==
  ASSUME NEW t, NEW p, Spot(p), NEW q, q = IncrementTop(p)
  PROVE  /\ Spot(q) /\ Around(t, q) = Around(t, p) /\ Open(t, q) = Open(t, p)
         /\ Loops(t, q) = Loops(t, p) /\ Passed(p, q)
<1>1. /\ Spot(q) /\ Len(q) = Len(p) /\ \A i \in 1 .. Len(p) - 1 : q[i] = p[i]
      /\ q[Len(p)].val = p[Len(p)].val + 1
  BY Counted
<1>2. p \in Seq(Pair) /\ q \in Seq(Pair) /\ p[Len(p)].type = "COUNTER" /\ q[Len(p)].type = "COUNTER"
  BY <1>1, SpotFacts
<1>3. PICK m \in Nat : Len(p) = m + 1
  <2>1. PICK n \in Nat \ {0} : n = Len(p)
    BY SpotFacts
  <2>2. n - 1 \in Nat /\ n = (n - 1) + 1
    BY <2>1
  <2> QED BY <2>1, <2>2
<1>4. m <= Len(p) /\ m <= Len(q) /\ \A i \in 1 .. m : p[i] = q[i]
  BY <1>1, <1>3
<1>5. \A type \in {"BRANCH", "LOOP"} : Places(p, type) = Places(q, type) /\ \A j \in Places(p, type) : j <= m
  <2>1. ASSUME NEW type \in {"BRANCH", "LOOP"}, NEW j \in 1 .. m + 1
        PROVE  /\ p[j].type = type <=> q[j].type = type
               /\ p[j].type = type => j <= m
    <3>1. CASE j = m + 1
      BY <1>1, <1>2, <1>3, <3>1
    <3>2. CASE j \in 1 .. m
      BY <1>4, <3>2
    <3> QED BY <3>1, <3>2
  <2> QED BY <1>1, <1>3, <2>1 DEF Places
<1>6. Around(t, q) = Around(t, p) /\ Open(t, q) = Open(t, p)
  <2>1. \A j \in Places(p, "BRANCH") \cup Places(q, "BRANCH") : j <= m
    BY <1>5
  <2> QED BY <1>2, <1>4, <2>1, SameBlock
<1>7. Loops(t, q) = Loops(t, p)
  <2>1. Places(p, "LOOP") = Places(q, "LOOP") /\ \A j \in Places(p, "LOOP") : j <= m + 1
    BY <1>5 DEF Places
  <2> QED BY <1>2, <1>4, <2>1, SameLoops
<1>8. Passed(p, q)
  <2>1. PICK n \in 1 .. Len(q) : n = Len(p)
    BY <1>1, SpotFacts
  <2>2. p[n].val \in Nat /\ q[n].val = p[n].val + 1
    BY <1>1, <2>1, SpotFacts
  <2>3. \A i \in 1 .. n - 1 : i <= Len(p) /\ p[i] = q[i]
    BY <1>1, <2>1
  <2> QED BY <2>1, <2>2, <2>3 DEF Passed
<1> QED
  BY <1>1, <1>6, <1>7, <1>8

\* On to a later iteration.
LEMMA MovedOn ==
  ASSUME NEW t, NEW p, Spot(p), Len(p) > 1, p[Len(p) - 1].type = "LOOP", NEW n \in Nat, n > 0,
         NEW q, q = Iterated(p, n)
  PROVE  /\ Spot(q) /\ Around(t, q) = Around(t, p) /\ Open(t, q) = Open(t, p)
         /\ Loops(t, q) = Loops(t, p) /\ Passed(p, q)
<1>1. PICK m \in Nat, e \in Nat, f \in Nat : Len(p) = f /\ f = m + 2 /\ e = m + 1
  <2>1. PICK m \in Nat : Len(p) = m + 2
    BY LongEnough
  <2>2. m + 1 \in Nat /\ m + 2 \in Nat
    OBVIOUS
  <2> QED BY <2>1, <2>2
<1>2. /\ p \in Seq(Pair) /\ p[f].type = "COUNTER" /\ p[e].type = "LOOP"
      /\ p[e] \in Pair /\ p[e].val \in Nat
  <2>1. Len(p) - 1 = e /\ e \in 1 .. Len(p)
    BY <1>1
  <2> QED BY <1>1, <2>1, SpotFacts
<1>3. /\ Spot(q) /\ Len(q) = f /\ \A i \in 1 .. m : q[i] = p[i]
      /\ q[e] = [p[e] EXCEPT !.val = @ + n] /\ q[f] = Counter(0)
  <2>1. Len(p) - 1 = e /\ Len(p) - 2 = m
    BY <1>1
  <2> QED BY <1>1, <2>1, WentOn
<1>4. q \in Seq(Pair) /\ q[f].type = "COUNTER"
  BY <1>3, SpotFacts
<1>5. q[e].type = "LOOP" /\ q[e].val = p[e].val + n
  BY <1>2, <1>3 DEF Pair
<1>6. m <= Len(p) /\ m <= Len(q) /\ \A i \in 1 .. m : p[i] = q[i]
  BY <1>1, <1>3
<1>7. ASSUME NEW j \in 1 .. f
      PROVE  /\ p[j].type = q[j].type
             /\ p[j].type = "BRANCH" => j <= m
             /\ p[j].type = "LOOP" => j <= m + 1
  <2>1. CASE j = e
    BY <1>1, <1>2, <1>5, <2>1
  <2>2. CASE j = f
    BY <1>2, <1>4, <2>2
  <2>3. CASE j # e /\ j # f
    <3>1. j \in 1 .. m /\ j <= m /\ j <= m + 1
      BY <1>1, <2>3
    <3> QED BY <1>6, <3>1
  <2> QED BY <2>1, <2>2, <2>3
<1>8. Around(t, q) = Around(t, p) /\ Open(t, q) = Open(t, p)
  <2>1. \A j \in Places(p, "BRANCH") \cup Places(q, "BRANCH") : j <= m
    BY <1>1, <1>3, <1>7 DEF Places
  <2> QED BY <1>2, <1>4, <1>6, <2>1, SameBlock
<1>9. Loops(t, q) = Loops(t, p)
  <2>1. Places(p, "LOOP") = Places(q, "LOOP")
    BY <1>1, <1>3, <1>7 DEF Places
  <2>2. \A j \in Places(p, "LOOP") : j <= m + 1
    BY <1>1, <1>7 DEF Places
  <2> QED BY <1>2, <1>4, <1>6, <2>1, <2>2, SameLoops
<1>10. Passed(p, q)
  <2>1. PICK k \in 1 .. Len(q) : k = e
    BY <1>1, <1>3
  <2>2. p[k].val < q[k].val
    BY <1>2, <1>5, <2>1
  <2>3. \A i \in 1 .. k - 1 : i <= Len(p) /\ p[i] = q[i]
    BY <1>1, <1>6, <2>1
  <2> QED BY <2>1, <2>2, <2>3 DEF Passed
<1> QED
  BY <1>3, <1>8, <1>9, <1>10

LEMMA Pushed ==
  ASSUME NEW p, Spot(p), NEW a \in Pair, NEW c \in Pair, c.type = "COUNTER",
         NEW type \in {"BRANCH", "LOOP"}
  PROVE  LET q == Under(p, a, c) IN
         /\ Spot(q) /\ Len(q) = Len(p) + 2 /\ p # q /\ Passed(p, q)
         /\ q[Len(p) + 1] = a /\ Upto(q, Len(p) + 1) = p
         /\ \A j \in Places(p, type) : Upto(q, j) = Upto(p, j) /\ q[j] = p[j]
         /\ Places(q, type) = Places(p, type) \cup (IF a.type = type THEN {Len(p) + 1} ELSE {})
<1> DEFINE q == Under(p, a, c)
<1>1. PICK m \in Nat, e \in Nat, f \in Nat : Len(p) = m /\ e = m + 1 /\ f = m + 2
  <2>1. PICK m \in Nat : Len(p) = m
    BY SpotFacts
  <2>2. m + 1 \in Nat /\ m + 2 \in Nat
    OBVIOUS
  <2> QED BY <2>1, <2>2
<1>2. p \in Seq(Pair)
  BY SpotFacts
<1>14. /\ Spot(q) /\ Len(q) = Len(p) + 2 /\ \A i \in 1 .. Len(p) : q[i] = p[i]
       /\ q[Len(p) + 1] = a /\ q[Len(p) + 2] = c
  BY WentIn
<1> HIDE DEF q
<1>3. Spot(q) /\ Len(q) = f /\ \A i \in 1 .. m : q[i] = p[i]
  BY <1>1, <1>14
<1>4. q[e] = a /\ q[f] = c
  BY <1>1, <1>14
<1>5. q \in Seq(Pair)
  BY <1>3, SpotFacts
<1>6. Upto(q, e) = p
  <2>1. e \in 1 .. Len(q) + 1 /\ e - 1 = m
    BY <1>1, <1>3
  <2>2. PICK x : x = Upto(q, e)
    OBVIOUS
  <2>3. x \in Seq(Pair) /\ Len(x) = m /\ \A i \in 1 .. m : x[i] = q[i]
    BY <1>5, <2>1, <2>2, UptoFacts
  <2>4. Len(x) = Len(p) /\ \A i \in 1 .. Len(p) : x[i] = p[i]
    BY <1>1, <1>3, <2>3
  <2>5. x = p
    BY <1>2, <2>3, <2>4, SeqEqual
  <2> QED BY <2>2, <2>5
<1>7. ASSUME NEW j \in 1 .. m PROVE Upto(q, j) = Upto(p, j) /\ q[j] = p[j]
  <2>1. /\ j \in 1 .. Len(p) + 1 /\ j \in 1 .. Len(q) + 1 /\ 1 .. j - 1 \subseteq 1 .. m
    BY <1>1, <1>3
  <2>2. \A i \in 1 .. j - 1 : p[i] = q[i]
    BY <1>3, <2>1
  <2> QED BY <1>2, <1>3, <1>5, <2>1, <2>2, PrefixSame
<1>8. Places(q, type) = Places(p, type) \cup (IF a.type = type THEN {e} ELSE {})
  <2>1. \A j \in 1 .. f : j \in 1 .. m \/ j = e \/ j = f
    BY <1>1
  <2>2. 1 .. Len(p) = 1 .. m /\ 1 .. Len(q) = 1 .. f /\ 1 .. m \subseteq 1 .. f /\ e \in 1 .. f
    BY <1>1, <1>3
  <2> QED BY <1>3, <1>4, <2>1, <2>2 DEF Places
<1>9. Passed(p, q)
  <2>1. PICK k \in 1 .. Len(q) : k = e
    BY <1>1, <1>3
  <2>2. ~(k <= Len(p)) /\ \A i \in 1 .. k - 1 : i <= Len(p) /\ p[i] = q[i]
    BY <1>1, <1>3, <2>1
  <2> QED BY <2>2 DEF Passed
<1>10. \A j \in Places(p, type) : j \in 1 .. m
  BY <1>1 DEF Places
<1>11. p # q /\ Len(q) = Len(p) + 2
  BY <1>1, <1>3
<1>12. Len(p) + 1 = e
  BY <1>1
<1>13. /\ Spot(q) /\ Len(q) = Len(p) + 2 /\ p # q /\ Passed(p, q)
       /\ q[Len(p) + 1] = a /\ Upto(q, Len(p) + 1) = p
       /\ \A j \in Places(p, type) : Upto(q, j) = Upto(p, j) /\ q[j] = p[j]
       /\ Places(q, type) = Places(p, type) \cup (IF a.type = type THEN {Len(p) + 1} ELSE {})
  BY <1>3, <1>4, <1>6, <1>7, <1>8, <1>9, <1>10, <1>11, <1>12
<1> QED
  BY <1>13 DEF q

\* Into a body.
LEMMA MovedIn ==
  ASSUME NEW t, NEW p, Spot(p), NEW d \in Nat, NEW q, q = IntoBranch(p, d)
  PROVE  /\ Spot(q) /\ Around(t, q) = <<<<t, p>>, d>> /\ Open(t, q) = Open(t, p) \cup {<<<<t, p>>, d>>}
         /\ Loops(t, q) = Loops(t, p) /\ Passed(p, q) /\ Len(q) = Len(p) + 2
         /\ q[Len(p) + 1].type = "BRANCH" /\ Upto(q, Len(p) + 1) = p /\ p # q
<1>1. PICK b \in Pair, c \in Pair : /\ b = Branch(d) /\ b.type = "BRANCH" /\ b.val = d
                                    /\ c = Counter(0) /\ c.type = "COUNTER"
  <2>1. Branch(d) \in Pair /\ Branch(d).type = "BRANCH" /\ Branch(d).val = d
    BY DEF Branch, Pair, PairType
  <2>2. Counter(0) \in Pair /\ Counter(0).type = "COUNTER"
    BY DEF Counter, Pair, PairType
  <2> QED BY <2>1, <2>2
<1>2. q = Under(p, b, c)
  BY <1>1 DEF IntoBranch, Under
<1>9. c.type = "COUNTER"
  BY <1>1
<1>3. PICK e \in Nat : e = Len(p) + 1
  BY SpotFacts
<1>4. /\ Spot(q) /\ Len(q) = Len(p) + 2 /\ p # q /\ Passed(p, q)
      /\ q[e] = b /\ Upto(q, e) = p
      /\ \A j \in Places(p, "BRANCH") : Upto(q, j) = Upto(p, j) /\ q[j] = p[j]
      /\ Places(q, "BRANCH") = Places(p, "BRANCH") \cup {e}
  <2>1. PICK type \in {"BRANCH", "LOOP"} : type = "BRANCH"
    OBVIOUS
  <2>2. /\ Spot(q) /\ Len(q) = Len(p) + 2 /\ p # q /\ Passed(p, q)
        /\ q[Len(p) + 1] = b /\ Upto(q, Len(p) + 1) = p
        /\ \A j \in Places(p, type) : Upto(q, j) = Upto(p, j) /\ q[j] = p[j]
        /\ Places(q, type) = Places(p, type) \cup (IF b.type = type THEN {Len(p) + 1} ELSE {})
    BY <1>2, <1>9, Pushed
  <2> QED BY <1>1, <1>3, <2>1, <2>2
<1>5. /\ \A j \in Places(p, "LOOP") : Upto(q, j) = Upto(p, j)
      /\ Places(q, "LOOP") = Places(p, "LOOP")
  <2>1. PICK type \in {"BRANCH", "LOOP"} : type = "LOOP"
    OBVIOUS
  <2>2. /\ \A j \in Places(p, type) : Upto(q, j) = Upto(p, j) /\ q[j] = p[j]
        /\ Places(q, type) = Places(p, type) \cup (IF b.type = type THEN {Len(p) + 1} ELSE {})
    BY <1>2, <1>9, Pushed
  <2> QED BY <1>1, <2>1, <2>2
<1>6. BranchAt(t, q, e) = <<<<t, p>>, d>>
  BY <1>1, <1>4 DEF BranchAt
<1>7. Open(t, q) = Open(t, p) \cup {<<<<t, p>>, d>>}
  <2>1. \A j \in Places(p, "BRANCH") : BranchAt(t, q, j) = BranchAt(t, p, j)
    BY <1>4 DEF BranchAt
  <2>2. ASSUME NEW x PROVE x \in Open(t, q) <=> x \in Open(t, p) \/ x = BranchAt(t, q, e)
    BY <1>4, <2>1 DEF Open
  <2> QED BY <1>6, <2>2
<1>8. Around(t, q) = <<<<t, p>>, d>>
  <2>1. q \in Seq(Pair) /\ Places(q, "BRANCH") # {}
    BY <1>4, SpotFacts
  <2>2. PICK n \in Places(q, "BRANCH") : /\ \A j \in Places(q, "BRANCH") : j <= n
                                         /\ Around(t, q) = BranchAt(t, q, n)
    BY <2>1, AroundIs
  <2>3. n = e
    <3>1. \A j \in Places(p, "BRANCH") : j \in Nat /\ j < e
      BY <1>3, SpotFacts DEF Places
    <3>2. n = e \/ n \in Places(p, "BRANCH")
      BY <1>4
    <3>3. e <= n
      BY <1>4, <2>2
    <3> QED BY <3>1, <3>2, <3>3
  <2> QED BY <1>6, <2>2, <2>3
<1>10. Loops(t, q) = Loops(t, p)
  BY <1>5 DEF Loops
<1> QED
  BY <1>1, <1>3, <1>4, <1>7, <1>8, <1>10

LEMMA InsideBranch ==
  ASSUME NEW t, NEW p, Spot(p), NEW d \in Nat
  PROVE  /\ Spot(IntoBranch(p, d)) /\ Around(t, IntoBranch(p, d)) = <<<<t, p>>, d>>
         /\ Open(t, IntoBranch(p, d)) = Open(t, p) \cup {<<<<t, p>>, d>>}
         /\ Loops(t, IntoBranch(p, d)) = Loops(t, p) /\ Passed(p, IntoBranch(p, d))
<1>1. PICK q : q = IntoBranch(p, d)
  OBVIOUS
<1>2. /\ Spot(q) /\ Around(t, q) = <<<<t, p>>, d>> /\ Open(t, q) = Open(t, p) \cup {<<<<t, p>>, d>>}
      /\ Loops(t, q) = Loops(t, p) /\ Passed(p, q)
  BY <1>1, MovedIn
<1> QED
  BY <1>1, <1>2

\* Into a loop.
LEMMA MovedLoop ==
  ASSUME NEW t, NEW p, Spot(p), NEW q, q = InLoop(p)
  PROVE  /\ Spot(q) /\ Around(t, q) = Around(t, p) /\ Open(t, q) = Open(t, p)
         /\ Loops(t, q) = Loops(t, p) \cup {<<t, p>>} /\ Passed(p, q)
         /\ q[Len(q)].val = 0 /\ p # q
<1>1. PICK b \in Pair, c \in Pair : /\ b = Loop(0) /\ b.type = "LOOP"
                                    /\ c = Counter(0) /\ c.type = "COUNTER" /\ c.val = 0
  <2>1. Loop(0) \in Pair /\ Loop(0).type = "LOOP"
    BY DEF Loop, Pair, PairType
  <2>2. Counter(0) \in Pair /\ Counter(0).type = "COUNTER" /\ Counter(0).val = 0
    BY DEF Counter, Pair, PairType
  <2> QED BY <2>1, <2>2
<1>2. q = Under(p, b, c)
  BY <1>1 DEF InLoop, Under
<1>3. PICK e \in Nat : e = Len(p) + 1
  BY SpotFacts
<1>4. /\ Spot(q) /\ Len(q) = Len(p) + 2 /\ p # q /\ Passed(p, q)
      /\ q[e] = b /\ Upto(q, e) = p
      /\ \A j \in Places(p, "LOOP") : Upto(q, j) = Upto(p, j) /\ q[j] = p[j]
      /\ Places(q, "LOOP") = Places(p, "LOOP") \cup {e}
  <2>1. PICK type \in {"BRANCH", "LOOP"} : type = "LOOP"
    OBVIOUS
  <2>2. /\ Spot(q) /\ Len(q) = Len(p) + 2 /\ p # q /\ Passed(p, q)
        /\ q[Len(p) + 1] = b /\ Upto(q, Len(p) + 1) = p
        /\ \A j \in Places(p, type) : Upto(q, j) = Upto(p, j) /\ q[j] = p[j]
        /\ Places(q, type) = Places(p, type) \cup (IF b.type = type THEN {Len(p) + 1} ELSE {})
    BY <1>1, <1>2, Pushed
  <2> QED BY <1>1, <1>3, <2>1, <2>2
<1>5. /\ \A j \in Places(p, "BRANCH") : Upto(q, j) = Upto(p, j) /\ q[j] = p[j]
      /\ Places(q, "BRANCH") = Places(p, "BRANCH")
  <2>1. PICK type \in {"BRANCH", "LOOP"} : type = "BRANCH"
    OBVIOUS
  <2>2. /\ \A j \in Places(p, type) : Upto(q, j) = Upto(p, j) /\ q[j] = p[j]
        /\ Places(q, type) = Places(p, type) \cup (IF b.type = type THEN {Len(p) + 1} ELSE {})
    BY <1>1, <1>2, Pushed
  <2> QED BY <1>1, <2>1, <2>2
<1>6. Loops(t, q) = Loops(t, p) \cup {<<t, p>>}
  BY <1>4 DEF Loops
<1>7. \A j \in Places(p, "BRANCH") : BranchAt(t, q, j) = BranchAt(t, p, j)
  BY <1>5 DEF BranchAt
<1>8. Open(t, q) = Open(t, p)
  BY <1>5, <1>7 DEF Open
<1>9. Around(t, q) = Around(t, p)
  <2>1. CASE Places(p, "BRANCH") = {}
    BY <1>5, <2>1 DEF Around
  <2>2. CASE Places(p, "BRANCH") # {}
    <3>1. Max(Places(p, "BRANCH")) \in Places(p, "BRANCH")
      <4>1. p \in Seq(Pair)
        BY SpotFacts
      <4>2. PICK m : m = Max(Places(p, "BRANCH"))
        OBVIOUS
      <4>3. \E x \in Places(p, "BRANCH") : \A y \in Places(p, "BRANCH") : x >= y
        <5>1. PICK x \in Places(p, "BRANCH") : \A y \in Places(p, "BRANCH") : y <= x
          BY <2>2, <4>1, AroundIs
        <5>2. \A y \in Places(p, "BRANCH") : y \in Nat
          BY SpotFacts DEF Places
        <5> QED BY <5>1, <5>2
      <4> QED BY <4>3 DEF Max
    <3> QED BY <1>5, <1>7, <2>2, <3>1 DEF Around
  <2> QED BY <2>1, <2>2
<1>10. q[Len(q)].val = 0
  <2>1. q[Len(p) + 2] = c
    BY <1>1, <1>2, WentIn
  <2> QED BY <1>1, <1>4, <2>1
<1> QED
  BY <1>4, <1>6, <1>8, <1>9, <1>10

\* Out of a body.
LEMMA MovedOut ==
  ASSUME NEW t \in Tid, NEW p, Spot(p), Len(p) > 2, p[Len(p) - 1].type = "BRANCH",
         NEW q, q = Upto(p, Len(p) - 1)
  PROVE  /\ Around(t, p) = <<<<t, q>>, p[Len(p) - 1].val>> /\ Around(t, p) \in Open(t, p)
         /\ Open(t, q) \subseteq Open(t, p) /\ Loops(t, q) \subseteq Loops(t, p)
         /\ Spot(q) => Passed(p, IncrementTop(q))
<1>1. PICK e \in 2 .. Len(p) : e = Len(p) - 1
  BY SpotFacts
<1>2. p \in Seq(Pair) /\ e \in 1 .. Len(p) + 1 /\ e \in 2 .. Len(p) + 1 /\ p[Len(p)].type = "COUNTER"
  BY SpotFacts
<1>3. e \in Places(p, "BRANCH") /\ \A j \in Places(p, "BRANCH") : j <= e
  <2>1. \A j \in Places(p, "BRANCH") : j \in 1 .. Len(p) /\ j # Len(p)
    BY <1>2 DEF Places
  <2> QED BY <1>1, <2>1 DEF Places
<1>4. Around(t, p) = BranchAt(t, p, e)
  <2>1. PICK m \in Places(p, "BRANCH") : /\ \A j \in Places(p, "BRANCH") : j <= m
                                         /\ Around(t, p) = BranchAt(t, p, m)
    BY <1>2, <1>3, AroundIs
  <2>2. m = e
    BY <1>1, <1>3, <2>1 DEF Places
  <2> QED BY <2>1, <2>2
<1>5. Spot(q) => Passed(p, IncrementTop(q))
  BY <1>1, <1>2, PassedUp
<1>6. Open(t, q) \subseteq Open(t, p) /\ Loops(t, q) \subseteq Loops(t, p)
  BY <1>1, <1>2, OpenUpto
<1>7. Around(t, p) \in Open(t, p)
  BY <1>3, <1>4 DEF Open
<1> QED
  BY <1>1, <1>4, <1>5, <1>6, <1>7 DEF BranchAt

\* The branches left on the way out of a loop.
Outside(t, p, m, q) == q = p \/ \E j \in Places(p, "BRANCH") : m < j /\ q = Upto(p, j)
Within(q, m) == {i \in Places(q, "BRANCH") : m < i}

Climbs(table, g, t, p, N) ==
  /\ \A b \in Open(t, p) : table[b[1]].branch = Around(t, b[1][2])
  /\ g[0] = Around(t, p)
  /\ \A i \in 1 .. N : g[i - 1] \in Open(t, p) => g[i] = table[g[i - 1][1]].branch

GetsOut(g, t, p, m, N) ==
  /\ g[N] = Around(t, Upto(p, m))
  /\ \A i \in 0 .. N - 1 : g[i] \in Open(t, p)
  /\ g[N] # Around(t, p) => \E b \in Open(t, p) : g[N] = Around(t, b[1][2])

LEMMA ExitChain ==
  ASSUME NEW t \in Tid, NEW p, Spot(p), NEW m \in Places(p, "LOOP"), m > 1,
         NEW N \in Nat, N = Cardinality(Within(p, m)), NEW table, NEW g,
         Climbs(table, g, t, p, N)
  PROVE  GetsOut(g, t, p, m, N)
<1> USE DEF Climbs, GetsOut
<1>1. p \in Seq(Pair) /\ Len(p) \in Nat /\ m \in 1 .. Len(p) /\ p[m].type = "LOOP"
  BY SpotFacts DEF Places
<1>2. IsFiniteSet(Within(p, m))
  <2>1. Within(p, m) \subseteq 1 .. Len(p)
    BY DEF Within, Places
  <2>2. IsFiniteSet(1 .. Len(p))
    BY <1>1, FS_Interval
  <2> QED BY <2>1, <2>2, FS_Subset
<1> DEFINE Good(n) == \E q : /\ Outside(t, p, m, q) /\ g[n] = Around(t, q)
                             /\ IsFiniteSet(Within(q, m)) /\ Cardinality(Within(q, m)) = N - n
           Open1(n) == n < N => g[n] \in Open(t, p)
           Out(n) == n > 0 => \E b \in Open(t, p) : g[n] = Around(t, b[1][2])
<1>3. ASSUME NEW q, Outside(t, p, m, q)
      PROVE  /\ q \in Seq(Pair) /\ Len(q) >= m
             /\ \A i \in 1 .. m : q[i] = p[i]
             /\ \A k \in Places(q, "BRANCH") : /\ k \in Places(p, "BRANCH") /\ k \in 1 .. Len(q)
                                               /\ Upto(q, k) = Upto(p, k) /\ BranchAt(t, q, k) = BranchAt(t, p, k)
  <2>1. CASE q = p
    BY <1>1, <2>1 DEF Places
  <2>2. CASE \E j \in Places(p, "BRANCH") : m < j /\ q = Upto(p, j)
    <3>1. PICK j \in Places(p, "BRANCH") : m < j /\ q = Upto(p, j)
      BY <2>2
    <3>2. j \in 1 .. Len(p) + 1 /\ j \in Nat
      BY <1>1 DEF Places
    <3>3. /\ q \in Seq(Pair) /\ Len(q) = j - 1 /\ \A i \in 1 .. j - 1 : q[i] = p[i]
          /\ \A k \in 1 .. j : Upto(q, k) = Upto(p, k)
      BY <1>1, <3>1, <3>2, UptoFacts
    <3>4. Len(q) >= m /\ \A i \in 1 .. m : q[i] = p[i]
      BY <1>1, <3>1, <3>2, <3>3
    <3>5. ASSUME NEW k \in Places(q, "BRANCH")
          PROVE  /\ k \in Places(p, "BRANCH") /\ k \in 1 .. Len(q) /\ Upto(q, k) = Upto(p, k)
                 /\ BranchAt(t, q, k) = BranchAt(t, p, k)
      <4>1. k \in 1 .. j - 1 /\ k \in 1 .. Len(q) /\ q[k].type = "BRANCH"
        BY <3>3 DEF Places
      <4>2. k \in 1 .. j /\ k \in 1 .. Len(p) /\ q[k] = p[k]
        BY <3>2, <3>3, <4>1
      <4>3. Upto(q, k) = Upto(p, k)
        BY <3>3, <4>2
      <4> QED BY <4>1, <4>2, <4>3 DEF Places, BranchAt
    <3> QED BY <3>3, <3>4, <3>5
  <2> QED BY <1>3, <2>1, <2>2 DEF Outside
<1>4. ASSUME NEW n \in Nat, n < N, Good(n)
      PROVE  /\ g[n] \in Open(t, p)
             /\ n + 1 \in 1 .. N => Good(n + 1) /\ g[n + 1] = Around(t, g[n][1][2])
  <2>1. PICK q : /\ Outside(t, p, m, q) /\ g[n] = Around(t, q)
                 /\ IsFiniteSet(Within(q, m)) /\ Cardinality(Within(q, m)) = N - n
    BY <1>4
  <2>2. /\ q \in Seq(Pair)
        /\ \A k \in Places(q, "BRANCH") : /\ k \in Places(p, "BRANCH") /\ k \in 1 .. Len(q)
                                          /\ Upto(q, k) = Upto(p, k) /\ BranchAt(t, q, k) = BranchAt(t, p, k)
    BY <1>3, <2>1
  <2>3. Within(q, m) # {}
    <3>1. Cardinality(Within(q, m)) # 0
      BY <1>4, <2>1
    <3> QED BY <3>1, FS_EmptySet
  <2>4. PICK k \in Places(q, "BRANCH") : /\ \A j \in Places(q, "BRANCH") : j <= k
                                         /\ Around(t, q) = BranchAt(t, q, k)
    BY <2>2, <2>3, AroundIs DEF Within
  <2>5. k \in Within(q, m) /\ m < k
    <3>1. PICK j \in Places(q, "BRANCH") : m < j
      BY <2>3 DEF Within
    <3>2. j <= k /\ j \in Nat /\ k \in Nat
      BY <2>2, <2>4, <3>1
    <3> QED BY <1>1, <3>1, <3>2 DEF Within
  <2>6. g[n] = BranchAt(t, p, k) /\ k \in Places(p, "BRANCH")
    BY <2>1, <2>2, <2>4
  <2>7. g[n] \in Open(t, p)
    BY <2>6 DEF Open
  <2>8. ASSUME n + 1 \in 1 .. N PROVE Good(n + 1) /\ g[n + 1] = Around(t, g[n][1][2])
    <3>1. PICK r : r = Upto(p, k)
      OBVIOUS
    <3>2. g[n][1] = <<t, r>> /\ g[n][1][2] = r
      BY <2>6, <3>1 DEF BranchAt
    <3>3. g[n + 1] = table[g[n][1]].branch
      <4>1. (n + 1) - 1 = n
        OBVIOUS
      <4> QED BY <2>7, <2>8, <4>1
    <3>4. g[n + 1] = Around(t, r)
      BY <2>7, <3>2, <3>3
    <3>5. Outside(t, p, m, r)
      BY <2>5, <2>6, <3>1 DEF Outside
    <3>6. Within(r, m) = Within(q, m) \ {k}
      <4>1. k \in 1 .. Len(p) + 1 /\ k \in 1 .. Len(q) + 1
        BY <2>2, <2>6 DEF Places
      <4>2. Len(r) = k - 1 /\ \A i \in 1 .. k - 1 : r[i] = p[i]
        BY <1>1, <3>1, <4>1, UptoFacts
      <4>3. r = Upto(q, k)
        BY <2>2, <3>1
      <4>4. \A i \in 1 .. k - 1 : r[i] = q[i]
        BY <2>2, <4>1, <4>3, UptoFacts
      <4>5. ASSUME NEW i \in Places(r, "BRANCH") PROVE i \in Places(q, "BRANCH") /\ i # k
        BY <4>1, <4>2, <4>4 DEF Places
      <4>6. ASSUME NEW i \in Places(q, "BRANCH"), i # k PROVE i \in Places(r, "BRANCH")
        <5>1. i <= k /\ i \in 1 .. Len(q) /\ q[i].type = "BRANCH"
          BY <2>4 DEF Places
        <5>2. i \in 1 .. k - 1
          BY <4>1, <4>6, <5>1
        <5> QED BY <4>2, <4>4, <5>1, <5>2 DEF Places
      <4> QED BY <4>5, <4>6 DEF Within
    <3>7. IsFiniteSet(Within(r, m)) /\ Cardinality(Within(r, m)) = N - (n + 1)
      <4>1. /\ IsFiniteSet(Within(q, m) \ {k})
            /\ Cardinality(Within(q, m) \ {k}) = Cardinality(Within(q, m)) - 1
        BY <2>1, <2>5, FS_RemoveElement
      <4> QED BY <2>1, <3>6, <4>1
    <3> QED BY <3>2, <3>4, <3>5, <3>7
  <2> QED BY <2>7, <2>8
<1>5. Good(0)
  BY <1>2 DEF Outside
<1> DEFINE S == {n \in 0 .. N : Good(n)}
<1>6. N \in S
  <2>1. 0 \in S
    BY <1>5
  <2>2. ASSUME NEW i \in 1 .. N, i - 1 \in S PROVE i \in S
    <3>1. PICK n \in Nat : n = i - 1 /\ n < N /\ i = n + 1
      OBVIOUS
    <3>2. Good(n)
      BY <2>2, <3>1
    <3>3. n + 1 \in 1 .. N
      BY <3>1
    <3>4. Good(n + 1)
      <4> HIDE DEF Good
      <4> QED BY <1>4, <3>1, <3>2, <3>3
    <3> QED BY <3>1, <3>4
  <2> HIDE DEF S
  <2> QED BY <2>1, <2>2, LoopInduction
<1>7. \A i \in 0 .. N : i \in S
  <2>1. ASSUME NEW j \in 0 .. N PROVE j \in S
    <3>1. 0 \in S
      BY <1>5
    <3>2. ASSUME NEW i \in 1 .. j, i - 1 \in S PROVE i \in S
      <4>1. PICK n \in Nat : n = i - 1 /\ n < N /\ i = n + 1
        OBVIOUS
      <4>2. Good(n)
        BY <3>2, <4>1
      <4>3. n + 1 \in 1 .. N
        BY <4>1
      <4>4. Good(n + 1)
        <5> HIDE DEF Good
        <5> QED BY <1>4, <4>1, <4>2, <4>3
      <4> QED BY <4>1, <4>3, <4>4
    <3> HIDE DEF S
    <3> QED BY <3>1, <3>2, LoopInduction
  <2> QED BY <2>1
<1>8. \A i \in 0 .. N - 1 : g[i] \in Open(t, p)
  <2>1. ASSUME NEW i \in 0 .. N - 1 PROVE g[i] \in Open(t, p)
    <3>1. i \in Nat /\ i < N /\ i \in 0 .. N
      OBVIOUS
    <3>2. Good(i)
      BY <1>7, <3>1
    <3> HIDE DEF Good
    <3> QED BY <1>4, <3>1, <3>2
  <2> QED BY <2>1
<1>9. g[N] = Around(t, Upto(p, m))
  <2>1. PICK q : /\ Outside(t, p, m, q) /\ g[N] = Around(t, q)
                 /\ IsFiniteSet(Within(q, m)) /\ Cardinality(Within(q, m)) = N - N
    BY <1>6
  <2>2. Within(q, m) = {}
    <3>1. Cardinality(Within(q, m)) = 0
      BY <2>1
    <3> QED BY <2>1, <3>1, FS_EmptySet
  <2>3. /\ q \in Seq(Pair) /\ Len(q) >= m /\ \A i \in 1 .. m : q[i] = p[i]
        /\ \A k \in Places(q, "BRANCH") : k \in 1 .. Len(q)
    BY <1>3, <2>1
  <2>4. PICK r : r = Upto(p, m)
    OBVIOUS
  <2>5. r \in Seq(Pair) /\ Len(r) = m - 1 /\ \A i \in 1 .. m - 1 : r[i] = p[i]
    <3>1. m \in 1 .. Len(p) + 1
      BY <1>1
    <3> QED BY <1>1, <2>4, <3>1, UptoFacts
  <2>6. PICK l \in Nat : l = m - 1
    BY <1>1
  <2>7. l <= Len(q) /\ l <= Len(r) /\ \A i \in 1 .. l : q[i] = r[i]
    BY <1>1, <2>3, <2>5, <2>6
  <2>8. \A j \in Places(q, "BRANCH") \cup Places(r, "BRANCH") : j <= l
    <3>1. ASSUME NEW j \in Places(q, "BRANCH") PROVE j <= l
      <4>1. ~(m < j) /\ j \in 1 .. Len(q)
        BY <2>2, <2>3 DEF Within
      <4>2. j # m
        BY <1>1, <2>3 DEF Places
      <4> QED BY <1>1, <2>6, <4>1, <4>2
    <3>2. ASSUME NEW j \in Places(r, "BRANCH") PROVE j <= l
      BY <2>5, <2>6 DEF Places
    <3> QED BY <3>1, <3>2
  <2>9. Around(t, r) = Around(t, q)
    BY <2>3, <2>5, <2>7, <2>8, SameBlock
  <2> QED BY <2>1, <2>4, <2>9
<1>10. ASSUME g[N] # Around(t, p) PROVE \E b \in Open(t, p) : g[N] = Around(t, b[1][2])
  <2>1. PICK n \in Nat : n < N /\ n + 1 = N /\ n \in 0 .. N
    <3>1. N # 0
      BY <1>10
    <3>2. N - 1 \in Nat /\ N - 1 < N /\ (N - 1) + 1 = N /\ N - 1 \in 0 .. N
      BY <3>1
    <3> QED BY <3>2
  <2>2. Good(n) /\ n + 1 \in 1 .. N
    BY <1>7, <2>1
  <2>3. g[n] \in Open(t, p) /\ g[n + 1] = Around(t, g[n][1][2])
    <3> HIDE DEF Good
    <3> QED BY <1>4, <2>1, <2>2
  <2> QED BY <2>1, <2>3
<1> QED
  BY <1>8, <1>9, <1>10

--------------------------------------------------------------------------------
(***************************************************************************)
(* The program.                                                            *)
(***************************************************************************)
Sound(code) == \E i \in DOMAIN Programs : code = Programs[i]
Simple == {"EVENT", "CREATE", "LOOPPHI", "YIELD"}
Recorded == Simple \cup {"BRANCH", "ENTER", "EXIT"}

LEMMA ClientFacts ==
  ASSUME NEW code, Sound(code), NEW t \in Tid, NEW p, Call(code, t, p) # "END"
  PROVE  LET call == Call(code, t, p) IN
         /\ Spot(p) /\ call \in Recorded \cup {"MERGE", "ITERATE"}
         /\ call = "EVENT" => code[t][p].type \in {"THREADBEGIN", "LOAD", "STORE", "FUNCTION"}
         /\ call = "MERGE" => Len(p) > 2 /\ p[Len(p) - 1].type = "BRANCH"
         /\ call = "ITERATE" => Len(p) > 2 /\ p[Len(p) - 1].type = "LOOP"
         /\ call = "EXIT" => \E j \in 2 .. Len(p) : p[j].type = "LOOP"
         /\ call = "BRANCH" => code[t][p].dirs \subseteq Nat
         /\ call \in {"BRANCH", "ENTER"} => Call(code, t, IncrementTop(p)) = "END"
         /\ call = "ENTER" => Call(code, t, InLoop(p)) = "END"
<1>1. PICK i \in DOMAIN Programs : code = Programs[i]
  BY DEF Sound
<1>2. p \in DOMAIN code[t] /\ Call(code, t, p) = code[t][p].op
  BY DEF Call
<1>3. LET ins == code[t][p]
          Directly(type) == Len(p) > 2 /\ p[Len(p) - 1].type = type
      IN
      /\ p \in Point /\ p[Len(p)].type = "COUNTER"
      /\ ins.op \in Calls
      /\ ins.op = "EVENT" => ins.type \in {"THREADBEGIN", "LOAD", "STORE", "FUNCTION"}
      /\ ins.op = "MERGE" => Directly("BRANCH")
      /\ ins.op = "ITERATE" => Directly("LOOP")
      /\ ins.op = "EXIT" => \E j \in 2 .. Len(p) : p[j].type = "LOOP"
      /\ ins.op = "BRANCH" => ins.dirs \subseteq Nat
      /\ ins.op \in {"BRANCH", "ENTER"} => IncrementTop(p) \notin DOMAIN code[t]
      /\ ins.op = "ENTER" => Push(Push(p, Loop(0)), Counter(0)) \notin DOMAIN code[t]
  BY <1>1, <1>2, ClientAssumption
<1>4. Spot(p) /\ Call(code, t, p) \in Recorded \cup {"MERGE", "ITERATE"}
  BY <1>2, <1>3 DEF Spot, Calls, Recorded, Simple
<1>5. \A q : q \notin DOMAIN code[t] => Call(code, t, q) = "END"
  BY DEF Call
<1> QED
  BY <1>2, <1>3, <1>4, <1>5 DEF InLoop

\* The kinds of the records.
LEMMA KindFacts ==
  ASSUME NEW code, Sound(code), NEW t \in Tid, NEW p
  PROVE  LET call == Call(code, t, p)
             kind == Kind(code, t, p)
         IN
         /\ kind \in Exits <=> call = "EXIT"
         /\ kind = "LOOPENTER" <=> call = "ENTER"
         /\ kind = "BRANCHDIR" <=> call = "BRANCH"
         /\ kind = "YIELD" <=> call = "YIELD"
         /\ call \in Recorded => kind \notin {"LABEL", "LOOPSTART"}
         /\ call = "CREATE" <=> kind = "THREADCREATE"
<1>1. PICK call, kind : call = Call(code, t, p) /\ kind = Kind(code, t, p)
  OBVIOUS
<1>2. /\ call = "EVENT" => code[t][p].type \in {"THREADBEGIN", "LOAD", "STORE", "FUNCTION"}
      /\ call \in Recorded \cup {"MERGE", "ITERATE", "END"}
  BY <1>1, ClientFacts
<1>3. /\ call = "EVENT" => kind = code[t][p].type
      /\ call = "CREATE" => kind = "THREADCREATE"
      /\ call = "BRANCH" => kind = "BRANCHDIR"
      /\ call = "ENTER" => kind = "LOOPENTER"
      /\ call = "LOOPPHI" => kind = "FUNCTION"
      /\ call = "YIELD" => kind = "YIELD"
      /\ call = "EXIT" => kind \in Exits
      /\ call \in {"MERGE", "ITERATE", "END"} => kind \in {"MERGE", "LABEL", "LOOPSTART"}
  BY <1>1 DEF Kind, Exits
<1>4. /\ kind \in Exits <=> call = "EXIT"
      /\ kind = "LOOPENTER" <=> call = "ENTER"
      /\ kind = "BRANCHDIR" <=> call = "BRANCH"
      /\ kind = "YIELD" <=> call = "YIELD"
      /\ call \in Recorded => kind \notin {"LABEL", "LOOPSTART"}
      /\ call = "CREATE" <=> kind = "THREADCREATE"
  BY <1>2, <1>3 DEF Recorded, Simple, Exits
<1> QED
  BY <1>1, <1>4

\* The counts no call has.
LEMMA FreeCounts ==
  ASSUME NEW code, Sound(code), NEW t \in Tid, NEW p, Call(code, t, p) \in {"BRANCH", "ENTER"}
  PROVE  /\ Kind(code, t, IncrementTop(p)) = IF Call(code, t, p) = "BRANCH" THEN "MERGE" ELSE "LABEL"
         /\ Call(code, t, p) = "ENTER" => Kind(code, t, InLoop(p)) = "LOOPSTART"
<1>1. Spot(p) /\ Call(code, t, p) # "END"
  BY ClientFacts
<1>2. PICK q : q = IncrementTop(p)
  OBVIOUS
<1>3. Call(code, t, q) = "END"
  BY <1>1, <1>2, ClientFacts
<1>4. q[Len(q)].val > 0 /\ [q EXCEPT ![Len(q)].val = @ - 1] = p
  <2>1. /\ Len(q) = Len(p) /\ q[Len(p)].val = p[Len(p)].val + 1
        /\ [q EXCEPT ![Len(q)].val = @ - 1] = p
    BY <1>1, <1>2, Counted
  <2>2. p[Len(p)].val \in Nat
    BY <1>1, SpotFacts
  <2> QED BY <2>1, <2>2
<1>5. \A op : Behind(code, t, q, op) <=> Call(code, t, p) = op
  BY <1>4 DEF Behind
<1>6. Kind(code, t, q) = IF Call(code, t, p) = "BRANCH" THEN "MERGE" ELSE "LABEL"
  BY <1>3, <1>5 DEF Kind
<1>7. ASSUME Call(code, t, p) = "ENTER" PROVE Kind(code, t, InLoop(p)) = "LOOPSTART"
  <2>1. PICK s : s = InLoop(p)
    OBVIOUS
  <2>2. Call(code, t, s) = "END"
    BY <1>1, <1>7, <2>1, ClientFacts
  <2>3. s[Len(s)].val = 0
    BY <1>1, <2>1, MovedLoop
  <2>4. \A op : ~Behind(code, t, s, op)
    BY <2>3 DEF Behind
  <2> QED BY <2>1, <2>2, <2>4 DEF Kind
<1> QED
  BY <1>2, <1>6, <1>7

\* A thread that iterates stays in its branches and its loops.
LEMMA LeadsKeeps ==
  ASSUME NEW code, Sound(code), NEW t \in Tid, NEW p, Spot(p), NEW q, Leads(code, t, p, q)
  PROVE  /\ Spot(q) /\ Around(t, q) = Around(t, p) /\ Open(t, q) = Open(t, p)
         /\ Loops(t, q) = Loops(t, p)
<1>1. CASE q = p
  BY <1>1
<1>2. CASE q # p
  <2>1. PICK n \in Nat \ {0} : Call(code, t, p) = "ITERATE" /\ q = Iterated(p, n)
    BY <1>2 DEF Leads
  <2>2. Len(p) > 1 /\ p[Len(p) - 1].type = "LOOP" /\ n \in Nat /\ n > 0
    <3>1. Call(code, t, p) # "END" /\ Len(p) \in Nat
      BY <2>1, SpotFacts
    <3>2. Len(p) > 2 /\ p[Len(p) - 1].type = "LOOP"
      BY <2>1, <3>1, ClientFacts
    <3> QED BY <3>1, <3>2
  <2> QED BY <2>1, <2>2, MovedOn
<1> QED
  BY <1>1, <1>2

\* The next iteration after where it came to.
LEMMA LeadsOn ==
  ASSUME NEW code, Sound(code), NEW t \in Tid, NEW p, Spot(p), NEW q, Leads(code, t, p, q),
         Call(code, t, q) = "ITERATE"
  PROVE  Leads(code, t, p, Iterated(q, 1))
<1>1. CASE q = p
  <2>1. PICK n \in Nat \ {0} : n = 1
    OBVIOUS
  <2>2. Iterated(q, 1) = Iterated(p, n) /\ \A m \in 1 .. n - 1 : FALSE
    BY <1>1, <2>1
  <2> QED BY <1>1, <2>2 DEF Leads
<1>2. CASE q # p
  <2>1. PICK n \in Nat \ {0} : /\ Call(code, t, p) = "ITERATE" /\ q = Iterated(p, n)
                               /\ \A m \in 1 .. n - 1 : Call(code, t, Iterated(p, m)) = "ITERATE"
    BY <1>2 DEF Leads
  <2>2. Len(p) > 1
    <3>1. Call(code, t, p) # "END" /\ Len(p) \in Nat
      BY <2>1, SpotFacts
    <3>2. Len(p) > 2
      BY <2>1, <3>1, ClientFacts
    <3> QED BY <3>1, <3>2
  <2>3. PICK l \in Nat \ {0}, one \in Nat : l = n + 1 /\ one = 1
    OBVIOUS
  <2>4. Iterated(q, one) = Iterated(p, l)
    <3>1. n \in Nat /\ n + one = l
      BY <2>3
    <3>2. Iterated(Iterated(p, n), one) = Iterated(p, n + one)
      BY <2>2, <3>1, IteratedTwice
    <3> QED BY <2>1, <3>1, <3>2
  <2>5. ASSUME NEW m \in 1 .. l - 1 PROVE Call(code, t, Iterated(p, m)) = "ITERATE"
    <3>1. m = n \/ m \in 1 .. n - 1
      BY <2>3
    <3> QED BY <2>1, <3>1
  <2> QED BY <2>1, <2>3, <2>4, <2>5 DEF Leads
<1> QED
  BY <1>1, <1>2

\* It stops where it does not iterate any more, and nowhere else.
LEMMA LeadsOnce ==
  ASSUME NEW code, NEW t, NEW p, NEW q, NEW r, Leads(code, t, p, q), Leads(code, t, p, r),
         Call(code, t, q) # "ITERATE", Call(code, t, r) # "ITERATE"
  PROVE  q = r
<1>1. CASE q = p \/ r = p
  BY <1>1 DEF Leads
<1>2. CASE q # p /\ r # p
  <2>1. PICK n \in Nat \ {0} : /\ q = Iterated(p, n)
                               /\ \A m \in 1 .. n - 1 : Call(code, t, Iterated(p, m)) = "ITERATE"
    BY <1>2 DEF Leads
  <2>2. PICK k \in Nat \ {0} : /\ r = Iterated(p, k)
                               /\ \A m \in 1 .. k - 1 : Call(code, t, Iterated(p, m)) = "ITERATE"
    BY <1>2 DEF Leads
  <2>3. ~(n < k)
    <3>1. n < k => n \in 1 .. k - 1
      OBVIOUS
    <3> QED BY <2>1, <2>2, <3>1
  <2>4. ~(k < n)
    <3>1. k < n => k \in 1 .. n - 1
      OBVIOUS
    <3> QED BY <2>1, <2>2, <3>1
  <2> QED BY <2>1, <2>2, <2>3, <2>4
<1> QED
  BY <1>1, <1>2

\* What follows a record is the same in all executions.
LEMMA NextOnce ==
  ASSUME NEW code, NEW r, NEW n, NEW m, NextOf(code, r, n), NextOf(code, r, m)
  PROVE  n = m
<1>1. n = <<r[1], n[2]>> /\ m = <<r[1], m[2]>>
  BY DEF NextOf
<1>2. PICK kind : kind = Kind(code, r[1], r[2])
  OBVIOUS
<1>3. CASE kind \in Exits \/ kind \in {"BRANCHDIR", "LOOPENTER"}
  <2>1. n[2] = m[2]
    BY <1>2, <1>3 DEF NextOf
  <2> QED BY <1>1, <2>1
<1>4. CASE ~(kind \in Exits \/ kind \in {"BRANCHDIR", "LOOPENTER"})
  <2>1. /\ Leads(code, r[1], IncrementTop(r[2]), n[2]) /\ Call(code, r[1], n[2]) # "ITERATE"
        /\ Leads(code, r[1], IncrementTop(r[2]), m[2]) /\ Call(code, r[1], m[2]) # "ITERATE"
    BY <1>2, <1>4 DEF NextOf, Silent
  <2>2. n[2] = m[2]
    BY <2>1, LeadsOnce
  <2> QED BY <1>1, <2>2
<1> QED
  BY <1>3, <1>4
--------------------------------------------------------------------------------
(***************************************************************************)
(* The graph grows, and a thread changes the last records of its own       *)
(* blocks only.                                                            *)
(***************************************************************************)
Grown(g, h) ==
  /\ \A r \in DOMAIN g.records :
       /\ r \in DOMAIN h.records
       /\ g.records[r].next # None => h.records[r].next = g.records[r].next
  /\ \A b \in DOMAIN g.bodies :
       /\ b \in DOMAIN h.bodies
       /\ g.bodies[b].first # None => h.bodies[b].first = g.bodies[b].first

\* All last records are the same but for the one of block x of thread t.
Wrote(g, h, t, x) ==
  \A u \in Tid : \A y :
    (y = None \/ y \in DOMAIN g.bodies) /\ (y # x \/ (x = None /\ u # t))
      => LinkedFrom(h, y, u) = LinkedFrom(g, y, u)

\* Those of thread u are the same.
Untouched(g, h, u) ==
  \A y : y = None \/ (y \in DOMAIN g.bodies /\ y[1][1] = u)
           => LinkedFrom(h, y, u) = LinkedFrom(g, y, u)

LEMMA GrownOn ==
  ASSUME NEW g, NEW h, NEW k, Grown(g, h), Grown(h, k)
  PROVE  Grown(g, k)
BY DEF Grown

LEMMA LinkKept ==
  ASSUME NEW code, NEW stop, NEW g, NEW h, Grown(g, h), NEW dirs, NEW more, dirs \subseteq more,
         NEW r, NEW s, Link(code, stop, g, dirs, r, s)
  PROVE  Link(code, stop, h, more, r, s)
<1>1. r \in DOMAIN g.records /\ r \in DOMAIN h.records /\ s # None
  BY DEF Grown, Link
<1>2. PICK kind, branch : kind = Kind(code, r[1], r[2]) /\ branch = Around(r[1], r[2])
  OBVIOUS
<1>3. \A q \in DOMAIN g.records : q \in DOMAIN h.records /\ (g.records[q].next = s => h.records[q].next = s)
  BY <1>1 DEF Grown
<1>4. CASE kind = "LOOPENTER"
  BY <1>1, <1>2, <1>4 DEF Link
<1>5. CASE kind = "BRANCHDIR"
  <2>1. PICK b \in dirs : /\ b[1] = r /\ b \in DOMAIN g.bodies
                          /\ IF Call(code, r[1], InBody(b)) = "MERGE" THEN g.records[r].next = s
                             ELSE g.bodies[b].first = s
    BY <1>2, <1>5 DEF Link
  <2>2. b \in DOMAIN h.bodies /\ (g.bodies[b].first = s => h.bodies[b].first = s)
    BY <1>1, <2>1 DEF Grown
  <2>3. /\ b[1] = r /\ b \in DOMAIN h.bodies
        /\ IF Call(code, r[1], InBody(b)) = "MERGE" THEN h.records[r].next = s
           ELSE h.bodies[b].first = s
    BY <1>1, <1>3, <2>1, <2>2
  <2> QED BY <1>1, <1>2, <1>5, <2>1, <2>3 DEF Link
<1>6. CASE kind \notin {"LOOPENTER", "BRANCHDIR"}
  <2>1. /\ ~(kind = "YIELD" /\ stop)
        /\ \/ g.records[r].next = s
           \/ /\ kind \notin Exits
              /\ \E a : Leads(code, r[1], IncrementTop(r[2]), a) /\ Call(code, r[1], a) = "MERGE"
              /\ branch # None /\ branch[1] \in DOMAIN g.records
              /\ g.records[branch[1]].next = s
    BY <1>2, <1>6 DEF Link
  <2>2. \/ h.records[r].next = s
        \/ /\ kind \notin Exits
           /\ \E a : Leads(code, r[1], IncrementTop(r[2]), a) /\ Call(code, r[1], a) = "MERGE"
           /\ branch # None /\ branch[1] \in DOMAIN h.records
           /\ h.records[branch[1]].next = s
    BY <1>1, <1>3, <2>1
  <2> QED BY <1>1, <1>2, <1>6, <2>1, <2>2 DEF Link
<1> QED
  BY <1>4, <1>5, <1>6

LEMMA LinkedKept ==
  ASSUME NEW code, NEW stop, NEW g, NEW h, Grown(g, h), NEW dirs, NEW more, dirs \subseteq more,
         NEW w, Linked(code, stop, g, dirs, w)
  PROVE  Linked(code, stop, h, more, w)
BY LinkKept DEF Linked

\* The executions that have ended stay linked.
LEMMA RunsKept ==
  ASSUME NEW code, NEW stop, NEW g, NEW h, Grown(g, h), NEW run, RunOk(code, stop, g, run)
  PROVE  RunOk(code, stop, h, run)
<1>1. ASSUME NEW t \in Tid PROVE Linked(code, stop, h, run.taken, run.walked[t])
  BY LinkedKept DEF RunOk
<1>2. ASSUME NEW r, Ends(code, stop, g, r) PROVE Ends(code, stop, h, r)
  BY <1>2 DEF Ends, Grown
<1> QED
  BY <1>1, <1>2 DEF RunOk

\* A branch is none, if not one around a point of the thread.
LEMMA BodyFacts ==
  ASSUME NEW code, NEW g, GraphOk(code, g), NEW b \in DOMAIN g.bodies
  PROVE  BodyOk(code, b, g.bodies[b]) /\ b # None /\ b[1] \in Tid \X Point /\ b[2] \in Nat
<1>1. BodyOk(code, b, g.bodies[b])
  BY DEF GraphOk
<1>2. b[1] \in Tid \X Point /\ b[2] \in Nat /\ b = <<b[1], b[2]>>
  BY <1>1 DEF BodyOk, IsId
<1>3. b \in (Tid \X Seq(Pair)) \X Nat
  BY <1>2 DEF Point
<1> QED
  BY <1>1, <1>2, <1>3, GraphAssumption

LEMMA WroteOthers ==
  ASSUME NEW g, NEW h, NEW t, NEW x, Wrote(g, h, t, x), x = None \/ x[1][1] = t,
         NEW u \in Tid, u # t
  PROVE  Untouched(g, h, u)
<1>1. SUFFICES ASSUME NEW y, y = None \/ (y \in DOMAIN g.bodies /\ y[1][1] = u)
               PROVE  LinkedFrom(h, y, u) = LinkedFrom(g, y, u)
  BY DEF Untouched
<1>2. y # x \/ (x = None /\ u # t)
  BY <1>1
<1> QED
  BY <1>1, <1>2 DEF Wrote

LEMMA UntouchedOn ==
  ASSUME NEW g, NEW h, NEW k, NEW u, Untouched(g, h, u), Untouched(h, k, u), Grown(g, h)
  PROVE  Untouched(g, k, u)
BY DEF Untouched, Grown

\* The last records outside of the block the thread is in.
LEMMA WroteOuter ==
  ASSUME NEW g, NEW h, NEW t \in Tid, NEW p \in Seq(Pair), NEW x, x = Around(t, p), Wrote(g, h, t, x),
         Open(t, p) \subseteq DOMAIN g.bodies, NEW b \in Open(t, p)
  PROVE  LinkedFrom(h, Around(t, b[1][2]), t) = LinkedFrom(g, Around(t, b[1][2]), t)
<1>1. PICK q, y : q = b[1][2] /\ y = Around(t, q)
  OBVIOUS
<1>2. q \in Seq(Pair) /\ y # x /\ Open(t, q) \subseteq Open(t, p)
  BY <1>1, AroundOuter
<1>3. y = None \/ y \in DOMAIN g.bodies
  BY <1>1, <1>2, AroundOpen
<1> QED
  BY <1>1, <1>2, <1>3 DEF Wrote

\* The other threads notice nothing.
LEMMA ThreadKept ==
  ASSUME NEW code, Sound(code), NEW stop, NEW g, GraphOk(code, g), NEW h, Grown(g, h),
         NEW u \in Tid, Untouched(g, h, u), NEW dirs, NEW more, dirs \subseteq more,
         NEW p, NEW w, NEW s, ThreadOk(code, stop, g, dirs, u, p, w, s), DirsOk(more, u, p)
  PROVE  ThreadOk(code, stop, h, more, u, p, w, s)
<1>1. /\ ThreadAt(code, g, dirs, u, p) /\ ThreadWay(code, stop, g, dirs, u, p, w)
      /\ ThreadStatus(code, stop, u, p, w, s)
  BY DEF ThreadOk
<1>2. Spot(p) /\ p \in Seq(Pair)
  BY <1>1, SpotFacts DEF ThreadAt
<1>3. /\ \A r \in DOMAIN g.records : r \in DOMAIN h.records
      /\ \A b \in DOMAIN g.bodies : b \in DOMAIN h.bodies
  BY DEF Grown
<1>4. ASSUME NEW b \in DOMAIN g.bodies, b[1][1] = u
      PROVE  h.bodies[b].last = g.bodies[b].last
  <2>1. b # None
    BY BodyFacts
  <2>2. LinkedFrom(h, b, u) = LinkedFrom(g, b, u)
    BY <1>4 DEF Untouched
  <2> QED BY <2>1, <2>2 DEF LinkedFrom
<1>5. ASSUME NEW q \in Seq(Pair), Open(u, q) \subseteq Open(u, p)
      PROVE  LinkedFrom(h, Around(u, q), u) = LinkedFrom(g, Around(u, q), u)
  <2>1. PICK y : y = Around(u, q)
    OBVIOUS
  <2>2. y = None \/ y \in Open(u, p)
    BY <1>5, <2>1, AroundOpen
  <2>3. y \in Open(u, p) => y \in DOMAIN g.bodies /\ y[1][1] = u
    <3>1. SUFFICES ASSUME y \in Open(u, p) PROVE y \in DOMAIN g.bodies /\ y[1][1] = u
      OBVIOUS
    <3>2. y = <<<<u, y[1][2]>>, y[2]>>
      BY <1>2, <3>1, AroundOuter
    <3> QED BY <1>1, <3>1, <3>2 DEF ThreadAt
  <2> QED BY <2>1, <2>2, <2>3 DEF Untouched
<1>6. ThreadAt(code, h, more, u, p)
  <2>1. ASSUME NEW b \in Open(u, p)
        PROVE  /\ b[1] \in DOMAIN h.records /\ Call(code, u, b[1][2]) = "BRANCH"
               /\ b \in more /\ b \in DOMAIN h.bodies
               /\ LinkedFrom(h, Around(u, b[1][2]), u) = b[1]
    <3>1. /\ b[1] \in DOMAIN g.records /\ Call(code, u, b[1][2]) = "BRANCH"
          /\ b \in dirs /\ b \in DOMAIN g.bodies
          /\ LinkedFrom(g, Around(u, b[1][2]), u) = b[1]
      BY <1>1 DEF ThreadAt
    <3>2. PICK q : q = b[1][2]
      OBVIOUS
    <3>3. q \in Seq(Pair) /\ Open(u, q) \subseteq Open(u, p)
      BY <1>2, <3>2, AroundOuter
    <3>4. LinkedFrom(h, Around(u, q), u) = LinkedFrom(g, Around(u, q), u)
      BY <1>5, <3>3
    <3> QED BY <1>3, <3>1, <3>2, <3>4
  <2> QED BY <1>1, <1>3, <2>1 DEF ThreadAt
<1>7. ThreadWay(code, stop, h, more, u, p, w)
  <2>1. Linked(code, stop, h, more, w)
    BY <1>1, LinkedKept DEF ThreadWay
  <2>2. w = <<>> => p = FirstPoint /\ h.always[u] = None
    <3>1. w = <<>> => p = FirstPoint /\ g.always[u] = None
      BY <1>1 DEF ThreadWay
    <3>2. LinkedFrom(h, None, u) = LinkedFrom(g, None, u)
      BY DEF Untouched
    <3> QED BY <3>1, <3>2 DEF LinkedFrom
  <2>3. ASSUME w # <<>> PROVE Comes(code, h, more, u, p, w[Len(w)])
    <3>1. PICK l : l = w[Len(w)]
      OBVIOUS
    <3>2. Comes(code, g, dirs, u, p, l)
      BY <1>1, <2>3, <3>1 DEF ThreadWay
    <3>3. PICK kind : kind = Kind(code, u, l[2])
      OBVIOUS
    <3>4. /\ l \in DOMAIN g.records /\ l \in DOMAIN h.records /\ l[1] = u
          /\ kind \notin Exits \cup {"LOOPENTER"}
      BY <1>3, <3>2, <3>3 DEF Comes
    <3>5. CASE kind = "BRANCHDIR"
      <4>1. PICK b \in dirs : /\ b[1] = l /\ p = InBody(b) /\ b \in DOMAIN g.bodies
                              /\ g.bodies[b].last = None
        BY <3>2, <3>3, <3>5 DEF Comes
      <4>2. b \in more /\ b \in DOMAIN h.bodies /\ h.bodies[b].last = None
        BY <1>3, <1>4, <3>4, <4>1
      <4> QED BY <3>1, <3>3, <3>4, <3>5, <4>1, <4>2 DEF Comes
    <3>6. CASE kind # "BRANCHDIR"
      <4>1. LinkedFrom(g, Around(u, l[2]), u) = l /\ Leads(code, u, IncrementTop(l[2]), p)
        BY <3>2, <3>3, <3>6 DEF Comes
      <4>2. Spot(l[2])
        BY <3>4 DEF GraphOk, RecordOk, IsId
      <4>3. PICK q, y : q = l[2] /\ y = IncrementTop(q)
        OBVIOUS
      <4>4. Spot(y) /\ Open(u, y) = Open(u, q) /\ q \in Seq(Pair)
        BY <4>2, <4>3, MovedUp, SpotFacts
      <4>5. Open(u, p) = Open(u, y)
        BY <4>1, <4>3, <4>4, LeadsKeeps
      <4>6. LinkedFrom(h, Around(u, q), u) = LinkedFrom(g, Around(u, q), u)
        BY <1>5, <4>4, <4>5
      <4> QED BY <3>1, <3>3, <3>4, <3>6, <4>1, <4>3, <4>6 DEF Comes
    <3> QED BY <3>5, <3>6
  <2> QED BY <2>1, <2>2, <2>3 DEF ThreadWay
<1> QED
  BY <1>1, <1>6, <1>7 DEF ThreadOk
\* The record r of block branch is entered, behind the record prev.
Entry(code, g, h, t, branch, et, r, prev) ==
  /\ GraphOk(code, h) /\ Grown(g, h) /\ Wrote(g, h, t, branch)
  /\ DOMAIN h.records = DOMAIN g.records \cup {r} /\ DOMAIN h.bodies = DOMAIN g.bodies
  /\ LinkedFrom(h, branch, t) = r
  /\ prev # None /\ et \notin {"LABEL", "LOOPSTART"} => h.records[prev].next = r
  /\ \A q \in DOMAIN g.records : h.records[q].child = g.records[q].child

\* A record made or found: what the tables are then.
LEMMA Made ==
  ASSUME NEW code, NEW g, GraphOk(code, g), NEW t \in Tid, t = current, NEW e, Spot(e.pairs),
         NEW et, et = Kind(code, t, e.pairs), NEW branch, branch = Around(t, e.pairs),
         branch = None \/ branch \in DOMAIN g.bodies,
         NEW r, r = <<t, e.pairs>>, NEW prev, prev = LinkedFrom(g, branch, t),
         prev # None /\ et \notin {"LABEL", "LOOPSTART"}
           => prev \in DOMAIN g.records /\ NextOf(code, prev, r),
         branch # None => \/ g.bodies[branch].first # None
                          \/ r = StartOf(branch) /\ Call(code, t, InBody(branch)) # "MERGE",
         NEW h, h = WithRecord(g, branch, et, e)
  PROVE  Entry(code, g, h, t, branch, et, r, prev)
<1> DEFINE new == NewRecord(et, branch, e.hashvalue)
           links == prev # None /\ et \notin {"LABEL", "LOOPSTART"}
<1>1. PICK known : known = [q \in DOMAIN g.records \cup {r} |->
                              IF q \in DOMAIN g.records THEN g.records[q] ELSE new]
  OBVIOUS
<1>2. h.records = IF links THEN [known EXCEPT ![prev].next = r] ELSE known
  BY <1>1 DEF WithRecord
<1>3. h.always = IF branch # None THEN g.always ELSE [g.always EXCEPT ![t] = r]
  BY DEF WithRecord
<1>4. h.bodies = IF branch = None THEN g.bodies
                 ELSE [g.bodies EXCEPT ![branch].last = r,
                                       ![branch].first = IF @ = None THEN r ELSE @]
  BY DEF WithRecord
<1>5. /\ \A q \in DOMAIN g.records : RecordOk(code, q, g.records[q])
      /\ \A b \in DOMAIN g.bodies : BodyOk(code, b, g.bodies[b])
      /\ DOMAIN g.always = Tid
  BY DEF GraphOk
<1>6. /\ IsId(r) /\ r[1] = t /\ r[2] = e.pairs /\ r # None
  <2>1. r \in Tid \X Point /\ r[1] = t /\ r[2] = e.pairs
    BY DEF Spot
  <2>2. r \in Tid \X Seq(Pair)
    BY <2>1 DEF Point
  <2> QED BY <2>1, <2>2, GraphAssumption DEF IsId
<1>7. \A q \in DOMAIN known : RecordOk(code, q, known[q])
  <2>1. RecordOk(code, r, new)
    <3>1. /\ {"type", "branch", "next", "child", "dirs"} \subseteq DOMAIN new
          /\ new.type = et /\ new.branch = branch /\ new.next = None
      BY DEF NewRecord
    <3> HIDE DEF new
    <3> QED BY <1>6, <3>1 DEF RecordOk
  <2> HIDE DEF new
  <2> QED BY <1>1, <1>5, <2>1
<1>8. /\ DOMAIN h.records = DOMAIN g.records \cup {r}
      /\ \A q \in DOMAIN h.records :
           IF links /\ q = prev THEN h.records[q] = [known[q] EXCEPT !.next = r]
                                ELSE h.records[q] = known[q]
  <2>1. DOMAIN known = DOMAIN g.records \cup {r}
    BY <1>1
  <2>2. PICK rec : rec = [known[prev] EXCEPT !.next = r]
    OBVIOUS
  <2>3. h.records = IF links THEN [known EXCEPT ![prev] = rec] ELSE known
    BY <1>2, <2>2
  <2> HIDE DEF new, links
  <2> QED BY <2>1, <2>2, <2>3
<1>9. \A q \in DOMAIN g.records : known[q] = g.records[q]
  BY <1>1
<1>10. ASSUME NEW q \in DOMAIN h.records
       PROVE  RecordOk(code, q, h.records[q])
  <2>1. RecordOk(code, q, known[q])
    BY <1>1, <1>7, <1>8
  <2>2. CASE links /\ q = prev
    <3>1. PICK rec : rec = known[q]
      OBVIOUS
    <3>2. h.records[q] = [rec EXCEPT !.next = r]
      BY <1>8, <2>2, <3>1
    <3>3. PICK rec2 : rec2 = [rec EXCEPT !.next = r]
      OBVIOUS
    <3>4. {"type", "branch", "next", "child", "dirs"} \subseteq DOMAIN rec
      BY <2>1, <3>1 DEF RecordOk
    <3>5. /\ DOMAIN rec2 = DOMAIN rec /\ rec2.type = rec.type /\ rec2.branch = rec.branch
          /\ rec2.next = r
      BY <3>3, <3>4
    <3>6. NextOf(code, q, r)
      BY <2>2
    <3> QED BY <2>1, <3>1, <3>2, <3>3, <3>4, <3>5, <3>6 DEF RecordOk
  <2>3. CASE ~(links /\ q = prev)
    BY <1>8, <2>1, <2>3
  <2> QED BY <2>2, <2>3
<1>11. ASSUME NEW q \in DOMAIN g.records
       PROVE  /\ q \in DOMAIN h.records /\ h.records[q].child = g.records[q].child
              /\ g.records[q].next # None => h.records[q].next = g.records[q].next
              /\ links /\ q = prev => h.records[q].next = r
  <2>1. PICK rec : rec = g.records[q]
    OBVIOUS
  <2>2. RecordOk(code, q, rec) /\ {"next", "child"} \subseteq DOMAIN rec
    BY <1>5, <2>1 DEF RecordOk
  <2>3. q \in DOMAIN h.records
    BY <1>8
  <2>4. CASE links /\ q = prev
    <3>1. h.records[q] = [rec EXCEPT !.next = r]
      BY <1>8, <1>9, <2>1, <2>3, <2>4
    <3>2. h.records[q].next = r /\ h.records[q].child = rec.child
      BY <2>2, <3>1
    <3>3. rec.next # None => NextOf(code, q, rec.next)
      BY <2>2 DEF RecordOk
    <3>4. NextOf(code, q, r)
      BY <2>4
    <3>5. rec.next # None => rec.next = r
      BY <3>3, <3>4, NextOnce
    <3> QED BY <2>1, <2>3, <3>2, <3>5
  <2>5. CASE ~(links /\ q = prev)
    <3>1. h.records[q] = rec
      BY <1>8, <1>9, <2>1, <2>3, <2>5
    <3> QED BY <2>1, <2>3, <2>5, <3>1
  <2> QED BY <2>4, <2>5
<1>12. /\ DOMAIN h.bodies = DOMAIN g.bodies
       /\ \A b \in DOMAIN g.bodies : b # branch => h.bodies[b] = g.bodies[b]
  BY <1>4
<1>13. ASSUME branch # None
       PROVE  /\ BodyOk(code, branch, h.bodies[branch]) /\ h.bodies[branch].last = r
              /\ g.bodies[branch].first # None => h.bodies[branch].first = g.bodies[branch].first
  <2>1. branch \in DOMAIN g.bodies
    BY <1>13
  <2>2. PICK body : body = g.bodies[branch]
    OBVIOUS
  <2>3. BodyOk(code, branch, body) /\ {"first", "last"} \subseteq DOMAIN body
    BY <1>5, <2>1, <2>2 DEF BodyOk
  <2>4. PICK first : first = IF body.first = None THEN r ELSE body.first
    OBVIOUS
  <2>5. PICK body2 : body2 = [body EXCEPT !.last = r, !.first = first]
    OBVIOUS
  <2>6. h.bodies[branch] = body2
    <3>1. h.bodies = [g.bodies EXCEPT ![branch].last = r,
                                      ![branch].first = IF @ = None THEN r ELSE @]
      BY <1>4, <1>13
    <3> QED BY <2>1, <2>2, <2>3, <2>4, <2>5, <3>1
  <2>7. DOMAIN body2 = DOMAIN body /\ body2.last = r /\ body2.first = first
    BY <2>3, <2>5
  <2>8. first # None /\ first = StartOf(branch) /\ Call(code, branch[1][1], InBody(branch)) # "MERGE"
    <3>1. CASE body.first # None
      BY <2>3, <2>4, <3>1 DEF BodyOk
    <3>2. CASE body.first = None
      <4>1. r = StartOf(branch) /\ Call(code, t, InBody(branch)) # "MERGE"
        BY <1>13, <2>2, <3>2
      <4>2. branch[1][1] = t
        BY <1>6, <4>1 DEF StartOf
      <4> QED BY <1>6, <2>4, <3>2, <4>1, <4>2
    <3> QED BY <3>1, <3>2
  <2>9. BodyOk(code, branch, body2)
    BY <2>3, <2>7, <2>8 DEF BodyOk
  <2> QED BY <2>2, <2>4, <2>6, <2>7, <2>9
<1>14. DOMAIN h.always = Tid
  BY <1>3, <1>5
<1>15. \A b \in DOMAIN h.bodies : BodyOk(code, b, h.bodies[b])
  BY <1>5, <1>12, <1>13, BodyFacts
<1>16. GraphOk(code, h)
  BY <1>10, <1>14, <1>15 DEF GraphOk
<1>17. Grown(g, h)
  BY <1>11, <1>12, <1>13, BodyFacts DEF Grown
<1>18. LinkedFrom(h, branch, t) = r
  BY <1>3, <1>5, <1>13 DEF LinkedFrom
<1>19. Wrote(g, h, t, branch)
  <2>1. ASSUME NEW u \in Tid, NEW y, y = None \/ y \in DOMAIN g.bodies,
               y # branch \/ (branch = None /\ u # t)
        PROVE  LinkedFrom(h, y, u) = LinkedFrom(g, y, u)
    <3>1. CASE y = None
      <4>1. h.always[u] = g.always[u]
        BY <1>3, <1>5, <2>1, <3>1
      <4> QED BY <3>1, <4>1 DEF LinkedFrom
    <3>2. CASE y # None
      <4>1. y \in DOMAIN g.bodies /\ y # branch
        BY <2>1, <3>2
      <4>2. h.bodies[y] = g.bodies[y]
        BY <1>12, <4>1
      <4> QED BY <3>2, <4>2 DEF LinkedFrom
    <3> QED BY <3>1, <3>2
  <2> QED BY <2>1 DEF Wrote
<1> HIDE DEF links
<1> QED
  BY <1>8, <1>11, <1>12, <1>16, <1>17, <1>18, <1>19 DEF links, Entry
--------------------------------------------------------------------------------
(***************************************************************************)
(* A call of the running thread.                                           *)
(***************************************************************************)
LEMMA Concat ==
  ASSUME NEW S, NEW w \in Seq(S), NEW a \in S, NEW b \in S
  PROVE  /\ w \o <<a>> = Append(w, a) /\ w \o <<a, b>> = Append(Append(w, a), b)
         /\ Append(w, a) \in Seq(S) /\ Append(w, a) # <<>>
         /\ Append(w, a)[Len(Append(w, a))] = a
<1>1. PICK x : x = Append(w, a)
  OBVIOUS
<1>2. x \in Seq(S) /\ Len(x) = Len(w) + 1 /\ x[Len(w) + 1] = a /\ \A i \in 1 .. Len(w) : x[i] = w[i]
  BY <1>1
<1>3. x # <<>> /\ x[Len(x)] = a /\ Len(w) \in Nat
  BY <1>2
<1>4. w \o <<a>> = x
  <2>1. PICK y : y = w \o <<a>>
    OBVIOUS
  <2>2. y \in Seq(S) /\ Len(y) = Len(w) + 1 /\ y[Len(w) + 1] = a /\ \A i \in 1 .. Len(w) : y[i] = w[i]
    BY <2>1
  <2>3. Len(x) = Len(y) /\ \A i \in 1 .. Len(x) : x[i] = y[i]
    BY <1>2, <1>3, <2>2
  <2> QED BY <1>2, <2>1, <2>2, <2>3, SeqEqual
<1>5. w \o <<a, b>> = Append(x, b)
  <2>1. PICK y, z : y = w \o <<a, b>> /\ z = Append(x, b)
    OBVIOUS
  <2>2. PICK n \in Nat : n = Len(w)
    BY <1>3
  <2>3. /\ y \in Seq(S) /\ Len(y) = n + 2 /\ y[n + 1] = a /\ y[n + 2] = b
        /\ \A i \in 1 .. n : y[i] = w[i]
    BY <2>1, <2>2
  <2>4. /\ z \in Seq(S) /\ Len(z) = n + 2 /\ z[n + 1] = a /\ z[n + 2] = b
        /\ \A i \in 1 .. n : z[i] = w[i]
    BY <1>2, <2>1, <2>2
  <2>5. \A i \in 1 .. n + 2 : y[i] = z[i]
    BY <2>3, <2>4
  <2> QED BY <2>1, <2>3, <2>4, <2>5, SeqEqual
<1> QED
  BY <1>1, <1>2, <1>3, <1>4, <1>5

LEMMA LinkedOn ==
  ASSUME NEW code, NEW stop, NEW g, NEW dirs, NEW w, Linked(code, stop, g, dirs, w),
         NEW r \in Tid \X Point, w # <<>> => Link(code, stop, g, dirs, w[Len(w)], r)
  PROVE  Linked(code, stop, g, dirs, Append(w, r))
<1>1. PICK x : x = Append(w, r)
  OBVIOUS
<1>2. w \in Seq(Tid \X Point) /\ Len(w) \in Nat
  BY DEF Linked
<1>3. x \in Seq(Tid \X Point) /\ Len(x) = Len(w) + 1 /\ x[Len(w) + 1] = r /\ \A i \in 1 .. Len(w) : x[i] = w[i]
  BY <1>1, <1>2
<1>4. ASSUME NEW i \in 1 .. Len(x) - 1 PROVE Link(code, stop, g, dirs, x[i], x[i + 1])
  <2>1. i \in 1 .. Len(w) /\ x[i] = w[i]
    BY <1>2, <1>3
  <2>2. CASE i = Len(w)
    <3>1. w # <<>>
      BY <1>2, <2>1, <2>2
    <3> QED BY <1>3, <2>1, <2>2, <3>1
  <2>3. CASE i # Len(w)
    <3>1. i \in 1 .. Len(w) - 1 /\ i + 1 \in 1 .. Len(w)
      BY <1>2, <2>1, <2>3
    <3>2. Link(code, stop, g, dirs, w[i], w[i + 1])
      BY <3>1 DEF Linked
    <3> QED BY <1>3, <2>1, <3>1, <3>2
  <2> QED BY <2>2, <2>3
<1> QED
  BY <1>1, <1>3, <1>4 DEF Linked

\* The branches and loops around a place stay known.
LEMMA ThreadAtKept ==
  ASSUME NEW code, NEW g, NEW h, Grown(g, h), NEW t \in Tid, NEW p, NEW dirs, NEW more,
         dirs \subseteq more, ThreadAt(code, g, dirs, t, p), Wrote(g, h, t, Around(t, p))
  PROVE  ThreadAt(code, h, more, t, p)
<1>1. Spot(p) /\ p \in Seq(Pair) /\ Open(t, p) \subseteq DOMAIN g.bodies
  BY SpotFacts DEF ThreadAt
<1>2. PICK x : x = Around(t, p)
  OBVIOUS
<1>3. \A b \in Open(t, p) : LinkedFrom(h, Around(t, b[1][2]), t) = LinkedFrom(g, Around(t, b[1][2]), t)
  BY <1>1, <1>2, WroteOuter
<1>4. /\ \A r \in DOMAIN g.records : r \in DOMAIN h.records
      /\ \A b \in DOMAIN g.bodies : b \in DOMAIN h.bodies
  BY DEF Grown
<1> QED
  BY <1>1, <1>3, <1>4 DEF ThreadAt

LEMMA ThreadAtOuter ==
  ASSUME NEW code, NEW g, NEW t, NEW p, NEW dirs, ThreadAt(code, g, dirs, t, p), NEW q, Spot(q),
         Open(t, q) \subseteq Open(t, p), Loops(t, q) \subseteq Loops(t, p)
  PROVE  ThreadAt(code, g, dirs, t, q)
BY DEF ThreadAt

LEMMA AroundKnown ==
  ASSUME NEW code, NEW g, NEW t, NEW p, NEW dirs, ThreadAt(code, g, dirs, t, p)
  PROVE  Around(t, p) = None \/ Around(t, p) \in DOMAIN g.bodies
<1>1. p \in Seq(Pair)
  BY SpotFacts DEF ThreadAt
<1> QED
  BY <1>1, AroundOpen DEF ThreadAt

\* The thread's last record, at a place with a call: of the block it is in, or the branch.
LEMMA CameFrom ==
  ASSUME NEW code, Sound(code), NEW g, GraphOk(code, g), NEW t \in Tid, NEW p, NEW dirs, NEW l,
         Comes(code, g, dirs, t, p, l)
  PROVE  /\ l \in DOMAIN g.records /\ IsId(l) /\ l[1] = t /\ l # None
         /\ IF Kind(code, t, l[2]) = "BRANCHDIR"
            THEN \E b \in dirs : /\ b[1] = l /\ p = InBody(b) /\ Around(t, p) = b
                                 /\ b \in DOMAIN g.bodies /\ g.bodies[b].last = None
            ELSE Spot(p) /\ Around(t, l[2]) = Around(t, p) /\ LinkedFrom(g, Around(t, p), t) = l
<1>1. l \in DOMAIN g.records /\ l[1] = t
  BY DEF Comes
<1>2. IsId(l)
  BY <1>1 DEF GraphOk, RecordOk
<1>3. l # None
  <2>1. l \in Tid \X Seq(Pair)
    BY <1>2 DEF IsId, Point
  <2> QED BY <2>1, GraphAssumption
<1>4. PICK q : q = l[2]
  OBVIOUS
<1>5. Spot(q) /\ l = <<t, q>>
  BY <1>1, <1>2, <1>4 DEF IsId
<1>6. ASSUME Kind(code, t, q) = "BRANCHDIR"
      PROVE  \E b \in dirs : /\ b[1] = l /\ p = InBody(b) /\ Around(t, p) = b
                             /\ b \in DOMAIN g.bodies /\ g.bodies[b].last = None
  <2>1. PICK b \in dirs : /\ b[1] = l /\ p = InBody(b) /\ b \in DOMAIN g.bodies
                          /\ g.bodies[b].last = None
    BY <1>4, <1>6 DEF Comes
  <2>2. b[2] \in Nat /\ b = <<b[1], b[2]>>
    BY <2>1 DEF GraphOk, BodyOk
  <2>3. PICK d \in Nat : d = b[2]
    BY <2>2
  <2>4. p = IntoBranch(q, d)
    BY <1>4, <2>1, <2>3 DEF InBody
  <2>5. Around(t, p) = <<<<t, q>>, d>>
    BY <1>5, <2>4, InsideBranch
  <2>6. b = <<<<t, q>>, d>>
    BY <1>5, <2>1, <2>2, <2>3
  <2> QED BY <2>1, <2>5, <2>6
<1>7. ASSUME Kind(code, t, q) # "BRANCHDIR"
      PROVE  Spot(p) /\ Around(t, q) = Around(t, p) /\ LinkedFrom(g, Around(t, p), t) = l
  <2>1. LinkedFrom(g, Around(t, q), t) = l /\ Leads(code, t, IncrementTop(q), p)
    BY <1>4, <1>7 DEF Comes
  <2>2. PICK y : y = IncrementTop(q)
    OBVIOUS
  <2>3. Spot(y) /\ Around(t, y) = Around(t, q)
    BY <1>5, <2>2, MovedUp
  <2>4. Spot(p) /\ Around(t, p) = Around(t, y)
    BY <2>1, <2>2, <2>3, LeadsKeeps
  <2> QED BY <2>1, <2>3, <2>4
<1> QED
  BY <1>1, <1>2, <1>3, <1>4, <1>6, <1>7

\* The record of the call a thread is at, and what it makes of the tables.
MadeHere(code, stop, g, h, t, p, dirs, w) ==
  /\ GraphOk(code, h) /\ Grown(g, h) /\ Wrote(g, h, t, Around(t, p))
  /\ DOMAIN h.records = DOMAIN g.records \cup {<<t, p>>} /\ DOMAIN h.bodies = DOMAIN g.bodies
  /\ LinkedFrom(h, Around(t, p), t) = <<t, p>>
  /\ \A q \in DOMAIN g.records : h.records[q].child = g.records[q].child
  /\ ThreadAt(code, h, dirs, t, p) /\ <<t, p>> \in Tid \X Point
  /\ Linked(code, stop, h, dirs, Append(w, <<t, p>>))

\* The record of a call is linked to those before it.
LEMMA Arrived ==
  ASSUME NEW code, Sound(code), NEW stop, NEW g, GraphOk(code, g), NEW t \in Tid, t = current,
         NEW e, NEW p, p = e.pairs, NEW dirs, NEW w,
         ThreadOk(code, stop, g, dirs, t, p, w, "running"), Call(code, t, p) \in Recorded,
         NEW h, h = WithRecord(g, Around(t, p), Kind(code, t, p), e)
  PROVE  MadeHere(code, stop, g, h, t, p, dirs, w)
<1>17. PICK r : r = <<t, p>>
  OBVIOUS
<1> USE <1>17
<1>1. /\ ThreadAt(code, g, dirs, t, p) /\ ThreadWay(code, stop, g, dirs, t, p, w)
      /\ ThreadStatus(code, stop, t, p, w, "running")
  BY DEF ThreadOk
<1>2. Spot(p) /\ p \in Seq(Pair) /\ r \in Tid \X Point
  BY <1>1, SpotFacts DEF ThreadAt
<1>3. PICK branch, et, prev : /\ branch = Around(t, p) /\ et = Kind(code, t, p)
                              /\ prev = LinkedFrom(g, branch, t)
  OBVIOUS
<1>4. et \notin {"LABEL", "LOOPSTART"}
  BY <1>3, KindFacts
<1>5. branch = None \/ branch \in DOMAIN g.bodies
  BY <1>1, <1>3, AroundKnown
<1>6. ASSUME NEW l, w # <<>>, l = w[Len(w)]
      PROVE  Comes(code, g, dirs, t, p, l) /\ ~(Kind(code, t, l[2]) = "YIELD" /\ stop)
  <2>1. Comes(code, g, dirs, t, p, l)
    BY <1>1, <1>6 DEF ThreadWay
  <2>2. ~(Kind(code, t, l[2]) = "YIELD" /\ stop)
    BY <1>1, <1>6 DEF ThreadStatus
  <2> QED BY <2>1, <2>2
<1>7. ASSUME w # <<>>, NEW l, l = w[Len(w)], Kind(code, t, l[2]) # "BRANCHDIR"
      PROVE  prev = l /\ l \in DOMAIN g.records /\ NextOf(code, l, r) /\ l # None
  <2>1. Comes(code, g, dirs, t, p, l)
    BY <1>6, <1>7
  <2>2. /\ l \in DOMAIN g.records /\ l[1] = t /\ prev = l /\ l # None
    BY <1>3, <1>7, <2>1, CameFrom
  <2>3. Leads(code, t, IncrementTop(l[2]), p) /\ Kind(code, t, l[2]) \notin Exits \cup {"LOOPENTER"}
    BY <1>7, <2>1 DEF Comes
  <2>4. Call(code, t, p) \notin Silent
    BY DEF Recorded, Simple, Silent
  <2>5. r[1] = t /\ r[2] = p
    OBVIOUS
  <2>6. r = <<l[1], r[2]>>
    BY <2>2
  <2>7. NextOf(code, l, r)
    BY <1>7, <2>2, <2>3, <2>4, <2>5, <2>6 DEF NextOf
  <2> QED BY <2>2, <2>7
<1>8. ASSUME w # <<>>, NEW l, l = w[Len(w)], Kind(code, t, l[2]) = "BRANCHDIR"
      PROVE  /\ prev = None /\ branch \in dirs /\ branch[1] = l /\ branch \in DOMAIN g.bodies
             /\ r = StartOf(branch) /\ Call(code, t, InBody(branch)) # "MERGE"
  <2>1. Comes(code, g, dirs, t, p, l)
    BY <1>6, <1>8
  <2>2. PICK b \in dirs : /\ b[1] = l /\ p = InBody(b) /\ branch = b
                          /\ b \in DOMAIN g.bodies /\ g.bodies[b].last = None
    BY <1>3, <1>8, <2>1, CameFrom
  <2>3. l[1] = t
    BY <2>1 DEF Comes
  <2>4. b # None
    BY <2>2, BodyFacts
  <2>5. prev = None
    BY <1>3, <2>2, <2>4 DEF LinkedFrom
  <2>6. r = StartOf(b)
    BY <2>2, <2>3 DEF StartOf
  <2>7. Call(code, t, InBody(b)) # "MERGE"
    BY <2>2 DEF Recorded, Simple
  <2> QED BY <2>2, <2>5, <2>6, <2>7
<1>9. ASSUME w = <<>> PROVE prev = None /\ branch = None
  <2>1. p = FirstPoint /\ g.always[t] = None
    BY <1>1, <1>9 DEF ThreadWay
  <2>2. Len(p) = 1 /\ p[1].type = "COUNTER"
    <3>1. Counter(0).type = "COUNTER"
      BY DEF Counter
    <3> QED BY <2>1, <3>1 DEF FirstPoint
  <2>3. Places(p, "BRANCH") = {}
    BY <2>2 DEF Places
  <2>4. branch = None
    BY <1>3, <2>3 DEF Around
  <2> QED BY <1>3, <2>1, <2>4 DEF LinkedFrom
<1>10. PICK l : l = w[Len(w)]
  OBVIOUS
<1>11. prev # None => prev \in DOMAIN g.records /\ NextOf(code, prev, r)
  BY <1>7, <1>8, <1>9, <1>10
<1>12. branch # None => \/ g.bodies[branch].first # None
                        \/ r = StartOf(branch) /\ Call(code, t, InBody(branch)) # "MERGE"
  <2>1. SUFFICES ASSUME branch # None, w # <<>>, Kind(code, t, l[2]) # "BRANCHDIR"
                 PROVE  g.bodies[branch].first # None
    BY <1>8, <1>9, <1>10
  <2>2. prev = l /\ l # None
    BY <1>7, <1>10, <2>1
  <2>3. g.bodies[branch].last # None
    BY <1>3, <2>1, <2>2 DEF LinkedFrom
  <2>4. BodyOk(code, branch, g.bodies[branch])
    BY <1>5, <2>1 DEF GraphOk
  <2> QED BY <2>3, <2>4 DEF BodyOk
<1>13. /\ GraphOk(code, h) /\ Grown(g, h) /\ Wrote(g, h, t, branch)
       /\ DOMAIN h.records = DOMAIN g.records \cup {r} /\ DOMAIN h.bodies = DOMAIN g.bodies
       /\ LinkedFrom(h, branch, t) = r
       /\ prev # None => h.records[prev].next = r
       /\ \A q \in DOMAIN g.records : h.records[q].child = g.records[q].child
  <2>1. h = WithRecord(g, branch, et, e)
    BY <1>3
  <2>2. Entry(code, g, h, t, branch, et, r, prev)
    BY <1>2, <1>3, <1>4, <1>5, <1>11, <1>12, <2>1, Made
  <2> QED BY <1>4, <2>2 DEF Entry
<1>14. ThreadAt(code, h, dirs, t, p)
  BY <1>1, <1>3, <1>13, ThreadAtKept
<1>15. ASSUME w # <<>> PROVE Link(code, stop, h, dirs, l, r)
  <2>1. /\ Comes(code, g, dirs, t, p, l) /\ ~(Kind(code, t, l[2]) = "YIELD" /\ stop)
        /\ l \in DOMAIN g.records /\ l[1] = t /\ Kind(code, t, l[2]) # "LOOPENTER"
    BY <1>6, <1>10, <1>15 DEF Comes
  <2>2. l \in DOMAIN h.records /\ r # None
    <3>1. r \in Tid \X Seq(Pair)
      BY <1>2
    <3> QED BY <1>13, <2>1, <3>1, GraphAssumption
  <2>3. CASE Kind(code, t, l[2]) = "BRANCHDIR"
    <3>1. /\ branch \in dirs /\ branch[1] = l /\ branch \in DOMAIN h.bodies
          /\ r = StartOf(branch) /\ Call(code, t, InBody(branch)) # "MERGE"
      BY <1>8, <1>10, <1>13, <1>15, <2>3
    <3>2. h.bodies[branch].first = r
      <4>1. BodyOk(code, branch, h.bodies[branch]) /\ branch # None
        BY <1>13, <3>1, BodyFacts
      <4>2. h.bodies[branch].last = r
        BY <1>13, <4>1 DEF LinkedFrom
      <4> QED BY <2>2, <3>1, <4>1, <4>2 DEF BodyOk
    <3> QED BY <2>1, <2>2, <2>3, <3>1, <3>2 DEF Link
  <2>4. CASE Kind(code, t, l[2]) # "BRANCHDIR"
    <3>1. h.records[l].next = r
      BY <1>7, <1>10, <1>13, <1>15, <2>4
    <3> QED BY <2>1, <2>2, <2>4, <3>1 DEF Link
  <2> QED BY <2>3, <2>4
<1>16. Linked(code, stop, h, dirs, Append(w, r))
  <2>1. Linked(code, stop, g, dirs, w)
    BY <1>1 DEF ThreadWay
  <2>2. Linked(code, stop, h, dirs, w)
    BY <1>13, <2>1, LinkedKept
  <2> QED BY <1>2, <1>10, <1>15, <2>2, LinkedOn
<1> QED
  BY <1>2, <1>3, <1>13, <1>14, <1>16 DEF MadeHere

\* In the body of a branch the program goes on.
LEMMA LeftFacts ==
  ASSUME BodiesAreLeft, NEW code, Sound(code), NEW t \in Tid, NEW p, Spot(p)
  PROVE  LET call == Call(code, t, p) IN
         /\ call = "BRANCH" => \A d \in code[t][p].dirs : Call(code, t, IntoBranch(p, d)) # "END"
         /\ Open(t, p) # {} =>
              /\ call \in Simple => Call(code, t, IncrementTop(p)) # "END"
              /\ call \in {"BRANCH", "ENTER"} => Call(code, t, IncrementTop(IncrementTop(p))) # "END"
              /\ call = "ENTER" => Call(code, t, Push(Push(p, Loop(0)), Counter(1))) # "END"
              /\ call = "ITERATE" => Call(code, t, Iterated(p, 1)) # "END"
<1>1. PICK i \in DOMAIN Programs : code = Programs[i]
  BY DEF Sound
<1>2. CASE p \in DOMAIN code[t]
  <2>1. PICK op : op = code[t][p].op
    OBVIOUS
  <2>2. Call(code, t, p) = op
    BY <1>2, <2>1 DEF Call
  <2>3. ASSUME NEW q \in DOMAIN code[t] PROVE Call(code, t, q) # "END"
    <3>1. code[t][q].op \in Calls
      BY <1>1, ClientAssumption
    <3> QED BY <3>1 DEF Call, Calls
  <2>4. /\ op = "BRANCH" => \A d \in code[t][p].dirs : IntoBranch(p, d) \in DOMAIN code[t]
        /\ (\E j \in DOMAIN p : p[j].type = "BRANCH") =>
             /\ op \in {"EVENT", "CREATE", "LOOPPHI", "YIELD"} => IncrementTop(p) \in DOMAIN code[t]
             /\ op \in {"BRANCH", "ENTER"} => IncrementTop(IncrementTop(p)) \in DOMAIN code[t]
             /\ op = "ENTER" => Push(Push(p, Loop(0)), Counter(1)) \in DOMAIN code[t]
             /\ op = "ITERATE" => Append(IncrementTop(Pop(p)), Counter(0)) \in DOMAIN code[t]
    BY <1>1, <1>2, <2>1 DEF BodiesAreLeft
  <2>5. Open(t, p) # {} => \E j \in DOMAIN p : p[j].type = "BRANCH"
    BY SpotFacts DEF Open, Places
  <2>6. op = "ITERATE" => Append(IncrementTop(Pop(p)), Counter(0)) = Iterated(p, 1)
    <3>1. SUFFICES ASSUME op = "ITERATE" PROVE Append(IncrementTop(Pop(p)), Counter(0)) = Iterated(p, 1)
      OBVIOUS
    <3>2. Len(p) > 2 /\ Len(p) \in Nat
      BY <2>2, <3>1, ClientFacts, SpotFacts
    <3>3. Len(p) > 1
      BY <3>2
    <3> QED BY <3>3, Moves
  <2> QED BY <2>2, <2>3, <2>4, <2>5, <2>6 DEF Simple
<1>3. CASE p \notin DOMAIN code[t]
  <2>1. Call(code, t, p) = "END"
    BY <1>3 DEF Call
  <2> QED BY <2>1 DEF Simple
<1> QED
  BY <1>2, <1>3

LEMMA DirsOn ==
  ASSUME NEW dirs, NEW t, NEW p, Spot(p), NEW q, Spot(q), DirsOk(dirs, t, p), Passed(p, q)
  PROVE  DirsOk(dirs, t, q)
<1>1. p \in Point /\ q \in Point
  BY DEF Spot
<1>2. SUFFICES ASSUME NEW b \in dirs, b[1][1] = t
               PROVE  b[1][2] \in Point /\ Passed(b[1][2], q)
  BY DEF DirsOk
<1>3. b[1][2] \in Point /\ Passed(b[1][2], p)
  BY <1>2 DEF DirsOk
<1>4. PICK x \in Point : x = b[1][2] /\ Passed(x, p)
  BY <1>3
<1>5. Passed(x, q)
  BY <1>1, <1>4, PassedOn
<1> QED
  BY <1>4, <1>5

\* A thread that has made its record and counted it.
LEMMA Settled ==
  ASSUME NEW code, Sound(code), NEW stop, NEW h, NEW t \in Tid, NEW y, NEW r, r = <<t, y>>,
         NEW dirs, ThreadAt(code, h, dirs, t, y), LinkedFrom(h, Around(t, y), t) = r,
         r \in DOMAIN h.records, Kind(code, t, y) \notin Exits \cup {"LOOPENTER", "BRANCHDIR"},
         NEW w, w # <<>>, w[Len(w)] = r, Linked(code, stop, h, dirs, w),
         NEW q, q = IncrementTop(y), Open(t, y) # {} => Call(code, t, q) # "END",
         DirsOk(dirs, t, y),
         NEW s, s = IF Kind(code, t, y) = "YIELD" /\ stop THEN "complete" ELSE "running"
  PROVE  ThreadOk(code, stop, h, dirs, t, q, w, s)
<1>1. Spot(y)
  BY DEF ThreadAt
<1>2. /\ Spot(q) /\ Open(t, q) = Open(t, y) /\ Loops(t, q) = Loops(t, y) /\ Passed(y, q)
  BY <1>1, MovedUp
<1>3. ThreadAt(code, h, dirs, t, q)
  BY <1>2, ThreadAtOuter
<1>4. r[1] = t /\ r[2] = y
  OBVIOUS
<1>5. Comes(code, h, dirs, t, q, r)
  <2>1. Leads(code, t, IncrementTop(y), q)
    BY DEF Leads
  <2> QED BY <1>4, <2>1 DEF Comes
<1>6. ThreadWay(code, stop, h, dirs, t, q, w)
  BY <1>5 DEF ThreadWay
<1>7. ThreadStatus(code, stop, t, q, w, s)
  BY <1>2, <1>4 DEF ThreadStatus
<1>8. DirsOk(dirs, t, q)
  BY <1>1, <1>2, DirsOn
<1> QED
  BY <1>3, <1>6, <1>7, <1>8 DEF ThreadOk

\* Two tables that differ in children and directions.
Touched(g, h) ==
  /\ h.bodies = g.bodies /\ h.always = g.always /\ DOMAIN h.records = DOMAIN g.records
  /\ \A q \in DOMAIN g.records :
       \/ h.records[q] = g.records[q]
       \/ \E x : h.records[q] = [g.records[q] EXCEPT !.child = x]
       \/ \E x : h.records[q] = [g.records[q] EXCEPT !.dirs = x]

\* Records of which the child or the directions are set.
LEMMA Retouched ==
  ASSUME NEW code, NEW g, GraphOk(code, g), NEW h, Touched(g, h)
  PROVE  /\ GraphOk(code, h) /\ Grown(g, h)
         /\ \A u, y : LinkedFrom(h, y, u) = LinkedFrom(g, y, u)
<1> USE DEF Touched
<1>1. ASSUME NEW q \in DOMAIN g.records
      PROVE  RecordOk(code, q, h.records[q]) /\ h.records[q].next = g.records[q].next
  <2>1. PICK rec, rec2 : rec = g.records[q] /\ rec2 = h.records[q]
    OBVIOUS
  <2>2. RecordOk(code, q, rec) /\ {"type", "branch", "next", "child", "dirs"} \subseteq DOMAIN rec
    BY <2>1 DEF GraphOk, RecordOk
  <2>3. \/ rec2 = rec
        \/ \E x : rec2 = [rec EXCEPT !.child = x]
        \/ \E x : rec2 = [rec EXCEPT !.dirs = x]
    BY <2>1
  <2>4. /\ DOMAIN rec2 = DOMAIN rec /\ rec2.type = rec.type /\ rec2.branch = rec.branch
        /\ rec2.next = rec.next
    BY <2>2, <2>3
  <2> QED BY <2>1, <2>2, <2>4 DEF RecordOk
<1>2. GraphOk(code, h)
  BY <1>1 DEF GraphOk
<1>3. Grown(g, h)
  BY <1>1 DEF Grown
<1> QED
  BY <1>2, <1>3 DEF LinkedFrom

LEMMA SameLast ==
  ASSUME NEW g, NEW h, \A u, y : LinkedFrom(h, y, u) = LinkedFrom(g, y, u)
  PROVE  /\ \A t, x : Wrote(g, h, t, x)
         /\ \A u : Untouched(g, h, u)
BY DEF Wrote, Untouched
--------------------------------------------------------------------------------
\* The running thread.
Now(p, w) ==
  LET code == Programs[program] IN
  /\ Sound(code) /\ GraphOk(code, Tables) /\ ChildrenOk(code, Tables) /\ OneWay(taken)
  /\ current \in Tid /\ currbranch = Around(current, p)
  /\ ThreadOk(code, noexecyields, Tables, taken, current, p, w, status[current])
  /\ Spot(p) /\ p \in Point /\ w \in Seq(Tid \X Point)
  /\ p = currexecpoint.pairs /\ p = Place(current) /\ w = walked[current]
  /\ Instr(current).op = Call(code, current, p)
  /\ Call(code, current, p) # "END" => Instr(current) = code[current][p]

LEMMA HereFacts ==
  ASSUME IInv, WInv, phase = "execute"
  PROVE  Now(Place(current), walked[current])
<1>1. PICK code, p, w : code = Programs[program] /\ p = Place(current) /\ w = walked[current]
  OBVIOUS
<1>2. /\ current \in Tid /\ program \in DOMAIN Programs /\ p = currexecpoint.pairs
  BY <1>1 DEF IInv, Place, currexecpoint
<1>3. Sound(code)
  BY <1>1, <1>2 DEF Sound
<1>4. /\ GraphOk(code, Tables) /\ ChildrenOk(code, Tables) /\ OneWay(taken)
      /\ BranchOf(current) = Around(current, p)
      /\ ThreadOk(code, noexecyields, Tables, taken, current, p, w, status[current])
  BY <1>1, <1>2 DEF WInv
<1>5. currbranch = Around(current, p)
  BY <1>4 DEF BranchOf
<1>6. Spot(p) /\ p \in Point
  BY <1>4 DEF ThreadOk, ThreadAt, Spot
<1>7. w \in Seq(Tid \X Point)
  BY <1>4 DEF ThreadOk, ThreadWay, Linked
<1>8. Instr(current).op = Call(code, current, p)
  BY <1>1 DEF Instr, Call
<1>9. Call(code, current, p) # "END" => Instr(current) = code[current][p]
  BY <1>1 DEF Instr, Call
<1> QED
  BY <1>1, <1>2, <1>3, <1>4, <1>5, <1>6, <1>7, <1>8, <1>9 DEF Now

\* A step of the running thread that leaves the others alone.
LEMMA OwnStep ==
  ASSUME IInv, WInv, phase = "execute", UNCHANGED <<program, noexecyields, runs, phase>>,
         current' = current, CurrBranchList' = CurrBranchList,
         NEW e, execpoint'[current] = e, NEW q, q = e.pairs, currbranch' = Around(current, q),
         NEW w, walked'[current] = w, DOMAIN walked' = Tid,
         \A u \in Tid : u # current => walked'[u] = walked[u] /\ execpoint'[u] = execpoint[u],
         NEW more, taken' = more, taken \subseteq more, OneWay(more),
         \A b \in more : b \in taken \/ b[1][1] = current,
         NEW h, Tables' = h, GraphOk(Programs[program], h), ChildrenOk(Programs[program], h),
         Grown(Tables, h), \A u \in Tid : u # current => Untouched(Tables, h, u),
         DOMAIN status' = Tid,
         \A u \in Tid : u # current => \/ status'[u] = status[u]
                                       \/ status[u] = "unborn" /\ status'[u] = "running",
         ThreadOk(Programs[program], noexecyields, h, more, current, q, w, status'[current])
  PROVE  WInv'
<1>1. PICK code, stop, g : code = Programs[program] /\ stop = noexecyields /\ g = Tables
  OBVIOUS
<1>2. /\ GraphOk(code, g) /\ Sound(code) /\ current \in Tid /\ DOMAIN execpoint = Tid
      /\ DOMAIN walked = Tid /\ DOMAIN CurrBranchList = Tid
  BY <1>1 DEF IInv, WInv, Sound
<1>3. \A run \in runs' : RunOk(code, stop, h, run)
  <2>1. ASSUME NEW run \in runs PROVE RunOk(code, stop, h, run)
    <3>1. RunOk(code, stop, g, run) /\ Grown(g, h)
      BY <1>1 DEF WInv
    <3> QED BY <3>1, RunsKept
  <2> QED BY <2>1
<1>4. /\ walked'[current] = w /\ execpoint'[current] = e
      /\ \A u \in Tid : u # current => walked'[u] = walked[u] /\ execpoint'[u] = execpoint[u]
      /\ DOMAIN walked' = Tid
  OBVIOUS
<1>5. ASSUME NEW t \in Tid
      PROVE  /\ BranchOf(t)' = Around(t, Place(t)')
             /\ ThreadOk(code, stop, h, more, t, Place(t)', walked'[t], status'[t])
  <2>1. CASE t = current
    <3>1. Place(t)' = q /\ walked'[t] = w
      BY <1>4, <2>1 DEF Place
    <3>2. BranchOf(t)' = currbranch'
      BY <2>1 DEF BranchOf
    <3> QED BY <1>1, <2>1, <3>1, <3>2
  <2>2. CASE t # current
    <3>1. PICK p, v, s : p = Place(t) /\ v = walked[t] /\ s = status[t]
      OBVIOUS
    <3>2. Place(t)' = p /\ walked'[t] = v
      BY <1>4, <2>2, <3>1 DEF Place
    <3>3. BranchOf(t)' = BranchOf(t)
      BY <2>2 DEF BranchOf
    <3>4. BranchOf(t) = Around(t, p) /\ ThreadOk(code, stop, g, taken, t, p, v, s)
      BY <1>1, <3>1 DEF WInv
    <3>5. DirsOk(more, t, p)
      <4>1. DirsOk(taken, t, p)
        BY <3>4 DEF ThreadOk
      <4> QED BY <2>2, <4>1 DEF DirsOk
    <3>6. Untouched(g, h, t) /\ Grown(g, h)
      BY <1>1, <2>2
    <3>7. ThreadOk(code, stop, h, more, t, p, v, s)
      BY <1>2, <3>4, <3>5, <3>6, ThreadKept
    <3>8. ThreadOk(code, stop, h, more, t, p, v, status'[t])
      <4>1. CASE status'[t] = status[t]
        BY <3>1, <3>7, <4>1
      <4>2. CASE status[t] = "unborn" /\ status'[t] = "running"
        <5>1. ThreadStatus(code, stop, t, p, v, "unborn")
          BY <3>1, <3>7, <4>2 DEF ThreadOk
        <5>2. ThreadStatus(code, stop, t, p, v, "running")
          BY <5>1 DEF ThreadStatus
        <5> QED BY <3>7, <4>2, <5>2 DEF ThreadOk
      <4> QED BY <2>2, <4>1, <4>2
    <3> QED BY <3>2, <3>3, <3>4, <3>8
  <2> QED BY <2>1, <2>2
<1>6. code = Programs[program'] /\ stop = noexecyields'
  BY <1>1
<1> QED
  BY <1>1, <1>2, <1>3, <1>4, <1>5, <1>6 DEF WInv

\* The same where its point and its walk are written.
LEMMA RunningStep ==
  ASSUME IInv, WInv, phase = "execute", UNCHANGED <<program, noexecyields, runs, phase>>,
         current' = current, CurrBranchList' = CurrBranchList,
         NEW e, MoveTo(e), NEW q, q = e.pairs, currbranch' = Around(current, q),
         NEW w, walked' = [walked EXCEPT ![current] = w],
         NEW more, taken' = more, taken \subseteq more, OneWay(more),
         \A b \in more : b \in taken \/ b[1][1] = current,
         NEW h, Tables' = h, GraphOk(Programs[program], h), ChildrenOk(Programs[program], h),
         Grown(Tables, h), \A u \in Tid : u # current => Untouched(Tables, h, u),
         DOMAIN status' = Tid,
         \A u \in Tid : u # current => \/ status'[u] = status[u]
                                       \/ status[u] = "unborn" /\ status'[u] = "running",
         ThreadOk(Programs[program], noexecyields, h, more, current, q, w, status'[current])
  PROVE  WInv'
<1>1. /\ walked'[current] = w /\ execpoint'[current] = e
      /\ \A u \in Tid : u # current => walked'[u] = walked[u] /\ execpoint'[u] = execpoint[u]
      /\ DOMAIN walked' = Tid
  <2>1. current \in Tid /\ DOMAIN execpoint = Tid /\ DOMAIN walked = Tid
    BY DEF IInv, WInv
  <2> QED BY <2>1 DEF MoveTo
<1> QED
  BY <1>1, OwnStep

\* The tables with a record are again the tables.
LEMMA TablesOnly ==
  ASSUME NEW g, NEW branch, NEW et, NEW e, NEW h, h = WithRecord(g, branch, et, e)
  PROVE  /\ h = [records |-> h.records, bodies |-> h.bodies, always |-> h.always]
         /\ SetTables(h) => Tables' = h
<1>1. h = [records |-> h.records, bodies |-> h.bodies, always |-> h.always]
  BY DEF WithRecord
<1>2. ASSUME SetTables(h) PROVE Tables' = [records |-> h.records, bodies |-> h.bodies, always |-> h.always]
  BY <1>2 DEF SetTables, Tables
<1> QED
  BY <1>1, <1>2

\* No record of a loop but new ones.
LEMMA ChildrenKept ==
  ASSUME NEW code, NEW g, NEW h, ChildrenOk(code, g), NEW r,
         DOMAIN h.records = DOMAIN g.records \cup {r}, Kind(code, r[1], r[2]) # "LOOPENTER",
         \A q \in DOMAIN g.records : \/ h.records[q].child = g.records[q].child
                                     \/ Kind(code, q[1], q[2]) # "LOOPENTER"
  PROVE  ChildrenOk(code, h)
BY DEF ChildrenOk
LEMMA SimpleRecord ==
  ASSUME IInv, WInv, BodiesAreLeft, phase = "execute", status[current] = "running",
         NEW code, code = Programs[program], NEW p, p = Place(current), NEW w, w = walked[current],
         Call(code, current, p) \in Simple,
         NEW h, h = WithRecord(Tables, currbranch, Kind(code, current, p), currexecpoint)
  PROVE  /\ GraphOk(code, h) /\ ChildrenOk(code, h) /\ Grown(Tables, h)
         /\ \A u \in Tid : u # current => Untouched(Tables, h, u)
         /\ DOMAIN h.records = DOMAIN records \cup {Here}
         /\ Append(w, Here) = w \o <<Here>>
         /\ ThreadOk(code, noexecyields, h, taken, current, IncrementTop(p), Append(w, Here),
                     IF Call(code, current, p) = "YIELD" /\ noexecyields THEN "complete" ELSE "running")
<1>15. PICK t \in Tid : t = current
  BY DEF IInv
<1>16. PICK g, e, r, stop, dirs :
        /\ g = Tables /\ e = currexecpoint /\ r = <<t, p>> /\ stop = noexecyields /\ dirs = taken
  OBVIOUS
<1>1. /\ g = Tables /\ t = current /\ e = currexecpoint /\ r = <<t, p>> /\ stop = noexecyields
      /\ dirs = taken
  BY <1>15, <1>16
<1>2. /\ Sound(code) /\ GraphOk(code, g) /\ ChildrenOk(code, g) /\ currbranch = Around(t, p)
      /\ ThreadOk(code, stop, g, dirs, t, p, w, "running") /\ Spot(p) /\ p = e.pairs
      /\ w \in Seq(Tid \X Point)
  BY <1>1, HereFacts DEF Now
<1>3. r = Here
  BY <1>1 DEF Here
<1>4. Call(code, t, p) \in Recorded
  BY <1>1 DEF Recorded
<1>5. /\ GraphOk(code, h) /\ Grown(g, h) /\ Wrote(g, h, t, Around(t, p))
      /\ DOMAIN h.records = DOMAIN g.records \cup {r}
      /\ LinkedFrom(h, Around(t, p), t) = r
      /\ \A q \in DOMAIN g.records : h.records[q].child = g.records[q].child
      /\ ThreadAt(code, h, dirs, t, p) /\ r \in Tid \X Point
      /\ Linked(code, stop, h, dirs, Append(w, r))
  <2>1. h = WithRecord(g, Around(t, p), Kind(code, t, p), e)
    BY <1>1, <1>2
  <2>2. MadeHere(code, stop, g, h, t, p, dirs, w)
    <3>1. h = WithRecord(g, Around(t, p), Kind(code, t, p), e)
      BY <1>1, <2>1
    <3> QED BY <1>1, <1>2, <1>4, <3>1, Arrived
  <2> QED BY <1>1, <2>2 DEF MadeHere
<1>6. /\ Kind(code, t, p) \notin Exits \cup {"LOOPENTER", "BRANCHDIR"}
      /\ Kind(code, t, p) = "YIELD" <=> Call(code, t, p) = "YIELD"
  <2>1. Call(code, t, p) \notin {"EXIT", "ENTER", "BRANCH"}
    BY <1>1 DEF Simple
  <2> QED BY <1>2, <2>1, KindFacts
<1>7. ChildrenOk(code, h)
  <2>1. r[1] = t /\ r[2] = p
    BY <1>1
  <2> QED BY <1>2, <1>5, <1>6, <2>1, ChildrenKept
<1>8. \A u \in Tid : u # t => Untouched(g, h, u)
  <2>1. Around(t, p) = None \/ Around(t, p)[1][1] = t
    <3>1. p \in Seq(Pair)
      BY <1>2, SpotFacts
    <3>2. ASSUME NEW b \in Open(t, p) PROVE b[1][1] = t
      <4>1. b = <<<<t, b[1][2]>>, b[2]>>
        BY <3>1, AroundOuter
      <4> QED BY <4>1
    <3> QED BY <3>1, <3>2, AroundOpen
  <2>2. PICK x : x = Around(t, p)
    OBVIOUS
  <2>3. Wrote(g, h, t, x) /\ (x = None \/ x[1][1] = t)
    BY <1>5, <2>1, <2>2
  <2> QED BY <2>3, WroteOthers
<1>9. PICK v, q, s : /\ v = Append(w, r) /\ q = IncrementTop(p)
                     /\ s = IF Kind(code, t, p) = "YIELD" /\ stop THEN "complete" ELSE "running"
  OBVIOUS
<1>10. v # <<>> /\ v[Len(v)] = r /\ v = w \o <<r>>
  BY <1>2, <1>5, <1>9, Concat
<1>11. ThreadOk(code, stop, h, dirs, t, q, v, s)
  <2>1. Open(t, p) # {} => Call(code, t, q) # "END"
    BY <1>1, <1>2, <1>9, LeftFacts
  <2>2. DirsOk(dirs, t, p)
    BY <1>2 DEF ThreadOk
  <2>3. r \in DOMAIN h.records
    BY <1>5
  <2>4. Linked(code, stop, h, dirs, v)
    BY <1>5, <1>9
  <2> QED BY <1>1, <1>2, <1>5, <1>6, <1>9, <1>10, <2>1, <2>2, <2>3, <2>4, Settled
<1>12. DOMAIN g.records = DOMAIN records
  BY <1>1 DEF Tables
<1>13. s = IF Call(code, t, p) = "YIELD" /\ noexecyields THEN "complete" ELSE "running"
  BY <1>1, <1>6, <1>9
<1>14. /\ GraphOk(code, h) /\ ChildrenOk(code, h) /\ Grown(g, h)
       /\ \A u \in Tid : u # t => Untouched(g, h, u)
       /\ DOMAIN h.records = DOMAIN records \cup {r}
       /\ v = w \o <<r>>
       /\ ThreadOk(code, stop, h, dirs, t, q, v, s)
  BY <1>5, <1>7, <1>8, <1>10, <1>11, <1>12
<1> QED
  BY <1>1, <1>3, <1>9, <1>13, <1>14

\* The block a thread is in is its own.
LEMMA AroundOwn ==
  ASSUME NEW t \in Tid, NEW p, Spot(p)
  PROVE  Around(t, p) = None \/ Around(t, p)[1][1] = t
<1>1. p \in Seq(Pair)
  BY SpotFacts
<1>2. ASSUME NEW b \in Open(t, p) PROVE b[1][1] = t
  <2>1. b = <<<<t, b[1][2]>>, b[2]>>
    BY <1>1, AroundOuter
  <2> QED BY <2>1
<1> QED
  BY <1>1, <1>2, AroundOpen

LEMMA EventWInv ==
  ASSUME IInv, WInv, BodiesAreLeft, UNCHANGED <<program, noexecyields, runs, phase>>,
         phase = "execute", status[current] = "running",
         event \/ threadCreate \/ loop_phi \/ threadYield
  PROVE  WInv'
<1>16. PICK t \in Tid : t = current
  BY DEF IInv
<1>17. PICK code, p, w, g, e, stop, f :
        /\ code = Programs[program] /\ p = Place(current) /\ w = walked[current] /\ g = Tables
        /\ e = currexecpoint /\ stop = noexecyields /\ f = incrementTop(currexecpoint)
  OBVIOUS
<1>1. /\ code = Programs[program] /\ p = Place(current) /\ w = walked[current] /\ g = Tables
      /\ t = current /\ e = currexecpoint /\ stop = noexecyields /\ f = incrementTop(currexecpoint)
  BY <1>16, <1>17
<1>2. /\ Sound(code) /\ GraphOk(code, g) /\ ChildrenOk(code, g) /\ currbranch = Around(t, p)
      /\ OneWay(taken) /\ Spot(p) /\ p = e.pairs
      /\ Instr(current).op = Call(code, t, p)
      /\ Call(code, t, p) # "END" => Instr(current) = code[t][p]
  BY <1>1, HereFacts DEF Now
<1>3. Call(code, t, p) \in Simple
  BY <1>2 DEF Simple, event, threadCreate, loop_phi, threadYield, Running
<1>4. PICK h : h = WithRecord(Tables, currbranch, Kind(code, t, p), currexecpoint)
  OBVIOUS
<1>5. PICK q, v, s : /\ q = IncrementTop(p) /\ v = Append(w, Here)
                     /\ s = IF Call(code, t, p) = "YIELD" /\ stop THEN "complete" ELSE "running"
  OBVIOUS
<1>6. /\ GraphOk(code, h) /\ ChildrenOk(code, h) /\ Grown(g, h)
      /\ \A u \in Tid : u # t => Untouched(g, h, u)
      /\ DOMAIN h.records = DOMAIN records \cup {Here}
      /\ v = w \o <<Here>>
      /\ ThreadOk(code, stop, h, taken, t, q, v, s)
  <2>1. Call(code, current, p) \in Simple /\ h = WithRecord(Tables, currbranch, Kind(code, current, p), currexecpoint)
    BY <1>1, <1>3, <1>4
  <2>2. /\ GraphOk(code, h) /\ ChildrenOk(code, h) /\ Grown(Tables, h)
        /\ \A u \in Tid : u # current => Untouched(Tables, h, u)
        /\ DOMAIN h.records = DOMAIN records \cup {Here}
        /\ Append(w, Here) = w \o <<Here>>
        /\ ThreadOk(code, noexecyields, h, taken, current, IncrementTop(p), Append(w, Here),
                    IF Call(code, current, p) = "YIELD" /\ noexecyields THEN "complete" ELSE "running")
    BY <1>1, <2>1, SimpleRecord
  <2> QED BY <1>1, <1>5, <2>2
<1>7. f.pairs = q /\ Around(t, q) = Around(t, p)
  <2>1. incrementTop(currexecpoint).pairs = IncrementTop(currexecpoint.pairs)
    <3>1. PICK x : x = currexecpoint
      OBVIOUS
    <3>2. HashRight(current, x) /\ Len(x.pairs) > 0
      BY <3>1, HereRight
    <3>3. incrementTop(x).pairs = IncrementTop(x.pairs)
      BY <3>2, IncrementRight
    <3> QED BY <3>1, <3>3
  <2> QED BY <1>1, <1>2, <1>5, <2>1, MovedUp
<1>8. /\ current' = current /\ currbranch' = currbranch /\ CurrBranchList' = CurrBranchList
      /\ taken' = taken /\ MoveTo(f) /\ walked' = [walked EXCEPT ![current] = v]
  <2>1. walked' = [walked EXCEPT ![current] = w \o <<Here>>]
    BY <1>1 DEF event, threadCreate, loop_phi, threadYield, Walk
  <2>2. walked' = [walked EXCEPT ![current] = v]
    BY <1>6, <2>1
  <2> QED BY <1>1, <2>2 DEF event, threadCreate, loop_phi, threadYield
<1>9. /\ DOMAIN status' = Tid
      /\ \A u \in Tid : u # current => \/ status'[u] = status[u]
                                       \/ status[u] = "unborn" /\ status'[u] = "running"
      /\ status'[current] = s
  <2>1. DOMAIN status = Tid
    BY DEF WInv
  <2>2. CASE event \/ loop_phi
    <3>1. status' = status /\ Call(code, t, p) # "YIELD"
      BY <1>2, <2>2 DEF event, loop_phi, Running
    <3> QED BY <1>1, <1>5, <2>1, <3>1
  <2>3. CASE threadCreate
    <3>1. PICK i : i = Instr(current).tid
      OBVIOUS
    <3>2. /\ status' = [status EXCEPT ![i] = "running"] /\ Call(code, t, p) # "YIELD"
          /\ status[i] = "unborn"
      BY <1>2, <2>3, <3>1 DEF threadCreate, Running
    <3> QED BY <1>1, <1>5, <2>1, <3>2
  <2>4. CASE threadYield
    <3>1. /\ status' = IF noexecyields THEN [status EXCEPT ![current] = "complete"] ELSE status
          /\ Call(code, t, p) = "YIELD"
      BY <1>2, <2>4 DEF threadYield, Running
    <3> QED BY <1>1, <1>5, <2>1, <3>1
  <2> QED BY <2>2, <2>3, <2>4
<1>10. PICK k : k = Tables'
  OBVIOUS
<1>11. \/ k = h
       \/ /\ k.bodies = h.bodies /\ k.always = h.always /\ DOMAIN k.records = DOMAIN h.records
          /\ \A x \in DOMAIN h.records :
               \/ k.records[x] = h.records[x]
               \/ /\ \E y : k.records[x] = [h.records[x] EXCEPT !.child = y]
                  /\ x \in DOMAIN records /\ records[x].type = "THREADCREATE"
  <2>1. SetTables(h) => k = h
    BY <1>4, <1>10, TablesOnly
  <2>2. ASSUME ~event PROVE SetTables(h)
    <3>1. Call(code, t, p) = "CREATE" => Kind(code, t, p) = "THREADCREATE"
      BY DEF Kind
    <3>2. Call(code, t, p) = "LOOPPHI" => Kind(code, t, p) = "FUNCTION"
      BY DEF Kind
    <3>3. Call(code, t, p) = "YIELD" => Kind(code, t, p) = "YIELD"
      BY DEF Kind
    <3> QED BY <1>2, <1>4, <2>2, <3>1, <3>2, <3>3 DEF threadCreate, loop_phi, threadYield, Running
  <2>3. ASSUME event
        PROVE  \/ SetTables(h)
               \/ SetTables([h EXCEPT !.records =
                    [r \in DOMAIN h.records |->
                       IF r \in {x \in DOMAIN records : records[x].type = "THREADCREATE"}
                       THEN [h.records[r] EXCEPT !.child = Here] ELSE h.records[r]]])
    <3>1. Call(code, t, p) = "EVENT"
      BY <1>2, <2>3 DEF event, Running
    <3>2. Kind(code, t, p) = Instr(current).type
      BY <1>2, <3>1 DEF Kind
    <3> QED BY <1>4, <2>3, <3>2 DEF event
  <2>4. DOMAIN h = {"records", "bodies", "always"}
    BY <1>4 DEF WithRecord
  <2>5. ASSUME event, ~SetTables(h)
        PROVE  /\ k.bodies = h.bodies /\ k.always = h.always
               /\ k.records = [r \in DOMAIN h.records |->
                       IF r \in {x \in DOMAIN records : records[x].type = "THREADCREATE"}
                       THEN [h.records[r] EXCEPT !.child = Here] ELSE h.records[r]]
    <3>1. PICK R : R = [r \in DOMAIN h.records |->
                       IF r \in {x \in DOMAIN records : records[x].type = "THREADCREATE"}
                       THEN [h.records[r] EXCEPT !.child = Here] ELSE h.records[r]]
      OBVIOUS
    <3>2. SetTables([h EXCEPT !.records = R])
      BY <2>3, <2>5, <3>1
    <3>3. records' = R /\ bodies' = h.bodies /\ alwaysexecuted' = h.always
      BY <2>4, <3>2 DEF SetTables
    <3> QED BY <1>10, <3>1, <3>3 DEF Tables
  <2> QED BY <2>1, <2>2, <2>5
<1>12. /\ GraphOk(code, k) /\ ChildrenOk(code, k) /\ Grown(g, k)
       /\ \A u \in Tid : u # t => Untouched(g, k, u)
       /\ ThreadOk(code, stop, k, taken, t, q, v, s)
  <2>1. CASE k = h
    BY <1>6, <2>1
  <2>2. CASE /\ k.bodies = h.bodies /\ k.always = h.always /\ DOMAIN k.records = DOMAIN h.records
             /\ \A x \in DOMAIN h.records :
                  \/ k.records[x] = h.records[x]
                  \/ /\ \E y : k.records[x] = [h.records[x] EXCEPT !.child = y]
                     /\ x \in DOMAIN records /\ records[x].type = "THREADCREATE"
    <3>1. /\ GraphOk(code, k) /\ Grown(h, k)
          /\ \A u, y : LinkedFrom(k, y, u) = LinkedFrom(h, y, u)
      <4>1. \A x \in DOMAIN h.records :
              \/ k.records[x] = h.records[x]
              \/ \E y : k.records[x] = [h.records[x] EXCEPT !.child = y]
              \/ \E y : k.records[x] = [h.records[x] EXCEPT !.dirs = y]
        BY <2>2
      <4>2. k.bodies = h.bodies /\ k.always = h.always /\ DOMAIN k.records = DOMAIN h.records
        BY <2>2
      <4>3. GraphOk(code, h)
        BY <1>6
      <4>4. Touched(h, k)
        BY <4>1, <4>2 DEF Touched
      <4>5. GraphOk(code, k) /\ Grown(h, k)
        BY <4>3, <4>4, Retouched
      <4>6. \A u, y : LinkedFrom(k, y, u) = LinkedFrom(h, y, u)
        BY <4>3, <4>4, Retouched
      <4> QED BY <4>5, <4>6
    <3>2. \A u : Untouched(h, k, u)
      BY <3>1, SameLast
    <3>3. ThreadOk(code, stop, k, taken, t, q, v, s)
      <4>1. DirsOk(taken, t, q)
        BY <1>6 DEF ThreadOk
      <4>2. PICK dirs : dirs = taken
        OBVIOUS
      <4> QED BY <1>2, <1>6, <3>1, <3>2, <4>1, <4>2, ThreadKept
    <3>4. ChildrenOk(code, k)
      <4>1. ASSUME NEW x \in DOMAIN h.records, Kind(code, x[1], x[2]) = "LOOPENTER"
            PROVE  k.records[x] = h.records[x]
        <5>1. SUFFICES ASSUME x \in DOMAIN records PROVE records[x].type # "THREADCREATE"
          BY <2>2
        <5>2. RecordOk(code, x, records[x])
          BY <1>1, <1>2, <5>1 DEF GraphOk, Tables
        <5> QED BY <4>1, <5>2 DEF RecordOk
      <4> QED BY <1>6, <2>2, <4>1 DEF ChildrenOk
    <3>5. Grown(g, k)
      BY <1>6, <3>1, GrownOn
    <3>6. \A u \in Tid : u # t => Untouched(g, k, u)
      BY <1>6, <3>2, UntouchedOn
    <3> QED BY <3>1, <3>3, <3>4, <3>5, <3>6
  <2> QED BY <1>11, <2>1, <2>2
<1>13. PICK more : more = taken
  OBVIOUS
<1>14. /\ GraphOk(Programs[program], k) /\ ChildrenOk(Programs[program], k)
       /\ Grown(Tables, k) /\ \A u \in Tid : u # current => Untouched(Tables, k, u)
       /\ ThreadOk(Programs[program], noexecyields, k, more, current, q, v, status'[current])
  BY <1>1, <1>9, <1>12, <1>13
<1>15. /\ taken' = more /\ taken \subseteq more /\ OneWay(more)
       /\ \A b \in more : b \in taken \/ b[1][1] = current
       /\ q = f.pairs /\ currbranch' = Around(current, q) /\ Tables' = k
  BY <1>1, <1>2, <1>7, <1>8, <1>10, <1>13
<1> QED
  BY <1>8, <1>9, <1>14, <1>15, RunningStep

--------------------------------------------------------------------------------
\* A direction is entered: its body has no last record yet.
LEMMA EnteredOk ==
  ASSUME NEW code, NEW g, GraphOk(code, g), NEW b, IsId(b[1]), b[2] \in Nat, b = <<b[1], b[2]>>,
         NEW h, h.records = g.records, h.always = g.always, h.bodies = Entered(g.bodies, b),
         NEW t
  PROVE  /\ GraphOk(code, h) /\ Grown(g, h) /\ Wrote(g, h, t, b)
         /\ b \in DOMAIN h.bodies /\ h.bodies[b].last = None
<1>1. PICK fresh : fresh = [first |-> None, last |-> None]
  OBVIOUS
<1>2. PICK values : values = [x \in DOMAIN g.bodies \cup {b} |->
                                IF x \in DOMAIN g.bodies THEN g.bodies[x] ELSE fresh]
  OBVIOUS
<1>3. h.bodies = [values EXCEPT ![b].last = None]
  BY <1>1, <1>2 DEF Entered
<1>4. b # None
  <2>1. b \in (Tid \X Seq(Pair)) \X Nat
    BY DEF IsId, Point
  <2> QED BY <2>1, GraphAssumption
<1>5. \A x \in DOMAIN g.bodies : BodyOk(code, x, g.bodies[x])
  BY DEF GraphOk
<1>6. PICK body : body = values[b]
  OBVIOUS
<1>7. BodyOk(code, b, body) /\ {"first", "last"} \subseteq DOMAIN body
  <2>1. CASE b \in DOMAIN g.bodies
    BY <1>2, <1>5, <1>6, <2>1 DEF BodyOk
  <2>2. CASE b \notin DOMAIN g.bodies
    <3>1. body = fresh
      BY <1>2, <1>6, <2>2
    <3>2. DOMAIN body = {"first", "last"} /\ body.first = None /\ body.last = None
      BY <1>1, <3>1
    <3> QED BY <3>2 DEF BodyOk
  <2> QED BY <2>1, <2>2
<1>8. PICK body2 : body2 = [body EXCEPT !.last = None]
  OBVIOUS
<1>9. DOMAIN body2 = DOMAIN body /\ body2.last = None /\ body2.first = body.first
  BY <1>7, <1>8
<1>10. /\ DOMAIN h.bodies = DOMAIN g.bodies \cup {b} /\ h.bodies[b] = body2
       /\ \A x \in DOMAIN g.bodies : x # b => h.bodies[x] = g.bodies[x]
       /\ b \in DOMAIN g.bodies => body = g.bodies[b]
  <2>1. DOMAIN values = DOMAIN g.bodies \cup {b}
    BY <1>2
  <2>2. h.bodies = [values EXCEPT ![b] = body2]
    BY <1>3, <1>6, <1>8
  <2> QED BY <1>2, <1>6, <2>1, <2>2
<1>11. BodyOk(code, b, body2)
  BY <1>7, <1>9 DEF BodyOk
<1>12. GraphOk(code, h)
  <2>1. \A x \in DOMAIN h.bodies : BodyOk(code, x, h.bodies[x])
    BY <1>5, <1>10, <1>11
  <2> QED BY <2>1 DEF GraphOk
<1>13. Grown(g, h)
  BY <1>9, <1>10 DEF Grown
<1>14. Wrote(g, h, t, b)
  <2>1. ASSUME NEW u \in Tid, NEW y, y = None \/ y \in DOMAIN g.bodies, y # b
        PROVE  LinkedFrom(h, y, u) = LinkedFrom(g, y, u)
    BY <1>10, <2>1 DEF LinkedFrom
  <2> QED BY <1>4, <2>1 DEF Wrote
<1> QED
  BY <1>9, <1>10, <1>12, <1>13, <1>14

\* A thread goes on into the body of direction d of the branch at p.
LEMMA InsideOk ==
  ASSUME BodiesAreLeft, NEW code, Sound(code), NEW t \in Tid, NEW p, Spot(p),
         Call(code, t, p) = "BRANCH", NEW d \in code[t][p].dirs, NEW b, b = <<<<t, p>>, d>>,
         NEW stop, NEW g, NEW dirs, NEW w, NEW h, Grown(g, h), Wrote(g, h, t, b),
         ThreadAt(code, g, dirs, t, p), <<t, p>> \in DOMAIN g.records,
         LinkedFrom(g, Around(t, p), t) = <<t, p>>,
         Linked(code, stop, g, dirs, w), w # <<>>, w[Len(w)] = <<t, p>>,
         b \in DOMAIN h.bodies, h.bodies[b].last = None, DirsOk(dirs, t, p),
         NEW more, more = dirs \cup {b}, NEW q, q = IntoBranch(p, d)
  PROVE  ThreadOk(code, stop, h, more, t, q, w, "running")
<1>1. d \in Nat /\ p \in Seq(Pair) /\ p \in Point /\ Kind(code, t, p) = "BRANCHDIR"
  BY ClientFacts, SpotFacts, KindFacts
<1>2. /\ Spot(q) /\ Around(t, q) = b /\ Open(t, q) = Open(t, p) \cup {b}
      /\ Loops(t, q) = Loops(t, p) /\ Passed(p, q) /\ q = InBody(b)
  <2>1. b[1][2] = p /\ b[2] = d
    OBVIOUS
  <2> QED BY <1>1, <2>1, InsideBranch DEF InBody
<1>3. /\ b[1] = <<t, p>> /\ b[1][1] = t /\ b[1][2] = p /\ b \in more /\ dirs \subseteq more
  OBVIOUS
<1>11. b # None
  <2>1. b \in (Tid \X Seq(Pair)) \X Nat
    BY <1>1
  <2> QED BY <2>1, GraphAssumption
<1>4. ThreadAt(code, h, more, t, q)
  <2>1. ASSUME NEW x \in Open(t, p)
        PROVE  /\ x[1] \in DOMAIN h.records /\ Call(code, t, x[1][2]) = "BRANCH"
               /\ x \in more /\ x \in DOMAIN h.bodies
               /\ LinkedFrom(h, Around(t, x[1][2]), t) = x[1]
    <3>1. /\ x[1] \in DOMAIN g.records /\ Call(code, t, x[1][2]) = "BRANCH"
          /\ x \in dirs /\ x \in DOMAIN g.bodies
          /\ LinkedFrom(g, Around(t, x[1][2]), t) = x[1]
      BY <2>1 DEF ThreadAt
    <3>2. PICK y : y = Around(t, x[1][2])
      OBVIOUS
    <3>3. /\ x[1][2] \in Seq(Pair) /\ Len(x[1][2]) < Len(p)
          /\ Open(t, x[1][2]) \subseteq Open(t, p)
      BY <1>1, <2>1, AroundOuter
    <3>4. y = None \/ y \in Open(t, x[1][2])
      BY <3>2, <3>3, AroundOpen
    <3>5. y = None \/ y \in DOMAIN g.bodies
      BY <3>3, <3>4 DEF ThreadAt
    <3>6. y # b
      <4>1. SUFFICES ASSUME y \in Open(t, p) PROVE y[1][2] # p
        BY <1>1, <1>3, <1>11, <3>3, <3>4
      <4>2. Len(y[1][2]) < Len(p) /\ Len(y[1][2]) \in Nat /\ y[1][2] \in Seq(Pair)
        BY <1>1, <4>1, AroundOuter
      <4> QED BY <4>2
    <3>7. LinkedFrom(h, y, t) = LinkedFrom(g, y, t)
      BY <3>5, <3>6 DEF Wrote
    <3> QED BY <1>3, <3>1, <3>2, <3>7 DEF Grown
  <2>2. /\ b[1] \in DOMAIN h.records /\ Call(code, t, b[1][2]) = "BRANCH"
        /\ b \in more /\ b \in DOMAIN h.bodies /\ LinkedFrom(h, Around(t, b[1][2]), t) = b[1]
    <3>1. PICK y : y = Around(t, p)
      OBVIOUS
    <3>2. y # b
      <4>1. SUFFICES ASSUME y \in Open(t, p) PROVE y[1][2] # p
        BY <1>1, <1>3, <1>11, <3>1, AroundOpen
      <4>2. Len(y[1][2]) < Len(p) /\ Len(y[1][2]) \in Nat /\ y[1][2] \in Seq(Pair)
        BY <1>1, <4>1, AroundOuter
      <4> QED BY <4>2
    <3>3. y = None \/ y \in DOMAIN g.bodies
      BY <3>1, AroundKnown
    <3>4. LinkedFrom(h, y, t) = LinkedFrom(g, y, t)
      BY <3>2, <3>3 DEF Wrote
    <3>5. LinkedFrom(h, y, t) = <<t, p>>
      BY <3>1, <3>4
    <3> QED BY <1>3, <3>1, <3>5 DEF Grown
  <2>3. \A r \in Loops(t, q) : r \in DOMAIN h.records /\ Call(code, t, r[2]) = "ENTER"
    BY <1>2 DEF ThreadAt, Grown
  <2> QED BY <1>2, <2>1, <2>2, <2>3 DEF ThreadAt
<1>5. Linked(code, stop, h, more, w)
  BY <1>3, LinkedKept
<1>6. PICK l : l = w[Len(w)]
  OBVIOUS
<1>7. Comes(code, h, more, t, q, l)
  <2>1. l = <<t, p>> /\ l[1] = t /\ l[2] = p
    BY <1>6
  <2>2. l \in DOMAIN h.records
    BY <2>1 DEF Grown
  <2>3. Kind(code, t, l[2]) = "BRANCHDIR" /\ "BRANCHDIR" \notin Exits \cup {"LOOPENTER"}
    BY <1>1, <2>1 DEF Exits
  <2> QED BY <1>2, <1>3, <2>1, <2>2, <2>3 DEF Comes
<1>8. ThreadWay(code, stop, h, more, t, q, w)
  BY <1>5, <1>6, <1>7 DEF ThreadWay
<1>9. ThreadStatus(code, stop, t, q, w, "running")
  <2>1. Call(code, t, q) # "END"
    BY <1>1, LeftFacts
  <2>2. Kind(code, t, l[2]) = "BRANCHDIR"
    BY <1>1, <1>6
  <2> QED BY <1>6, <2>1, <2>2 DEF ThreadStatus
<1>10. DirsOk(more, t, q)
  <2>1. DirsOk(dirs, t, q)
    BY <1>2, DirsOn
  <2> QED BY <1>1, <1>2, <1>3, <2>1 DEF DirsOk
<1> QED
  BY <1>4, <1>8, <1>9, <1>10 DEF ThreadOk

\* No thread comes to a branch again in an execution.
LEMMA OneWayOn ==
  ASSUME NEW dirs, OneWay(dirs), NEW t, NEW p \in Point, DirsOk(dirs, t, p), NEW d,
         NEW b, b = <<<<t, p>>, d>>
  PROVE  OneWay(dirs \cup {b})
<1>1. ASSUME NEW c \in dirs PROVE c[1] # b[1]
  <2>1. SUFFICES ASSUME c[1][1] = t, c[1][2] = p PROVE FALSE
    OBVIOUS
  <2>2. Passed(c[1][2], p)
    BY <2>1 DEF DirsOk
  <2> QED BY <2>1, <2>2, NotPassed
<1> QED
  BY <1>1 DEF OneWay

\* What the calls on points do to their pairs.
LEMMA PointPairs ==
  ASSUME NEW e
  PROVE  /\ incrementTop(e).pairs = IncrementTop(e.pairs) /\ pop(e).pairs = Pop(e.pairs)
         /\ \A a : push(e, a).pairs = Push(e.pairs, a)
BY DEF incrementTop, pop, push

\* The record r at a branch, and its direction in the tables.
Branched(h, k, r, d) ==
  /\ k.bodies = Entered(h.bodies, <<r, d>>) /\ k.always = h.always
  /\ DOMAIN k.records = DOMAIN h.records
  /\ \A q \in DOMAIN h.records : q # r => k.records[q] = h.records[q]
  /\ \/ k.records[r] = h.records[r]
     \/ \E x : k.records[r] = [h.records[r] EXCEPT !.dirs = x]

LEMMA BranchTables ==
  ASSUME branchDir, NEW h, h = WithRecord(Tables, currbranch, "BRANCHDIR", currexecpoint),
         NEW k, k = Tables', NEW r, r = Here, r \in DOMAIN h.records
  PROVE  \E d \in Instr(current).dirs :
           /\ Branched(h, k, r, d)
           /\ currbranch' = <<r, d>> /\ taken' = taken \cup {<<r, d>>}
           /\ MoveTo(push(push(currexecpoint, Branch(d)), Counter(0)))
<1>9. PICK d \in Instr(current).dirs :
        LET g == WithRecord(Tables, currbranch, "BRANCHDIR", currexecpoint)
            branch == <<Here, d>>
        IN /\ SetTables([g EXCEPT !.bodies = Entered(g.bodies, branch),
                                  !.records = IF branch \in DOMAIN bodies THEN g.records
                                              ELSE [g.records EXCEPT ![Here].dirs = Append(@, d)]])
           /\ currbranch' = branch /\ taken' = taken \cup {branch}
           /\ MoveTo(push(push(currexecpoint, Branch(d)), Counter(0)))
  BY Zenon DEF branchDir
<1>1. /\ SetTables([h EXCEPT !.bodies = Entered(h.bodies, <<r, d>>),
                         !.records = IF <<r, d>> \in DOMAIN bodies THEN h.records
                                     ELSE [h.records EXCEPT ![r].dirs = Append(@, d)]])
      /\ currbranch' = <<r, d>> /\ taken' = taken \cup {<<r, d>>}
      /\ MoveTo(push(push(currexecpoint, Branch(d)), Counter(0)))
  BY <1>9
<1>2. DOMAIN h = {"records", "bodies", "always"}
  BY DEF WithRecord
<1>3. PICK more : more = Entered(h.bodies, <<r, d>>)
  OBVIOUS
<1>4. PICK table : table = IF <<r, d>> \in DOMAIN bodies THEN h.records
                           ELSE [h.records EXCEPT ![r].dirs = Append(@, d)]
  OBVIOUS
<1>5. SetTables([h EXCEPT !.bodies = more, !.records = table])
  BY <1>1, <1>3, <1>4
<1>6. records' = table /\ bodies' = more /\ alwaysexecuted' = h.always
  BY <1>2, <1>5 DEF SetTables
<1>7. k.records = table /\ k.bodies = more /\ k.always = h.always
  BY <1>6 DEF Tables
<1>8. /\ DOMAIN table = DOMAIN h.records
      /\ \A q \in DOMAIN h.records : q # r => table[q] = h.records[q]
      /\ \/ table[r] = h.records[r]
         \/ \E x : table[r] = [h.records[r] EXCEPT !.dirs = x]
  BY <1>4
<1>10. Branched(h, k, r, d)
  BY <1>3, <1>7, <1>8 DEF Branched
<1> QED
  BY <1>1, <1>10

LEMMA BranchWInv ==
  ASSUME IInv, WInv, BodiesAreLeft, UNCHANGED <<program, noexecyields, runs, phase>>,
         phase = "execute", status[current] = "running", branchDir
  PROVE  WInv'
<1>1. PICK t \in Tid : t = current
  BY DEF IInv
<1>2. PICK code, p, w, g, e, stop, r, dirs :
        /\ code = Programs[program] /\ p = Place(current) /\ w = walked[current] /\ g = Tables
        /\ e = currexecpoint /\ stop = noexecyields /\ r = <<t, p>> /\ dirs = taken
  OBVIOUS
<1>3. /\ code = Programs[program] /\ p = Place(current) /\ w = walked[current] /\ g = Tables
      /\ t = current /\ e = currexecpoint /\ stop = noexecyields /\ r = <<t, p>> /\ dirs = taken
      /\ r = Here
  BY <1>1, <1>2 DEF Here
<1>4. /\ Sound(code) /\ GraphOk(code, g) /\ ChildrenOk(code, g) /\ currbranch = Around(t, p)
      /\ OneWay(dirs) /\ Spot(p) /\ p \in Point /\ p = e.pairs /\ w \in Seq(Tid \X Point)
      /\ ThreadOk(code, stop, g, dirs, t, p, w, "running")
      /\ Instr(current).op = Call(code, t, p)
      /\ Call(code, t, p) # "END" => Instr(current) = code[t][p]
  BY <1>3, HereFacts DEF Now
<1>5. /\ Call(code, t, p) = "BRANCH" /\ Call(code, t, p) \in Recorded
      /\ Instr(current) = code[t][p] /\ Kind(code, t, p) = "BRANCHDIR"
  <2>1. Call(code, t, p) = "BRANCH"
    BY <1>4 DEF branchDir, Running
  <2> QED BY <1>4, <2>1, KindFacts DEF Recorded
<1>6. PICK h : h = WithRecord(g, Around(t, p), Kind(code, t, p), e)
  OBVIOUS
<1>7. MadeHere(code, stop, g, h, t, p, dirs, w)
  BY <1>3, <1>4, <1>5, <1>6, Arrived
<1>8. /\ GraphOk(code, h) /\ Grown(g, h) /\ Wrote(g, h, t, Around(t, p))
      /\ DOMAIN h.records = DOMAIN g.records \cup {r}
      /\ LinkedFrom(h, Around(t, p), t) = r
      /\ \A q \in DOMAIN g.records : h.records[q].child = g.records[q].child
      /\ ThreadAt(code, h, dirs, t, p) /\ r \in Tid \X Point
      /\ Linked(code, stop, h, dirs, Append(w, r))
  BY <1>3, <1>7 DEF MadeHere
<1>9. PICK k : k = Tables'
  OBVIOUS
<1>30. PICK d \in Instr(current).dirs :
         /\ Branched(h, k, r, d)
         /\ currbranch' = <<r, d>> /\ taken' = taken \cup {<<r, d>>}
         /\ MoveTo(push(push(currexecpoint, Branch(d)), Counter(0)))
  <2>1. h = WithRecord(Tables, currbranch, "BRANCHDIR", currexecpoint)
    BY <1>3, <1>4, <1>5, <1>6
  <2>2. r \in DOMAIN h.records
    BY <1>8
  <2> QED BY <1>3, <1>9, <2>1, <2>2, BranchTables
<1>10. /\ k.bodies = Entered(h.bodies, <<r, d>>) /\ k.always = h.always
       /\ DOMAIN k.records = DOMAIN h.records
       /\ \A q \in DOMAIN h.records : q # r => k.records[q] = h.records[q]
       /\ \/ k.records[r] = h.records[r]
          \/ \E x : k.records[r] = [h.records[r] EXCEPT !.dirs = x]
       /\ currbranch' = <<r, d>> /\ taken' = taken \cup {<<r, d>>}
       /\ MoveTo(push(push(currexecpoint, Branch(d)), Counter(0)))
  BY <1>30 DEF Branched
<1>11. d \in code[t][p].dirs /\ d \in Nat
  BY <1>4, <1>5, ClientFacts
<1>12. PICK b, f, q, v, more :
         /\ b = <<r, d>> /\ f = push(push(currexecpoint, Branch(d)), Counter(0))
         /\ q = IntoBranch(p, d) /\ v = Append(w, r) /\ more = dirs \cup {b}
  OBVIOUS
<1>13. /\ b = <<<<t, p>>, d>> /\ b = <<b[1], b[2]>> /\ b[1] = r /\ b[2] \in Nat /\ b[1][1] = t
       /\ IsId(b[1])
  BY <1>3, <1>4, <1>8, <1>11, <1>12 DEF IsId
<1>14. f.pairs = q /\ v = w \o <<r>> /\ v # <<>> /\ v[Len(v)] = r
  <2>1. f.pairs = Push(Push(currexecpoint.pairs, Branch(d)), Counter(0))
    BY <1>12, PointPairs
  <2>2. f.pairs = q
    BY <1>3, <1>4, <1>12, <2>1 DEF IntoBranch
  <2> QED BY <1>4, <1>8, <1>12, <2>2, Concat
<1>15. PICK m : m = [records |-> k.records, bodies |-> h.bodies, always |-> h.always]
  OBVIOUS
<1>16. m.records = k.records /\ m.bodies = h.bodies /\ m.always = h.always
  BY <1>15
<1>17. Touched(h, m)
  BY <1>8, <1>10, <1>16 DEF Touched
<1>18. /\ GraphOk(code, m) /\ Grown(h, m)
       /\ \A u, y : LinkedFrom(m, y, u) = LinkedFrom(h, y, u)
  BY <1>8, <1>17, Retouched
<1>19. (\A u, x : Wrote(h, m, u, x)) /\ \A u : Untouched(h, m, u)
  BY <1>18, SameLast
<1>20. /\ GraphOk(code, k) /\ Grown(m, k) /\ Wrote(m, k, t, b)
       /\ b \in DOMAIN k.bodies /\ k.bodies[b].last = None
  <2>1. k.records = m.records /\ k.always = m.always /\ k.bodies = Entered(m.bodies, b)
    BY <1>10, <1>12, <1>16
  <2> QED BY <1>13, <1>18, <2>1, EnteredOk
<1>21. ThreadOk(code, stop, k, more, t, q, v, "running")
  <2>1. ThreadAt(code, m, dirs, t, p)
    BY <1>8, <1>18, <1>19, ThreadAtKept
  <2>2. Linked(code, stop, m, dirs, v)
    BY <1>8, <1>12, <1>18, LinkedKept
  <2>3. /\ <<t, p>> \in DOMAIN m.records /\ LinkedFrom(m, Around(t, p), t) = <<t, p>>
        /\ v[Len(v)] = <<t, p>>
    BY <1>3, <1>8, <1>14, <1>18 DEF Grown
  <2>4. DirsOk(dirs, t, p)
    BY <1>4 DEF ThreadOk
  <2> QED BY <1>4, <1>5, <1>11, <1>12, <1>13, <1>14, <1>20, <2>1, <2>2, <2>3, <2>4, InsideOk
<1>22. OneWay(more)
  <2>1. DirsOk(dirs, t, p)
    BY <1>4 DEF ThreadOk
  <2> QED BY <1>4, <1>12, <1>13, <2>1, OneWayOn
<1>23. Grown(g, k)
  BY <1>8, <1>18, <1>20, GrownOn
<1>24. ASSUME NEW u \in Tid, u # t PROVE Untouched(g, k, u)
  <2>1. PICK x : x = Around(t, p)
    OBVIOUS
  <2>2. x = None \/ x[1][1] = t
    BY <1>4, <2>1, AroundOwn
  <2>3. Untouched(g, h, u)
    BY <1>8, <1>24, <2>1, <2>2, WroteOthers
  <2>4. Untouched(g, m, u)
    BY <1>8, <1>19, <2>3, UntouchedOn
  <2>5. Untouched(m, k, u)
    BY <1>13, <1>20, <1>24, WroteOthers
  <2>6. Grown(g, m)
    BY <1>8, <1>18, GrownOn
  <2> QED BY <2>4, <2>5, <2>6, UntouchedOn
<1>25. ChildrenOk(code, k)
  <2>1. Kind(code, r[1], r[2]) # "LOOPENTER"
    BY <1>3, <1>5
  <2>2. DOMAIN k.records = DOMAIN g.records \cup {r}
    BY <1>8, <1>10
  <2>3. ASSUME NEW x \in DOMAIN g.records
        PROVE  k.records[x].child = g.records[x].child \/ Kind(code, x[1], x[2]) # "LOOPENTER"
    BY <1>8, <1>10, <2>1
  <2> QED BY <1>4, <2>1, <2>2, <2>3, ChildrenKept
<1>26. /\ current' = current /\ CurrBranchList' = CurrBranchList /\ status' = status
       /\ walked' = [walked EXCEPT ![current] = v] /\ MoveTo(f)
       /\ currbranch' = Around(current, q) /\ taken' = more
  <2>1. walked' = [walked EXCEPT ![current] = w \o <<r>>]
    BY <1>3 DEF branchDir, Walk
  <2>2. Around(t, q) = b
    <3>1. Around(t, IntoBranch(p, d)) = <<<<t, p>>, d>>
      <4>1. Spot(p) /\ d \in Nat
        BY <1>4, <1>11
      <4> QED BY <4>1, InsideBranch
    <3> QED BY <1>12, <1>13, <3>1
  <2> QED BY <1>3, <1>10, <1>12, <1>14, <2>1, <2>2 DEF branchDir
<1>27. /\ GraphOk(Programs[program], k) /\ ChildrenOk(Programs[program], k)
       /\ Grown(Tables, k) /\ \A u \in Tid : u # current => Untouched(Tables, k, u)
       /\ ThreadOk(Programs[program], noexecyields, k, more, current, q, v, status'[current])
  BY <1>3, <1>20, <1>21, <1>23, <1>24, <1>25, <1>26
<1>28. /\ taken \subseteq more /\ OneWay(more)
       /\ \A x \in more : x \in taken \/ x[1][1] = current
       /\ q = f.pairs /\ Tables' = k
  BY <1>3, <1>9, <1>12, <1>13, <1>14, <1>22
<1>29. DOMAIN status' = Tid /\ \A u \in Tid : u # current => status'[u] = status[u]
  BY <1>26 DEF WInv
<1> QED
  BY <1>26, <1>27, <1>28, <1>29, RunningStep

--------------------------------------------------------------------------------
\* Thread t leaves the body of the branch at x by the MERGE at p.
Leaves(code, g, dirs, t, p, x) ==
  LET b == Around(t, p) IN
  /\ b # None /\ b[1] = <<t, x>> /\ b \in dirs /\ b \in DOMAIN g.bodies
  /\ <<t, x>> \in DOMAIN g.records /\ g.records[<<t, x>>].branch = Around(t, x)
  /\ LinkedFrom(g, Around(t, x), t) = <<t, x>>
  /\ Spot(x) /\ Call(code, t, x) = "BRANCH" /\ Pop(Pop(p)) = x /\ Len(p) > 2
  /\ ThreadAt(code, g, dirs, t, x) /\ Passed(p, IncrementTop(x))

LEMMA Leaving ==
  ASSUME NEW code, Sound(code), NEW g, GraphOk(code, g), NEW t \in Tid, NEW p, NEW dirs,
         ThreadAt(code, g, dirs, t, p), Call(code, t, p) = "MERGE",
         NEW x, x = Upto(p, Len(p) - 1)
  PROVE  Leaves(code, g, dirs, t, p, x)
<1>1. Spot(p) /\ Len(p) > 2 /\ p[Len(p) - 1].type = "BRANCH"
  BY ClientFacts
<1>2. Len(p) > 1 /\ p \in Seq(Pair) /\ Len(p) \in Nat
  BY <1>1, SpotFacts
<1>3. Pop(Pop(p)) = x
  BY <1>1, <1>2, Moves
<1>4. /\ Around(t, p) = <<<<t, x>>, p[Len(p) - 1].val>> /\ Around(t, p) \in Open(t, p)
      /\ Open(t, x) \subseteq Open(t, p) /\ Loops(t, x) \subseteq Loops(t, p)
      /\ Spot(x) => Passed(p, IncrementTop(x))
  BY <1>1, MovedOut
<1>5. PICK b : b = Around(t, p)
  OBVIOUS
<1>6. b[1] = <<t, x>> /\ b[1][2] = x /\ b \in Open(t, p)
  BY <1>4, <1>5
<1>7. /\ b[1] \in DOMAIN g.records /\ Call(code, t, b[1][2]) = "BRANCH"
      /\ b \in dirs /\ b \in DOMAIN g.bodies
      /\ LinkedFrom(g, Around(t, b[1][2]), t) = b[1]
  BY <1>6 DEF ThreadAt
<1>8. Spot(x)
  <2>1. Call(code, t, x) # "END"
    BY <1>6, <1>7
  <2> QED BY <2>1, ClientFacts
<1>9. b # None
  BY <1>7, BodyFacts
<1>10. ThreadAt(code, g, dirs, t, x)
  BY <1>4, <1>8, ThreadAtOuter
<1>11. g.records[<<t, x>>].branch = Around(t, x)
  <2>1. PICK r : r = <<t, x>>
    OBVIOUS
  <2>2. RecordOk(code, r, g.records[r]) /\ r[1] = t /\ r[2] = x
    BY <1>6, <1>7, <2>1 DEF GraphOk
  <2> QED BY <2>1, <2>2 DEF RecordOk
<1> QED
  BY <1>1, <1>3, <1>4, <1>5, <1>6, <1>7, <1>8, <1>9, <1>10, <1>11 DEF Leaves

\* The record of the MERGE.
MergedOk(code, stop, g, h, t, x, r, dirs, w) ==
  /\ GraphOk(code, h) /\ ChildrenOk(code, h) /\ Grown(g, h) /\ Wrote(g, h, t, Around(t, x))
  /\ r \in Tid \X Point
  /\ ThreadOk(code, stop, h, dirs, t, IncrementTop(IncrementTop(x)), Append(w, r), "running")

LEMMA Merged ==
  ASSUME BodiesAreLeft, NEW code, Sound(code), NEW stop, NEW g, GraphOk(code, g), ChildrenOk(code, g),
         NEW t \in Tid, t = current, NEW p, NEW dirs, NEW w,
         ThreadOk(code, stop, g, dirs, t, p, w, "running"), Call(code, t, p) = "MERGE",
         NEW x, x = Upto(p, Len(p) - 1), NEW e, e.pairs = IncrementTop(x),
         NEW r, r = <<t, IncrementTop(x)>>,
         NEW h, h = WithRecord(g, Around(t, x), "MERGE", e)
  PROVE  MergedOk(code, stop, g, h, t, x, r, dirs, w)
<1>1. /\ ThreadAt(code, g, dirs, t, p) /\ ThreadWay(code, stop, g, dirs, t, p, w)
      /\ ThreadStatus(code, stop, t, p, w, "running") /\ DirsOk(dirs, t, p)
  BY DEF ThreadOk
<1>2. PICK b, y, prev, outer, q :
        /\ b = Around(t, p) /\ y = IncrementTop(x) /\ prev = <<t, x>> /\ outer = Around(t, x)
        /\ q = IncrementTop(y)
  OBVIOUS
<1>3. /\ b # None /\ b[1] = prev /\ b \in dirs /\ b \in DOMAIN g.bodies
      /\ prev \in DOMAIN g.records /\ LinkedFrom(g, outer, t) = prev
      /\ Spot(x) /\ Call(code, t, x) = "BRANCH" /\ Len(p) > 2
      /\ ThreadAt(code, g, dirs, t, x) /\ Passed(p, y)
  <2>1. Leaves(code, g, dirs, t, p, x)
    BY <1>1, Leaving
  <2> QED BY <1>2, <2>1 DEF Leaves
<1>4. /\ Spot(y) /\ Around(t, y) = outer /\ Open(t, y) = Open(t, x) /\ Loops(t, y) = Loops(t, x)
  BY <1>2, <1>3, MovedUp
<1>5. Kind(code, t, y) = "MERGE" /\ Kind(code, t, x) = "BRANCHDIR"
  <2>1. Kind(code, t, IncrementTop(x)) = "MERGE"
    BY <1>3, FreeCounts
  <2>2. Kind(code, t, x) = "BRANCHDIR"
    BY <1>3, KindFacts
  <2> QED BY <1>2, <2>1, <2>2
<1>6. prev[1] = t /\ prev[2] = x /\ r = <<t, y>> /\ r[1] = t /\ r[2] = y /\ e.pairs = y
  BY <1>2
<1>7. r \in Tid \X Point /\ r # None /\ prev # None
  <2>1. x \in Point /\ y \in Point
    BY <1>3, <1>4 DEF Spot
  <2>2. r \in Tid \X Point /\ prev \in Tid \X Point
    BY <1>2, <1>6, <2>1
  <2>3. r \in Tid \X Seq(Pair) /\ prev \in Tid \X Seq(Pair)
    BY <2>2 DEF Point
  <2> QED BY <2>2, <2>3, GraphAssumption
<1>8. NextOf(code, prev, r)
  <2>1. r = <<prev[1], r[2]>> /\ r[2] = IncrementTop(prev[2])
    BY <1>2, <1>6
  <2>2. Kind(code, prev[1], prev[2]) = "BRANCHDIR" /\ "BRANCHDIR" \notin Exits
    BY <1>5, <1>6 DEF Exits
  <2> QED BY <2>1, <2>2 DEF NextOf
<1>9. outer = None \/ outer \in DOMAIN g.bodies
  BY <1>2, <1>3, AroundKnown
<1>10. outer # None => g.bodies[outer].first # None
  <2>1. SUFFICES ASSUME outer # None PROVE g.bodies[outer].first # None
    OBVIOUS
  <2>2. g.bodies[outer].last # None
    BY <1>3, <1>7, <2>1 DEF LinkedFrom
  <2>3. BodyOk(code, outer, g.bodies[outer])
    BY <1>9, <2>1 DEF GraphOk
  <2> QED BY <2>2, <2>3 DEF BodyOk
<1>11. /\ GraphOk(code, h) /\ Grown(g, h) /\ Wrote(g, h, t, outer)
       /\ DOMAIN h.records = DOMAIN g.records \cup {r} /\ DOMAIN h.bodies = DOMAIN g.bodies
       /\ LinkedFrom(h, outer, t) = r
       /\ prev # None => h.records[prev].next = r
       /\ \A z \in DOMAIN g.records : h.records[z].child = g.records[z].child
  <2>1. PICK et : et = "MERGE"
    OBVIOUS
  <2>2. /\ Spot(e.pairs) /\ et = Kind(code, t, e.pairs) /\ outer = Around(t, e.pairs)
        /\ r = <<t, e.pairs>> /\ prev = LinkedFrom(g, outer, t) /\ h = WithRecord(g, outer, et, e)
        /\ et \notin {"LABEL", "LOOPSTART"} /\ NextOf(code, prev, r) /\ prev \in DOMAIN g.records
    BY <1>2, <1>3, <1>4, <1>5, <1>6, <1>8, <2>1
  <2>3. Entry(code, g, h, t, outer, et, r, prev)
    BY <1>9, <1>10, <2>2, Made
  <2> QED BY <2>2, <2>3 DEF Entry
<1>12. h.records[prev].next = r
  BY <1>7, <1>11
<1>13. ThreadAt(code, h, dirs, t, y)
  <2>1. ThreadAt(code, h, dirs, t, x)
    BY <1>2, <1>3, <1>11, ThreadAtKept
  <2> QED BY <1>4, <2>1, ThreadAtOuter
<1>14. w # <<>>
  <2>1. SUFFICES ASSUME p = FirstPoint PROVE FALSE
    BY <1>1 DEF ThreadWay
  <2>2. Len(p) = 1
    BY <2>1 DEF FirstPoint
  <2> QED BY <1>3, <2>2
<1>15. PICK l : l = w[Len(w)]
  OBVIOUS
<1>16. Link(code, stop, h, dirs, l, r)
  <2>1. Comes(code, g, dirs, t, p, l)
    BY <1>1, <1>14, <1>15 DEF ThreadWay
  <2>2. ~(Kind(code, t, l[2]) = "YIELD" /\ stop)
    BY <1>1, <1>14, <1>15 DEF ThreadStatus
  <2>3. l \in DOMAIN g.records /\ l[1] = t /\ Kind(code, t, l[2]) \notin Exits \cup {"LOOPENTER"}
    BY <2>1 DEF Comes
  <2>4. l \in DOMAIN h.records
    BY <1>11, <2>3
  <2>5. CASE Kind(code, t, l[2]) = "BRANCHDIR"
    <3>1. PICK c \in dirs : c[1] = l /\ p = InBody(c) /\ Around(t, p) = c
      BY <2>1, <2>5, CameFrom
    <3>2. l = prev /\ Call(code, t, InBody(b)) = "MERGE" /\ b[1] = l /\ b \in DOMAIN h.bodies
      BY <1>2, <1>3, <1>11, <3>1
    <3>3. h.records[l].next = r
      BY <1>12, <3>2
    <3> QED BY <1>3, <1>7, <2>3, <2>4, <2>5, <3>2, <3>3 DEF Link
  <2>6. CASE Kind(code, t, l[2]) # "BRANCHDIR"
    <3>1. Around(t, l[2]) = b
      BY <1>2, <2>1, <2>6, CameFrom
    <3>2. Leads(code, t, IncrementTop(l[2]), p)
      BY <2>1, <2>6 DEF Comes
    <3>3. b[1] \in DOMAIN h.records /\ h.records[b[1]].next = r
      BY <1>3, <1>11, <1>12
    <3> QED BY <1>3, <1>7, <2>2, <2>3, <2>4, <2>6, <3>1, <3>2, <3>3 DEF Link
  <2> QED BY <2>5, <2>6
<1>17. PICK v : v = Append(w, r)
  OBVIOUS
<1>18. Linked(code, stop, h, dirs, v) /\ v # <<>> /\ v[Len(v)] = r
  <2>1. Linked(code, stop, g, dirs, w) /\ w \in Seq(Tid \X Point)
    BY <1>1 DEF ThreadWay, Linked
  <2>2. Linked(code, stop, h, dirs, w)
    BY <1>11, <2>1, LinkedKept
  <2>3. Linked(code, stop, h, dirs, Append(w, r))
    BY <1>7, <1>15, <1>16, <2>2, LinkedOn
  <2> QED BY <1>7, <1>17, <2>1, <2>3, Concat
<1>19. ThreadOk(code, stop, h, dirs, t, q, v, "running")
  <2>1. Open(t, y) # {} => Call(code, t, q) # "END"
    <3>1. Open(t, x) # {} => Call(code, t, IncrementTop(IncrementTop(x))) # "END"
      BY <1>3, LeftFacts
    <3> QED BY <1>2, <1>4, <3>1
  <2>2. DirsOk(dirs, t, y)
    <3>1. Spot(p)
      BY <1>1 DEF ThreadAt
    <3> QED BY <1>1, <1>3, <1>4, <3>1, DirsOn
  <2>3. PICK s : s = IF Kind(code, t, y) = "YIELD" /\ stop THEN "complete" ELSE "running"
    OBVIOUS
  <2>4. r \in DOMAIN h.records /\ LinkedFrom(h, Around(t, y), t) = r
    BY <1>4, <1>11
  <2>5. Kind(code, t, y) \notin Exits \cup {"LOOPENTER", "BRANCHDIR"}
    BY <1>5 DEF Exits
  <2>6. r = <<t, y>> /\ q = IncrementTop(y)
    BY <1>2, <1>6
  <2>7. ThreadOk(code, stop, h, dirs, t, q, v, s)
    BY <1>13, <1>18, <2>1, <2>2, <2>3, <2>4, <2>5, <2>6, Settled
  <2>8. s = "running"
    BY <1>5, <2>3
  <2> QED BY <2>7, <2>8
<1>20. ChildrenOk(code, h)
  <2>1. Kind(code, r[1], r[2]) # "LOOPENTER"
    BY <1>5, <1>6
  <2> QED BY <1>11, <2>1, ChildrenKept
<1> QED
  BY <1>2, <1>7, <1>11, <1>17, <1>19, <1>20 DEF MergedOk

LEMMA MergeWInv ==
  ASSUME IInv, WInv, BodiesAreLeft, UNCHANGED <<program, noexecyields, runs, phase>>,
         phase = "execute", status[current] = "running", merge
  PROVE  WInv'
<1>1. PICK t \in Tid : t = current
  BY DEF IInv
<1>2. PICK code, p, w, g, stop, dirs, x :
        /\ code = Programs[program] /\ p = Place(current) /\ w = walked[current] /\ g = Tables
        /\ stop = noexecyields /\ dirs = taken /\ x = Upto(p, Len(p) - 1)
  OBVIOUS
<1>3. /\ code = Programs[program] /\ p = Place(current) /\ w = walked[current] /\ g = Tables
      /\ t = current /\ stop = noexecyields /\ dirs = taken
      /\ x = Upto(p, Len(p) - 1)
  BY <1>1, <1>2
<1>4. /\ Sound(code) /\ GraphOk(code, g) /\ ChildrenOk(code, g)
      /\ OneWay(dirs) /\ p = currexecpoint.pairs /\ w \in Seq(Tid \X Point)
      /\ ThreadOk(code, stop, g, dirs, t, p, w, "running")
      /\ Instr(current).op = Call(code, t, p)
  BY <1>3, HereFacts DEF Now
<1>5. Call(code, t, p) = "MERGE" /\ ThreadAt(code, g, dirs, t, p)
  BY <1>4 DEF merge, Running, ThreadOk
<1>6. PICK branch, e, f, r, outer, v :
        /\ branch = pop(pop(currexecpoint)) /\ e = incrementTop(branch) /\ f = incrementTop(e)
        /\ r = <<t, IncrementTop(x)>> /\ outer = Around(t, x) /\ v = Append(w, r)
  OBVIOUS
<1>7. /\ Around(t, p) # None /\ <<t, x>> \in DOMAIN g.records
      /\ g.records[<<t, x>>].branch = outer /\ Spot(x) /\ Pop(Pop(p)) = x
  <2>1. Leaves(code, g, dirs, t, p, x)
    BY <1>3, <1>4, <1>5, Leaving
  <2> QED BY <1>6, <2>1 DEF Leaves
<1>8. branch.pairs = x /\ e.pairs = IncrementTop(x) /\ f.pairs = IncrementTop(IncrementTop(x))
  <2>1. PICK c : c = pop(currexecpoint)
    OBVIOUS
  <2>2. c.pairs = Pop(p) /\ branch = pop(c)
    BY <1>4, <1>6, <2>1, PointPairs
  <2>3. branch.pairs = x
    BY <1>7, <2>2, PointPairs
  <2>4. e.pairs = IncrementTop(x)
    BY <1>6, <2>3, PointPairs
  <2> QED BY <1>6, <2>3, <2>4, PointPairs
<1>9. PICK h : h = WithRecord(g, outer, "MERGE", e)
  OBVIOUS
<1>10. /\ GraphOk(code, h) /\ ChildrenOk(code, h) /\ Grown(g, h) /\ Wrote(g, h, t, outer)
       /\ r \in Tid \X Point
       /\ ThreadOk(code, stop, h, dirs, t, IncrementTop(IncrementTop(x)), v, "running")
  <2>1. MergedOk(code, stop, g, h, t, x, r, dirs, w)
    <3>1. h = WithRecord(g, Around(t, x), "MERGE", e)
      BY <1>6, <1>9
    <3> QED BY <1>3, <1>4, <1>5, <1>6, <1>8, <3>1, Merged
  <2> QED BY <1>6, <2>1 DEF MergedOk
<1>11. records[<<current, branch.pairs>>].branch = outer
  BY <1>3, <1>7, <1>8 DEF Tables
<1>12. /\ currbranch' = outer /\ SetTables(h) /\ walked' = [walked EXCEPT ![current] = w \o <<r>>]
       /\ MoveTo(f) /\ current' = current /\ CurrBranchList' = CurrBranchList /\ status' = status
       /\ taken' = taken
  <2>1. /\ currbranch' = outer
        /\ SetTables(WithRecord(Tables, outer, "MERGE", e)) /\ Walk(<<<<current, e.pairs>>>>)
        /\ MoveTo(f)
    BY <1>6, <1>11 DEF merge
  <2> QED BY <1>3, <1>6, <1>8, <1>9, <2>1 DEF merge, Walk
<1>13. w \o <<r>> = v
  BY <1>4, <1>6, <1>10, Concat
<1>14. PICK q, k, more : q = IncrementTop(IncrementTop(x)) /\ k = Tables' /\ more = taken
  OBVIOUS
<1>15. k = h
  BY <1>9, <1>12, <1>14, TablesOnly
<1>16. currbranch' = Around(current, q)
  <2>1. PICK y : y = IncrementTop(x)
    OBVIOUS
  <2>2. Spot(y) /\ Around(t, y) = Around(t, x)
    BY <1>7, <2>1, MovedUp
  <2>3. Around(t, q) = Around(t, y)
    BY <1>14, <2>1, <2>2, MovedUp
  <2> QED BY <1>3, <1>6, <1>12, <2>2, <2>3
<1>17. ASSUME NEW u \in Tid, u # t PROVE Untouched(g, h, u)
  <2>1. outer = None \/ outer[1][1] = t
    BY <1>6, <1>7, AroundOwn
  <2> QED BY <1>10, <1>17, <2>1, WroteOthers
<1>18. /\ GraphOk(Programs[program], k) /\ ChildrenOk(Programs[program], k)
       /\ Grown(Tables, k) /\ \A u \in Tid : u # current => Untouched(Tables, k, u)
       /\ ThreadOk(Programs[program], noexecyields, k, more, current, q, v, status'[current])
  BY <1>3, <1>10, <1>12, <1>14, <1>15, <1>17
<1>19. /\ taken' = more /\ taken \subseteq more /\ OneWay(more)
       /\ \A b \in more : b \in taken \/ b[1][1] = current
       /\ q = f.pairs /\ Tables' = k /\ walked' = [walked EXCEPT ![current] = v]
  BY <1>3, <1>4, <1>8, <1>12, <1>13, <1>14
<1>20. DOMAIN status' = Tid /\ \A u \in Tid : u # current => status'[u] = status[u]
  BY <1>12 DEF WInv
<1> QED
  BY <1>12, <1>16, <1>18, <1>19, <1>20, RunningStep

--------------------------------------------------------------------------------
\* The first call in a loop.
LEMMA InLoopOn ==
  ASSUME NEW p, Spot(p)
  PROVE  IncrementTop(InLoop(p)) = Push(Push(p, Loop(0)), Counter(1))
<1>1. Loop(0) \in Pair /\ Counter(0) \in Pair /\ Counter(1) \in Pair
  BY DEF Loop, Counter, Pair, PairType
<1>2. p \in Seq(Pair) /\ Len(p) \in Nat
  BY SpotFacts
<1>3. PICK z, y, q : /\ z = Push(Push(p, Loop(0)), Counter(0)) /\ y = Push(Push(p, Loop(0)), Counter(1))
                     /\ q = IncrementTop(z)
  OBVIOUS
<1>4. /\ z \in Seq(Pair) /\ y \in Seq(Pair) /\ Len(z) = Len(p) + 2 /\ Len(y) = Len(p) + 2
      /\ z[Len(p) + 2] = Counter(0) /\ y[Len(p) + 2] = Counter(1)
      /\ \A i \in 1 .. Len(p) + 1 : z[i] = y[i]
  <2>1. PICK a : a = Append(p, Loop(0))
    OBVIOUS
  <2>2. a \in Seq(Pair) /\ Len(a) = Len(p) + 1
    BY <1>1, <1>2, <2>1
  <2>3. z = Append(a, Counter(0)) /\ y = Append(a, Counter(1))
    BY <1>3, <2>1 DEF Push
  <2> QED BY <1>1, <1>2, <2>2, <2>3
<1>5. Spot(z)
  <2>1. z[Len(z)].type = "COUNTER"
    BY <1>4 DEF Counter
  <2>2. z \in Point
    <3>1. z = InLoop(p)
      BY <1>3 DEF InLoop
    <3> QED BY <3>1, MovedLoop DEF Spot
  <2> QED BY <2>1, <2>2 DEF Spot
<1>6. /\ q \in Seq(Pair) /\ Len(q) = Len(z) /\ \A i \in 1 .. Len(z) - 1 : q[i] = z[i]
      /\ q[Len(z)] = [z[Len(z)] EXCEPT !.val = @ + 1]
  <2>1. Spot(q) /\ Len(q) = Len(z) /\ \A i \in 1 .. Len(z) - 1 : q[i] = z[i]
    BY <1>3, <1>5, Counted
  <2>2. Len(z) \in DOMAIN z
    BY <1>2, <1>4
  <2> QED BY <1>3, <2>1, <2>2, SpotFacts DEF IncrementTop
<1>7. [Counter(0) EXCEPT !.val = @ + 1] = Counter(1)
  BY DEF Counter
<1>8. \A i \in 1 .. Len(q) : q[i] = y[i]
  BY <1>2, <1>4, <1>6, <1>7
<1>9. q = y
  BY <1>2, <1>4, <1>6, <1>8, SeqEqual
<1> QED
  BY <1>3, <1>9 DEF InLoop

\* Record r gets its child.
ChildSet(m, k, r, s) ==
  /\ k.bodies = m.bodies /\ k.always = m.always
  /\ k.records = [m.records EXCEPT ![r].child = s]

OnlyChild(m, k, r, s) ==
  /\ Touched(m, k) /\ DOMAIN k.records = DOMAIN m.records /\ k.records[r].child = s
  /\ \A x \in DOMAIN m.records : x # r => k.records[x] = m.records[x]

LEMMA ChildIsSet ==
  ASSUME NEW code, NEW m, GraphOk(code, m), NEW k, NEW r \in DOMAIN m.records, NEW s,
         ChildSet(m, k, r, s)
  PROVE  OnlyChild(m, k, r, s)
<1>1. PICK rec : rec = m.records[r]
  OBVIOUS
<1>2. RecordOk(code, r, rec)
  BY <1>1 DEF GraphOk
<1>3. "child" \in DOMAIN rec
  BY <1>2 DEF RecordOk
<1>4. PICK rec2 : rec2 = [rec EXCEPT !.child = s]
  OBVIOUS
<1>5. k.records = [m.records EXCEPT ![r] = rec2]
  BY <1>1, <1>4 DEF ChildSet
<1>6. /\ DOMAIN k.records = DOMAIN m.records /\ k.records[r] = rec2
      /\ \A x \in DOMAIN m.records : x # r => k.records[x] = m.records[x]
  BY <1>5
<1>7. \E x : k.records[r] = [m.records[r] EXCEPT !.child = x]
  BY <1>1, <1>4, <1>6
<1>8. Touched(m, k)
  BY <1>6, <1>7 DEF Touched, ChildSet
<1>9. rec2.child = s
  BY <1>3, <1>4
<1> QED
  BY <1>6, <1>8, <1>9 DEF OnlyChild

LEMMA LinkIn ==
  ASSUME NEW code, NEW stop, NEW g, NEW dirs, NEW r \in DOMAIN g.records, NEW s, s # None,
         s = LoopStart(r), Kind(code, r[1], r[2]) = "LOOPENTER"
  PROVE  Link(code, stop, g, dirs, r, s)
BY DEF Link

\* The records of a loop that is entered.
InLoopOk(code, stop, g, k, t, p, r, s, dirs, w) ==
  /\ GraphOk(code, k) /\ ChildrenOk(code, k) /\ Grown(g, k)
  /\ \A u \in Tid : u # t => Untouched(g, k, u)
  /\ r \in Tid \X Point /\ s \in Tid \X Point
  /\ ThreadOk(code, stop, k, dirs, t, IncrementTop(InLoop(p)), Append(Append(w, r), s), "running")

LEMMA LoopEntered ==
  ASSUME BodiesAreLeft, NEW code, Sound(code), NEW stop, NEW g, GraphOk(code, g), ChildrenOk(code, g),
         NEW t \in Tid, t = current, NEW p, NEW dirs, NEW w,
         ThreadOk(code, stop, g, dirs, t, p, w, "running"), Call(code, t, p) = "ENTER",
         NEW e, p = e.pairs, NEW f, f.pairs = InLoop(p),
         NEW r, r = <<t, p>>, NEW s, s = <<t, InLoop(p)>>,
         NEW h, h = WithRecord(g, Around(t, p), "LOOPENTER", e),
         NEW m, m = WithRecord(h, Around(t, p), "LOOPSTART", f),
         NEW k, ChildSet(m, k, r, s)
  PROVE  InLoopOk(code, stop, g, k, t, p, r, s, dirs, w)
<1>1. PICK z, c, q : z = InLoop(p) /\ c = Around(t, p) /\ q = IncrementTop(z)
  OBVIOUS
<1>2. Spot(p) /\ DirsOk(dirs, t, p) /\ ThreadAt(code, g, dirs, t, p)
  BY DEF ThreadOk, ThreadAt
<1>3. /\ Spot(z) /\ Around(t, z) = c /\ Open(t, z) = Open(t, p)
      /\ Loops(t, z) = Loops(t, p) \cup {r} /\ Passed(p, z) /\ p # z
  BY <1>1, <1>2, MovedLoop
<1>4. Kind(code, t, p) = "LOOPENTER" /\ Kind(code, t, z) = "LOOPSTART"
  <2>1. Kind(code, t, InLoop(p)) = "LOOPSTART"
    BY FreeCounts
  <2> QED BY <1>1, <2>1, KindFacts
<1>5. /\ GraphOk(code, h) /\ Grown(g, h) /\ Wrote(g, h, t, c)
      /\ DOMAIN h.records = DOMAIN g.records \cup {r} /\ DOMAIN h.bodies = DOMAIN g.bodies
      /\ LinkedFrom(h, c, t) = r
      /\ \A x \in DOMAIN g.records : h.records[x].child = g.records[x].child
      /\ ThreadAt(code, h, dirs, t, p) /\ r \in Tid \X Point
      /\ Linked(code, stop, h, dirs, Append(w, r))
  <2>1. Call(code, t, p) \in Recorded
    BY DEF Recorded
  <2>2. h = WithRecord(g, Around(t, p), Kind(code, t, p), e)
    BY <1>4
  <2>3. MadeHere(code, stop, g, h, t, p, dirs, w)
    BY <2>1, <2>2, Arrived
  <2> QED BY <1>1, <2>3 DEF MadeHere
<1>6. /\ s \in Tid \X Point /\ s # None /\ r # None /\ s # r
      /\ r[1] = t /\ r[2] = p /\ s[1] = t /\ s[2] = z
  <2>1. s \in Tid \X Point /\ r[1] = t /\ r[2] = p /\ s[1] = t /\ s[2] = z
    BY <1>1, <1>3 DEF Spot
  <2>2. s \in Tid \X Seq(Pair) /\ r \in Tid \X Seq(Pair)
    BY <1>5, <2>1 DEF Point
  <2> QED BY <1>3, <2>1, <2>2, GraphAssumption
<1>7. c = None \/ c \in DOMAIN h.bodies
  BY <1>1, <1>5, AroundKnown
<1>8. c # None => h.bodies[c].first # None
  <2>1. SUFFICES ASSUME c # None PROVE h.bodies[c].first # None
    OBVIOUS
  <2>2. h.bodies[c].last # None
    BY <1>5, <1>6, <2>1 DEF LinkedFrom
  <2>3. BodyOk(code, c, h.bodies[c])
    BY <1>5, <1>7, <2>1 DEF GraphOk
  <2> QED BY <2>2, <2>3 DEF BodyOk
<1>9. /\ GraphOk(code, m) /\ Grown(h, m) /\ Wrote(h, m, t, c)
      /\ DOMAIN m.records = DOMAIN h.records \cup {s} /\ DOMAIN m.bodies = DOMAIN h.bodies
      /\ LinkedFrom(m, c, t) = s
      /\ \A x \in DOMAIN h.records : m.records[x].child = h.records[x].child
  <2>1. PICK et, prev : et = "LOOPSTART" /\ prev = LinkedFrom(h, c, t)
    OBVIOUS
  <2>2. /\ Spot(f.pairs) /\ et = Kind(code, t, f.pairs) /\ c = Around(t, f.pairs)
        /\ s = <<t, f.pairs>> /\ m = WithRecord(h, c, et, f)
        /\ et \in {"LABEL", "LOOPSTART"}
    BY <1>1, <1>3, <1>4, <2>1
  <2>3. Entry(code, h, m, t, c, et, s, prev)
    BY <1>5, <1>7, <1>8, <2>1, <2>2, Made
  <2> QED BY <2>3 DEF Entry
<1>10. r \in DOMAIN m.records
  BY <1>5, <1>9
<1>11. /\ Touched(m, k) /\ DOMAIN k.records = DOMAIN m.records /\ k.records[r].child = s
       /\ \A x \in DOMAIN m.records : x # r => k.records[x] = m.records[x]
  <2>1. OnlyChild(m, k, r, s)
    BY <1>9, <1>10, ChildIsSet
  <2> QED BY <2>1 DEF OnlyChild
<1>12. /\ GraphOk(code, k) /\ Grown(m, k)
       /\ \A u, y : LinkedFrom(k, y, u) = LinkedFrom(m, y, u)
  BY <1>9, <1>11, Retouched
<1>13. (\A u, x : Wrote(m, k, u, x)) /\ \A u : Untouched(m, k, u)
  BY <1>12, SameLast
<1>15. ChildrenOk(code, k)
  <2>1. SUFFICES ASSUME NEW x \in DOMAIN k.records, Kind(code, x[1], x[2]) = "LOOPENTER"
                 PROVE  k.records[x].child = LoopStart(x)
    BY DEF ChildrenOk
  <2>2. CASE x = r
    BY <1>1, <1>6, <1>11, <2>2 DEF LoopStart
  <2>3. CASE x # r
    <3>1. x # s
      BY <1>4, <1>6, <2>1
    <3>2. x \in DOMAIN g.records
      BY <1>5, <1>9, <1>11, <2>1, <2>3, <3>1
    <3>3. k.records[x] = m.records[x]
      BY <1>11, <2>1, <2>3
    <3>4. m.records[x].child = h.records[x].child /\ h.records[x].child = g.records[x].child
      BY <1>5, <1>9, <3>2
    <3>5. g.records[x].child = LoopStart(x)
      BY <2>1, <3>2 DEF ChildrenOk
    <3> QED BY <3>3, <3>4, <3>5
  <2> QED BY <2>2, <2>3
<1>16. Grown(h, k) /\ Grown(g, k)
  <2>1. Grown(h, k)
    BY <1>9, <1>12, GrownOn
  <2> QED BY <1>5, <2>1, GrownOn
<1>17. ASSUME NEW u \in Tid, u # t PROVE Untouched(g, k, u)
  <2>1. c = None \/ c[1][1] = t
    BY <1>1, <1>2, AroundOwn
  <2>2. Untouched(g, h, u)
    BY <1>5, <1>17, <2>1, WroteOthers
  <2>3. Untouched(h, m, u)
    BY <1>9, <1>17, <2>1, WroteOthers
  <2>4. Untouched(h, k, u)
    BY <1>9, <1>13, <2>3, UntouchedOn
  <2> QED BY <1>5, <2>2, <2>4, UntouchedOn
<1>18. ThreadAt(code, k, dirs, t, z)
  <2>1. ThreadAt(code, m, dirs, t, p)
    BY <1>1, <1>5, <1>9, ThreadAtKept
  <2>2. ThreadAt(code, k, dirs, t, p)
    BY <1>12, <1>13, <2>1, ThreadAtKept
  <2>3. r \in DOMAIN k.records /\ Call(code, t, r[2]) = "ENTER"
    BY <1>6, <1>10, <1>11
  <2> QED BY <1>3, <2>2, <2>3 DEF ThreadAt
<1>19. PICK v1, v : v1 = Append(w, r) /\ v = Append(v1, s)
  OBVIOUS
<1>20. Linked(code, stop, k, dirs, v) /\ v # <<>> /\ v[Len(v)] = s
  <2>1. Linked(code, stop, k, dirs, v1)
    BY <1>5, <1>16, <1>19, LinkedKept
  <2>2. w \in Seq(Tid \X Point)
    BY DEF ThreadOk, ThreadWay, Linked
  <2>3. v1 \in Seq(Tid \X Point) /\ v1 # <<>> /\ v1[Len(v1)] = r
    BY <1>5, <1>19, <2>2, Concat
  <2>4. Link(code, stop, k, dirs, r, s)
    <3>1. s = LoopStart(r)
      BY <1>1, <1>6 DEF LoopStart
    <3>2. Kind(code, r[1], r[2]) = "LOOPENTER"
      BY <1>4, <1>6
    <3>3. r \in DOMAIN k.records
      BY <1>10, <1>11
    <3> QED BY <1>6, <3>1, <3>2, <3>3, LinkIn
  <2>5. Linked(code, stop, k, dirs, Append(v1, s))
    BY <1>6, <2>1, <2>3, <2>4, LinkedOn
  <2> QED BY <1>6, <1>19, <2>3, <2>5, Concat
<1>21. ThreadOk(code, stop, k, dirs, t, q, v, "running")
  <2>1. Open(t, z) # {} => Call(code, t, q) # "END"
    <3>1. Open(t, p) # {} => Call(code, t, Push(Push(p, Loop(0)), Counter(1))) # "END"
      BY <1>2, LeftFacts
    <3>2. q = Push(Push(p, Loop(0)), Counter(1))
      BY <1>1, <1>2, InLoopOn
    <3> QED BY <1>3, <3>1, <3>2
  <2>2. DirsOk(dirs, t, z)
    BY <1>2, <1>3, DirsOn
  <2>3. PICK x : x = IF Kind(code, t, z) = "YIELD" /\ stop THEN "complete" ELSE "running"
    OBVIOUS
  <2>4. s \in DOMAIN k.records /\ LinkedFrom(k, Around(t, z), t) = s
    BY <1>3, <1>9, <1>11, <1>12
  <2>5. Kind(code, t, z) \notin Exits \cup {"LOOPENTER", "BRANCHDIR"}
    BY <1>4 DEF Exits
  <2>6. s = <<t, z>> /\ q = IncrementTop(z)
    BY <1>1
  <2>7. ThreadOk(code, stop, k, dirs, t, q, v, x)
    BY <1>18, <1>20, <2>1, <2>2, <2>3, <2>4, <2>5, <2>6, Settled
  <2>8. x = "running"
    BY <1>4, <2>3
  <2> QED BY <2>7, <2>8
<1> QED
  BY <1>1, <1>5, <1>6, <1>12, <1>15, <1>16, <1>17, <1>19, <1>21 DEF InLoopOk

LEMMA EnterWInv ==
  ASSUME IInv, WInv, BodiesAreLeft, UNCHANGED <<program, noexecyields, runs, phase>>,
         phase = "execute", status[current] = "running", enterLoop
  PROVE  WInv'
<1>1. PICK t \in Tid : t = current
  BY DEF IInv
<1>2. PICK code, p, w, g, stop, dirs, e :
        /\ code = Programs[program] /\ p = Place(current) /\ w = walked[current] /\ g = Tables
        /\ stop = noexecyields /\ dirs = taken /\ e = currexecpoint
  OBVIOUS
<1>3. /\ code = Programs[program] /\ p = Place(current) /\ w = walked[current] /\ g = Tables
      /\ t = current /\ stop = noexecyields /\ dirs = taken /\ e = currexecpoint
  BY <1>1, <1>2
<1>4. /\ Sound(code) /\ GraphOk(code, g) /\ ChildrenOk(code, g) /\ currbranch = Around(t, p)
      /\ OneWay(dirs) /\ Spot(p) /\ p = e.pairs /\ w \in Seq(Tid \X Point)
      /\ ThreadOk(code, stop, g, dirs, t, p, w, "running")
      /\ Instr(current).op = Call(code, t, p)
  BY <1>3, HereFacts DEF Now
<1>5. Call(code, t, p) = "ENTER"
  BY <1>4 DEF enterLoop, Running
<1>6. PICK inner, f, r, s, q, v :
        /\ inner = push(push(currexecpoint, Loop(0)), Counter(0)) /\ f = incrementTop(inner)
        /\ r = <<t, p>> /\ s = <<t, InLoop(p)>> /\ q = IncrementTop(InLoop(p))
        /\ v = Append(Append(w, r), s)
  OBVIOUS
<1>7. inner.pairs = InLoop(p) /\ f.pairs = q /\ s = <<current, inner.pairs>> /\ r = Here
  <2>1. inner.pairs = Push(Push(currexecpoint.pairs, Loop(0)), Counter(0))
    BY <1>6, PointPairs
  <2>2. inner.pairs = InLoop(p)
    BY <1>3, <1>4, <2>1 DEF InLoop
  <2> QED BY <1>3, <1>6, <2>2, PointPairs DEF Here
<1>8. PICK h : h = WithRecord(g, Around(t, p), "LOOPENTER", e)
  OBVIOUS
<1>9. PICK m : m = WithRecord(h, Around(t, p), "LOOPSTART", inner)
  OBVIOUS
<1>10. PICK k, more : k = Tables' /\ more = taken
  OBVIOUS
<1>11. /\ ChildSet(m, k, r, s) /\ walked' = [walked EXCEPT ![current] = w \o <<r, s>>] /\ MoveTo(f)
  <2>1. /\ SetTables([m EXCEPT !.records[r].child = s]) /\ Walk(<<r, s>>) /\ MoveTo(f)
    <3>1. m = WithRecord(WithRecord(Tables, currbranch, "LOOPENTER", currexecpoint),
                         currbranch, "LOOPSTART", inner)
      BY <1>3, <1>4, <1>8, <1>9
    <3>2. LET g1 == WithRecord(WithRecord(Tables, currbranch, "LOOPENTER", currexecpoint),
                               currbranch, "LOOPSTART", inner)
              start == <<current, inner.pairs>>
          IN /\ SetTables([g1 EXCEPT !.records[Here].child = start])
             /\ Walk(<<Here, start>>) /\ MoveTo(incrementTop(inner))
      BY <1>6 DEF enterLoop
    <3> QED BY <1>6, <1>7, <3>1, <3>2
  <2>2. DOMAIN m = {"records", "bodies", "always"}
    BY <1>9 DEF WithRecord
  <2>3. PICK table : table = [m.records EXCEPT ![r].child = s]
    OBVIOUS
  <2>4. SetTables([m EXCEPT !.records = table])
    BY <2>1, <2>3
  <2>5. records' = table /\ bodies' = m.bodies /\ alwaysexecuted' = m.always
    BY <2>2, <2>4 DEF SetTables
  <2>6. ChildSet(m, k, r, s)
    BY <1>10, <2>3, <2>5 DEF ChildSet, Tables
  <2> QED BY <1>3, <2>1, <2>6 DEF Walk
<1>12. InLoopOk(code, stop, g, k, t, p, r, s, dirs, w)
  BY <1>3, <1>4, <1>5, <1>6, <1>7, <1>8, <1>9, <1>11, LoopEntered
<1>13. /\ GraphOk(code, k) /\ ChildrenOk(code, k) /\ Grown(g, k)
       /\ \A u \in Tid : u # t => Untouched(g, k, u)
       /\ r \in Tid \X Point /\ s \in Tid \X Point
       /\ ThreadOk(code, stop, k, dirs, t, q, v, "running")
  BY <1>6, <1>12 DEF InLoopOk
<1>14. w \o <<r, s>> = v
  <2>1. PICK S : S = Tid \X Point
    OBVIOUS
  <2>2. w \in Seq(S) /\ r \in S /\ s \in S
    BY <1>4, <1>13, <2>1
  <2>3. w \o <<r, s>> = Append(Append(w, r), s)
    BY <2>2, Concat
  <2> QED BY <1>6, <2>3
<1>15. /\ current' = current /\ CurrBranchList' = CurrBranchList /\ status' = status
       /\ taken' = taken /\ currbranch' = currbranch
  BY DEF enterLoop
<1>16. currbranch' = Around(current, q)
  <2>1. PICK y : y = InLoop(p)
    OBVIOUS
  <2>2. Spot(y) /\ Around(t, y) = Around(t, p)
    BY <1>4, <2>1, MovedLoop
  <2>3. Around(t, q) = Around(t, y)
    BY <1>6, <2>1, <2>2, MovedUp
  <2> QED BY <1>3, <1>4, <1>15, <2>2, <2>3
<1>17. /\ GraphOk(Programs[program], k) /\ ChildrenOk(Programs[program], k)
       /\ Grown(Tables, k) /\ \A u \in Tid : u # current => Untouched(Tables, k, u)
       /\ ThreadOk(Programs[program], noexecyields, k, more, current, q, v, status'[current])
  BY <1>3, <1>10, <1>13, <1>15
<1>18. /\ taken' = more /\ taken \subseteq more /\ OneWay(more)
       /\ \A b \in more : b \in taken \/ b[1][1] = current
       /\ q = f.pairs /\ Tables' = k /\ walked' = [walked EXCEPT ![current] = v]
  BY <1>3, <1>4, <1>7, <1>10, <1>11, <1>14, <1>15
<1>19. DOMAIN status' = Tid /\ \A u \in Tid : u # current => status'[u] = status[u]
  BY <1>15 DEF WInv
<1> QED
  BY <1>11, <1>15, <1>16, <1>17, <1>18, <1>19, RunningStep

--------------------------------------------------------------------------------
\* A thread goes on with an iteration: no record is made.
LEMMA IteratedOn ==
  ASSUME BodiesAreLeft, NEW code, Sound(code), NEW stop, NEW g, GraphOk(code, g), NEW t \in Tid, NEW p,
         NEW dirs, NEW w, ThreadOk(code, stop, g, dirs, t, p, w, "running"),
         Call(code, t, p) = "ITERATE"
  PROVE  ThreadOk(code, stop, g, dirs, t, Iterated(p, 1), w, "running")
<1>1. /\ ThreadAt(code, g, dirs, t, p) /\ ThreadWay(code, stop, g, dirs, t, p, w)
      /\ ThreadStatus(code, stop, t, p, w, "running") /\ DirsOk(dirs, t, p) /\ Spot(p)
  BY DEF ThreadOk, ThreadAt
<1>2. PICK q : q = Iterated(p, 1)
  OBVIOUS
<1>3. Len(p) > 2 /\ p[Len(p) - 1].type = "LOOP" /\ Len(p) \in Nat
  BY <1>1, ClientFacts, SpotFacts
<1>4. /\ Spot(q) /\ Around(t, q) = Around(t, p) /\ Open(t, q) = Open(t, p)
      /\ Loops(t, q) = Loops(t, p) /\ Passed(p, q)
  <2>1. PICK n \in Nat : n = 1
    OBVIOUS
  <2>2. q = Iterated(p, n) /\ n > 0 /\ Len(p) > 1
    BY <1>2, <1>3, <2>1
  <2> QED BY <1>1, <1>3, <2>2, MovedOn
<1>5. ThreadAt(code, g, dirs, t, q)
  BY <1>1, <1>4, ThreadAtOuter
<1>6. PICK l : l = w[Len(w)]
  OBVIOUS
<1>7. w # <<>>
  <2>1. SUFFICES ASSUME p = FirstPoint PROVE FALSE
    BY <1>1 DEF ThreadWay
  <2>2. Len(p) = 1
    BY <2>1 DEF FirstPoint
  <2> QED BY <1>3, <2>2
<1>8. Comes(code, g, dirs, t, p, l)
  BY <1>1, <1>6, <1>7 DEF ThreadWay
<1>9. Kind(code, t, l[2]) # "BRANCHDIR"
  <2>1. SUFFICES ASSUME Kind(code, t, l[2]) = "BRANCHDIR" PROVE FALSE
    OBVIOUS
  <2>2. PICK b \in dirs : b[1] = l /\ p = InBody(b) /\ b \in DOMAIN g.bodies
    BY <1>8, <2>1 DEF Comes
  <2>3. IsId(l) /\ b[2] \in Nat
    <3>1. BodyOk(code, b, g.bodies[b])
      BY <2>2 DEF GraphOk
    <3> QED BY <2>2, <3>1 DEF BodyOk
  <2>4. PICK x : x = l[2]
    OBVIOUS
  <2>9. PICK d \in Nat : d = b[2]
    BY <2>3
  <2>5. Spot(x) /\ p = IntoBranch(x, d)
    BY <2>2, <2>3, <2>4, <2>9 DEF IsId, InBody
  <2>6. p[Len(x) + 1].type = "BRANCH" /\ Len(p) = Len(x) + 2
    BY <2>5, MovedIn
  <2>7. Len(x) \in Nat
    BY <2>5, SpotFacts
  <2>8. Len(p) - 1 = Len(x) + 1
    BY <2>6, <2>7
  <2> QED BY <1>3, <2>6, <2>8
<1>10. Comes(code, g, dirs, t, q, l)
  <2>1. Leads(code, t, IncrementTop(l[2]), p) /\ LinkedFrom(g, Around(t, l[2]), t) = l
        /\ l \in DOMAIN g.records /\ l[1] = t /\ Kind(code, t, l[2]) \notin Exits \cup {"LOOPENTER"}
    BY <1>8, <1>9 DEF Comes
  <2>2. PICK x, y : x = l[2] /\ y = IncrementTop(x)
    OBVIOUS
  <2>3. Spot(y)
    <3>1. RecordOk(code, l, g.records[l])
      BY <2>1 DEF GraphOk
    <3>2. Spot(x)
      BY <2>2, <3>1 DEF RecordOk, IsId
    <3> QED BY <2>2, <3>2, Counted
  <2>4. Leads(code, t, y, Iterated(p, 1))
    BY <2>1, <2>2, <2>3, LeadsOn
  <2> QED BY <1>2, <1>9, <2>1, <2>2, <2>4 DEF Comes
<1>11. ThreadWay(code, stop, g, dirs, t, q, w)
  BY <1>1, <1>6, <1>7, <1>10 DEF ThreadWay
<1>12. ThreadStatus(code, stop, t, q, w, "running")
  <2>1. Open(t, q) # {} => Call(code, t, q) # "END"
    <3>1. Open(t, p) # {} => Call(code, t, Iterated(p, 1)) # "END"
      BY <1>1, LeftFacts
    <3> QED BY <1>2, <1>4, <3>1
  <2> QED BY <1>1, <2>1 DEF ThreadStatus
<1>13. DirsOk(dirs, t, q)
  BY <1>1, <1>4, DirsOn
<1> QED
  BY <1>2, <1>5, <1>11, <1>12, <1>13 DEF ThreadOk

\* Tables that stay as they are.
LEMMA SameTables ==
  ASSUME NEW g
  PROVE  Grown(g, g) /\ \A u : Untouched(g, g, u)
BY DEF Grown, Untouched

LEMMA IterateWInv ==
  ASSUME IInv, WInv, BodiesAreLeft, UNCHANGED <<program, noexecyields, runs, phase>>,
         phase = "execute", status[current] = "running", loopIterate
  PROVE  WInv'
<1>1. PICK t \in Tid : t = current
  BY DEF IInv
<1>2. PICK code, p, w, g, stop, dirs :
        /\ code = Programs[program] /\ p = Place(current) /\ w = walked[current] /\ g = Tables
        /\ stop = noexecyields /\ dirs = taken
  OBVIOUS
<1>3. /\ code = Programs[program] /\ p = Place(current) /\ w = walked[current] /\ g = Tables
      /\ t = current /\ stop = noexecyields /\ dirs = taken
  BY <1>1, <1>2
<1>4. /\ Sound(code) /\ GraphOk(code, g) /\ ChildrenOk(code, g) /\ currbranch = Around(t, p)
      /\ OneWay(dirs) /\ Spot(p) /\ p = currexecpoint.pairs
      /\ ThreadOk(code, stop, g, dirs, t, p, w, "running")
      /\ Instr(current).op = Call(code, t, p)
  BY <1>3, HereFacts DEF Now
<1>5. Call(code, t, p) = "ITERATE"
  BY <1>4 DEF loopIterate, Running
<1>6. PICK f, q : f = push(incrementTop(pop(currexecpoint)), Counter(0)) /\ q = Iterated(p, 1)
  OBVIOUS
<1>7. Len(p) > 2 /\ p[Len(p) - 1].type = "LOOP" /\ Len(p) \in Nat
  BY <1>4, <1>5, ClientFacts, SpotFacts
<1>8. f.pairs = q
  <2>1. PICK a, b : a = pop(currexecpoint) /\ b = incrementTop(a)
    OBVIOUS
  <2>2. a.pairs = Pop(p)
    BY <1>4, <2>1, PointPairs
  <2>3. b.pairs = IncrementTop(Pop(p))
    BY <2>1, <2>2, PointPairs
  <2>4. f = push(b, Counter(0))
    BY <1>6, <2>1
  <2>5. f.pairs = Push(b.pairs, Counter(0))
    BY <2>4, PointPairs
  <2>6. Append(IncrementTop(Pop(p)), Counter(0)) = Iterated(p, 1)
    BY <1>4, <1>7, Moves
  <2> QED BY <1>6, <2>3, <2>5, <2>6 DEF Push
<1>9. ThreadOk(code, stop, g, dirs, t, q, w, "running")
  BY <1>4, <1>5, <1>6, IteratedOn
<1>10. /\ current' = current /\ CurrBranchList' = CurrBranchList /\ status' = status
       /\ taken' = taken /\ currbranch' = currbranch /\ walked' = walked /\ MoveTo(f)
       /\ records' = records /\ bodies' = bodies /\ alwaysexecuted' = alwaysexecuted
  BY <1>6 DEF loopIterate, tableVars
<1>11. currbranch' = Around(current, q)
  <2>1. PICK n \in Nat : n = 1
    OBVIOUS
  <2>2. q = Iterated(p, n) /\ n > 0 /\ Len(p) > 1
    BY <1>6, <1>7, <2>1
  <2>3. Around(t, q) = Around(t, p)
    BY <1>4, <1>7, <2>2, MovedOn
  <2> QED BY <1>3, <1>4, <1>10, <2>3
<1>12. PICK h, more : h = Tables /\ more = taken
  OBVIOUS
<1>13. Tables' = h
  BY <1>10, <1>12 DEF Tables
<1>14. /\ walked'[current] = w /\ execpoint'[current] = f /\ DOMAIN walked' = Tid
       /\ \A u \in Tid : u # current => walked'[u] = walked[u] /\ execpoint'[u] = execpoint[u]
  <2>1. current \in Tid /\ DOMAIN execpoint = Tid /\ DOMAIN walked = Tid
    BY DEF IInv, WInv
  <2> QED BY <1>3, <1>10, <2>1 DEF MoveTo
<1>15. /\ GraphOk(Programs[program], h) /\ ChildrenOk(Programs[program], h)
       /\ Grown(Tables, h) /\ \A u \in Tid : u # current => Untouched(Tables, h, u)
       /\ ThreadOk(Programs[program], noexecyields, h, more, current, q, w, status'[current])
  BY <1>3, <1>4, <1>9, <1>10, <1>12, SameTables
<1>16. /\ taken' = more /\ taken \subseteq more /\ OneWay(more)
       /\ \A b \in more : b \in taken \/ b[1][1] = current
       /\ q = f.pairs
  BY <1>3, <1>4, <1>8, <1>10, <1>12
<1>17. DOMAIN status' = Tid /\ \A u \in Tid : u # current => status'[u] = status[u]
  BY <1>10 DEF WInv
<1> QED
  BY <1>10, <1>11, <1>13, <1>14, <1>15, <1>16, <1>17, OwnStep

LEMMA FinishWInv ==
  ASSUME IInv, WInv, UNCHANGED <<program, noexecyields, runs, phase>>,
         phase = "execute", threadFinish
  PROVE  WInv'
<1>1. PICK t \in Tid : t = current
  BY DEF IInv
<1>2. status[current] = "running"
  BY DEF threadFinish
<1>3. PICK code, p, w, g, stop, dirs, e :
        /\ code = Programs[program] /\ p = Place(current) /\ w = walked[current] /\ g = Tables
        /\ stop = noexecyields /\ dirs = taken /\ e = currexecpoint
  OBVIOUS
<1>4. /\ code = Programs[program] /\ p = Place(current) /\ w = walked[current] /\ g = Tables
      /\ t = current /\ stop = noexecyields /\ dirs = taken /\ e = currexecpoint
  BY <1>1, <1>3
<1>5. /\ Sound(code) /\ GraphOk(code, g) /\ ChildrenOk(code, g) /\ currbranch = Around(t, p)
      /\ OneWay(dirs) /\ p = e.pairs
      /\ ThreadOk(code, stop, g, dirs, t, p, w, "running")
      /\ Instr(current).op = Call(code, t, p)
  BY <1>2, <1>4, HereFacts DEF Now
<1>6. Call(code, t, p) = "END"
  BY <1>5 DEF threadFinish, Running
<1>7. ThreadOk(code, stop, g, dirs, t, p, w, "complete")
  <2>1. ThreadStatus(code, stop, t, p, w, "complete")
    <3>1. ThreadStatus(code, stop, t, p, w, "running")
      BY <1>5 DEF ThreadOk
    <3> QED BY <1>6, <3>1 DEF ThreadStatus
  <2> QED BY <1>5, <2>1 DEF ThreadOk
<1>8. /\ current' = current /\ CurrBranchList' = CurrBranchList
      /\ status' = [status EXCEPT ![current] = "complete"]
      /\ taken' = taken /\ currbranch' = currbranch /\ walked' = walked /\ execpoint' = execpoint
      /\ records' = records /\ bodies' = bodies /\ alwaysexecuted' = alwaysexecuted
  BY DEF threadFinish, tableVars
<1>9. PICK h, more : h = Tables /\ more = taken
  OBVIOUS
<1>10. Tables' = h
  BY <1>8, <1>9 DEF Tables
<1>11. /\ walked'[current] = w /\ execpoint'[current] = e /\ DOMAIN walked' = Tid
       /\ \A u \in Tid : u # current => walked'[u] = walked[u] /\ execpoint'[u] = execpoint[u]
  <2>1. DOMAIN walked = Tid
    BY DEF WInv
  <2> QED BY <1>4, <1>8, <2>1 DEF currexecpoint
<1>12. /\ DOMAIN status' = Tid /\ \A u \in Tid : u # current => status'[u] = status[u]
       /\ status'[current] = "complete"
  <2>1. DOMAIN status = Tid
    BY DEF WInv
  <2> QED BY <1>1, <1>8, <2>1
<1>13. /\ GraphOk(Programs[program], h) /\ ChildrenOk(Programs[program], h)
       /\ Grown(Tables, h) /\ \A u \in Tid : u # current => Untouched(Tables, h, u)
       /\ ThreadOk(Programs[program], noexecyields, h, more, current, p, w, status'[current])
  BY <1>4, <1>5, <1>7, <1>9, <1>12, SameTables
<1>14. /\ taken' = more /\ taken \subseteq more /\ OneWay(more)
       /\ \A b \in more : b \in taken \/ b[1][1] = current
       /\ p = e.pairs /\ currbranch' = Around(current, p)
  BY <1>4, <1>5, <1>8, <1>9
<1> QED
  BY <1>8, <1>10, <1>11, <1>12, <1>13, <1>14, OwnStep

\* A switch: the block of every thread stays its own.
LEMMA SwitchWInv ==
  ASSUME IInv, WInv, UNCHANGED <<program, noexecyields, runs, phase>>, set_current_thread
  PROVE  WInv'
<1>1. current \in Tid /\ DOMAIN CurrBranchList = Tid
  BY DEF IInv, WInv
<1>2. PICK t \in Tid \ {current} : /\ CurrBranchList' = SwitchedOut(current) /\ current' = t
                                   /\ currbranch' = SwitchedOut(current)[t]
  BY DEF set_current_thread
<1>3. /\ CurrBranchList' = [CurrBranchList EXCEPT ![current] = currbranch]
      /\ currbranch' = CurrBranchList[t]
  BY <1>1, <1>2 DEF SwitchedOut
<1>4. /\ records' = records /\ bodies' = bodies /\ alwaysexecuted' = alwaysexecuted
      /\ walked' = walked /\ taken' = taken /\ execpoint' = execpoint /\ status' = status
  BY DEF set_current_thread, tableVars
<1>5. Tables' = Tables
  BY <1>4 DEF Tables
<1>6. \A u \in Tid : BranchOf(u)' = BranchOf(u) /\ Place(u)' = Place(u)
  <2>1. ASSUME NEW u \in Tid PROVE BranchOf(u)' = BranchOf(u)
    <3>1. CASE u = t
      BY <1>2, <1>3, <3>1 DEF BranchOf
    <3>2. CASE u # t /\ u = current
      <4>1. CurrBranchList'[u] = currbranch
        BY <1>1, <1>3, <3>2
      <4> QED BY <1>2, <3>2, <4>1 DEF BranchOf
    <3>3. CASE u # t /\ u # current
      <4>1. CurrBranchList'[u] = CurrBranchList[u]
        BY <1>1, <1>3, <3>3
      <4> QED BY <1>2, <3>3, <4>1 DEF BranchOf
    <3> QED BY <3>1, <3>2, <3>3
  <2> QED BY <1>4, <2>1 DEF Place
<1>7. DOMAIN CurrBranchList' = Tid
  BY <1>1, <1>3
<1> QED
  BY <1>4, <1>5, <1>6, <1>7 DEF WInv

--------------------------------------------------------------------------------
\* The loop an exit leaves, and the branches on the way.
LEMMA LoopLeft ==
  ASSUME NEW t, NEW p, Spot(p), NEW j \in 2 .. Len(p), p[j].type = "LOOP"
  PROVE  \E m \in Places(p, "LOOP") :
           /\ m > 1 /\ LoopPoint(p) = Upto(p, m)
           /\ BranchesLeft(p) = Cardinality(Within(p, m)) /\ BranchesLeft(p) \in Nat
<1>1. p \in Seq(Pair) /\ Len(p) \in Nat
  BY SpotFacts
<1>2. PICK m \in 2 .. Len(p) : /\ p[m].type = "LOOP" /\ Len(LoopPoint(p)) = m - 1
                               /\ LoopPoint(p) = SubSeq(p, 1, m - 1)
  BY <1>1, LoopPointLen
<1>3. m \in Places(p, "LOOP") /\ m > 1 /\ LoopPoint(p) = Upto(p, m)
  BY <1>1, <1>2 DEF Places, Upto
<1>4. {i \in Len(LoopPoint(p)) + 1 .. Len(p) : p[i].type = "BRANCH"} = Within(p, m)
  <2>1. \A i \in m .. Len(p) : p[i].type = "BRANCH" => i # m
    BY <1>2
  <2>2. Len(LoopPoint(p)) + 1 = m
    BY <1>2
  <2> QED BY <1>1, <2>1, <2>2 DEF Within, Places
<1>5. Cardinality(Within(p, m)) \in Nat
  <2>1. IsFiniteSet(1 .. Len(p))
    <3>1. 1 \in Int /\ Len(p) \in Int
      BY <1>1
    <3> QED BY <3>1, FS_Interval
  <2>2. Within(p, m) \subseteq 1 .. Len(p)
    BY DEF Within, Places
  <2>3. IsFiniteSet(Within(p, m))
    BY <2>1, <2>2, FS_Subset
  <2> QED BY <2>3, FS_CardinalityType
<1> QED
  BY <1>3, <1>4, <1>5 DEF BranchesLeft

\* What a recursive function over outer branches says of each of its values.
Unfolds(g, h, N, branch, table) ==
  g = [n \in 0 .. N |-> IF n = 0 THEN branch ELSE table[h[n - 1][1]].branch]

LEMMA Unfolded ==
  ASSUME NEW N \in Nat, NEW branch, NEW table, NEW g, NEW h, Unfolds(g, h, N, branch, table)
  PROVE  g[0] = branch /\ \A i \in 1 .. N : g[i] = table[h[i - 1][1]].branch
<1>1. ASSUME NEW n \in 0 .. N PROVE g[n] = IF n = 0 THEN branch ELSE table[h[n - 1][1]].branch
  BY DEF Unfolds
<1>2. 0 \in 0 .. N /\ \A i \in 1 .. N : i \in 0 .. N /\ i # 0
  OBVIOUS
<1> QED
  BY <1>1, <1>2

LEMMA BranchExit ==
  ASSUME NEW t \in Tid, NEW p, Spot(p), NEW j \in 2 .. Len(p), p[j].type = "LOOP",
         NEW table, \A b \in Open(t, p) : table[b[1]].branch = Around(t, b[1][2]),
         NEW branch, branch = Around(t, p)
  PROVE  LET outer == BranchAfterExit(table, branch, p) IN
         /\ outer = Around(t, LoopPoint(p))
         /\ outer # branch => \E b \in Open(t, p) : outer = Around(t, b[1][2])
<1>1. PICK m \in Places(p, "LOOP") :
        /\ m > 1 /\ LoopPoint(p) = Upto(p, m)
        /\ BranchesLeft(p) = Cardinality(Within(p, m)) /\ BranchesLeft(p) \in Nat
  BY LoopLeft
<1>2. PICK N \in Nat : N = BranchesLeft(p)
  BY <1>1
<1> DEFINE After(f) == Unfolds(f, f, N, branch, table)
           X == Open(t, p) \cup {None, branch}
           step == [x \in (1 .. N) \X X |->
                      IF x[2] \in Open(t, p) THEN table[x[2][1]].branch ELSE x[2]]
<1>3. BranchAfterExit(table, branch, p) = (CHOOSE f : After(f))[N]
  BY <1>2 DEF BranchAfterExit, Unfolds
<1>4. p \in Seq(Pair)
  BY SpotFacts
<1>5. step \in [(1 .. N) \X X -> X]
  <2>1. ASSUME NEW b \in Open(t, p) PROVE table[b[1]].branch \in X
    <3>1. PICK q : q = b[1][2]
      OBVIOUS
    <3>2. q \in Seq(Pair) /\ Open(t, q) \subseteq Open(t, p)
      BY <1>4, <3>1, AroundOuter
    <3>3. Around(t, q) = None \/ Around(t, q) \in Open(t, q)
      BY <3>2, AroundOpen
    <3> QED BY <3>1, <3>2, <3>3
  <2>2. ASSUME NEW i \in 1 .. N, NEW x \in X
        PROVE  (IF x \in Open(t, p) THEN table[x[1]].branch ELSE x) \in X
    BY <2>1
  <2> HIDE DEF X
  <2> QED BY <2>2
<1>6. PICK f : Iterates(f, branch, step, N, X)
  <2>1. branch \in X
    OBVIOUS
  <2> HIDE DEF X, step
  <2> QED BY <1>5, <2>1, Iteration
<1>7. f \in [0 .. N -> X] /\ f[0] = branch /\ \A i \in 1 .. N : f[i] = step[<<i, f[i - 1]>>]
  BY <1>6 DEF Iterates
<1>8. ASSUME NEW i \in 1 .. N, f[i - 1] \in Open(t, p) PROVE f[i] = table[f[i - 1][1]].branch
  <2>1. i - 1 \in 0 .. N
    OBVIOUS
  <2>2. f[i - 1] \in X
    BY <1>7, <2>1
  <2>3. <<i, f[i - 1]>> \in (1 .. N) \X X
    BY <2>2
  <2>4. step[<<i, f[i - 1]>>] = table[f[i - 1][1]].branch
    BY <1>8, <2>3
  <2> HIDE DEF step
  <2> QED BY <1>7, <2>4
<1>9. \A i \in 0 .. N - 1 : f[i] \in Open(t, p)
  <2>1. f[0] = Around(t, p) /\ \A i \in 1 .. N : f[i - 1] \in Open(t, p) => f[i] = table[f[i - 1][1]].branch
    BY <1>7, <1>8
  <2>2. Climbs(table, f, t, p, N) /\ N = Cardinality(Within(p, m)) /\ m > 1
    BY <1>1, <1>2, <2>1 DEF Climbs
  <2>3. GetsOut(f, t, p, m, N)
    BY <2>2, ExitChain
  <2> QED BY <2>3 DEF GetsOut
<1>10. After(f)
  <2>1. \A i \in 1 .. N : f[i] = table[f[i - 1][1]].branch
    <3>1. SUFFICES ASSUME NEW i \in 1 .. N PROVE f[i - 1] \in Open(t, p)
      BY <1>8
    <3>2. i - 1 \in 0 .. N - 1
      OBVIOUS
    <3> QED BY <1>9, <3>2
  <2>2. f = [n \in 0 .. N |-> f[n]]
    BY <1>7
  <2>3. \A n \in 0 .. N : f[n] = IF n = 0 THEN branch ELSE table[f[n - 1][1]].branch
    BY <1>7, <2>1
  <2> HIDE DEF X, step
  <2> QED BY <2>2, <2>3 DEF Unfolds
<1>11. PICK g : After(g) /\ BranchAfterExit(table, branch, p) = g[N]
  <2> HIDE DEF After
  <2> QED BY <1>3, <1>10
<1>12. g[0] = Around(t, p) /\ \A i \in 1 .. N : g[i] = table[g[i - 1][1]].branch
  <2>1. Unfolds(g, g, N, branch, table)
    BY <1>11
  <2> HIDE DEF After, X, step
  <2> QED BY <2>1, Unfolded
<1>13. /\ g[N] = Around(t, Upto(p, m))
       /\ g[N] # Around(t, p) => \E b \in Open(t, p) : g[N] = Around(t, b[1][2])
  <2>1. Climbs(table, g, t, p, N) /\ N = Cardinality(Within(p, m)) /\ m > 1
    BY <1>1, <1>2, <1>12 DEF Climbs
  <2>2. GetsOut(g, t, p, m, N)
    BY <2>1, ExitChain
  <2> QED BY <2>2 DEF GetsOut
<1> QED
  BY <1>1, <1>11, <1>13

\* Records get a next record that may follow them.
Relinked(code, g, h) ==
  /\ h.bodies = g.bodies /\ h.always = g.always /\ DOMAIN h.records = DOMAIN g.records
  /\ \A q \in DOMAIN g.records :
       \/ h.records[q] = g.records[q]
       \/ \E n : /\ n # None /\ NextOf(code, q, n)
                 /\ h.records[q] = [g.records[q] EXCEPT !.next = n]

SameButNext(code, g, h) ==
  /\ GraphOk(code, h) /\ Grown(g, h) /\ \A u, y : LinkedFrom(h, y, u) = LinkedFrom(g, y, u)
  /\ \A q \in DOMAIN g.records : h.records[q].child = g.records[q].child

LEMMA RelinkedOk ==
  ASSUME NEW code, NEW g, GraphOk(code, g), NEW h, Relinked(code, g, h)
  PROVE  SameButNext(code, g, h)
<1>1. ASSUME NEW q \in DOMAIN g.records
      PROVE  /\ RecordOk(code, q, h.records[q]) /\ h.records[q].child = g.records[q].child
             /\ g.records[q].next # None => h.records[q].next = g.records[q].next
  <2>1. PICK rec, rec2 : rec = g.records[q] /\ rec2 = h.records[q]
    OBVIOUS
  <2>2. RecordOk(code, q, rec) /\ {"type", "branch", "next", "child", "dirs"} \subseteq DOMAIN rec
    BY <2>1 DEF GraphOk, RecordOk
  <2>3. rec2 = rec \/ \E n : n # None /\ NextOf(code, q, n) /\ rec2 = [rec EXCEPT !.next = n]
    BY <2>1 DEF Relinked
  <2>4. CASE rec2 = rec
    BY <2>1, <2>2, <2>4
  <2>5. CASE \E n : n # None /\ NextOf(code, q, n) /\ rec2 = [rec EXCEPT !.next = n]
    <3>1. PICK n : n # None /\ NextOf(code, q, n) /\ rec2 = [rec EXCEPT !.next = n]
      BY <2>5
    <3>2. /\ DOMAIN rec2 = DOMAIN rec /\ rec2.type = rec.type /\ rec2.branch = rec.branch
          /\ rec2.child = rec.child /\ rec2.next = n
      BY <2>2, <3>1
    <3>3. rec.next # None => rec.next = n
      <4>1. rec.next # None => NextOf(code, q, rec.next)
        BY <2>2 DEF RecordOk
      <4> QED BY <3>1, <4>1, NextOnce
    <3>4. RecordOk(code, q, rec2)
      BY <2>2, <3>1, <3>2 DEF RecordOk
    <3> QED BY <2>1, <3>2, <3>3, <3>4
  <2> QED BY <2>3, <2>4, <2>5
<1>2. h.bodies = g.bodies /\ h.always = g.always /\ DOMAIN h.records = DOMAIN g.records
  BY DEF Relinked
<1>3. GraphOk(code, h)
  BY <1>1, <1>2 DEF GraphOk
<1>4. Grown(g, h)
  BY <1>1, <1>2 DEF Grown
<1>5. \A u, y : LinkedFrom(h, y, u) = LinkedFrom(g, y, u)
  BY <1>2 DEF LinkedFrom
<1> QED
  BY <1>1, <1>3, <1>4, <1>5 DEF SameButNext

\* The links of an exit r from the loop entered at x, to the label s.
ExitSet(h, k, r, x, s) ==
  k.bodies = h.bodies /\ k.always = h.always /\ k.records = ExitLinks(h.records, r, x, s)

LEMMA ExitIsSet ==
  ASSUME NEW code, NEW h, GraphOk(code, h), NEW r \in DOMAIN h.records, NEW x \in DOMAIN h.records,
         r # x, NEW s, s # None, NextOf(code, r, s), NextOf(code, x, s), NEW k, ExitSet(h, k, r, x, s)
  PROVE  /\ Relinked(code, h, k) /\ DOMAIN k.records = DOMAIN h.records
         /\ k.records[r].next = s
<1>1. PICK table : table = h.records
  OBVIOUS
<1>2. PICK rx, rr : rx = table[x] /\ rr = table[r]
  OBVIOUS
<1>3. /\ "next" \in DOMAIN rx /\ "next" \in DOMAIN rr
      /\ rx.next # None => NextOf(code, x, rx.next)
  BY <1>1, <1>2 DEF GraphOk, RecordOk
<1>4. PICK n : n = IF rx.next = None THEN s ELSE rx.next
  OBVIOUS
<1>5. n # None /\ NextOf(code, x, n)
  BY <1>3, <1>4
<1>6. PICK rx2, rr2 : rx2 = [rx EXCEPT !.next = n] /\ rr2 = [rr EXCEPT !.next = s]
  OBVIOUS
<1>7. PICK linked : linked = [table EXCEPT ![x] = rx2]
  OBVIOUS
<1>8. linked[r] = rr /\ DOMAIN linked = DOMAIN table
  BY <1>1, <1>2, <1>7
<1>9. k.records = [linked EXCEPT ![r] = rr2]
  <2>1. k.records = ExitLinks(table, r, x, s)
    BY <1>1 DEF ExitSet
  <2>2. ExitLinks(table, r, x, s) = [linked EXCEPT ![r].next = s]
    <3>1. linked = [table EXCEPT ![x].next = n]
      BY <1>2, <1>6, <1>7
    <3>2. linked = [table EXCEPT ![x].next = IF @ = None THEN s ELSE @]
      BY <1>2, <1>4, <3>1
    <3> QED BY <3>2 DEF ExitLinks
  <2> QED BY <1>6, <1>8, <2>1, <2>2
<1>10. /\ DOMAIN k.records = DOMAIN table /\ k.records[r] = rr2 /\ k.records[x] = rx2
       /\ \A q \in DOMAIN table : q # r /\ q # x => k.records[q] = table[q]
  BY <1>1, <1>7, <1>8, <1>9
<1>11. rr2.next = s
  BY <1>3, <1>6
<1>12. \A q \in DOMAIN h.records :
         \/ k.records[q] = h.records[q]
         \/ \E a : /\ a # None /\ NextOf(code, q, a)
                   /\ k.records[q] = [h.records[q] EXCEPT !.next = a]
  BY <1>1, <1>2, <1>5, <1>6, <1>10
<1>13. Relinked(code, h, k)
  BY <1>1, <1>10, <1>12 DEF Relinked, ExitSet
<1> QED
  BY <1>1, <1>10, <1>11, <1>13

\* A thread at an exit of the loop at x.
LeavesLoop(code, g, dirs, t, p, x) ==
  /\ BranchAfterExit(g.records, Around(t, p), p) = Around(t, x)
  /\ Around(t, x) = None \/ (Around(t, x) \in DOMAIN g.bodies /\ g.bodies[Around(t, x)].first # None)
  /\ Spot(x) /\ Call(code, t, x) = "ENTER" /\ <<t, x>> \in DOMAIN g.records
  /\ ThreadAt(code, g, dirs, t, x) /\ Passed(p, IncrementTop(x)) /\ Len(x) < Len(p)

LEMMA LeavingLoop ==
  ASSUME NEW code, Sound(code), NEW g, GraphOk(code, g), NEW t \in Tid, NEW p, NEW dirs,
         ThreadAt(code, g, dirs, t, p), Call(code, t, p) = "EXIT",
         LinkedFrom(g, Around(t, p), t) = <<t, p>>, <<t, p>> # None, NEW x, x = LoopPoint(p)
  PROVE  LeavesLoop(code, g, dirs, t, p, x)
<1>1. Spot(p) /\ \E j \in 2 .. Len(p) : p[j].type = "LOOP"
  BY ClientFacts
<1>2. PICK j \in 2 .. Len(p) : p[j].type = "LOOP"
  BY <1>1
<1>3. p \in Seq(Pair) /\ Len(p) \in Nat
  BY <1>1, SpotFacts
<1>4. PICK m \in Places(p, "LOOP") : m > 1 /\ x = Upto(p, m)
  BY <1>1, <1>2, LoopLeft
<1>5. m \in 2 .. Len(p) /\ m \in 1 .. Len(p) + 1 /\ m \in 2 .. Len(p) + 1
  BY <1>3, <1>4 DEF Places
<1>6. <<t, x>> \in Loops(t, p)
  BY <1>4 DEF Loops
<1>7. PICK loop : loop = <<t, x>>
  OBVIOUS
<1>8. loop \in DOMAIN g.records /\ Call(code, t, loop[2]) = "ENTER" /\ loop[2] = x
  BY <1>6, <1>7 DEF ThreadAt
<1>9. Spot(x)
  BY <1>8, ClientFacts
<1>10. Open(t, x) \subseteq Open(t, p) /\ Loops(t, x) \subseteq Loops(t, p)
  BY <1>3, <1>4, <1>5, OpenUpto
<1>11. ThreadAt(code, g, dirs, t, x)
  BY <1>9, <1>10, ThreadAtOuter
<1>12. Passed(p, IncrementTop(x))
  BY <1>1, <1>4, <1>5, <1>9, PassedUp
<1>13. PICK branch, outer : branch = Around(t, p) /\ outer = BranchAfterExit(g.records, branch, p)
  OBVIOUS
<1>14. /\ outer = Around(t, x)
       /\ outer # branch => \E b \in Open(t, p) : outer = Around(t, b[1][2])
  <2>1. ASSUME NEW b \in Open(t, p)
        PROVE  g.records[b[1]].branch = Around(t, b[1][2])
    <3>1. b[1] \in DOMAIN g.records /\ b = <<<<t, b[1][2]>>, b[2]>>
      BY <1>3, <2>1, AroundOuter DEF ThreadAt
    <3>2. b[1][1] = t
      BY <3>1
    <3>3. PICK a : a = b[1]
      OBVIOUS
    <3>4. RecordOk(code, a, g.records[a])
      BY <3>1, <3>3 DEF GraphOk
    <3> QED BY <3>2, <3>3, <3>4 DEF RecordOk
  <2>2. PICK table : table = g.records
    OBVIOUS
  <2>3. \A b \in Open(t, p) : table[b[1]].branch = Around(t, b[1][2])
    BY <2>1, <2>2
  <2>4. /\ BranchAfterExit(table, branch, p) = Around(t, LoopPoint(p))
        /\ BranchAfterExit(table, branch, p) # branch
             => \E b \in Open(t, p) : BranchAfterExit(table, branch, p) = Around(t, b[1][2])
    BY <1>1, <1>2, <1>13, <2>3, BranchExit
  <2> QED BY <1>13, <2>2, <2>4
<1>15. outer = None \/ (outer \in DOMAIN g.bodies /\ g.bodies[outer].first # None)
  <2>1. SUFFICES ASSUME outer # None PROVE outer \in DOMAIN g.bodies /\ g.bodies[outer].first # None
    OBVIOUS
  <2>2. outer \in DOMAIN g.bodies
    BY <1>11, <1>14, <2>1, AroundKnown
  <2>3. LinkedFrom(g, outer, t) # None
    <3>1. CASE outer = branch
      BY <1>13, <3>1
    <3>2. CASE outer # branch
      <4>1. PICK b \in Open(t, p) : outer = Around(t, b[1][2])
        BY <1>14, <3>2
      <4>2. LinkedFrom(g, outer, t) = b[1] /\ b[1] \in DOMAIN g.records
        BY <4>1 DEF ThreadAt
      <4>3. b[1] # None
        <5>1. PICK a : a = b[1]
          OBVIOUS
        <5>2. RecordOk(code, a, g.records[a])
          BY <4>2, <5>1 DEF GraphOk
        <5>3. a \in Tid \X Seq(Pair)
          BY <5>2 DEF RecordOk, IsId, Point
        <5> QED BY <5>1, <5>3, GraphAssumption
      <4> QED BY <4>2, <4>3
    <3> QED BY <3>1, <3>2
  <2>4. BodyOk(code, outer, g.bodies[outer])
    BY <2>2 DEF GraphOk
  <2> QED BY <2>1, <2>2, <2>3, <2>4 DEF BodyOk, LinkedFrom
<1>16. Len(x) < Len(p)
  <2>1. Len(x) = m - 1
    BY <1>3, <1>4, <1>5, UptoFacts
  <2> QED BY <1>3, <1>5, <2>1
<1> QED
  BY <1>7, <1>8, <1>9, <1>11, <1>12, <1>13, <1>14, <1>15, <1>16 DEF LeavesLoop

\* The records of an exit from a loop.
ExitedOk(code, stop, g, k, t, x, r, s, dirs, w, outer) ==
  /\ outer = Around(t, x) /\ Spot(x)
  /\ GraphOk(code, k) /\ ChildrenOk(code, k) /\ Grown(g, k)
  /\ \A u \in Tid : u # t => Untouched(g, k, u)
  /\ r \in Tid \X Point /\ s \in Tid \X Point
  /\ ThreadOk(code, stop, k, dirs, t, IncrementTop(IncrementTop(x)), Append(Append(w, r), s), "running")

\* The tables h with the exit r, m with the label s too, and k with the links.
Exiting(code, g, h, m, k, t, p, e, f, x, r, s, outer) ==
  /\ h = WithRecord(g, Around(t, p), Kind(code, t, p), e) /\ p = e.pairs
  /\ x = LoopPoint(p) /\ outer = BranchAfterExit(h.records, Around(t, p), p)
  /\ m = WithRecord(h, outer, "LABEL", f) /\ f.pairs = IncrementTop(x)
  /\ r = <<t, p>> /\ s = <<t, IncrementTop(x)>> /\ ExitSet(m, k, r, <<t, x>>, s)

LEMMA LoopExited ==
  ASSUME BodiesAreLeft, NEW code, Sound(code), NEW stop, NEW g, GraphOk(code, g), ChildrenOk(code, g),
         NEW t \in Tid, t = current, NEW p, NEW dirs, NEW w,
         ThreadOk(code, stop, g, dirs, t, p, w, "running"), Call(code, t, p) = "EXIT",
         NEW e, NEW x, NEW f, NEW r, NEW s, NEW h, NEW outer, NEW m, NEW k,
         Exiting(code, g, h, m, k, t, p, e, f, x, r, s, outer)
  PROVE  ExitedOk(code, stop, g, k, t, x, r, s, dirs, w, outer)
<1>22. r = <<t, p>> /\ s = <<t, IncrementTop(x)>> /\ x = LoopPoint(p)
  BY DEF Exiting
<1>1. PICK y, c, q, from : y = IncrementTop(x) /\ c = Around(t, p) /\ q = IncrementTop(y) /\ from = <<t, x>>
  OBVIOUS
<1>2. Spot(p) /\ DirsOk(dirs, t, p) /\ ThreadAt(code, g, dirs, t, p)
  BY DEF ThreadOk, ThreadAt
<1>3. /\ GraphOk(code, h) /\ Grown(g, h) /\ Wrote(g, h, t, c)
      /\ DOMAIN h.records = DOMAIN g.records \cup {r} /\ DOMAIN h.bodies = DOMAIN g.bodies
      /\ LinkedFrom(h, c, t) = r
      /\ \A z \in DOMAIN g.records : h.records[z].child = g.records[z].child
      /\ ThreadAt(code, h, dirs, t, p) /\ r \in Tid \X Point
      /\ Linked(code, stop, h, dirs, Append(w, r))
  <2>1. Call(code, t, p) \in Recorded
    BY DEF Recorded
  <2>2. h = WithRecord(g, Around(t, p), Kind(code, t, p), e) /\ p = e.pairs
    BY DEF Exiting
  <2>3. MadeHere(code, stop, g, h, t, p, dirs, w)
    BY <2>1, <2>2, Arrived
  <2> QED BY <1>1, <1>22, <2>3 DEF MadeHere
<1>4. r # None /\ r[1] = t /\ r[2] = p
  <2>1. r \in Tid \X Seq(Pair)
    BY <1>3 DEF Point
  <2> QED BY <1>22, <2>1, GraphAssumption
<1>5. /\ outer = Around(t, x)
      /\ outer = None \/ (outer \in DOMAIN h.bodies /\ h.bodies[outer].first # None)
      /\ Spot(x) /\ Call(code, t, x) = "ENTER" /\ from \in DOMAIN h.records
      /\ ThreadAt(code, h, dirs, t, x) /\ Passed(p, y) /\ x # p
  <2>1. LinkedFrom(h, Around(t, p), t) = <<t, p>> /\ <<t, p>> # None
    BY <1>1, <1>3, <1>4, <1>22
  <2>2. LeavesLoop(code, h, dirs, t, p, x)
    BY <1>3, <1>22, <2>1, LeavingLoop
  <2>3. Len(x) < Len(p) /\ Spot(x)
    BY <2>2 DEF LeavesLoop
  <2>4. x # p
    BY <1>2, <2>3, SpotFacts
  <2>5. outer = BranchAfterExit(h.records, Around(t, p), p)
    BY DEF Exiting
  <2> QED BY <1>1, <2>2, <2>4, <2>5 DEF LeavesLoop
<1>6. /\ Spot(y) /\ Around(t, y) = outer /\ Open(t, y) = Open(t, x) /\ Loops(t, y) = Loops(t, x)
  BY <1>1, <1>5, MovedUp
<1>7. Kind(code, t, y) = "LABEL" /\ Kind(code, t, x) = "LOOPENTER" /\ Kind(code, t, p) \in Exits
  <2>1. Kind(code, t, IncrementTop(x)) = "LABEL"
    BY <1>5, FreeCounts
  <2>2. Kind(code, t, x) = "LOOPENTER" /\ Kind(code, t, p) \in Exits
    BY <1>5, KindFacts
  <2> QED BY <1>1, <2>1, <2>2
<1>23. f.pairs = y /\ m = WithRecord(h, outer, "LABEL", f) /\ ExitSet(m, k, r, from, s)
  BY <1>1 DEF Exiting
<1>8. /\ s \in Tid \X Point /\ s # None /\ s[1] = t /\ s[2] = y /\ from[1] = t /\ from[2] = x /\ r # from
  <2>1. s \in Tid \X Point /\ s[1] = t /\ s[2] = y /\ from[1] = t /\ from[2] = x
    BY <1>1, <1>6, <1>22 DEF Spot
  <2>2. s \in Tid \X Seq(Pair)
    BY <2>1 DEF Point
  <2> QED BY <1>4, <1>5, <2>1, <2>2, GraphAssumption
<1>9. /\ GraphOk(code, m) /\ Grown(h, m) /\ Wrote(h, m, t, outer)
      /\ DOMAIN m.records = DOMAIN h.records \cup {s} /\ DOMAIN m.bodies = DOMAIN h.bodies
      /\ LinkedFrom(m, outer, t) = s
      /\ \A z \in DOMAIN h.records : m.records[z].child = h.records[z].child
  <2>1. PICK label, prev : label = "LABEL" /\ prev = LinkedFrom(h, outer, t)
    OBVIOUS
  <2>2. /\ Spot(f.pairs) /\ label = Kind(code, t, f.pairs) /\ outer = Around(t, f.pairs)
        /\ s = <<t, f.pairs>> /\ m = WithRecord(h, outer, label, f)
        /\ label \in {"LABEL", "LOOPSTART"}
    BY <1>1, <1>6, <1>7, <1>22, <1>23, <2>1
  <2>3. Entry(code, h, m, t, outer, label, s, prev)
    BY <1>3, <1>5, <2>1, <2>2, Made
  <2> QED BY <2>3 DEF Entry
<1>10. NextOf(code, r, s) /\ NextOf(code, from, s)
  <2>1. s = <<r[1], s[2]>> /\ s[2] = IncrementTop(LoopPoint(r[2])) /\ Kind(code, r[1], r[2]) \in Exits
    BY <1>1, <1>4, <1>7, <1>8, <1>22
  <2>2. s = <<from[1], s[2]>> /\ s[2] = IncrementTop(from[2]) /\ Kind(code, from[1], from[2]) = "LOOPENTER"
    BY <1>1, <1>7, <1>8
  <2>3. "LOOPENTER" \notin Exits
    BY DEF Exits
  <2>6. Kind(code, r[1], r[2]) \notin {"BRANCHDIR", "LOOPENTER"}
    BY <2>1 DEF Exits
  <2>4. NextOf(code, r, s)
    BY <2>1, <2>6 DEF NextOf
  <2>5. NextOf(code, from, s)
    BY <2>2, <2>3 DEF NextOf
  <2> QED BY <2>4, <2>5
<1>11. Relinked(code, m, k) /\ DOMAIN k.records = DOMAIN m.records /\ k.records[r].next = s
  <2>1. r \in DOMAIN m.records /\ from \in DOMAIN m.records
    BY <1>3, <1>5, <1>9
  <2> QED BY <1>8, <1>9, <1>10, <1>23, <2>1, ExitIsSet
<1>12. /\ GraphOk(code, k) /\ Grown(m, k) /\ \A u, z : LinkedFrom(k, z, u) = LinkedFrom(m, z, u)
       /\ \A z \in DOMAIN m.records : k.records[z].child = m.records[z].child
  <2>1. SameButNext(code, m, k)
    BY <1>9, <1>11, RelinkedOk
  <2> QED BY <2>1 DEF SameButNext
<1>13. (\A u, z : Wrote(m, k, u, z)) /\ \A u : Untouched(m, k, u)
  BY <1>12, SameLast
<1>15. ChildrenOk(code, k)
  <2>1. SUFFICES ASSUME NEW z \in DOMAIN k.records, Kind(code, z[1], z[2]) = "LOOPENTER"
                 PROVE  k.records[z].child = LoopStart(z)
    BY DEF ChildrenOk
  <2>2. z # s /\ z # r
    <3>1. Kind(code, s[1], s[2]) = "LABEL" /\ Kind(code, r[1], r[2]) \in Exits
      BY <1>4, <1>7, <1>8
    <3> QED BY <2>1, <3>1 DEF Exits
  <2>3. z \in DOMAIN g.records /\ z \in DOMAIN h.records /\ z \in DOMAIN m.records
    BY <1>3, <1>9, <1>11, <2>1, <2>2
  <2>4. /\ k.records[z].child = m.records[z].child /\ m.records[z].child = h.records[z].child
        /\ h.records[z].child = g.records[z].child
    BY <1>3, <1>9, <1>12, <2>3
  <2>5. g.records[z].child = LoopStart(z)
    BY <2>1, <2>3 DEF ChildrenOk
  <2> QED BY <2>4, <2>5
<1>16. Grown(h, k) /\ Grown(g, k)
  <2>1. Grown(h, k)
    BY <1>9, <1>12, GrownOn
  <2> QED BY <1>3, <2>1, GrownOn
<1>17. ASSUME NEW u \in Tid, u # t PROVE Untouched(g, k, u)
  <2>1. c = None \/ c[1][1] = t
    BY <1>1, <1>2, AroundOwn
  <2>2. outer = None \/ outer[1][1] = t
    BY <1>5, AroundOwn
  <2>3. Untouched(g, h, u)
    BY <1>3, <1>17, <2>1, WroteOthers
  <2>4. Untouched(h, m, u)
    BY <1>9, <1>17, <2>2, WroteOthers
  <2>5. Untouched(h, k, u)
    BY <1>9, <1>13, <2>4, UntouchedOn
  <2> QED BY <1>3, <2>3, <2>5, UntouchedOn
<1>18. ThreadAt(code, k, dirs, t, y)
  <2>1. ThreadAt(code, m, dirs, t, x)
    BY <1>5, <1>9, ThreadAtKept
  <2>2. ThreadAt(code, k, dirs, t, x)
    BY <1>12, <1>13, <2>1, ThreadAtKept
  <2> QED BY <1>6, <2>2, ThreadAtOuter
<1>19. PICK v1, v : v1 = Append(w, r) /\ v = Append(v1, s)
  OBVIOUS
<1>20. Linked(code, stop, k, dirs, v) /\ v # <<>> /\ v[Len(v)] = s
  <2>1. Linked(code, stop, k, dirs, v1)
    BY <1>3, <1>16, <1>19, LinkedKept
  <2>2. w \in Seq(Tid \X Point)
    BY DEF ThreadOk, ThreadWay, Linked
  <2>3. v1 \in Seq(Tid \X Point) /\ v1 # <<>> /\ v1[Len(v1)] = r
    BY <1>3, <1>19, <2>2, Concat
  <2>4. Link(code, stop, k, dirs, r, s)
    <3>1. r \in DOMAIN k.records
      BY <1>3, <1>9, <1>11
    <3>2. Kind(code, r[1], r[2]) \in Exits
      BY <1>4, <1>7
    <3>3. Kind(code, r[1], r[2]) \notin {"LOOPENTER", "BRANCHDIR", "YIELD"}
      BY <3>2 DEF Exits
    <3> QED BY <1>8, <1>11, <3>1, <3>3 DEF Link
  <2>5. Linked(code, stop, k, dirs, Append(v1, s))
    BY <1>8, <2>1, <2>3, <2>4, LinkedOn
  <2> QED BY <1>8, <1>19, <2>3, <2>5, Concat
<1>21. ThreadOk(code, stop, k, dirs, t, q, v, "running")
  <2>1. Open(t, y) # {} => Call(code, t, q) # "END"
    <3>1. Open(t, x) # {} => Call(code, t, IncrementTop(IncrementTop(x))) # "END"
      BY <1>5, LeftFacts
    <3> QED BY <1>1, <1>6, <3>1
  <2>2. DirsOk(dirs, t, y)
    BY <1>2, <1>5, <1>6, DirsOn
  <2>3. PICK z : z = IF Kind(code, t, y) = "YIELD" /\ stop THEN "complete" ELSE "running"
    OBVIOUS
  <2>4. s \in DOMAIN k.records /\ LinkedFrom(k, Around(t, y), t) = s
    BY <1>6, <1>9, <1>11, <1>12
  <2>5. Kind(code, t, y) \notin Exits \cup {"LOOPENTER", "BRANCHDIR"}
    BY <1>7 DEF Exits
  <2>6. s = <<t, y>> /\ q = IncrementTop(y)
    BY <1>1, <1>22
  <2>7. ThreadOk(code, stop, k, dirs, t, q, v, z)
    BY <1>18, <1>20, <2>1, <2>2, <2>3, <2>4, <2>5, <2>6, Settled
  <2>8. z = "running"
    BY <1>7, <2>3
  <2> QED BY <2>7, <2>8
<1> QED
  BY <1>1, <1>3, <1>5, <1>8, <1>12, <1>15, <1>16, <1>17, <1>19, <1>21 DEF ExitedOk

\* The point of the loop, as the exit pops to it.
LEMMA PoppedOut ==
  ASSUME IInv, NEW p, p = Place(current), Spot(p), NEW j \in 2 .. Len(p), p[j].type = "LOOP"
  PROVE  popTo(incrementTop(currexecpoint), Len(LoopPoint(p))).pairs = LoopPoint(p)
<1>1. PICK up, x : up = incrementTop(currexecpoint) /\ x = LoopPoint(p)
  OBVIOUS
<1>2. /\ HashRight(current, up) /\ up.pairs = IncrementTop(p) /\ p \in Seq(Pair) /\ Len(up.pairs) = Len(p)
  BY <1>1, HereRight, IncrementRight
<1>3. PICK m \in Places(p, "LOOP") : m > 1 /\ x = Upto(p, m)
  <2>1. PICK t \in Tid : t = current
    BY DEF IInv
  <2> QED BY <1>1, LoopLeft
<1>4. m \in 1 .. Len(p) /\ m # Len(p) /\ Len(p) \in Nat
  <2>1. p[m].type = "LOOP" /\ m \in 1 .. Len(p)
    BY DEF Places
  <2>2. p[Len(p)].type = "COUNTER"
    BY DEF Spot
  <2> QED BY <1>2, <2>1, <2>2
<1>5. PICK n \in Nat : n = m - 1 /\ n < Len(p) - 1
  <2>1. m - 1 \in Nat /\ m - 1 < Len(p) - 1
    BY <1>3, <1>4
  <2> QED BY <2>1
<1>6. x \in Seq(Pair) /\ Len(x) = n /\ \A i \in 1 .. n : x[i] = p[i]
  <2>1. m \in 1 .. Len(p) + 1
    BY <1>4
  <2> QED BY <1>2, <1>3, <1>5, <2>1, UptoFacts
<1>7. \A i \in 1 .. n : up.pairs[i] = p[i]
  <2>1. \A i \in 1 .. Len(p) - 1 : IncrementTop(p)[i] = p[i]
    BY Counted
  <2>2. \A i \in 1 .. n : i \in 1 .. Len(p) - 1
    BY <1>4, <1>5
  <2> QED BY <1>2, <2>1, <2>2
<1>8. PICK f : f = popTo(up, n)
  OBVIOUS
<1>9. HashRight(current, f) /\ Len(f.pairs) = n /\ \A i \in 1 .. n : f.pairs[i] = up.pairs[i]
  <2>1. n <= Len(up.pairs)
    BY <1>2, <1>4, <1>5
  <2> QED BY <1>2, <1>8, <2>1, PopToRight
<1>10. PICK y \in Seq(Pair) : y = f.pairs
  BY <1>9 DEF HashRight, Position
<1>11. y = x
  <2>1. Len(y) = Len(x) /\ \A i \in 1 .. Len(y) : y[i] = x[i]
    BY <1>6, <1>7, <1>9, <1>10
  <2> QED BY <1>6, <2>1, SeqEqual
<1> QED
  BY <1>1, <1>6, <1>8, <1>10, <1>11

LEMMA ExitWInv ==
  ASSUME IInv, WInv, BodiesAreLeft, UNCHANGED <<program, noexecyields, runs, phase>>,
         phase = "execute", status[current] = "running", exitLoop
  PROVE  WInv'
<1>1. PICK t \in Tid : t = current
  BY DEF IInv
<1>2. PICK code, p, w, g, stop, dirs, e :
        /\ code = Programs[program] /\ p = Place(current) /\ w = walked[current] /\ g = Tables
        /\ stop = noexecyields /\ dirs = taken /\ e = currexecpoint
  OBVIOUS
<1>3. /\ code = Programs[program] /\ p = Place(current) /\ w = walked[current] /\ g = Tables
      /\ t = current /\ stop = noexecyields /\ dirs = taken /\ e = currexecpoint
  BY <1>1, <1>2
<1>4. /\ Sound(code) /\ GraphOk(code, g) /\ ChildrenOk(code, g) /\ currbranch = Around(t, p)
      /\ OneWay(dirs) /\ Spot(p) /\ p = e.pairs /\ w \in Seq(Tid \X Point)
      /\ ThreadOk(code, stop, g, dirs, t, p, w, "running")
      /\ Instr(current).op = Call(code, t, p)
  BY <1>3, HereFacts DEF Now
<1>5. Call(code, t, p) = "EXIT"
  BY <1>4 DEF exitLoop, Running
<1>6. PICK et : et = IF DirectInLoop(p) THEN "LOOPEXIT" ELSE "NONLOCALTRANS"
  OBVIOUS
<1>7. et = Kind(code, t, p)
  BY <1>5, <1>6 DEF Kind
<1>8. PICK h : h = WithRecord(g, currbranch, et, e)
  OBVIOUS
<1>9. PICK outer : outer = BranchAfterExit(h.records, currbranch, p)
  OBVIOUS
<1>10. PICK enter, label, f :
         /\ enter = popTo(incrementTop(currexecpoint), Len(LoopPoint(p)))
         /\ label = incrementTop(enter) /\ f = incrementTop(label)
  OBVIOUS
<1>11. PICK m : m = WithRecord(h, outer, "LABEL", label)
  OBVIOUS
<1>12. PICK x, r, s, q, v :
         /\ x = LoopPoint(p) /\ r = <<t, p>> /\ s = <<t, IncrementTop(x)>>
         /\ q = IncrementTop(IncrementTop(x)) /\ v = Append(Append(w, r), s)
  OBVIOUS
<1>13. /\ enter.pairs = x /\ label.pairs = IncrementTop(x) /\ f.pairs = q
       /\ r = Here /\ <<current, enter.pairs>> = <<t, x>> /\ s = <<current, label.pairs>>
  <2>1. PICK j \in 2 .. Len(p) : p[j].type = "LOOP"
    BY <1>4, <1>5, ClientFacts
  <2>2. enter.pairs = x
    BY <1>3, <1>4, <1>10, <1>12, <2>1, PoppedOut
  <2>3. label.pairs = IncrementTop(x) /\ f.pairs = q
    BY <1>10, <1>12, <2>2, PointPairs
  <2> QED BY <1>3, <1>12, <2>2, <2>3 DEF Here
<1>14. PICK k, more : k = Tables' /\ more = taken
  OBVIOUS
<1>15. /\ ExitSet(m, k, r, <<t, x>>, s) /\ walked' = [walked EXCEPT ![current] = w \o <<r, s>>]
       /\ MoveTo(f) /\ currbranch' = outer
  <2>1. /\ SetTables([m EXCEPT !.records = ExitLinks(m.records, Here, <<current, enter.pairs>>,
                                                      <<current, label.pairs>>)])
        /\ Walk(<<Here, <<current, label.pairs>>>>) /\ MoveTo(incrementTop(label))
        /\ currbranch' = outer
    <3>1. h = WithRecord(Tables, currbranch, et, currexecpoint)
      BY <1>3, <1>8
    <3> QED BY <1>3, <1>6, <1>9, <1>10, <1>11, <3>1 DEF exitLoop
  <2>2. DOMAIN m = {"records", "bodies", "always"}
    BY <1>11 DEF WithRecord
  <2>3. PICK table : table = ExitLinks(m.records, r, <<t, x>>, s)
    OBVIOUS
  <2>4. SetTables([m EXCEPT !.records = table])
    BY <1>13, <2>1, <2>3
  <2>5. records' = table /\ bodies' = m.bodies /\ alwaysexecuted' = m.always
    BY <2>2, <2>4 DEF SetTables
  <2>6. ExitSet(m, k, r, <<t, x>>, s)
    BY <1>14, <2>3, <2>5 DEF ExitSet, Tables
  <2>7. Walk(<<r, s>>) /\ MoveTo(f)
    BY <1>10, <1>13, <2>1
  <2> QED BY <1>3, <2>1, <2>6, <2>7 DEF Walk
<1>16. ExitedOk(code, stop, g, k, t, x, r, s, dirs, w, outer)
  <2>1. Exiting(code, g, h, m, k, t, p, e, label, x, r, s, outer)
    BY <1>4, <1>7, <1>8, <1>9, <1>11, <1>12, <1>13, <1>15 DEF Exiting
  <2> QED BY <1>3, <1>4, <1>5, <2>1, LoopExited
<1>17. /\ outer = Around(t, x) /\ Spot(x)
       /\ GraphOk(code, k) /\ ChildrenOk(code, k) /\ Grown(g, k)
       /\ \A u \in Tid : u # t => Untouched(g, k, u)
       /\ r \in Tid \X Point /\ s \in Tid \X Point
       /\ ThreadOk(code, stop, k, dirs, t, q, v, "running")
  BY <1>12, <1>16 DEF ExitedOk
<1>18. w \o <<r, s>> = v
  <2>1. PICK S : S = Tid \X Point
    OBVIOUS
  <2>2. w \in Seq(S) /\ r \in S /\ s \in S
    BY <1>4, <1>17, <2>1
  <2>3. w \o <<r, s>> = Append(Append(w, r), s)
    BY <2>2, Concat
  <2> QED BY <1>12, <2>3
<1>19. /\ current' = current /\ CurrBranchList' = CurrBranchList /\ status' = status /\ taken' = taken
  BY DEF exitLoop
<1>20. currbranch' = Around(current, q)
  <2>1. PICK y : y = IncrementTop(x)
    OBVIOUS
  <2>2. Spot(y) /\ Around(t, y) = Around(t, x)
    BY <1>17, <2>1, MovedUp
  <2>3. Around(t, q) = Around(t, y)
    BY <1>12, <2>1, <2>2, MovedUp
  <2> QED BY <1>3, <1>15, <1>17, <2>2, <2>3
<1>21. /\ GraphOk(Programs[program], k) /\ ChildrenOk(Programs[program], k)
       /\ Grown(Tables, k) /\ \A u \in Tid : u # current => Untouched(Tables, k, u)
       /\ ThreadOk(Programs[program], noexecyields, k, more, current, q, v, status'[current])
  BY <1>3, <1>14, <1>17, <1>19
<1>22. /\ taken' = more /\ taken \subseteq more /\ OneWay(more)
       /\ \A b \in more : b \in taken \/ b[1][1] = current
       /\ q = f.pairs /\ Tables' = k /\ walked' = [walked EXCEPT ![current] = v]
  BY <1>3, <1>4, <1>13, <1>14, <1>15, <1>18, <1>19
<1>23. DOMAIN status' = Tid /\ \A u \in Tid : u # current => status'[u] = status[u]
  BY <1>19 DEF WInv
<1> QED
  BY <1>15, <1>19, <1>20, <1>21, <1>22, <1>23, RunningStep

--------------------------------------------------------------------------------
(***************************************************************************)
(* The execution ends, the graph is traversed, and the next one starts.    *)
(***************************************************************************)
\* A thread that runs no more has come to the end of its walk.
LEMMA RunEnded ==
  ASSUME NEW code, Sound(code), NEW stop, NEW g, GraphOk(code, g), NEW t \in Tid, NEW dirs,
         NEW p, NEW w, NEW s, ThreadOk(code, stop, g, dirs, t, p, w, s), s # "running"
  PROVE  /\ Linked(code, stop, g, dirs, w)
         /\ w # <<>> => Ends(code, stop, g, w[Len(w)])
<1>1. /\ ThreadAt(code, g, dirs, t, p) /\ ThreadWay(code, stop, g, dirs, t, p, w)
      /\ ThreadStatus(code, stop, t, p, w, s)
  BY DEF ThreadOk
<1>2. Linked(code, stop, g, dirs, w)
  BY <1>1 DEF ThreadWay
<1>3. SUFFICES ASSUME w # <<>> PROVE Ends(code, stop, g, w[Len(w)])
  BY <1>2
<1>4. PICK l : l = w[Len(w)]
  OBVIOUS
<1>5. Comes(code, g, dirs, t, p, l)
  BY <1>1, <1>3, <1>4 DEF ThreadWay
<1>6. l \in DOMAIN g.records /\ l[1] = t /\ Kind(code, t, l[2]) \notin Exits \cup {"LOOPENTER"}
  BY <1>5 DEF Comes
<1>7. (Kind(code, t, l[2]) = "YIELD" /\ stop) \/ Call(code, t, p) = "END"
  BY <1>1, <1>3, <1>4 DEF ThreadStatus
<1>8. CASE Kind(code, t, l[2]) = "YIELD" /\ stop
  BY <1>4, <1>6, <1>8 DEF Ends
<1>9. CASE Call(code, t, p) = "END"
  <2>1. Open(t, p) = {} /\ p \in Seq(Pair)
    BY <1>1, <1>9, SpotFacts DEF ThreadStatus, ThreadAt
  <2>2. Around(t, p) = None
    BY <2>1, AroundOpen
  <2>3. Kind(code, t, l[2]) # "BRANCHDIR"
    <3>1. SUFFICES ASSUME Kind(code, t, l[2]) = "BRANCHDIR" PROVE FALSE
      OBVIOUS
    <3>2. PICK b \in dirs : Around(t, p) = b /\ b \in DOMAIN g.bodies
      BY <1>5, <3>1, CameFrom
    <3>3. b # None
      BY <3>2, BodyFacts
    <3> QED BY <2>2, <3>2, <3>3
  <2>4. Around(t, l[2]) = None
    BY <1>5, <2>2, <2>3, CameFrom
  <2>5. Leads(code, t, IncrementTop(l[2]), p)
    BY <1>5, <2>3 DEF Comes
  <2> QED BY <1>4, <1>6, <1>9, <2>3, <2>4, <2>5 DEF Ends
<1> QED
  BY <1>7, <1>8, <1>9

LEMMA EndWInv ==
  ASSUME IInv, WInv, startTraversal
  PROVE  WInv'
<1>1. PICK code, g, stop : code = Programs[program] /\ g = Tables /\ stop = noexecyields
  OBVIOUS
<1>2. /\ phase = "execute" /\ \A t \in Tid : status[t] # "running"
      /\ runs' = runs \cup {[walked |-> walked, taken |-> taken]} /\ phase' = "traverse"
      /\ program' = program /\ noexecyields' = noexecyields /\ Tables' = g
      /\ walked' = walked /\ status' = status /\ CurrBranchList' = CurrBranchList
  BY <1>1 DEF startTraversal, execVars, tableVars, Tables
<1>3. Sound(code)
  BY <1>1 DEF IInv, Sound
<1>4. /\ GraphOk(code, g) /\ ChildrenOk(code, g)
      /\ \A run \in runs : RunOk(code, stop, g, run) /\ OneWay(taken)
      /\ DOMAIN walked = Tid /\ DOMAIN status = Tid /\ DOMAIN CurrBranchList = Tid
      /\ \A t \in Tid : ThreadOk(code, stop, g, taken, t, Place(t), walked[t], status[t])
  BY <1>1, <1>2 DEF WInv
<1>5. PICK run : run = [walked |-> walked, taken |-> taken]
  OBVIOUS
<1>6. run.walked = walked /\ run.taken = taken
  BY <1>5
<1>7. RunOk(code, stop, g, run)
  <2>1. ASSUME NEW t \in Tid
        PROVE  /\ Linked(code, stop, g, taken, walked[t])
               /\ walked[t] # <<>> => Ends(code, stop, g, walked[t][Len(walked[t])])
    <3>1. PICK p, w, s, dirs : p = Place(t) /\ w = walked[t] /\ s = status[t] /\ dirs = taken
      OBVIOUS
    <3>2. ThreadOk(code, stop, g, dirs, t, p, w, s) /\ s # "running"
      BY <1>2, <1>4, <3>1
    <3>3. /\ Linked(code, stop, g, dirs, w)
          /\ w # <<>> => Ends(code, stop, g, w[Len(w)])
      BY <1>3, <1>4, <3>2, RunEnded
    <3> QED BY <3>1, <3>3
  <2>2. OneWay(taken)
    BY <1>1, <1>2 DEF WInv
  <2> QED BY <1>6, <2>1, <2>2 DEF RunOk
<1>8. \A r \in runs' : RunOk(code, stop, g, r)
  BY <1>2, <1>4, <1>5, <1>7
<1>9. phase' # "execute"
  BY <1>2
<1>10. code = Programs[program'] /\ stop = noexecyields' /\ Tables' = g
  BY <1>1, <1>2
<1> QED
  BY <1>2, <1>4, <1>8, <1>9, <1>10 DEF WInv

\* A thread that has done nothing.
LEMMA Fresh ==
  ASSUME NEW code, NEW stop, NEW g, NEW t \in Tid, NEW s, g.always[t] = None
  PROVE  /\ Around(t, FirstPoint) = None
         /\ ThreadOk(code, stop, g, {}, t, FirstPoint, <<>>, s)
<1>1. PICK p : p = FirstPoint
  OBVIOUS
<1>2. p \in Seq(Pair) /\ Len(p) = 1 /\ p[1] = Counter(0)
  <2>1. Counter(0) \in Pair
    BY DEF Counter, Pair, PairType
  <2> QED BY <1>1, <2>1 DEF FirstPoint
<1>3. Counter(0).type = "COUNTER"
  BY DEF Counter
<1>4. Spot(p)
  <2>1. p # <<>>
    <3>1. SUFFICES ASSUME p = <<>> PROVE FALSE
      OBVIOUS
    <3>2. Len(p) = 0
      BY <3>1
    <3>3. Len(p) = 1
      BY <1>2
    <3> QED BY <3>2, <3>3
  <2>2. p[Len(p)].type = "COUNTER"
    BY <1>2, <1>3
  <2> QED BY <1>2, <2>1, <2>2 DEF Spot, Point
<1>5. Places(p, "BRANCH") = {} /\ Places(p, "LOOP") = {}
  BY <1>2, <1>3 DEF Places
<1>6. Around(t, p) = None /\ Open(t, p) = {} /\ Loops(t, p) = {}
  BY <1>5 DEF Around, Open, Loops
<1>7. ThreadAt(code, g, {}, t, p)
  BY <1>4, <1>6 DEF ThreadAt
<1>8. Linked(code, stop, g, {}, <<>>)
  <2>1. <<>> \in Seq(Tid \X Point) /\ Len(<<>>) = 0
    OBVIOUS
  <2> QED BY <2>1 DEF Linked
<1>9. ThreadWay(code, stop, g, {}, t, p, <<>>)
  BY <1>1, <1>8 DEF ThreadWay
<1>10. ThreadStatus(code, stop, t, p, <<>>, s) /\ DirsOk({}, t, p)
  BY <1>6 DEF ThreadStatus, DirsOk
<1> QED
  BY <1>1, <1>6, <1>7, <1>9, <1>10 DEF ThreadOk

LEMMA NewPlace ==
  ASSUME NEW t
  PROVE  NewPoint(t).pairs = FirstPoint
<1>1. Append(<<>>, Counter(0)) = <<Counter(0)>>
  OBVIOUS
<1> QED
  BY <1>1 DEF NewPoint, push, Push, FirstPoint

LEMMA InitWInv ==
  ASSUME Init
  PROVE  WInv
<1>1. PICK code, g, stop : code = Programs[program] /\ g = Tables /\ stop = noexecyields
  OBVIOUS
<1>2. /\ g.records = <<>> /\ g.bodies = <<>> /\ DOMAIN g.always = Tid /\ \A t \in Tid : g.always[t] = None
  BY <1>1 DEF Init, Tables
<1>3. GraphOk(code, g) /\ ChildrenOk(code, g)
  BY <1>2 DEF GraphOk, ChildrenOk
<1>4. ASSUME NEW t \in Tid
      PROVE  /\ BranchOf(t) = Around(t, Place(t))
             /\ ThreadOk(code, stop, g, taken, t, Place(t), walked[t], status[t])
  <2>1. Place(t) = FirstPoint /\ walked[t] = <<>> /\ taken = {} /\ BranchOf(t) = None
    BY <1>4, NewPlace DEF Init, Place, BranchOf
  <2>2. PICK s : s = status[t]
    OBVIOUS
  <2>3. g.always[t] = None
    BY <1>2
  <2>4. Around(t, FirstPoint) = None /\ ThreadOk(code, stop, g, {}, t, FirstPoint, <<>>, s)
    BY <2>3, Fresh
  <2> QED BY <2>1, <2>2, <2>4
<1>5. /\ runs = {} /\ DOMAIN walked = Tid /\ DOMAIN status = Tid /\ DOMAIN CurrBranchList = Tid
      /\ OneWay(taken)
  BY DEF Init, OneWay
<1> QED
  BY <1>1, <1>3, <1>4, <1>5 DEF WInv

LEMMA ResetWInv ==
  ASSUME WInv, reset
  PROVE  WInv'
<1>1. PICK code, g, stop : code = Programs[program] /\ g = Tables /\ stop = noexecyields
  OBVIOUS
<1>2. PICK h : h = Tables'
  OBVIOUS
<1>3. /\ program' = program /\ noexecyields' = noexecyields /\ runs' = runs
      /\ walked' = [t \in Tid |-> <<>>] /\ taken' = {} /\ currbranch' = None /\ current' = 0
      /\ CurrBranchList' = [t \in Tid |-> None] /\ execpoint' = [t \in Tid |-> NewPoint(t)]
      /\ status' = [t \in Tid |-> IF t = 0 THEN "running" ELSE "unborn"]
      /\ h.records = g.records /\ h.bodies = g.bodies /\ h.always = [t \in Tid |-> None]
  BY <1>1, <1>2 DEF reset, FirstExecution, Tables
<1>4. GraphOk(code, h) /\ ChildrenOk(code, h) /\ Grown(g, h)
  <2>1. GraphOk(code, g) /\ ChildrenOk(code, g)
    BY <1>1 DEF WInv
  <2>2. DOMAIN h.always = Tid
    BY <1>3
  <2>3. h.records = g.records /\ h.bodies = g.bodies
    BY <1>3
  <2> QED BY <2>1, <2>2, <2>3 DEF GraphOk, ChildrenOk, Grown
<1>5. ASSUME NEW run \in runs PROVE RunOk(code, stop, h, run)
  <2>1. RunOk(code, stop, g, run)
    BY <1>1 DEF WInv
  <2> QED BY <1>4, <2>1, RunsKept
<1>6. ASSUME NEW t \in Tid
      PROVE  /\ BranchOf(t)' = Around(t, Place(t)')
             /\ ThreadOk(code, stop, h, taken', t, Place(t)', walked'[t], status'[t])
  <2>1. Place(t)' = FirstPoint /\ walked'[t] = <<>> /\ taken' = {} /\ BranchOf(t)' = None
    BY <1>3, <1>6, NewPlace DEF Place, BranchOf
  <2>2. PICK s : s = status'[t]
    OBVIOUS
  <2>3. h.always[t] = None
    BY <1>3
  <2>4. Around(t, FirstPoint) = None /\ ThreadOk(code, stop, h, {}, t, FirstPoint, <<>>, s)
    BY <2>3, Fresh
  <2> QED BY <2>1, <2>2, <2>4
<1>7. /\ DOMAIN walked' = Tid /\ DOMAIN status' = Tid /\ DOMAIN CurrBranchList' = Tid
      /\ OneWay(taken')
  BY <1>3 DEF OneWay
<1>8. code = Programs[program'] /\ stop = noexecyields' /\ Tables' = h
  BY <1>1, <1>2, <1>3
<1>9. \A run \in runs' : RunOk(code, stop, h, run)
  BY <1>3, <1>5
<1> QED
  BY <1>4, <1>6, <1>7, <1>8, <1>9 DEF WInv

\* The traversal leaves the graph and the executions alone.
LEMMA QuietWInv ==
  ASSUME WInv, UNCHANGED <<program, noexecyields, execVars, tableVars, pastVars>>,
         phase' = phase \/ phase' # "execute"
  PROVE  WInv'
<1>1. /\ program' = program /\ noexecyields' = noexecyields /\ runs' = runs /\ Tables' = Tables
      /\ walked' = walked /\ taken' = taken /\ status' = status /\ CurrBranchList' = CurrBranchList
      /\ current' = current /\ currbranch' = currbranch /\ execpoint' = execpoint
  BY DEF execVars, tableVars, pastVars, Tables
<1>2. \A t : BranchOf(t)' = BranchOf(t) /\ Place(t)' = Place(t)
  BY <1>1 DEF BranchOf, Place
<1>3. PICK code, g, stop, dirs :
        code = Programs[program] /\ g = Tables /\ stop = noexecyields /\ dirs = taken
  OBVIOUS
<1>4. /\ GraphOk(code, g) /\ ChildrenOk(code, g) /\ \A run \in runs : RunOk(code, stop, g, run)
      /\ DOMAIN walked = Tid /\ DOMAIN status = Tid /\ DOMAIN CurrBranchList = Tid
      /\ phase = "execute" =>
           /\ OneWay(dirs)
           /\ \A t \in Tid : /\ BranchOf(t) = Around(t, Place(t))
                             /\ ThreadOk(code, stop, g, dirs, t, Place(t), walked[t], status[t])
  BY <1>3 DEF WInv
<1>5. code = Programs[program'] /\ stop = noexecyields' /\ Tables' = g /\ dirs = taken'
  BY <1>1, <1>3
<1>6. phase' = "execute" => phase = "execute"
  OBVIOUS
<1>7. phase' = "execute" =>
        /\ OneWay(taken')
        /\ \A t \in Tid : /\ BranchOf(t)' = Around(t, Place(t)')
                          /\ ThreadOk(code, stop, g, taken', t, Place(t)', walked'[t], status'[t])
  BY <1>1, <1>2, <1>4, <1>5, <1>6
<1> QED
  BY <1>1, <1>4, <1>5, <1>7 DEF WInv

\* Every step keeps the invariant.
LEMMA StepWInv ==
  ASSUME IInv, WInv, BodiesAreLeft, [Next]_vars
  PROVE  WInv'
<1>1. CASE Execute
  <2>1. UNCHANGED <<program, noexecyields, runs, phase>>
    BY <1>1 DEF Execute
  <2>2. CASE set_current_thread
    BY <2>1, <2>2, SwitchWInv
  <2>3. CASE /\ status[current] = "running"
             /\ \/ event \/ threadCreate \/ branchDir \/ merge \/ enterLoop \/ loopIterate
                \/ exitLoop \/ loop_phi \/ threadYield \/ threadFinish
    <3>1. phase = "execute"
      <4>1. event => phase = "execute"
        BY DEF event, Running
      <4>2. threadCreate => phase = "execute"
        BY DEF threadCreate, Running
      <4>3. branchDir => phase = "execute"
        BY DEF branchDir, Running
      <4>4. merge => phase = "execute"
        BY DEF merge, Running
      <4>5. enterLoop => phase = "execute"
        BY DEF enterLoop, Running
      <4>6. loopIterate => phase = "execute"
        BY DEF loopIterate, Running
      <4>7. exitLoop => phase = "execute"
        BY DEF exitLoop, Running
      <4>8. loop_phi => phase = "execute"
        BY DEF loop_phi, Running
      <4>9. threadYield => phase = "execute"
        BY DEF threadYield, Running
      <4>10. threadFinish => phase = "execute"
        BY DEF threadFinish, Running
      <4> QED BY <2>3, <4>1, <4>2, <4>3, <4>4, <4>5, <4>6, <4>7, <4>8, <4>9, <4>10
    <3>2. CASE event \/ threadCreate \/ loop_phi \/ threadYield
      BY <2>1, <2>3, <3>1, <3>2, EventWInv
    <3>3. CASE branchDir
      BY <2>1, <2>3, <3>1, <3>3, BranchWInv
    <3>4. CASE merge
      BY <2>1, <2>3, <3>1, <3>4, MergeWInv
    <3>5. CASE enterLoop
      BY <2>1, <2>3, <3>1, <3>5, EnterWInv
    <3>6. CASE loopIterate
      BY <2>1, <2>3, <3>1, <3>6, IterateWInv
    <3>7. CASE exitLoop
      BY <2>1, <2>3, <3>1, <3>7, ExitWInv
    <3>8. CASE threadFinish
      BY <2>1, <3>1, <3>8, FinishWInv
    <3> QED BY <2>3, <3>2, <3>3, <3>4, <3>5, <3>6, <3>7, <3>8
  <2> QED BY <1>1, <2>2, <2>3 DEF Execute
<1>2. CASE startTraversal
  BY <1>2, EndWInv
<1>3. CASE traverseRecord
  <2>1. UNCHANGED <<program, noexecyields, execVars, tableVars, pastVars>> /\ phase' = phase
    BY <1>3 DEF traverseRecord
  <2> QED BY <2>1, QuietWInv
<1>4. CASE popWork
  <2>1. UNCHANGED <<program, noexecyields, execVars, tableVars, pastVars>>
    BY <1>4 DEF popWork
  <2>2. phase' = phase \/ phase' # "execute"
    BY <1>4 DEF popWork
  <2> QED BY <2>1, <2>2, QuietWInv
<1>5. CASE reset
  BY <1>5, ResetWInv
<1>6. CASE UNCHANGED vars
  <2>1. UNCHANGED <<program, noexecyields, execVars, tableVars, pastVars>> /\ phase' = phase
    BY <1>6 DEF vars
  <2> QED BY <2>1, QuietWInv
<1> QED
  BY <1>1, <1>2, <1>3, <1>4, <1>5, <1>6 DEF Next

--------------------------------------------------------------------------------
(***************************************************************************)
(* The schedule builder follows the links.                                 *)
(***************************************************************************)
\* Its next record: the one behind r, or that behind the branch r is the last record of.
NextAt(r, q) ==
  \/ q = r /\ (records[r].next # None \/ records[r].branch = None)
  \/ /\ records[r].next = None /\ records[r].branch # None
     /\ q = records[r].branch[1] /\ records[q].next # None

LEMMA NextRecordIs ==
  ASSUME NEW r, IsId(r), NEW q, NextAt(r, q)
  PROVE  NextRecord(r) = records[q].next
<1>1. PICK L \in Nat : L = Len(EP(r)) /\ L > 0
  <2>1. Len(r[2]) \in Nat \ {0}
    BY SpotFacts DEF IsId
  <2> QED BY <2>1 DEF EP
<1> DEFINE Step(x) == IF records[x].next # None \/ records[x].branch = None THEN x
                      ELSE records[x].branch[1]
           From(f) == f = [n \in 0 .. L |-> IF n = 0 THEN r ELSE Step(f[n - 1])]
<1>2. NextRecord(r) = records[(CHOOSE f : From(f))[L]].next
  BY <1>1 DEF NextRecord
<1>3. Step(r) = q /\ Step(q) = q
  BY DEF NextAt
<1> DEFINE f == [n \in 0 .. L |-> IF n = 0 THEN r ELSE q]
<1>4. From(f)
  <2>1. ASSUME NEW n \in 0 .. L, n # 0 PROVE f[n] = Step(f[n - 1])
    <3>1. n - 1 \in 0 .. L
      BY <2>1
    <3>2. f[n] = q /\ (f[n - 1] = r \/ f[n - 1] = q)
      BY <2>1, <3>1
    <3> HIDE DEF f, Step
    <3> QED BY <1>3, <3>2
  <2>2. f[0] = r
    OBVIOUS
  <2>3. f = [n \in 0 .. L |-> IF n = 0 THEN r ELSE Step(f[n - 1])]
    <3>1. PICK g : g = f
      OBVIOUS
    <3>2. g = [n \in 0 .. L |-> g[n]]
      BY <3>1
    <3>3. \A n \in 0 .. L : g[n] = IF n = 0 THEN r ELSE Step(g[n - 1])
      BY <2>1, <2>2, <3>1
    <3> HIDE DEF f, Step
    <3> QED BY <3>1, <3>2, <3>3
  <2> HIDE DEF f, Step
  <2> QED BY <2>3
<1>5. PICK g : From(g) /\ g = CHOOSE h : From(h)
  <2> HIDE DEF f, From
  <2> QED BY <1>4
<1>6. g[0] = r /\ \A n \in 1 .. L : g[n] = Step(g[n - 1])
  <2> HIDE DEF Step, f
  <2>1. g = [n \in 0 .. L |-> IF n = 0 THEN r ELSE Step(g[n - 1])]
    BY <1>5
  <2>2. PICK h : h = [n \in 0 .. L |-> IF n = 0 THEN r ELSE Step(g[n - 1])]
    OBVIOUS
  <2>3. h[0] = r /\ \A n \in 1 .. L : h[n] = Step(g[n - 1])
    BY <1>1, <2>2
  <2>4. h = g
    BY <2>1, <2>2
  <2> QED BY <2>3, <2>4
<1> DEFINE S == {n \in 0 .. L : g[n] = IF n = 0 THEN r ELSE q}
<1>7. 0 \in S
  BY <1>6
<1>8. ASSUME NEW i \in 1 .. L, i - 1 \in S PROVE i \in S
  <2>1. g[i - 1] = r \/ g[i - 1] = q
    BY <1>8
  <2>2. g[i] = q
    <3> HIDE DEF S, Step
    <3> QED BY <1>3, <1>6, <2>1
  <2> QED BY <2>2
<1>9. L \in S
  <2> HIDE DEF S
  <2> QED BY <1>1, <1>7, <1>8, LoopInduction
<1>10. g[L] = q
  BY <1>1, <1>9
<1> HIDE DEF From
<1> QED
  BY <1>2, <1>5, <1>10

\* A record before which nothing is recorded any more has no next one.
LEMMA NoNext ==
  ASSUME NEW code, Sound(code), NEW r, NEW rec, RecordOk(code, r, rec),
         Kind(code, r[1], r[2]) \notin Exits \cup {"LOOPENTER", "BRANCHDIR"},
         NEW a, Leads(code, r[1], IncrementTop(r[2]), a), Call(code, r[1], a) \in {"MERGE", "END"}
  PROVE  rec.next = None
<1>1. SUFFICES ASSUME rec.next # None PROVE FALSE
  OBVIOUS
<1>2. PICK n : n = rec.next
  OBVIOUS
<1>3. NextOf(code, r, n)
  BY <1>1, <1>2 DEF RecordOk
<1>4. Leads(code, r[1], IncrementTop(r[2]), n[2]) /\ Call(code, r[1], n[2]) \notin Silent
  BY <1>3 DEF NextOf
<1>5. PICK t, p, q : t = r[1] /\ p = IncrementTop(r[2]) /\ q = n[2]
  OBVIOUS
<1>6. /\ Leads(code, t, p, q) /\ Call(code, t, q) \notin Silent
      /\ Leads(code, t, p, a) /\ Call(code, t, a) \in {"MERGE", "END"}
  BY <1>4, <1>5
<1>7. Call(code, t, q) # "ITERATE" /\ Call(code, t, a) # "ITERATE"
  BY <1>6 DEF Silent
<1>8. q = a
  BY <1>6, <1>7, LeadsOnce
<1> QED
  BY <1>6, <1>8 DEF Silent

\* The record the builder goes to is the one the link leads to.
LEMMA SuccessorIs ==
  ASSUME NEW code, Sound(code), NEW g, g = Tables, GraphOk(code, g), ChildrenOk(code, g),
         NEW dirs, OneWay(dirs), NEW r, NEW s, Link(code, noexecyields, g, dirs, r, s)
  PROVE  Successor(r, dirs) = s
<1>1. g.records = records /\ g.bodies = bodies
  BY DEF Tables
<1>2. PICK rec, kind : rec = records[r] /\ kind = Kind(code, r[1], r[2])
  OBVIOUS
<1>3. r \in DOMAIN records /\ s # None
  BY <1>1 DEF Link
<1>4. RecordOk(code, r, rec)
  BY <1>1, <1>2, <1>3 DEF GraphOk
<1>5. IsId(r) /\ rec.type = kind /\ rec.branch = Around(r[1], r[2])
  BY <1>2, <1>4 DEF RecordOk
<1>6. rec.next = s => NextRecord(r) = s
  <2>1. rec.next = s => NextAt(r, r)
    BY <1>2, <1>3 DEF NextAt
  <2> QED BY <1>2, <1>5, <2>1, NextRecordIs
<1>7. CASE kind = "LOOPENTER"
  <2>1. s = LoopStart(r)
    BY <1>2, <1>7 DEF Link
  <2>2. rec.child = LoopStart(r)
    BY <1>1, <1>2, <1>3, <1>7 DEF ChildrenOk
  <2> QED BY <1>2, <1>5, <1>7, <2>1, <2>2 DEF Successor
<1>8. CASE kind = "BRANCHDIR"
  <2>1. PICK b \in dirs : /\ b[1] = r /\ b \in DOMAIN bodies
                          /\ IF Call(code, r[1], InBody(b)) = "MERGE" THEN rec.next = s
                             ELSE bodies[b].first = s
    BY <1>1, <1>2, <1>8 DEF Link
  <2>2. \A c \in dirs : c[1] = r => c = b
    BY <2>1 DEF OneWay
  <2>3. BodyOk(code, b, bodies[b])
    BY <1>1, <2>1 DEF GraphOk
  <2>4. PICK body : body = {c \in dirs : c[1] = r}
    OBVIOUS
  <2>5. \A c \in body : c = b
    BY <2>2, <2>4
  <2>6. b \in body
    BY <2>1, <2>4
  <2>7. rec.type = "BRANCHDIR"
    BY <1>5, <1>8
  <2>8. CASE Call(code, r[1], InBody(b)) = "MERGE"
    <3>1. bodies[b].first = None
      BY <2>1, <2>3, <2>8 DEF BodyOk
    <3>2. ~(\E c \in body : bodies[c].first # None)
      BY <2>5, <3>1
    <3>3. Successor(r, dirs) = NextRecord(r)
      BY <1>2, <2>4, <2>7, <3>2 DEF Successor
    <3> QED BY <1>6, <2>1, <2>8, <3>3
  <2>9. CASE Call(code, r[1], InBody(b)) # "MERGE"
    <3>1. bodies[b].first = s
      BY <2>1, <2>9
    <3>2. \E c \in body : bodies[c].first # None
      BY <1>3, <2>6, <3>1
    <3>3. (CHOOSE c \in body : bodies[c].first # None) = b
      BY <2>5, <3>2
    <3>4. Successor(r, dirs) = bodies[CHOOSE c \in body : bodies[c].first # None].first
      BY <1>2, <2>4, <2>7, <3>2 DEF Successor
    <3> QED BY <3>1, <3>3, <3>4
  <2> QED BY <2>8, <2>9
<1>9. CASE kind \notin {"LOOPENTER", "BRANCHDIR"}
  <2>1. PICK branch : branch = Around(r[1], r[2])
    OBVIOUS
  <2>2. /\ ~(kind = "YIELD" /\ noexecyields)
        /\ \/ rec.next = s
           \/ /\ kind \notin Exits
              /\ \E a : Leads(code, r[1], IncrementTop(r[2]), a) /\ Call(code, r[1], a) = "MERGE"
              /\ branch # None /\ records[branch[1]].next = s
    BY <1>1, <1>2, <1>9, <2>1 DEF Link
  <2>3. rec.type \notin {"LOOPENTER", "BRANCHDIR"} /\ ~(rec.type = "YIELD" /\ noexecyields)
    BY <1>5, <1>9, <2>2
  <2>4. Successor(r, dirs) = NextRecord(r)
    BY <1>2, <2>3 DEF Successor
  <2>5. CASE rec.next = s
    BY <1>6, <2>4, <2>5
  <2>6. CASE rec.next # s
    <3>1. PICK a : Leads(code, r[1], IncrementTop(r[2]), a) /\ Call(code, r[1], a) = "MERGE"
      BY <2>2, <2>6
    <3>2. kind \notin Exits \cup {"LOOPENTER", "BRANCHDIR"}
      BY <1>9, <2>2, <2>6
    <3>3. rec.next = None
      BY <1>2, <1>4, <3>1, <3>2, NoNext
    <3>4. PICK q : q = branch[1]
      OBVIOUS
    <3>5. branch # None /\ records[q].next = s
      BY <2>2, <2>6, <3>4
    <3>6. NextAt(r, q)
      BY <1>2, <1>3, <1>5, <2>1, <3>3, <3>4, <3>5 DEF NextAt
    <3> QED BY <1>5, <2>4, <3>5, <3>6, NextRecordIs
  <2> QED BY <2>5, <2>6
<1> QED
  BY <1>7, <1>8, <1>9

\* After the last record of an execution it goes nowhere.
LEMMA SuccessorEnds ==
  ASSUME NEW code, Sound(code), NEW g, g = Tables, GraphOk(code, g), NEW dirs, NEW r,
         Ends(code, noexecyields, g, r)
  PROVE  Successor(r, dirs) = None
<1>1. PICK rec, kind : rec = records[r] /\ kind = Kind(code, r[1], r[2])
  OBVIOUS
<1>2. r \in DOMAIN records /\ g.records = records
  BY DEF Ends, Tables
<1>3. RecordOk(code, r, rec)
  BY <1>1, <1>2 DEF GraphOk
<1>4. IsId(r) /\ rec.type = kind /\ rec.branch = Around(r[1], r[2])
  BY <1>1, <1>3 DEF RecordOk
<1>5. CASE kind = "YIELD" /\ noexecyields
  BY <1>1, <1>4, <1>5 DEF Successor
<1>6. CASE ~(kind = "YIELD" /\ noexecyields)
  <2>1. /\ kind \notin Exits \cup {"LOOPENTER", "BRANCHDIR"} /\ Around(r[1], r[2]) = None
        /\ \E a : Leads(code, r[1], IncrementTop(r[2]), a) /\ Call(code, r[1], a) = "END"
    BY <1>1, <1>6 DEF Ends
  <2>2. rec.next = None
    BY <1>1, <1>3, <2>1, NoNext
  <2>3. NextAt(r, r)
    BY <1>1, <1>4, <2>1 DEF NextAt
  <2>4. NextRecord(r) = None
    BY <1>1, <1>4, <2>2, <2>3, NextRecordIs
  <2>5. rec.type \notin {"LOOPENTER", "BRANCHDIR"} /\ ~(rec.type = "YIELD" /\ noexecyields)
    BY <1>4, <1>6, <2>1
  <2>6. Successor(r, dirs) = NextRecord(r)
    BY <1>1, <2>5 DEF Successor
  <2> QED BY <2>4, <2>6
<1> QED
  BY <1>5, <1>6

LEMMA WInvReplays ==
  ASSUME IInv, WInv
  PROVE  ReplaysEveryExecution
<1>1. PICK code, g : code = Programs[program] /\ g = Tables
  OBVIOUS
<1>2. Sound(code) /\ GraphOk(code, g) /\ ChildrenOk(code, g)
  BY <1>1 DEF WInv, IInv, Sound
<1>3. SUFFICES ASSUME NEW run \in runs, NEW t \in Tid
               PROVE  Follows(run.walked[t], run.taken)
  BY DEF ReplaysEveryExecution, Executions
<1>4. RunOk(code, noexecyields, g, run)
  BY <1>1 DEF WInv
<1>5. PICK w, dirs : w = run.walked[t] /\ dirs = run.taken
  OBVIOUS
<1>6. /\ OneWay(dirs) /\ Linked(code, noexecyields, g, dirs, w)
      /\ w # <<>> => Ends(code, noexecyields, g, w[Len(w)])
  BY <1>4, <1>5 DEF RunOk
<1>7. w \in Seq(Tid \X Point) /\ Len(w) \in Nat /\ DOMAIN w = 1 .. Len(w)
  BY <1>6 DEF Linked
<1>8. ASSUME NEW i \in DOMAIN w
      PROVE  Successor(w[i], dirs) = IF i < Len(w) THEN w[i + 1] ELSE None
  <2>1. CASE i < Len(w)
    <3>1. i \in 1 .. Len(w) - 1
      BY <1>7, <2>1
    <3>2. PICK r, s : r = w[i] /\ s = w[i + 1]
      OBVIOUS
    <3>3. Link(code, noexecyields, g, dirs, r, s)
      BY <1>6, <3>1, <3>2 DEF Linked
    <3>4. Successor(r, dirs) = s
      BY <1>1, <1>2, <1>6, <3>3, SuccessorIs
    <3> QED BY <2>1, <3>2, <3>4
  <2>2. CASE ~(i < Len(w))
    <3>1. i = Len(w) /\ w # <<>>
      BY <1>7, <2>2
    <3>2. PICK r : r = w[i]
      OBVIOUS
    <3>3. Ends(code, noexecyields, g, r)
      BY <1>6, <3>1, <3>2
    <3>4. Successor(r, dirs) = None
      BY <1>1, <1>2, <3>3, SuccessorEnds
    <3> QED BY <2>2, <3>2, <3>4
  <2> QED BY <2>1, <2>2
<1> QED
  BY <1>5, <1>8 DEF Follows

\* The graph replays every execution, whatever the program, the number of its threads and of the
\* executions: what an execution does to the graph never takes away the way of an earlier one.
\* BodiesAreLeft is a restriction on the program: it merges before a thread ends.
THEOREM ReplaysEveryExecutionHolds == ASSUME BodiesAreLeft PROVE Spec => []ReplaysEveryExecution
<1>1. Init => IInv /\ WInv
  BY InitIInv, InitWInv
<1>2. (IInv /\ WInv) /\ [Next]_vars => (IInv /\ WInv)'
  BY StepIInv, StepWInv
<1>3. IInv /\ WInv => ReplaysEveryExecution
  BY WInvReplays
<1> QED
  BY <1>1, <1>2, <1>3, PTL DEF Spec
================================================================================
