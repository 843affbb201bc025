---------------------------- MODULE IncSolverProofs ----------------------------
(***************************************************************************)
(* The checker and its solver, for any clauses and goal variables and any  *)
(* size of the buffer and of the pipes: the solver answers the question    *)
(* the checker has asked, and the checker reads the answer it was given.   *)
(***************************************************************************)
EXTENDS IncSolver, FiniteSetTheorems, SequenceTheorems, TLAPS

(***************************************************************************)
(* What is on its way to the solver, wherever it is now: read already, in  *)
(* the pipe, in the buffer, or still to be added.                          *)
(***************************************************************************)
Transit == toSolver \o buffer \o todo
Words   == part \o Transit

\* The commands after the clauses, and all that is sent after them.
Commands == (IF asked = 1 THEN FreezeWords ELSE <<>>) \o <<IS_RUNSOLVER>>
Rest     == IF phase \in {"asking", "reading"} THEN <<0>> \o Commands ELSE <<>>

\* The first n words of u hold clauses, each with a zero behind it.
Starts(u, i)   == i = 1 \/ u[i - 1] = 0
Holds(u, c, i) == u[i + Len(c)] = 0 /\ \A k \in 1 .. Len(c) : u[i + k - 1] = c[k]
At(u, n, c, i) == Starts(u, i) /\ i + Len(c) <= n /\ Holds(u, c, i)

Encoded(u, n, old, all) ==
  /\ n # 0 => u[n] = 0
  /\ old \subseteq all
  /\ \A i \in 1 .. n : Starts(u, i) => \E c \in all : At(u, n, c, i)
  /\ \A c \in all \ old : \E i \in 1 .. n : At(u, n, c, i)

Followed(u, n, t) == Len(u) = n + Len(t) /\ \A i \in 1 .. Len(t) : u[n + i] = t[i]

NoAnswer == got = <<>> /\ fromSolver = <<>> /\ out = <<>>

\* The solver reads clauses: those it knows and those on their way are the ones sent.
ReadsClauses ==
  /\ mode = "clauses"
  /\ 0 \notin {part[i] : i \in DOMAIN part}
  /\ \E n \in 0 .. Len(Words) : Encoded(Words, n, known, sent) /\ Followed(Words, n, Rest)
  /\ frozen = IF asked = (IF phase \in {"asking", "reading"} THEN 1 ELSE 0) THEN {} ELSE Frozen

\* It reads commands, of which Len(Transit) are left.
ReadsCommands ==
  /\ mode \in {"commands", "freeze"}
  /\ part = <<>> /\ known = sent
  /\ \E n \in 0 .. Len(Commands) - 1 :
       /\ Followed(Commands, n, Transit)
       /\ mode = "freeze" <=> n % 2 = 1
       /\ frozen = IF asked = 1 THEN {SetToSeq(Frozen)[i] : i \in 1 .. n \div 2} ELSE Frozen

RightAnswer(words) ==
  \/ words = <<IS_INDETER>>
  \/ words = <<IS_UNSAT>> /\ Solutions(sent) = {}
  \/ \E a \in Solutions(sent) : words = <<IS_SAT, NumVars>> \o [v \in Vars |-> Bit(a[v])]

\* It has the question, and the answer is on its way.
Answers ==
  /\ part = <<>> /\ known = sent /\ frozen = Frozen
  /\ Transit = <<>>
  /\ mode = IF out = <<>> THEN "clauses" ELSE "answering"
  /\ RightAnswer(got \o fromSolver \o out)

\* What the phase of the checker says of the way to the solver and back.
Exchange ==
  /\ phase = "off" => ~alive /\ todo = <<>> /\ ~flushing /\ got = <<>> /\ asked = 0 /\ sent = {}
  /\ phase = "killed" => (mode = "clauses" /\ toSolver = <<>>) \/ ~alive
  /\ phase = "killed" => todo = <<>> /\ ~flushing
  /\ phase = "adding" => NoAnswer /\ ReadsClauses /\ asked < MaxAsked
  /\ phase = "answered" =>
       ReadsClauses /\ Answers /\ asked # 0 /\ out = <<>> /\ fromSolver = <<>> /\ got[1] # IS_INDETER
  /\ phase \in {"asking", "reading"} =>
       asked # 0 /\ (Answers \/ (NoAnswer /\ (ReadsClauses \/ ReadsCommands)))

BufferHasRoom ==
  /\ flushing => buffer # <<>>
  /\ phase # "killed" /\ ~flushing => Len(buffer) < BufferSize

IInv == TypeOK /\ Exchange /\ BufferHasRoom

--------------------------------------------------------------------------------
(***************************************************************************)
(* Clauses in a sequence of words.                                         *)
(***************************************************************************)
\* A clause has a literal, and no literal is zero.
LEMMA ClauseWords ==
  ASSUME NEW c \in Clause
  PROVE  /\ c \in Seq(Int) /\ Len(c) \in Nat \ {0}
         /\ \A k \in 1 .. Len(c) : c[k] # 0
<1>1. c \in Seq(Literal) /\ c # <<>>
  BY SolverAssumption
<1>2. NumVars \in Nat
  BY SolverAssumption
<1>3. Literal \subseteq Int /\ 0 \notin Literal
  BY <1>2 DEF Literal, Vars
<1>4. \A k \in 1 .. Len(c) : c[k] \in Literal
  BY <1>1
<1>5. c \in Seq(Int)
  BY <1>1, <1>3, SeqMonotonic
<1> QED
  BY <1>1, <1>3, <1>4, <1>5

\* Only the words themselves count.
LEMMA EncodedPrefix ==
  ASSUME NEW u, NEW v, NEW n \in Nat, NEW old, NEW all \in SUBSET Clause,
         \A i \in 1 .. n : u[i] = v[i], Encoded(u, n, old, all)
  PROVE  Encoded(v, n, old, all)
<1>1. ASSUME NEW i \in 1 .. n, Starts(v, i) PROVE Starts(u, i)
  BY <1>1 DEF Starts
<1>2. ASSUME NEW i \in 1 .. n, NEW c \in Clause, At(u, n, c, i) PROVE At(v, n, c, i)
  <2>1. Len(c) \in Nat
    BY ClauseWords
  <2>2. Starts(v, i)
    BY <1>2 DEF Starts, At
  <2>3. i + Len(c) <= n /\ u[i + Len(c)] = 0 /\ \A k \in 1 .. Len(c) : u[i + k - 1] = c[k]
    BY <1>2 DEF At, Holds
  <2>4. \A k \in 1 .. Len(c) : i + k - 1 \in 1 .. n
    BY <2>1, <2>3
  <2> QED BY <2>1, <2>2, <2>3, <2>4 DEF At, Holds
<1> QED
  BY <1>1, <1>2 DEF Encoded

\* A clause that is added is one more on its way.
LEMMA EncodedClause ==
  ASSUME NEW u \in Seq(Int), NEW old, NEW all \in SUBSET Clause, NEW c \in Clause,
         Encoded(u, Len(u), old, all)
  PROVE  Encoded(u \o Append(c, 0), Len(u \o Append(c, 0)), old, all \cup {c})
<1> DEFINE m == Len(u)
           n == Len(u) + Len(c) + 1
           v == u \o Append(c, 0)
<1>1. m \in Nat /\ Len(c) \in Nat \ {0} /\ c \in Seq(Int) /\ \A k \in 1 .. Len(c) : c[k] # 0
  BY ClauseWords
<1>2. Len(v) = n /\ v \in Seq(Int)
  BY <1>1
<1>3. /\ \A i \in 1 .. m : v[i] = u[i]
      /\ \A k \in 1 .. Len(c) : v[m + k] = c[k]
      /\ v[n] = 0
  <2>1. Append(c, 0) \in Seq(Int) /\ Len(Append(c, 0)) = Len(c) + 1 /\ Append(c, 0)[Len(c) + 1] = 0
        /\ \A k \in 1 .. Len(c) : Append(c, 0)[k] = c[k]
    BY <1>1
  <2>2. \A i \in 1 .. n : v[i] = IF i <= m THEN u[i] ELSE Append(c, 0)[i - m]
    <3> DEFINE w == Append(c, 0)
    <3>1. w \in Seq(Int) /\ Len(u) + Len(w) = n
      BY <1>1, <2>1
    <3> HIDE DEF w
    <3>2. \A i \in 1 .. Len(u) + Len(w) : (u \o w)[i] = IF i <= Len(u) THEN u[i] ELSE w[i - Len(u)]
      BY <3>1, ConcatProperties
    <3> QED BY <3>1, <3>2 DEF w
  <2> HIDE DEF v
  <2>3. \A k \in 1 .. Len(c) : m + k \in 1 .. n /\ ~(m + k <= m) /\ (m + k) - m = k
    BY <1>1
  <2>4. n \in 1 .. n /\ ~(n <= m) /\ n - m = Len(c) + 1
    BY <1>1
  <2>5. \A i \in 1 .. m : i \in 1 .. n /\ i <= m
    BY <1>1
  <2> QED BY <2>1, <2>2, <2>3, <2>4, <2>5
<1> HIDE DEF v
<1>4. Starts(v, m + 1)
  <2>1. CASE m = 0
    BY <2>1 DEF Starts
  <2>2. CASE m # 0
    <3>1. u[m] = 0
      BY <2>2 DEF Encoded
    <3>2. m \in 1 .. m /\ (m + 1) - 1 = m
      BY <1>1, <2>2
    <3> QED BY <1>3, <3>1, <3>2 DEF Starts
  <2> QED BY <2>1, <2>2
<1>5. At(v, n, c, m + 1)
  <2>1. (m + 1) + Len(c) = n /\ \A k \in 1 .. Len(c) : (m + 1) + k - 1 = m + k
    BY <1>1
  <2> QED BY <1>1, <1>3, <1>4, <2>1 DEF At, Holds
<1>6. ASSUME NEW i \in 1 .. m, NEW d \in all, At(u, m, d, i) PROVE At(v, n, d, i)
  <2>1. Len(d) \in Nat
    BY ClauseWords
  <2>2. Starts(v, i)
    <3>1. CASE i = 1
      BY <3>1 DEF Starts
    <3>2. CASE i # 1
      <4>1. i - 1 \in 1 .. m
        BY <1>1, <3>2
      <4>2. u[i - 1] = 0
        BY <1>6, <3>2 DEF At, Starts
      <4>3. v[i - 1] = 0
        BY <1>3, <4>1, <4>2
      <4> QED BY <4>3 DEF Starts
    <3> QED BY <3>1, <3>2
  <2>3. i + Len(d) \in 1 .. m /\ u[i + Len(d)] = 0 /\ \A k \in 1 .. Len(d) : u[i + k - 1] = d[k]
    BY <1>1, <1>6, <2>1 DEF At, Holds
  <2>4. \A k \in 1 .. Len(d) : i + k - 1 \in 1 .. m
    BY <2>1, <2>3
  <2>5. i + Len(d) <= n
    BY <1>1, <2>1, <2>3
  <2> QED BY <1>3, <2>1, <2>2, <2>3, <2>4, <2>5 DEF At, Holds
<1>7. ASSUME NEW i \in 1 .. n, Starts(v, i) PROVE (i \in 1 .. m /\ Starts(u, i)) \/ i = m + 1
  <2>1. CASE i \in 1 .. m
    BY <1>1, <1>3, <1>7, <2>1 DEF Starts
  <2>2. CASE i \notin 1 .. m /\ i # m + 1
    <3>1. i - 1 = m + (i - 1 - m) /\ i - 1 - m \in 1 .. Len(c) /\ i # 1
      BY <1>1, <2>2
    <3>2. v[i - 1] # 0
      <4> DEFINE k == i - 1 - m
      <4>1. v[m + k] = c[k] /\ c[k] # 0
        <5>1. k \in 1 .. Len(c)
          BY <3>1
        <5> HIDE DEF k, m
        <5> QED BY <1>1, <1>3, <5>1
      <4> QED BY <3>1, <4>1
    <3> QED BY <1>7, <3>1, <3>2 DEF Starts
  <2> QED BY <2>1, <2>2
<1>8. ASSUME NEW i \in 1 .. n, Starts(v, i) PROVE \E d \in all \cup {c} : At(v, n, d, i)
  BY <1>5, <1>6, <1>7, <1>8 DEF Encoded
<1>9. ASSUME NEW d \in (all \cup {c}) \ old PROVE \E i \in 1 .. n : At(v, n, d, i)
  <2>1. CASE d = c
    BY <1>1, <1>5, <2>1
  <2>2. CASE d # c
    <3>1. PICK i \in 1 .. m : At(u, m, d, i)
      BY <2>2 DEF Encoded
    <3> QED BY <1>1, <1>6, <2>2, <3>1
  <2> QED BY <2>1, <2>2
<1> QED
  BY <1>2, <1>3, <1>8, <1>9 DEF Encoded, v

\* The first clause is the one up to the first zero; without it the rest is encoded.
LEMMA EncodedHead ==
  ASSUME NEW u, NEW v, NEW n \in Nat \ {0}, NEW old, NEW all \in SUBSET Clause, Encoded(u, n, old, all),
         NEW p \in Seq(Int), \A k \in 1 .. Len(p) : p[k] # 0 /\ u[k] = p[k],
         u[Len(p) + 1] = 0,
         \A i \in 1 .. n - (Len(p) + 1) : v[i] = u[i + (Len(p) + 1)]
  PROVE  /\ p \in all /\ Len(p) + 1 <= n
         /\ Encoded(v, n - (Len(p) + 1), old \cup {p}, all)
<1> DEFINE m == Len(p) + 1
<1>1. Len(p) \in Nat /\ m \in Nat \ {0}
  OBVIOUS
<1>2. PICK c \in all : At(u, n, c, 1)
  BY DEF Encoded, Starts
<1>3. /\ c \in Seq(Int) /\ Len(c) \in Nat \ {0} /\ \A k \in 1 .. Len(c) : c[k] # 0
      /\ 1 + Len(c) <= n /\ u[1 + Len(c)] = 0 /\ \A k \in 1 .. Len(c) : u[k] = c[k]
  <2>1. \A k \in 1 .. Len(c) : 1 + k - 1 = k
    OBVIOUS
  <2> QED BY <1>2, <2>1, ClauseWords DEF At, Holds
<1>4. Len(c) = Len(p)
  <2>1. ~(Len(c) < Len(p))
    <3> SUFFICES ASSUME Len(c) < Len(p) PROVE FALSE
      OBVIOUS
    <3>1. 1 + Len(c) \in 1 .. Len(p)
      BY <1>1, <1>3
    <3> QED BY <1>3, <3>1
  <2>2. ~(Len(p) < Len(c))
    <3> SUFFICES ASSUME Len(p) < Len(c) PROVE FALSE
      OBVIOUS
    <3>1. Len(p) + 1 \in 1 .. Len(c)
      BY <1>1, <1>3
    <3> QED BY <1>3, <3>1
  <2> QED BY <1>1, <1>3, <2>1, <2>2
<1>5. c = p
  <2>1. \A k \in 1 .. Len(c) : c[k] = p[k]
    BY <1>3, <1>4
  <2> QED BY <1>3, <1>4, <2>1, SeqEqual
<1>6. p \in all /\ m <= n
  BY <1>1, <1>3, <1>5
<1>7. ASSUME NEW i \in 1 .. n - m, Starts(v, i) PROVE i + m \in 1 .. n /\ Starts(u, i + m)
  <2>1. CASE i = 1
    <3>1. (i + m) - 1 = m
      BY <1>1, <2>1
    <3> QED BY <1>1, <1>6, <2>1, <3>1 DEF Starts
  <2>2. CASE i # 1
    <3>1. i - 1 \in 1 .. n - m /\ (i - 1) + m = (i + m) - 1 /\ i + m \in 1 .. n
      BY <1>1, <2>2
    <3> QED BY <1>7, <2>2, <3>1 DEF Starts
  <2> QED BY <2>1, <2>2
<1>8. ASSUME NEW i \in 1 .. n - m, NEW d \in all, At(u, n, d, i + m) PROVE At(v, n - m, d, i)
  <2>1. Len(d) \in Nat
    BY ClauseWords
  <2>2. /\ (i + m) + Len(d) <= n /\ u[(i + m) + Len(d)] = 0
        /\ \A k \in 1 .. Len(d) : u[(i + m) + k - 1] = d[k]
        /\ i + m = 1 \/ u[(i + m) - 1] = 0
    BY <1>8 DEF At, Holds, Starts
  <2>3. i + Len(d) \in 1 .. n - m /\ (i + Len(d)) + m = (i + m) + Len(d)
    BY <1>1, <2>1, <2>2
  <2>4. \A k \in 1 .. Len(d) : i + k - 1 \in 1 .. n - m /\ (i + k - 1) + m = (i + m) + k - 1
    BY <1>1, <2>1, <2>3
  <2>5. i = 1 \/ v[i - 1] = 0
    <3>1. CASE i # 1
      <4>1. i - 1 \in 1 .. n - m /\ (i - 1) + m = (i + m) - 1 /\ i + m # 1
        BY <1>1, <3>1
      <4>2. v[i - 1] = u[(i - 1) + m]
        BY <4>1
      <4> QED BY <2>2, <4>1, <4>2
    <3> QED BY <3>1
  <2>6. i + Len(d) <= n - m
    BY <2>3
  <2>7. v[i + Len(d)] = 0 /\ \A k \in 1 .. Len(d) : v[i + k - 1] = d[k]
    BY <2>2, <2>3, <2>4
  <2> QED BY <2>5, <2>6, <2>7 DEF At, Holds, Starts
<1>9. n - m # 0 => v[n - m] = 0
  <2>1. n - m # 0 => n - m \in 1 .. n - m /\ (n - m) + m = n
    BY <1>1, <1>6
  <2> QED BY <2>1 DEF Encoded
<1>10. ASSUME NEW i \in 1 .. n - m, Starts(v, i) PROVE \E d \in all : At(v, n - m, d, i)
  BY <1>7, <1>8, <1>10 DEF Encoded
<1>11. ASSUME NEW d \in all \ (old \cup {p}) PROVE \E i \in 1 .. n - m : At(v, n - m, d, i)
  <2>1. PICK i \in 1 .. n : At(u, n, d, i)
    BY DEF Encoded
  <2>2. Len(d) \in Nat \ {0} /\ d \in Seq(Int) /\ \A k \in 1 .. Len(d) : d[k] # 0
    BY ClauseWords
  <2>3. /\ i + Len(d) <= n /\ u[i + Len(d)] = 0
        /\ \A k \in 1 .. Len(d) : u[i + k - 1] = d[k]
        /\ i = 1 \/ u[i - 1] = 0
    BY <2>1 DEF At, Holds, Starts
  <2>4. CASE i = 1
    <3>1. \A k \in 1 .. Len(d) : u[k] = d[k]
      BY <2>3, <2>4
    <3>2. ~(Len(d) < Len(p))
      <4> SUFFICES ASSUME Len(d) < Len(p) PROVE FALSE
        OBVIOUS
      <4>1. i + Len(d) \in 1 .. Len(p)
        BY <1>1, <2>2, <2>4
      <4> QED BY <2>3, <4>1
    <3>3. ~(Len(p) < Len(d))
      <4> SUFFICES ASSUME Len(p) < Len(d) PROVE FALSE
        OBVIOUS
      <4>1. Len(p) + 1 \in 1 .. Len(d)
        BY <1>1, <2>2
      <4> QED BY <2>2, <3>1, <4>1
    <3>4. Len(d) = Len(p)
      BY <1>1, <2>2, <3>2, <3>3
    <3>5. d = p
      BY <2>2, <3>1, <3>4, SeqEqual
    <3> QED BY <3>5
  <2>5. CASE i # 1
    <3>1. i - 1 \notin 1 .. Len(p)
      <4> SUFFICES ASSUME i - 1 \in 1 .. Len(p) PROVE FALSE
        OBVIOUS
      <4>1. u[i - 1] = p[i - 1] /\ p[i - 1] # 0
        OBVIOUS
      <4> QED BY <2>3, <2>5, <4>1
    <3>2. CASE i = m
      \* it would begin with the zero that ends the first clause
      <4>1. u[i + 1 - 1] = d[1] /\ d[1] # 0
        BY <2>2, <2>3
      <4>2. i + 1 - 1 = m
        BY <1>1, <3>2
      <4> QED BY <4>1, <4>2
    <3>3. CASE i # m
      <4>1. i - m \in 1 .. n - m /\ (i - m) + m = i
        BY <1>1, <1>6, <2>5, <3>1, <3>3
      <4> QED BY <1>8, <2>1, <4>1
    <3> QED BY <3>2, <3>3
  <2> QED BY <2>4, <2>5
<1> QED
  BY <1>6, <1>9, <1>10, <1>11 DEF Encoded

\* No clause is empty: the first word of those on their way is a literal.
LEMMA NoEmptyClause ==
  ASSUME NEW u, NEW n \in Nat \ {0}, NEW old, NEW all \in SUBSET Clause, Encoded(u, n, old, all), u[1] = 0
  PROVE  FALSE
<1>1. PICK c \in all : At(u, n, c, 1)
  BY DEF Encoded, Starts
<1>2. Len(c) \in Nat \ {0} /\ \A k \in 1 .. Len(c) : c[k] # 0
  BY ClauseWords
<1>3. 1 \in 1 .. Len(c) /\ 1 + 1 - 1 = 1
  BY <1>2
<1>4. u[1 + 1 - 1] = c[1]
  BY <1>1, <1>3 DEF At, Holds
<1> QED
  BY <1>2, <1>3, <1>4

\* When nothing is on its way the solver knows every clause that was sent.
LEMMA EncodedNothing ==
  ASSUME NEW u, NEW old, NEW all, Encoded(u, 0, old, all)
  PROVE  old = all
BY DEF Encoded

LEMMA EncodedEmpty ==
  ASSUME NEW u, NEW all
  PROVE  Encoded(u, 0, all, all)
BY DEF Encoded

--------------------------------------------------------------------------------
(***************************************************************************)
(* Words that move on, and the commands.                                   *)
(***************************************************************************)
LEMMA Associative ==
  \A s, t, u \in Seq(Int) : (s \o t) \o u = s \o (t \o u)
<1> SUFFICES ASSUME NEW s \in Seq(Int), NEW t \in Seq(Int), NEW u \in Seq(Int)
             PROVE  (s \o t) \o u = s \o (t \o u)
  OBVIOUS
<1> QED BY ConcatAssociative

LEMMA FollowedConcat ==
  ASSUME NEW u \in Seq(Int), NEW t \in Seq(Int)
  PROVE  /\ u \o t \in Seq(Int) /\ Len(u) \in 0 .. Len(u \o t)
         /\ Followed(u \o t, Len(u), t)
         /\ \A i \in 1 .. Len(u) : (u \o t)[i] = u[i]
<1>1. u \o t \in Seq(Int) /\ Len(u \o t) = Len(u) + Len(t) /\ Len(u) \in Nat /\ Len(t) \in Nat
  OBVIOUS
<1>2. \A i \in 1 .. Len(u) : (u \o t)[i] = u[i]
  OBVIOUS
<1>3. ASSUME NEW i \in 1 .. Len(t) PROVE (u \o t)[Len(u) + i] = t[i]
  BY <1>1
<1> QED
  BY <1>1, <1>2, <1>3 DEF Followed

LEMMA MoveHead ==
  ASSUME NEW S, NEW s \in Seq(S), NEW t \in Seq(S), t # <<>>
  PROVE  Append(s, Head(t)) \o Tail(t) = s \o t
<1>1. /\ Head(t) \in S /\ Tail(t) \in Seq(S) /\ Len(Tail(t)) = Len(t) - 1 /\ Len(t) \in Nat \ {0}
      /\ Head(t) = t[1] /\ \A i \in 1 .. Len(Tail(t)) : Tail(t)[i] = t[i + 1]
  BY HeadTailProperties
<1>2. t = <<Head(t)>> \o Tail(t)
  <2>1. <<Head(t)>> \o Tail(t) \in Seq(S) /\ Len(<<Head(t)>> \o Tail(t)) = Len(t)
    BY <1>1
  <2>2. ASSUME NEW i \in 1 .. Len(t) PROVE t[i] = (<<Head(t)>> \o Tail(t))[i]
    BY <1>1
  <2> QED BY <2>1, <2>2, SeqEqual
<1>3. Append(s, Head(t)) = s \o <<Head(t)>> /\ <<Head(t)>> \in Seq(S)
  BY <1>1, AppendIsConcat
<1>4. (s \o <<Head(t)>>) \o Tail(t) = s \o (<<Head(t)>> \o Tail(t))
  BY <1>1, <1>3, ConcatAssociative
<1> QED
  BY <1>2, <1>3, <1>4

LEMMA SplitAt ==
  ASSUME NEW S, NEW t \in Seq(S), NEW n \in 0 .. Len(t)
  PROVE  /\ SubSeq(t, 1, n) \o SubSeq(t, n + 1, Len(t)) = t
         /\ SubSeq(t, 1, n) \in Seq(S) /\ Len(SubSeq(t, 1, n)) = n
         /\ SubSeq(t, n + 1, Len(t)) \in Seq(S) /\ Len(SubSeq(t, n + 1, Len(t))) = Len(t) - n
<1>1. Len(t) \in Nat
  OBVIOUS
<1>2. SubSeq(t, 1, n) \o SubSeq(t, n + 1, Len(t)) = SubSeq(t, 1, Len(t))
  <2>1. 1 \in 1 .. Len(t) + 1 /\ n \in 1 - 1 .. Len(t) /\ Len(t) \in n .. Len(t)
    BY <1>1
  <2> QED BY <2>1, ConcatAdjacentSubSeq
<1>3. SubSeq(t, 1, Len(t)) = t
  BY SubSeqFull
<1>4. SubSeq(t, 1, n) \in Seq(S) /\ Len(SubSeq(t, 1, n)) = n
  BY <1>1
<1>5. SubSeq(t, n + 1, Len(t)) \in Seq(S) /\ Len(SubSeq(t, n + 1, Len(t))) = Len(t) - n
  BY <1>1
<1> QED
  BY <1>2, <1>3, <1>4, <1>5

\* Every goal variable is in the list of commands, and nothing else.
LEMMA FrozenListed ==
  /\ Cardinality(Frozen) \in Nat
  /\ SetToSeq(Frozen) \in [1 .. Cardinality(Frozen) -> Frozen]
  /\ {SetToSeq(Frozen)[i] : i \in 1 .. Cardinality(Frozen)} = Frozen
  /\ Frozen \subseteq Int
<1> DEFINE n == Cardinality(Frozen)
           f == SetToSeq(Frozen)
<1>1. NumVars \in Nat /\ Frozen \subseteq 1 .. NumVars
  BY SolverAssumption DEF Vars
<1>2. IsFiniteSet(Frozen) /\ n \in Nat
  <2>1. IsFiniteSet(1 .. NumVars)
    BY <1>1, FS_Interval
  <2> QED BY <1>1, <2>1, FS_Subset, FS_CardinalityType
<1>3. \E g : g \in Bijection(1 .. n, Frozen)
  BY <1>2, FS_CardinalityType DEF ExistsBijection
<1>4. \E g \in [1 .. n -> Frozen] : IsInjective(g)
  BY <1>3 DEF Bijection, Injection, IsInjective
<1>5. f \in [1 .. n -> Frozen] /\ IsInjective(f)
  BY <1>4 DEF SetToSeq
<1>6. f \in Surjection(1 .. n, Frozen)
  <2>1. IsFiniteSet(1 .. n) /\ Cardinality(1 .. n) = n
    BY <1>2, FS_Interval
  <2>2. f \in Injection(1 .. n, Frozen)
    BY <1>5 DEF Injection
  <2> QED BY <1>2, <2>1, <2>2, FS_Injection
<1>7. {f[i] : i \in 1 .. n} = Frozen
  BY <1>5, <1>6 DEF Surjection
<1> QED
  BY <1>1, <1>2, <1>5, <1>7

LEMMA FreezeTyped ==
  /\ FreezeWords \in Seq(Int)
  /\ Len(FreezeWords) = 2 * Cardinality(Frozen)
<1> DEFINE C == Cardinality(Frozen)
           F == SetToSeq(Frozen)
<1>1. C \in Nat /\ 2 * C \in Nat /\ F \in [1 .. C -> Frozen] /\ Frozen \subseteq Int
  BY FrozenListed
<1>2. ASSUME NEW i \in 1 .. 2 * C, i % 2 # 1 PROVE F[i \div 2] \in Int
  <2>1. i \div 2 \in 1 .. C
    <3> HIDE DEF C
    <3> QED BY <1>1, <1>2
  <2> HIDE DEF C, F
  <2> QED BY <1>1, <2>1
<1>3. FreezeWords \in [1 .. 2 * C -> Int]
  BY <1>2 DEF FreezeWords, IS_FREEZE
<1> HIDE DEF C
<1>4. FreezeWords \in Seq(Int)
  BY <1>1, <1>3, SeqDef
<1> QED BY <1>1, <1>3, <1>4, LenProperties DEF C

LEMMA CommandWords ==
  ASSUME asked \in Nat
  PROVE  /\ Commands \in Seq(Int)
         /\ Len(Commands) = (IF asked = 1 THEN 2 * Cardinality(Frozen) ELSE 0) + 1
         /\ Commands[Len(Commands)] = IS_RUNSOLVER
         /\ \A i \in 1 .. Len(Commands) - 1 :
              Commands[i] = IF i % 2 = 1 THEN IS_FREEZE ELSE SetToSeq(Frozen)[i \div 2]
<1> DEFINE C == Cardinality(Frozen)
           F == SetToSeq(Frozen)
           w == IF asked = 1 THEN FreezeWords ELSE <<>>
           L == IF asked = 1 THEN 2 * C ELSE 0
<1>1. C \in Nat /\ 2 * C \in Nat /\ F \in [1 .. C -> Frozen] /\ Frozen \subseteq Int
  BY FrozenListed
<1>5. w \in Seq(Int) /\ Len(w) = L /\ L \in Nat
  BY <1>1, FreezeTyped
<1>6. \A i \in 1 .. L : w[i] = IF i % 2 = 1 THEN IS_FREEZE ELSE F[i \div 2]
  BY <1>1 DEF FreezeWords
<1>7. Commands = w \o <<IS_RUNSOLVER>>
  BY DEF Commands
<1> HIDE DEF w, L, F
<1>8. /\ w \o <<IS_RUNSOLVER>> \in Seq(Int) /\ Len(w \o <<IS_RUNSOLVER>>) = L + 1
      /\ \A i \in 1 .. L : (w \o <<IS_RUNSOLVER>>)[i] = w[i]
      /\ (w \o <<IS_RUNSOLVER>>)[L + 1] = IS_RUNSOLVER
  BY <1>5 DEF IS_RUNSOLVER
<1>9. Len(Commands) = L + 1 /\ Len(Commands) - 1 = L
  BY <1>5, <1>7, <1>8
<1> QED
  BY <1>6, <1>7, <1>8, <1>9 DEF F, L

--------------------------------------------------------------------------------
(***************************************************************************)
(* The steps of the checker.                                               *)
(***************************************************************************)
LEMMA Sizes ==
  /\ NumVars \in Nat \ {0} /\ BufferSize \in Nat \ {0}
  /\ PipeSize \in Nat \ {0} /\ MaxAsked \in Nat \ {0}
BY SolverAssumption

LEMMA Typed ==
  ASSUME TypeOK
  PROVE  /\ todo \in Seq(Int) /\ buffer \in Seq(Int) /\ toSolver \in Seq(Int)
         /\ fromSolver \in Seq(Int) /\ got \in Seq(Int) /\ part \in Seq(Int) /\ out \in Seq(Int)
         /\ Transit \in Seq(Int) /\ Words \in Seq(Int)
         /\ asked \in Nat
<1>1. /\ todo \in Seq(Int) /\ buffer \in Seq(Int) /\ toSolver \in Seq(Int)
      /\ fromSolver \in Seq(Int) /\ got \in Seq(Int) /\ part \in Seq(Int) /\ out \in Seq(Int)
      /\ asked \in Nat
  BY DEF TypeOK
<1> QED
  BY <1>1 DEF Transit, Words

LEMMA InitIInv == Init => IInv
<1> SUFFICES ASSUME Init PROVE IInv
  OBVIOUS
<1>1. TypeOK
  <2>1. <<>> \in Seq(Int) /\ Len(<<>>) = 0
    OBVIOUS
  <2>2. /\ todo \in Seq(Int) /\ buffer \in Seq(Int) /\ got \in Seq(Int)
        /\ toSolver \in Seq(Int) /\ fromSolver \in Seq(Int)
        /\ part \in Seq(Int) /\ out \in Seq(Int)
    BY <2>1 DEF Init
  <2>3. Len(buffer) <= BufferSize /\ Len(toSolver) <= PipeSize /\ Len(fromSolver) <= PipeSize
    BY <2>1, Sizes DEF Init
  <2>4. asked \in 0 .. MaxAsked
    BY Sizes DEF Init
  <2> QED BY <2>2, <2>3, <2>4 DEF Init, TypeOK
<1>2. Exchange
  BY DEF Init, Exchange
<1>3. BufferHasRoom
  BY Sizes DEF Init, BufferHasRoom
<1> QED
  BY <1>1, <1>2, <1>3 DEF IInv

\* A step that only moves words along.
LEMMA ExchangeMoves ==
  ASSUME TypeOK, Exchange, phase \notin {"off", "killed"},
         phase' = phase \/ (phase = "asking" /\ phase' = "reading"),
         Transit' = Transit, UNCHANGED <<got, asked, sent, fromSolver, mode, part, known, frozen, out>>
  PROVE  Exchange'
<1>1. Words' = Words /\ NoAnswer' = NoAnswer /\ Commands' = Commands /\ Rest' = Rest
  BY DEF Words, NoAnswer, Commands, Rest
<1>2. ReadsClauses => ReadsClauses'
  BY <1>1 DEF ReadsClauses
<1>3. ReadsCommands => ReadsCommands'
  BY <1>1 DEF ReadsCommands
<1>4. Answers => Answers'
  BY DEF Answers, RightAnswer
<1> QED
  BY <1>1, <1>2, <1>3, <1>4 DEF Exchange, TypeOK

LEMMA CreateIInv ==
  ASSUME IInv, createSolver
  PROVE  IInv'
<1> USE DEF createSolver
<1>1. /\ phase = "off" /\ phase' = "adding" /\ todo = <<>> /\ todo' = <<>> /\ buffer' = <<>>
      /\ toSolver' = <<>> /\ fromSolver' = <<>> /\ part' = <<>> /\ out' = <<>> /\ got' = <<>>
      /\ known' = {} /\ sent' = {} /\ frozen' = {} /\ asked' = 0 /\ mode' = "clauses" /\ flushing' = FALSE
  BY DEF IInv, Exchange, TypeOK
<1>2. TypeOK'
  BY <1>1, Sizes DEF IInv, TypeOK
<1>3. Words' = <<>> /\ Rest' = <<>>
  BY <1>1 DEF Words, Transit, Rest
<1>4. Encoded(Words', 0, {}, {}) /\ Followed(Words', 0, <<>>)
  BY <1>3, EncodedEmpty DEF Followed
<1>5. ReadsClauses'
  BY <1>1, <1>3, <1>4 DEF ReadsClauses
<1>6. Exchange'
  BY <1>1, <1>5, Sizes DEF Exchange, NoAnswer
<1>7. BufferHasRoom'
  BY <1>1, Sizes DEF BufferHasRoom
<1> QED
  BY <1>2, <1>6, <1>7 DEF IInv

LEMMA KillIInv ==
  ASSUME IInv, killSolver
  PROVE  IInv'
<1> USE DEF killSolver
<1>1. TypeOK'
  <2>1. <<>> \in Seq(Int)
    OBVIOUS
  <2>2. asked' \in 0 .. MaxAsked
    BY Sizes
  <2>3. got' \in Seq(Int) /\ sent' \subseteq Clause /\ phase' = "off" /\ alive' \in BOOLEAN
    BY <2>1
  <2>4. UNCHANGED <<todo, buffer, flushing, toSolver, fromSolver, mode, part, known, frozen, out>>
    BY DEF pipes
  <2> HIDE DEF killSolver
  <2> QED BY <2>2, <2>3, <2>4 DEF IInv, TypeOK
<1>2. Exchange'
  BY DEF Exchange
<1>3. BufferHasRoom'
  BY DEF IInv, BufferHasRoom
<1> QED
  BY <1>1, <1>2, <1>3 DEF IInv

\* A clause is added behind those on their way.
LEMMA AddIInv ==
  ASSUME IInv, NEW c \in Clause, addConstraint(c)
  PROVE  IInv'
<1> USE DEF addConstraint, solver, pipes
<1>1. c \in Seq(Int) /\ Append(c, 0) \in Seq(Int)
  BY ClauseWords
<1>2. TypeOK'
  BY <1>1 DEF IInv, TypeOK
<1>3. ReadsClauses /\ Rest = <<>> /\ Rest' = <<>> /\ sent \in SUBSET Clause
  BY DEF IInv, Exchange, Rest, TypeOK
<1>4. Words' = Words \o Append(c, 0) /\ Words \in Seq(Int)
  <2>1. Transit = toSolver \o buffer /\ Transit' = Transit \o Append(c, 0) /\ Words' = part \o Transit'
    BY Typed DEF IInv, Transit, Words
  <2>2. part \in Seq(Int) /\ Transit \in Seq(Int) /\ Words \in Seq(Int)
    BY Typed DEF IInv
  <2>3. ASSUME NEW w \in Seq(Int) PROVE (part \o Transit) \o w = part \o (Transit \o w)
    BY <2>2, Associative
  <2>4. (part \o Transit) \o Append(c, 0) = part \o (Transit \o Append(c, 0))
    BY <1>1, <2>3
  <2> QED BY <2>1, <2>2, <2>4 DEF Words
<1>5. Encoded(Words, Len(Words), known, sent)
  <2>1. PICK n \in 0 .. Len(Words) : Encoded(Words, n, known, sent) /\ Followed(Words, n, Rest)
    BY <1>3 DEF ReadsClauses
  <2>2. n = Len(Words)
    BY <1>3, <2>1 DEF Followed
  <2> QED BY <2>1, <2>2
<1>6. Encoded(Words', Len(Words'), known, sent \cup {c})
  BY <1>3, <1>4, <1>5, EncodedClause
<1>7. ReadsClauses'
  <2>1. Len(Words') \in Nat /\ Followed(Words', Len(Words'), Rest')
    BY <1>1, <1>3, <1>4 DEF Followed
  <2> QED BY <1>3, <1>6, <2>1 DEF ReadsClauses
<1>8. Exchange'
  BY <1>7 DEF IInv, Exchange, NoAnswer
<1>9. BufferHasRoom'
  BY DEF IInv, BufferHasRoom
<1> QED
  BY <1>2, <1>8, <1>9 DEF IInv

\* The question follows the last clause.
LEMMA SolveIInv ==
  ASSUME IInv, solve
  PROVE  IInv'
<1> USE DEF solve, solver, pipes
<1>1. ReadsClauses /\ NoAnswer /\ Rest = <<>> /\ asked < MaxAsked /\ phase = "adding" /\ asked \in Nat
      /\ asked' \in 0 .. MaxAsked /\ asked' \in Nat /\ sent \in SUBSET Clause
  BY Sizes DEF IInv, Exchange, Rest, TypeOK
<1>2. Rest' = <<0>> \o Commands' /\ Question = Rest'
  <2>1. asked = 0 <=> asked' = 1
    BY <1>1
  <2>2. Question = <<0>> \o (IF asked = 0 THEN FreezeWords ELSE <<>>) \o <<IS_RUNSOLVER>>
    BY DEF Question
  <2> DEFINE w == IF asked = 0 THEN FreezeWords ELSE <<>>
  <2>3. w \in Seq(Int) /\ <<0>> \in Seq(Int) /\ <<IS_RUNSOLVER>> \in Seq(Int)
    BY FreezeTyped DEF IS_RUNSOLVER
  <2>4. Rest' = <<0>> \o (w \o <<IS_RUNSOLVER>>) /\ Rest' = <<0>> \o Commands'
    BY <2>1 DEF Rest, Commands
  <2>5. Question = (<<0>> \o w) \o <<IS_RUNSOLVER>>
    BY <2>2
  <2> HIDE DEF w
  <2> QED BY <2>3, <2>4, <2>5, ConcatAssociative
<1>3. Question \in Seq(Int)
  <2>1. FreezeWords \in Seq(Int) /\ <<>> \in Seq(Int) /\ <<0>> \in Seq(Int) /\ <<IS_RUNSOLVER>> \in Seq(Int)
    BY FreezeTyped DEF IS_RUNSOLVER
  <2> QED BY <2>1 DEF Question
<1>4. TypeOK'
  <2>1. todo' \in Seq(Int) /\ phase' = "asking"
    BY <1>3
  <2> HIDE DEF solve
  <2>2. UNCHANGED <<buffer, flushing, got, sent, toSolver, fromSolver, alive, mode, part, known, frozen, out>>
    BY DEF solve
  <2> QED BY <1>1, <2>1, <2>2 DEF IInv, TypeOK
<1>5. Words' = Words \o Question /\ Words \in Seq(Int)
  <2>1. Transit = toSolver \o buffer /\ Transit' = Transit \o Question /\ Words' = part \o Transit'
    BY <1>3, Typed DEF IInv, Transit, Words
  <2>2. part \in Seq(Int) /\ Transit \in Seq(Int) /\ Words \in Seq(Int)
    BY Typed DEF IInv
  <2>3. (part \o Transit) \o Question = part \o (Transit \o Question)
    BY <1>3, <2>2, Associative
  <2> QED BY <2>1, <2>2, <2>3 DEF Words
<1>6. Encoded(Words, Len(Words), known, sent)
  <2>1. PICK n \in 0 .. Len(Words) : Encoded(Words, n, known, sent) /\ Followed(Words, n, Rest)
    BY <1>1 DEF ReadsClauses
  <2>2. n = Len(Words)
    BY <1>1, <2>1 DEF Followed
  <2> QED BY <2>1, <2>2
<1>7. Encoded(Words', Len(Words), known, sent)
  <2>1. \A i \in 1 .. Len(Words) : Words'[i] = Words[i]
    BY <1>3, <1>5, FollowedConcat
  <2>2. Len(Words) \in Nat
    BY <1>5
  <2> QED BY <1>1, <1>6, <2>1, <2>2, EncodedPrefix
<1>8. Followed(Words', Len(Words), Rest') /\ Len(Words) \in 0 .. Len(Words')
  <2>1. Followed(Words \o Question, Len(Words), Question) /\ Len(Words) \in 0 .. Len(Words \o Question)
    BY <1>3, <1>5, FollowedConcat
  <2> QED BY <1>2, <1>5, <2>1
<1>9. ReadsClauses'
  <2>1. asked = 0 <=> asked' = 1
    BY <1>1
  <2>2. UNCHANGED <<mode, part, known, frozen, sent>> /\ phase' = "asking"
    OBVIOUS
  <2> QED BY <1>1, <1>7, <1>8, <2>1, <2>2 DEF ReadsClauses
<1>10. Exchange'
  BY <1>1, <1>9 DEF Exchange, NoAnswer
<1>11. BufferHasRoom'
  BY DEF IInv, BufferHasRoom
<1> QED
  BY <1>4, <1>10, <1>11 DEF IInv

\* A word goes to the buffer, or the buffer's first words to the pipe: the way is the same.
LEMMA LiteralIInv ==
  ASSUME IInv, addClauseLiteral
  PROVE  IInv'
<1>1. /\ todo # <<>> /\ ~flushing
      /\ buffer' = Append(buffer, Head(todo))
      /\ todo' = Tail(todo)
      /\ flushing' = (Len(buffer') = BufferSize)
      /\ UNCHANGED <<phase, got, asked, sent, toSolver, fromSolver, alive, mode, part, known, frozen, out>>
  BY DEF addClauseLiteral, solver, pipes
<1>2. phase \notin {"off", "killed"}
  BY <1>1 DEF IInv, Exchange
<1>3. buffer \in Seq(Int) /\ todo \in Seq(Int) /\ Head(todo) \in Int /\ todo' \in Seq(Int)
      /\ buffer' \in Seq(Int) /\ Len(buffer') = Len(buffer) + 1 /\ Len(buffer) \in Nat
  <2>1. buffer \in Seq(Int) /\ todo \in Seq(Int)
    BY Typed DEF IInv
  <2>2. Head(todo) \in Int /\ Tail(todo) \in Seq(Int)
    BY <1>1, <2>1
  <2> QED BY <1>1, <2>1, <2>2
<1>4. Len(buffer') <= BufferSize
  BY <1>1, <1>2, <1>3, Sizes DEF IInv, BufferHasRoom
<1>5. TypeOK'
  BY <1>1, <1>3, <1>4 DEF IInv, TypeOK
<1>6. Transit' = Transit
  <2>1. buffer' \o todo' = buffer \o todo
    BY <1>1, <1>3, MoveHead
  <2>2. toSolver \in Seq(Int) /\ toSolver' = toSolver
    BY <1>1, Typed DEF IInv
  <2>3. (toSolver \o buffer') \o todo' = toSolver \o (buffer' \o todo')
    BY <1>3, <2>2, Associative
  <2>4. (toSolver \o buffer) \o todo = toSolver \o (buffer \o todo)
    BY <1>3, <2>2, Associative
  <2> QED BY <2>1, <2>2, <2>3, <2>4 DEF Transit
<1>7. Exchange'
  BY <1>1, <1>2, <1>6, ExchangeMoves DEF IInv
<1>8. BufferHasRoom'
  <2>1. BufferSize \in Nat /\ Len(buffer') # 0
    BY <1>3, Sizes
  <2>2. ~flushing' => Len(buffer') < BufferSize
    <3>1. ~flushing' => Len(buffer') # BufferSize
      BY <1>1
    <3>2. Len(buffer') \in Nat
      BY <1>3
    <3> QED BY <1>4, <2>1, <3>1, <3>2
  <2>3. buffer' # <<>>
    BY <1>3, <2>1
  <2> QED BY <2>2, <2>3 DEF BufferHasRoom
<1> QED
  BY <1>5, <1>7, <1>8 DEF IInv

LEMMA StartSolveIInv ==
  ASSUME IInv, startSolve
  PROVE  IInv'
<1>1. /\ phase = "asking" /\ ~flushing /\ phase' = "reading"
      /\ flushing' = (buffer # <<>>)
      /\ UNCHANGED <<todo, buffer, got, asked, sent, toSolver, fromSolver, alive, mode, part, known, frozen, out>>
  BY DEF startSolve, solver, pipes
<1>2. TypeOK'
  BY <1>1 DEF IInv, TypeOK
<1>3. Transit' = Transit
  BY <1>1 DEF Transit
<1>4. Exchange'
  BY <1>1, <1>3, ExchangeMoves DEF IInv
<1>5. BufferHasRoom'
  BY <1>1 DEF IInv, BufferHasRoom
<1> QED
  BY <1>2, <1>4, <1>5 DEF IInv

LEMMA FlushIInv ==
  ASSUME IInv, flushBuffer
  PROVE  IInv'
<1>1. CASE ~alive
  <2>1. /\ phase' = "killed" /\ flushing' = FALSE /\ todo' = <<>>
        /\ UNCHANGED <<buffer, toSolver, got, asked, sent, fromSolver, alive, mode, part, known, frozen, out>>
    BY <1>1 DEF flushBuffer, solver
  <2>2. TypeOK'
    <3>1. <<>> \in Seq(Int)
      OBVIOUS
    <3> QED BY <2>1, <3>1 DEF IInv, TypeOK
  <2>3. Exchange' /\ BufferHasRoom'
    BY <1>1, <2>1 DEF Exchange, BufferHasRoom
  <2> QED BY <2>2, <2>3 DEF IInv
<1>2. CASE alive
  <2>1. PICK n \in 1 .. Len(buffer) :
          /\ Len(toSolver) + n <= PipeSize
          /\ toSolver' = toSolver \o SubSeq(buffer, 1, n)
          /\ buffer' = SubSeq(buffer, n + 1, Len(buffer))
          /\ flushing' = (n < Len(buffer))
    BY <1>2 DEF flushBuffer
  <2>2. /\ flushing /\ UNCHANGED <<phase, todo, got, asked, sent, fromSolver, alive, mode, part, known, frozen, out>>
    BY <1>2 DEF flushBuffer, solver
  <2>3. buffer \in Seq(Int) /\ todo \in Seq(Int) /\ toSolver \in Seq(Int) /\ Len(buffer) \in Nat
        /\ Len(buffer) <= BufferSize /\ n \in 0 .. Len(buffer) /\ n \in Nat \ {0}
    BY Typed DEF IInv, TypeOK
  <2> DEFINE a == SubSeq(buffer, 1, n)
             b == SubSeq(buffer, n + 1, Len(buffer))
  <2>4. a \in Seq(Int) /\ Len(a) = n /\ b \in Seq(Int) /\ Len(b) = Len(buffer) - n /\ a \o b = buffer
    BY <2>3, SplitAt
  <2> HIDE DEF a, b
  <2>5. toSolver' = toSolver \o a /\ buffer' = b
    BY <2>1 DEF a, b
  <2>6. TypeOK'
    <3>0. BufferSize \in Nat /\ Len(buffer') = Len(buffer) - n
      BY <2>4, <2>5, Sizes
    <3>1. toSolver' \in Seq(Int) /\ Len(toSolver') = Len(toSolver) + n
      <4>1. toSolver \o a \in Seq(Int) /\ Followed(toSolver \o a, Len(toSolver), a)
        BY <2>3, <2>4, FollowedConcat
      <4> QED BY <2>4, <2>5, <4>1 DEF Followed
    <3>3. Len(toSolver') <= PipeSize /\ Len(buffer') <= BufferSize
      BY <2>1, <2>3, <3>0, <3>1
    <3>2. flushing' \in BOOLEAN /\ buffer' \in Seq(Int)
      BY <2>1, <2>4, <2>5
    <3> QED BY <2>2, <3>1, <3>2, <3>3 DEF IInv, TypeOK
  <2>7. Transit' = Transit
    <3>1. (toSolver \o a) \o b = toSolver \o (a \o b)
      BY <2>3, <2>4, Associative
    <3> QED BY <2>2, <2>4, <2>5, <3>1 DEF Transit
  <2>8. phase \notin {"off", "killed"}
    BY <2>2 DEF IInv, Exchange
  <2>9. Exchange'
    BY <2>2, <2>7, <2>8, ExchangeMoves DEF IInv
  <2>10. BufferHasRoom'
    <3>1. BufferSize \in Nat \ {0} /\ Len(buffer') = Len(buffer) - n /\ buffer' \in Seq(Int)
      BY <2>4, <2>5, Sizes
    <3>2. flushing' => buffer' # <<>>
      <4>0. flushing' => n < Len(buffer)
        BY <2>1
      <4>1. flushing' => Len(buffer') # 0
        BY <2>3, <3>1, <4>0
      <4> QED BY <4>1
    <3>3. ~flushing' => Len(buffer') < BufferSize
      BY <2>1, <2>3, <3>1
    <3> QED BY <3>2, <3>3 DEF BufferHasRoom
  <2> QED BY <2>6, <2>9, <2>10 DEF IInv
<1> QED
  BY <1>1, <1>2 DEF IInv, TypeOK

--------------------------------------------------------------------------------
\* The form of an answer: its first word tells how long it is.
LEMMA AnswerForm ==
  ASSUME NEW A, RightAnswer(A)
  PROVE  /\ A \in Seq(Int) /\ Len(A) \in Nat \ {0}
         /\ A[1] \in {IS_UNSAT, IS_SAT, IS_INDETER}
         /\ A[1] # IS_SAT => Len(A) = 1
         /\ A[1] = IS_UNSAT => Solutions(sent) = {}
         /\ A[1] = IS_SAT =>
              /\ Len(A) = 2 + NumVars /\ A[2] = NumVars
              /\ \E a \in Solutions(sent) : \A v \in Vars : A[v + 2] = Bit(a[v])
<1> USE DEF IS_UNSAT, IS_SAT, IS_INDETER
<1>1. CASE A = <<IS_INDETER>>
  BY <1>1
<1>2. CASE A = <<IS_UNSAT>> /\ Solutions(sent) = {}
  BY <1>2
<1>3. CASE \E a \in Solutions(sent) : A = <<IS_SAT, NumVars>> \o [v \in Vars |-> Bit(a[v])]
  <2>1. PICK a \in Solutions(sent) : A = <<IS_SAT, NumVars>> \o [v \in Vars |-> Bit(a[v])]
    BY <1>3
  <2> DEFINE h == <<IS_SAT, NumVars>>
             t == [v \in Vars |-> Bit(a[v])]
  <2>2. NumVars \in Nat /\ h \in Seq(Int) /\ Len(h) = 2 /\ h[1] = IS_SAT /\ h[2] = NumVars
    BY Sizes
  <2>3. t \in Seq(Int) /\ Len(t) = NumVars /\ \A v \in Vars : t[v] = Bit(a[v])
    <3>1. t \in [1 .. NumVars -> Int]
      BY DEF Bit, Vars
    <3>2. t \in Seq(Int)
      BY <2>2, <3>1, SeqDef
    <3>3. Len(t) = NumVars
      BY <2>2, <3>1, <3>2, LenProperties
    <3> QED BY <3>2, <3>3
  <2> HIDE DEF h, t
  <2>4. /\ h \o t \in Seq(Int) /\ Followed(h \o t, 2, t)
        /\ (h \o t)[1] = h[1] /\ (h \o t)[2] = h[2]
    <3>1. \A i \in 1 .. Len(h) : (h \o t)[i] = h[i]
      BY <2>2, <2>3, FollowedConcat
    <3>2. h \o t \in Seq(Int) /\ Followed(h \o t, Len(h), t)
      BY <2>2, <2>3, FollowedConcat
    <3>3. 1 \in 1 .. Len(h) /\ 2 \in 1 .. Len(h)
      BY <2>2
    <3> QED BY <2>2, <3>1, <3>2, <3>3
  <2>5. A = h \o t
    BY <2>1 DEF h, t
  <2>6. Len(A) = 2 + NumVars /\ \A v \in Vars : A[2 + v] = t[v]
    BY <2>3, <2>4, <2>5 DEF Followed, Vars
  <2>7. \A v \in Vars : A[v + 2] = Bit(a[v])
    <3>1. \A v \in Vars : v + 2 = 2 + v
      BY DEF Vars
    <3> QED BY <2>3, <2>6, <3>1
  <2>8. A \in Seq(Int) /\ A[1] = IS_SAT /\ A[2] = NumVars /\ Len(A) \in Nat \ {0}
    <3>1. A \in Seq(Int) /\ A[1] = IS_SAT /\ A[2] = NumVars
      <4> HIDE DEF IS_SAT
      <4> QED BY <2>2, <2>4, <2>5
    <3>2. 2 + NumVars \in Nat \ {0}
      BY <2>2
    <3> QED BY <2>6, <3>1, <3>2
  <2> HIDE DEF IS_UNSAT, IS_SAT, IS_INDETER
  <2>9. IS_SAT # IS_UNSAT
    BY DEF IS_SAT, IS_UNSAT
  <2> QED BY <2>6, <2>7, <2>8, <2>9
<1> QED
  BY <1>1, <1>2, <1>3 DEF RightAnswer

\* readSolver stops where the answer ends.
LEMMA AnswerEnds ==
  ASSUME NEW A, RightAnswer(A), NEW g \in Seq(Int), Len(g) \in Nat \ {0}, NEW k \in Nat,
         Len(A) = Len(g) + k, \A i \in 1 .. Len(g) : A[i] = g[i]
  PROVE  /\ Len(g) = AnswerLength(g) => k = 0
         /\ g[1] = IS_INDETER => k = 0
<1>1. g[1] = A[1] /\ g # <<>>
  <2>1. 1 \in 1 .. Len(g)
    OBVIOUS
  <2>2. Len(<<>>) = 0
    OBVIOUS
  <2> QED BY <2>1, <2>2
<1>2. CASE A[1] # IS_SAT
  <2>1. Len(A) = 1
    BY <1>2, AnswerForm
  <2>2. k = 0
    BY <2>1
  <2> QED BY <2>2
<1>3. CASE A[1] = IS_SAT
  <2>1. Len(A) = 2 + NumVars /\ A[2] = NumVars /\ NumVars \in Nat \ {0}
    BY <1>3, AnswerForm, Sizes
  <2>2. AnswerLength(g) = IF Len(g) = 1 THEN 2 ELSE 2 + g[2]
    BY <1>1, <1>3 DEF AnswerLength
  <2>3. ASSUME Len(g) = AnswerLength(g) PROVE k = 0
    <3>1. Len(g) # 1 /\ Len(g) = 2 + g[2]
      BY <2>2, <2>3
    <3>2. 2 \in 1 .. Len(g)
      BY <3>1
    <3>3. g[2] = NumVars
      BY <2>1, <3>2
    <3> QED BY <2>1, <3>1, <3>3
  <2> QED BY <1>1, <1>3, <2>3 DEF IS_INDETER, IS_SAT
<1> QED
  BY <1>2, <1>3

\* The checker has read as much as the first words announce: it has all of the answer.
LEMMA ReadIInv ==
  ASSUME IInv, getSolution
  PROVE  IInv'
<1>1. PICK n \in 1 .. Len(fromSolver) :
        /\ got' = got \o SubSeq(fromSolver, 1, n)
        /\ fromSolver' = SubSeq(fromSolver, n + 1, Len(fromSolver))
  BY DEF getSolution
<1>2. /\ phase = "reading" /\ ~flushing
      /\ phase' = IF got'[1] = IS_INDETER THEN "killed"
                  ELSE IF Len(got') = AnswerLength(got') THEN "answered" ELSE phase
      /\ UNCHANGED <<todo, buffer, flushing, asked, sent, toSolver, alive, mode, part, known, frozen, out>>
  BY DEF getSolution, solver
<1>3. got \in Seq(Int) /\ fromSolver \in Seq(Int) /\ out \in Seq(Int) /\ Len(fromSolver) \in Nat
      /\ n \in 0 .. Len(fromSolver) /\ n \in Nat \ {0} /\ fromSolver # <<>>
  <2>1. got \in Seq(Int) /\ fromSolver \in Seq(Int) /\ out \in Seq(Int)
    BY Typed DEF IInv
  <2>2. Len(fromSolver) \in Nat /\ n \in 0 .. Len(fromSolver) /\ n \in Nat \ {0}
    BY <2>1
  <2>3. fromSolver # <<>>
    <3>1. Len(<<>>) = 0
      OBVIOUS
    <3> QED BY <2>2, <3>1
  <2> QED BY <2>1, <2>2, <2>3
<1> DEFINE a == SubSeq(fromSolver, 1, n)
           b == SubSeq(fromSolver, n + 1, Len(fromSolver))
<1>4. a \in Seq(Int) /\ Len(a) = n /\ b \in Seq(Int) /\ Len(b) = Len(fromSolver) - n /\ a \o b = fromSolver
  BY <1>3, SplitAt
<1> HIDE DEF a, b
<1>5. got' = got \o a /\ fromSolver' = b
  BY <1>1 DEF a, b
<1>6. Answers /\ asked # 0
  BY <1>2, <1>3 DEF IInv, Exchange, NoAnswer
<1>7. got' \in Seq(Int) /\ got' # <<>> /\ fromSolver' \in Seq(Int)
  <2>1. got \o a \in Seq(Int) /\ Followed(got \o a, Len(got), a) /\ Len(got) \in Nat
    BY <1>3, <1>4, FollowedConcat
  <2>2. Len(got') = Len(got) + n
    BY <1>4, <1>5, <2>1 DEF Followed
  <2>3. Len(got') # 0
    BY <1>3, <2>1, <2>2
  <2> QED BY <1>4, <1>5, <2>1, <2>3
<1>8. got' \o fromSolver' \o out' = got \o fromSolver \o out
  <2>1. (got \o a) \o b = got \o (a \o b)
    BY ZenonT(40), <1>3, <1>4, Associative
  <2> QED BY <1>2, <1>4, <1>5, <2>1
<1>9. got' \o fromSolver' \o out' = got' \o (fromSolver' \o out) /\ fromSolver' \o out \in Seq(Int)
  <2>1. fromSolver' \o out \in Seq(Int)
    BY <1>3, <1>7
  <2>2. (got' \o fromSolver') \o out = got' \o (fromSolver' \o out)
    BY ZenonT(40), <1>3, <1>7, Associative
  <2> QED BY <1>2, <2>1, <2>2
<1>10. RightAnswer(got' \o fromSolver' \o out') /\ RightAnswer(got' \o (fromSolver' \o out))
  BY <1>6, <1>8, <1>9 DEF Answers
<1>11. /\ Len(got') = AnswerLength(got') => fromSolver' = <<>> /\ out = <<>>
       /\ got'[1] = IS_INDETER => fromSolver' = <<>> /\ out = <<>>
  <2>1. fromSolver' \o out = <<>> => fromSolver' = <<>> /\ out = <<>>
    BY <1>3, <1>7, ConcatEqualIffEmpty
  <2>2. /\ Len(got') = AnswerLength(got') => fromSolver' \o out = <<>>
        /\ got'[1] = IS_INDETER => fromSolver' \o out = <<>>
    <3> DEFINE r == fromSolver' \o out
    <3>1. r \in Seq(Int) /\ RightAnswer(got' \o r)
      BY <1>9, <1>10
    <3> HIDE DEF r
    <3>2. /\ Len(got' \o r) = Len(got') + Len(r) /\ Len(got') \in Nat \ {0} /\ Len(r) \in Nat
          /\ \A i \in 1 .. Len(got') : (got' \o r)[i] = got'[i]
      BY <1>7, <3>1, FollowedConcat, EmptySeq, LenProperties DEF Followed
    <3>3. /\ Len(got') = AnswerLength(got') => Len(r) = 0
          /\ got'[1] = IS_INDETER => Len(r) = 0
      BY <1>7, <3>1, <3>2, AnswerEnds
    <3>4. Len(r) = 0 => r = <<>>
      BY <3>1, EmptySeq
    <3> QED BY <3>3, <3>4 DEF r
  <2> QED BY <2>1, <2>2
<1>12. Answers'
  BY <1>2, <1>6, <1>10 DEF Answers, Transit, RightAnswer
<1>13. TypeOK'
  <2>1. Len(fromSolver') <= PipeSize
    <3>1. PipeSize \in Nat /\ Len(fromSolver) <= PipeSize
      BY Sizes DEF IInv, TypeOK
    <3> QED BY <1>3, <1>4, <1>5, <3>1
  <2>2. phase' \in {"killed", "answered", "reading"}
    BY <1>2
  <2> QED BY <1>2, <1>7, <2>1, <2>2 DEF IInv, TypeOK
<1>14. Transit = <<>> /\ part = <<>> /\ known = sent /\ frozen = Frozen
  BY <1>6 DEF Answers
<1>15. toSolver = <<>> /\ buffer = <<>> /\ todo = <<>>
  <2>1. toSolver \o buffer \in Seq(Int) /\ toSolver \in Seq(Int) /\ buffer \in Seq(Int) /\ todo \in Seq(Int)
    BY Typed DEF IInv
  <2>2. toSolver \o buffer = <<>> /\ todo = <<>>
    BY <1>14, <2>1, ConcatEqualIffEmpty DEF Transit
  <2> QED BY <2>1, <2>2, ConcatEqualIffEmpty
<1>16. phase' = "answered" => ReadsClauses'
  <2> SUFFICES ASSUME phase' = "answered" PROVE ReadsClauses'
    OBVIOUS
  <2>1. Len(got') = AnswerLength(got')
    BY <1>2
  <2>2. mode = "clauses"
    BY <1>6, <1>11, <2>1 DEF Answers
  <2>3. Words' = <<>> /\ Rest' = <<>>
    BY <1>2, <1>14, <1>15 DEF Words, Transit, Rest
  <2>4. Encoded(Words', 0, known, sent) /\ Followed(Words', 0, Rest') /\ 0 \in 0 .. Len(Words')
    BY <1>14, <2>3, EncodedEmpty DEF Followed
  <2> QED BY <1>2, <1>6, <1>14, <2>2, <2>3, <2>4 DEF ReadsClauses
<1>17. Exchange'
  <2>1. CASE phase' = "killed"
    <3>1. mode = "clauses"
      BY <1>2, <1>6, <1>11, <2>1 DEF Answers
    <3> QED BY <1>2, <1>15, <2>1, <3>1 DEF Exchange
  <2>2. CASE phase' = "answered"
    <3>1. got'[1] # IS_INDETER /\ Len(got') = AnswerLength(got')
      BY <1>2, <2>2
    <3> QED BY <1>2, <1>6, <1>11, <1>12, <1>16, <2>2, <3>1 DEF Exchange
  <2>3. CASE phase' = "reading"
    BY <1>2, <1>6, <1>12, <2>3 DEF Exchange
  <2> QED BY <1>2, <2>1, <2>2, <2>3
<1>18. BufferHasRoom'
  BY <1>2 DEF IInv, BufferHasRoom
<1> QED
  BY <1>13, <1>17, <1>18 DEF IInv

--------------------------------------------------------------------------------
(***************************************************************************)
(* The steps of the solver.                                                *)
(***************************************************************************)
\* The first of the words is taken away.
LEMMA HeadTaken ==
  ASSUME NEW s \in Seq(Int), s # <<>>, NEW t \in Seq(Int)
  PROVE  /\ s \o t \in Seq(Int) /\ s \o t # <<>> /\ Tail(s) \o t \in Seq(Int)
         /\ Head(s) \in Int /\ (s \o t)[1] = Head(s)
         /\ Len(s \o t) = Len(Tail(s) \o t) + 1
         /\ \A i \in 1 .. Len(Tail(s) \o t) : (Tail(s) \o t)[i] = (s \o t)[i + 1]
<1>1. /\ Len(s) \in Nat \ {0} /\ Len(t) \in Nat
      /\ Head(s) \in Int /\ Head(s) = s[1] /\ Tail(s) \in Seq(Int) /\ Len(Tail(s)) = Len(s) - 1
      /\ \A i \in 1 .. Len(Tail(s)) : Tail(s)[i] = s[i + 1]
  BY HeadTailProperties
<1>2. /\ s \o t \in Seq(Int) /\ Len(s \o t) = Len(s) + Len(t)
      /\ \A i \in 1 .. Len(s) + Len(t) : (s \o t)[i] = IF i <= Len(s) THEN s[i] ELSE t[i - Len(s)]
  BY <1>1, ConcatProperties
<1> DEFINE r == Tail(s)
<1>3. r \in Seq(Int) /\ Len(r) = Len(s) - 1 /\ \A i \in 1 .. Len(r) : r[i] = s[i + 1]
  BY <1>1
<1> HIDE DEF r
<1>4. /\ r \o t \in Seq(Int) /\ Len(r \o t) = Len(r) + Len(t)
      /\ \A i \in 1 .. Len(r) + Len(t) : (r \o t)[i] = IF i <= Len(r) THEN r[i] ELSE t[i - Len(r)]
  BY <1>3, ConcatProperties
<1>5. ASSUME NEW i \in 1 .. Len(r \o t) PROVE (r \o t)[i] = (s \o t)[i + 1]
  <2>1. i \in 1 .. Len(r) + Len(t) /\ i + 1 \in 1 .. Len(s) + Len(t) /\ (i <= Len(r) <=> i + 1 <= Len(s))
        /\ i - Len(r) = (i + 1) - Len(s) /\ (i <= Len(r) => i \in 1 .. Len(r))
    BY <1>1, <1>3, <1>4
  <2> QED BY <1>2, <1>3, <1>4, <2>1
<1>6. Len(s \o t) = Len(r \o t) + 1 /\ Len(s \o t) # 0
  BY <1>1, <1>2, <1>3, <1>4
<1>7. (s \o t)[1] = s[1]
  <2>1. 1 \in 1 .. Len(s) + Len(t) /\ 1 <= Len(s)
    BY <1>1
  <2> QED BY <1>2, <2>1
<1>8. s \o t # <<>>
  <2>1. Len(<<>>) = 0
    OBVIOUS
  <2> QED BY <1>6, <2>1
<1> QED
  BY <1>1, <1>2, <1>4, <1>5, <1>6, <1>7, <1>8 DEF r

\* What a step of the solver finds and leaves behind.
LEMMA WordTaken ==
  ASSUME IInv, SolverReads
  PROVE  /\ alive /\ mode # "answering" /\ phase \in {"adding", "asking", "reading"}
         /\ NoAnswer /\ (ReadsClauses \/ (ReadsCommands /\ phase # "adding"))
         /\ UNCHANGED <<phase, todo, buffer, flushing, got, asked, sent, alive, fromSolver>>
         /\ Transit \in Seq(Int) /\ Transit # <<>> /\ Transit' \in Seq(Int) /\ toSolver' \in Seq(Int)
         /\ Len(toSolver') <= PipeSize
         /\ Transit[1] \in Int /\ TakeWord(Transit[1])
         /\ Len(Transit) = Len(Transit') + 1 /\ Len(Transit') \in Nat
         /\ \A i \in 1 .. Len(Transit') : Transit'[i] = Transit[i + 1]
         /\ \A s \in Seq(Int) : Append(s, Transit[1]) \o Transit' = s \o Transit
<1>1. /\ alive /\ mode # "answering" /\ toSolver # <<>> /\ TakeWord(Head(toSolver))
      /\ toSolver' = Tail(toSolver)
      /\ UNCHANGED <<phase, todo, buffer, flushing, got, asked, sent, alive, fromSolver>>
  BY DEF SolverReads, checker
<1>2. toSolver \in Seq(Int) /\ buffer \in Seq(Int) /\ todo \in Seq(Int) /\ Transit \in Seq(Int)
      /\ Len(toSolver) <= PipeSize /\ toSolver' \in Seq(Int) /\ Len(toSolver') = Len(toSolver) - 1
  <2>1. toSolver \in Seq(Int) /\ buffer \in Seq(Int) /\ todo \in Seq(Int) /\ Transit \in Seq(Int)
    BY Typed DEF IInv
  <2>2. Tail(toSolver) \in Seq(Int) /\ Len(Tail(toSolver)) = Len(toSolver) - 1
    BY <1>1, <2>1, HeadTailProperties
  <2> QED BY <1>1, <2>1, <2>2 DEF IInv, TypeOK
<1> DEFINE t == buffer \o todo
           r == Tail(toSolver)
<1>3. t \in Seq(Int) /\ r \in Seq(Int) /\ Transit = toSolver \o t /\ Transit' = r \o t
  <2>1. (toSolver \o buffer) \o todo = toSolver \o (buffer \o todo)
    BY ZenonT(40), <1>2, Associative
  <2>2. (toSolver' \o buffer) \o todo = toSolver' \o (buffer \o todo)
    BY ZenonT(40), <1>2, Associative
  <2>3. t \in Seq(Int) /\ r \in Seq(Int)
    BY <1>1, <1>2
  <2>4. Transit = toSolver \o t
    BY <2>1 DEF Transit
  <2>5. Transit' = (toSolver' \o buffer') \o todo'
    BY DEF Transit
  <2>6. Transit' = toSolver' \o t
    BY <1>1, <2>2, <2>5
  <2> QED BY <1>1, <2>3, <2>4, <2>6
<1> HIDE DEF t
<1>4. /\ Transit # <<>> /\ Transit' \in Seq(Int) /\ Head(toSolver) \in Int
      /\ Transit[1] = Head(toSolver) /\ Len(Transit) = Len(Transit') + 1
      /\ \A i \in 1 .. Len(Transit') : Transit'[i] = Transit[i + 1]
  BY <1>1, <1>2, <1>3, HeadTaken
<1> HIDE DEF r
<1>5. Len(toSolver') <= PipeSize
  <2>1. Len(toSolver) \in Nat /\ PipeSize \in Nat
    BY <1>2, Sizes
  <2> QED BY <1>2, <2>1
<1>6. ASSUME NEW s \in Seq(Int) PROVE Append(s, Transit[1]) \o Transit' = s \o Transit
  <2>1. Transit' = Tail(Transit) /\ Transit[1] = Head(Transit)
    <3>1. /\ Head(Transit) = Transit[1] /\ Tail(Transit) \in Seq(Int) /\ Len(Tail(Transit)) = Len(Transit) - 1
          /\ \A i \in 1 .. Len(Tail(Transit)) : Tail(Transit)[i] = Transit[i + 1]
      BY <1>2, <1>4, HeadTailProperties
    <3>2. Len(Tail(Transit)) = Len(Transit')
      BY <1>2, <1>4, <3>1
    <3>3. \A i \in 1 .. Len(Transit') : Tail(Transit)[i] = Transit'[i]
      BY <1>4, <3>1, <3>2
    <3> QED BY <1>4, <3>1, <3>2, <3>3, SeqEqual
  <2> QED BY <1>2, <1>4, <2>1, MoveHead
<1>7. ~Answers
  BY <1>4 DEF Answers
<1>8. phase \notin {"off", "killed", "answered"}
  BY <1>1, <1>7 DEF IInv, Exchange
<1>9. /\ phase \in {"adding", "asking", "reading"}
      /\ NoAnswer /\ (ReadsClauses \/ (ReadsCommands /\ phase # "adding"))
  BY <1>7, <1>8 DEF IInv, Exchange, TypeOK
<1>10. Len(Transit') \in Nat
  BY <1>4
<1> QED
  BY <1>1, <1>2, <1>4, <1>5, <1>6, <1>9, <1>10

\* The solver is left with a word less, and the checker has not moved.
LEMMA SolverMoves ==
  ASSUME IInv, SolverReads,
         part' \in Seq(Int), out' \in Seq(Int), frozen' \subseteq Int,
         mode' \in {"clauses", "commands", "freeze", "answering"},
         \/ NoAnswer' /\ ReadsClauses'
         \/ NoAnswer' /\ ReadsCommands' /\ phase # "adding"
         \/ Answers' /\ phase # "adding"
  PROVE  IInv'
<1>1. UNCHANGED <<phase, todo, buffer, flushing, got, asked, sent, alive, fromSolver>>
  BY WordTaken
<1>2. TypeOK'
  <2>1. toSolver' \in Seq(Int) /\ Len(toSolver') <= PipeSize
    BY WordTaken
  <2> QED BY <1>1, <2>1 DEF IInv, TypeOK
<1>3. Exchange'
  <2>1. phase \in {"adding", "asking", "reading"}
    BY WordTaken
  <2> QED BY <1>1, <2>1 DEF IInv, Exchange
<1>4. BufferHasRoom'
  BY <1>1 DEF IInv, BufferHasRoom
<1> QED
  BY <1>2, <1>3, <1>4 DEF IInv

\* A literal joins the clause that is being read.
LEMMA ReadsLiteral ==
  ASSUME IInv, SolverReads, ReadsClauses, Transit[1] # 0
  PROVE  IInv'
<1> DEFINE w == Transit[1]
<1>1. mode = "clauses" /\ w \in Int /\ part \in Seq(Int) /\ out \in Seq(Int) /\ frozen \subseteq Int
  BY WordTaken, Typed DEF IInv, ReadsClauses, TypeOK
<1>2. part' = Append(part, w) /\ UNCHANGED <<mode, known, frozen, out>>
  <2>1. TakeWord(w)
    BY WordTaken
  <2> QED BY <1>1, <2>1 DEF TakeWord
<1>3. UNCHANGED <<phase, got, asked, sent, fromSolver>> /\ NoAnswer
  BY WordTaken
<1>4. Words' = Words
  <2>1. Append(part, w) \o Transit' = part \o Transit
    BY <1>1, WordTaken
  <2> QED BY <1>2, <2>1 DEF Words
<1>5. part' \in Seq(Int) /\ 0 \notin {part'[i] : i \in DOMAIN part'}
  <2>1. /\ Append(part, w) \in Seq(Int) /\ Len(Append(part, w)) = Len(part) + 1
        /\ Append(part, w)[Len(part) + 1] = w /\ \A i \in 1 .. Len(part) : Append(part, w)[i] = part[i]
    BY <1>1, AppendProperties
  <2>2. DOMAIN part' = 1 .. Len(part) + 1 /\ DOMAIN part = 1 .. Len(part) /\ Len(part) \in Nat
    BY <1>1, <1>2, <2>1
  <2>3. \A i \in 1 .. Len(part) : part[i] # 0
    BY <2>2 DEF ReadsClauses
  <2>4. ASSUME NEW i \in 1 .. Len(part) + 1 PROVE part'[i] # 0
    <3>1. i \in 1 .. Len(part) \/ i = Len(part) + 1
      BY <2>2
    <3> QED BY <1>2, <2>1, <2>3, <3>1
  <2> QED BY <1>2, <2>1, <2>2, <2>4
<1>6. ReadsClauses'
  <2>1. Rest' = Rest
    BY <1>3 DEF Rest, Commands
  <2> QED BY <1>2, <1>3, <1>4, <1>5, <2>1 DEF ReadsClauses
<1>7. NoAnswer'
  BY <1>2, <1>3 DEF NoAnswer
<1> QED
  BY <1>1, <1>2, <1>5, <1>6, <1>7, SolverMoves

\* The zero ends a clause: the one that was sent first of those the solver does not have.
LEMMA ReadsEnd ==
  ASSUME IInv, SolverReads, ReadsClauses, Transit[1] = 0, part # <<>>
  PROVE  IInv'
<1>1. mode = "clauses" /\ part \in Seq(Int) /\ out \in Seq(Int) /\ frozen \subseteq Int /\ sent \in SUBSET Clause
  BY WordTaken, Typed DEF IInv, ReadsClauses, TypeOK
<1>2. known' = known \cup {part} /\ part' = <<>> /\ UNCHANGED <<mode, frozen, out>>
  <2>1. TakeWord(Transit[1])
    BY WordTaken
  <2> QED BY <1>1, <2>1 DEF TakeWord
<1>3. UNCHANGED <<phase, got, asked, sent, fromSolver>> /\ NoAnswer
  BY WordTaken
<1> DEFINE p == Len(part)
           m == p + 1
<1>4. p \in Nat \ {0} /\ \A i \in 1 .. p : part[i] # 0
  BY <1>1, EmptySeq DEF ReadsClauses
<1>5. /\ Transit \in Seq(Int) /\ Transit' \in Seq(Int)
      /\ Len(Transit) = Len(Transit') + 1 /\ Len(Transit') \in Nat
      /\ \A i \in 1 .. Len(Transit') : Transit'[i] = Transit[i + 1]
  BY WordTaken
<1>6. /\ Len(Words) = p + Len(Transit) /\ \A i \in 1 .. p : Words[i] = part[i]
      /\ \A i \in 1 .. Len(Transit) : Words[p + i] = Transit[i]
  BY <1>1, <1>5, FollowedConcat DEF Words, Followed
<1>7. Words' = Transit'
  BY <1>2, <1>5 DEF Words
<1>8. PICK n \in 0 .. Len(Words) : Encoded(Words, n, known, sent) /\ Followed(Words, n, Rest)
  BY DEF ReadsClauses
<1>9. n \in Nat \ {0}
  <2> SUFFICES ASSUME n = 0 PROVE FALSE
    BY <1>8
  <2>1. Len(Words) = Len(Rest) /\ \A i \in 1 .. Len(Rest) : Words[i] = Rest[i]
    <3>1. Commands \in Seq(Int) /\ <<0>> \o Commands \in Seq(Int) /\ Rest \in Seq(Int)
      BY CommandWords, Typed DEF IInv, Rest
    <3>2. Len(Rest) \in Nat /\ \A i \in 1 .. Len(Rest) : 0 + i = i
      BY <3>1
    <3> QED BY <1>8, <3>2 DEF Followed
  <2>2. 1 \in 1 .. p /\ Len(Words) # 0
    BY <1>4, <1>5, <1>6
  <2>3. Rest # <<>>
    <3>1. Len(<<>>) = 0
      OBVIOUS
    <3> QED BY <2>1, <2>2, <3>1
  <2>4. Rest[1] = 0
    <3>1. Commands \in Seq(Int) /\ <<0>> \in Seq(Int) /\ Len(<<0>>) = 1 /\ <<0>>[1] = 0
      BY CommandWords, Typed DEF IInv
    <3>2. (<<0>> \o Commands)[1] = 0
      BY <3>1, FollowedConcat
    <3> QED BY <2>3, <3>2 DEF Rest
  <2>5. 1 \in 1 .. Len(Rest)
    BY <1>4, <1>5, <1>6, <2>1
  <2> QED BY <1>4, <1>6, <2>1, <2>2, <2>4, <2>5
<1>10. n <= p + 1 + Len(Transit')
  BY <1>4, <1>5, <1>6, <1>8
<1>11. /\ part \in sent /\ m <= n
       /\ Encoded(Transit', n - m, known \cup {part}, sent)
  <2>1. Words[m] = 0
    <3>1. 1 \in 1 .. Len(Transit)
      BY <1>5
    <3> QED BY <1>6, <3>1
  <2>2. ASSUME NEW i \in 1 .. n - m PROVE Transit'[i] = Words[i + m]
    <3>1. i \in 1 .. Len(Transit') /\ i + 1 \in 1 .. Len(Transit) /\ p + (i + 1) = i + m
      BY <1>4, <1>5, <1>9, <1>10
    <3> QED BY <1>5, <1>6, <3>1
  <2>3. \A k \in 1 .. p : part[k] # 0 /\ Words[k] = part[k]
    BY <1>4, <1>6
  <2> QED BY <1>1, <1>8, <1>9, <2>1, <2>2, <2>3, EncodedHead
<1>12. Followed(Transit', n - m, Rest) /\ n - m \in 0 .. Len(Transit')
  <2>1. Len(Rest) \in Nat /\ Len(Words) = n + Len(Rest) /\ \A i \in 1 .. Len(Rest) : Words[n + i] = Rest[i]
    <3>1. Commands \in Seq(Int) /\ <<0>> \o Commands \in Seq(Int) /\ Rest \in Seq(Int)
      BY CommandWords, Typed DEF IInv, Rest
    <3> QED BY <1>8, <3>1 DEF Followed
  <2>2. Len(Transit') = (n - m) + Len(Rest)
    <3>1. /\ n \in Nat /\ Len(Rest) \in Nat /\ Len(Transit') \in Nat /\ p \in Nat
          /\ n + Len(Rest) = p + (Len(Transit') + 1)
      BY <1>4, <1>5, <1>6, <1>9, <2>1
    <3> HIDE DEF p
    <3> QED BY <3>1
  <2>3. ASSUME NEW i \in 1 .. Len(Rest) PROVE Transit'[(n - m) + i] = Rest[i]
    <3>1. /\ (n - m) + i \in 1 .. Len(Transit') /\ ((n - m) + i) + 1 \in 1 .. Len(Transit)
          /\ p + (((n - m) + i) + 1) = n + i
      <4>1. /\ n \in Nat /\ Len(Rest) \in Nat /\ Len(Transit') \in Nat /\ p \in Nat /\ m <= n
            /\ Len(Transit') = (n - m) + Len(Rest) /\ Len(Transit) = Len(Transit') + 1
            /\ i \in Nat /\ 1 <= i /\ i <= Len(Rest)
        BY <1>4, <1>5, <1>9, <1>11, <2>1, <2>2
      <4> HIDE DEF p
      <4> QED BY <4>1
    <3> QED BY <1>5, <1>6, <2>1, <3>1
  <2>4. n - m \in 0 .. Len(Transit')
    BY <1>4, <1>5, <1>9, <1>11, <2>1, <2>2
  <2> QED BY <2>2, <2>3, <2>4 DEF Followed
<1>13. ReadsClauses'
  <2>1. Rest' = Rest
    BY <1>3 DEF Rest, Commands
  <2>2. \E k \in 0 .. Len(Words') : Encoded(Words', k, known', sent') /\ Followed(Words', k, Rest')
    BY <1>2, <1>3, <1>7, <1>11, <1>12, <2>1
  <2>3. 0 \notin {part'[i] : i \in DOMAIN part'}
    BY <1>2
  <2> QED BY <1>1, <1>2, <1>3, <2>2, <2>3 DEF ReadsClauses
<1>14. NoAnswer' /\ part' \in Seq(Int)
  BY <1>2, <1>3 DEF NoAnswer
<1> QED
  BY <1>1, <1>2, <1>13, <1>14, SolverMoves

\* The empty clause comes behind the last one: the commands are next.
LEMMA ReadsLast ==
  ASSUME IInv, SolverReads, ReadsClauses, Transit[1] = 0, part = <<>>
  PROVE  IInv'
<1>1. mode = "clauses" /\ out \in Seq(Int) /\ frozen \subseteq Int /\ sent \in SUBSET Clause /\ asked \in Nat
  BY WordTaken, Typed DEF IInv, ReadsClauses, TypeOK
<1>2. mode' = "commands" /\ UNCHANGED <<part, known, frozen, out>>
  <2>1. TakeWord(Transit[1])
    BY WordTaken
  <2> QED BY <1>1, <2>1 DEF TakeWord
<1>3. UNCHANGED <<phase, got, asked, sent, fromSolver>> /\ NoAnswer
  BY WordTaken
<1>5. /\ Transit \in Seq(Int) /\ Transit' \in Seq(Int)
      /\ Len(Transit) = Len(Transit') + 1 /\ Len(Transit') \in Nat
      /\ \A i \in 1 .. Len(Transit') : Transit'[i] = Transit[i + 1]
  BY WordTaken
<1>6. Words = Transit
  BY <1>5 DEF Words
<1>8. PICK n \in 0 .. Len(Transit) : Encoded(Transit, n, known, sent) /\ Followed(Transit, n, Rest)
  BY <1>6 DEF ReadsClauses
<1>9. n = 0
  <2> SUFFICES ASSUME n # 0 PROVE FALSE
    OBVIOUS
  <2>1. n \in Nat \ {0}
    BY <1>5, <1>8
  <2> QED BY <1>1, <1>8, <2>1, NoEmptyClause
<1>10. known = sent
  BY <1>8, <1>9, EncodedNothing
<1>11. Commands \in Seq(Int) /\ Len(Commands) \in Nat /\ Len(Commands) - 1 \in Nat
  <2>1. Cardinality(Frozen) \in Nat /\ 2 * Cardinality(Frozen) \in Nat
    BY FrozenListed
  <2> QED BY <1>1, <2>1, CommandWords
<1>12. phase \in {"asking", "reading"} /\ Followed(Commands, 0, Transit')
  <2>1. Rest \in Seq(Int)
    BY <1>11 DEF Rest
  <2>2. Len(Transit) = Len(Rest) /\ \A i \in 1 .. Len(Rest) : Transit[i] = Rest[i]
    <3>1. Len(Rest) \in Nat /\ \A i \in 1 .. Len(Rest) : 0 + i = i
      BY <2>1
    <3> QED BY <1>8, <1>9, <3>1 DEF Followed
  <2>3. Rest # <<>>
    <3>1. Len(<<>>) = 0 /\ Len(Rest) # 0
      BY <1>5, <2>2
    <3> QED BY <3>1
  <2>4. phase \in {"asking", "reading"} /\ Rest = <<0>> \o Commands
    BY <2>3 DEF Rest
  <2>5. <<0>> \in Seq(Int) /\ Len(<<0>>) = 1
    OBVIOUS
  <2>6. Len(Rest) = 1 + Len(Commands) /\ \A i \in 1 .. Len(Commands) : Rest[1 + i] = Commands[i]
    BY <1>11, <2>4, <2>5, FollowedConcat DEF Followed
  <2>7. Len(Commands) = 0 + Len(Transit')
    BY <1>5, <1>11, <2>2, <2>6
  <2>8. ASSUME NEW i \in 1 .. Len(Transit') PROVE Commands[0 + i] = Transit'[i]
    <3>1. 0 + i = i /\ 1 + i = i + 1 /\ i + 1 \in 1 .. Len(Rest) /\ i \in 1 .. Len(Commands)
      BY <1>5, <1>11, <2>6, <2>7
    <3> QED BY <1>5, <2>2, <2>6, <3>1
  <2> QED BY <2>4, <2>7, <2>8 DEF Followed
<1>13. ReadsCommands'
  <2>1. Commands' = Commands
    BY <1>3 DEF Commands
  <2>2. 0 \in 0 .. Len(Commands') - 1
    BY <1>11, <2>1
  <2>3. Followed(Commands', 0, Transit')
    BY <1>12, <2>1
  <2>4. 0 % 2 = 0 /\ 0 \div 2 = 0
    OBVIOUS
  <2>5. frozen' = IF asked' = 1 THEN {SetToSeq(Frozen)[i] : i \in 1 .. 0 \div 2} ELSE Frozen
    <3>1. {SetToSeq(Frozen)[i] : i \in 1 .. 0 \div 2} = {}
      BY <2>4
    <3>2. frozen = IF asked = 1 THEN {} ELSE Frozen
      BY <1>12 DEF ReadsClauses
    <3> QED BY <1>2, <1>3, <3>1, <3>2
  <2>6. mode' = "freeze" <=> 0 % 2 = 1
    BY <1>2, <2>4
  <2>7. mode' = "commands" /\ part' = <<>> /\ known' = sent'
    BY <1>2, <1>3, <1>10
  <2> QED BY <2>2, <2>3, <2>5, <2>6, <2>7 DEF ReadsCommands
<1>14. NoAnswer' /\ part' \in Seq(Int)
  BY <1>2, <1>3 DEF NoAnswer
<1> QED
  BY <1>1, <1>2, <1>12, <1>13, <1>14, SolverMoves

\* A command: the next variable to freeze, or the question, behind the last of them.
LEMMA ReadsCommand ==
  ASSUME IInv, SolverReads, ReadsCommands, phase # "adding"
  PROVE  IInv'
<1> DEFINE C == Cardinality(Frozen)
           F == SetToSeq(Frozen)
           w == Transit[1]
<1>1. C \in Nat /\ F \in [1 .. C -> Frozen] /\ {F[i] : i \in 1 .. C} = Frozen /\ Frozen \subseteq Int
  BY FrozenListed
<1>2. /\ part = <<>> /\ known = sent /\ mode \in {"commands", "freeze"}
      /\ asked \in Nat /\ out = <<>> /\ NoAnswer /\ frozen \subseteq Int /\ w \in Int
      /\ UNCHANGED <<phase, got, asked, sent, fromSolver>>
  BY WordTaken, Typed DEF IInv, ReadsCommands, TypeOK, NoAnswer
<1>3. /\ Transit \in Seq(Int) /\ Transit' \in Seq(Int)
      /\ Len(Transit) = Len(Transit') + 1 /\ Len(Transit') \in Nat
      /\ \A i \in 1 .. Len(Transit') : Transit'[i] = Transit[i + 1]
  BY WordTaken
<1>4. PICK n \in 0 .. Len(Commands) - 1 :
        /\ Followed(Commands, n, Transit)
        /\ mode = "freeze" <=> n % 2 = 1
        /\ frozen = IF asked = 1 THEN {F[i] : i \in 1 .. n \div 2} ELSE Frozen
  BY DEF ReadsCommands
<1> DEFINE L == Len(Commands)
<1>5. /\ L = (IF asked = 1 THEN 2 * C ELSE 0) + 1 /\ Commands[L] = IS_RUNSOLVER
      /\ \A i \in 1 .. L - 1 : Commands[i] = IF i % 2 = 1 THEN IS_FREEZE ELSE F[i \div 2]
  BY <1>2, CommandWords
<1> HIDE DEF L, C, F
<1>6. L \in Nat \ {0} /\ L % 2 = 1 /\ n \in Nat /\ n <= L - 1
  <2>1. L = 2 * C + 1 \/ L = 1
    BY <1>1, <1>5
  <2>2. L \in Nat \ {0} /\ L % 2 = 1
    BY <1>1, <2>1
  <2>3. n \in 0 .. L - 1
    BY DEF L
  <2> QED BY <2>2, <2>3
<1>7. L = n + Len(Transit) /\ Commands[n + 1] = w /\ L = (n + 1) + Len(Transit')
  <2>1. L = n + Len(Transit) /\ \A i \in 1 .. Len(Transit) : Commands[n + i] = Transit[i]
    BY <1>4 DEF Followed, L
  <2>2. 1 \in 1 .. Len(Transit)
    BY <1>3
  <2> QED BY <1>3, <1>6, <2>1, <2>2
<1>8. TakeWord(w)
  BY WordTaken
<1>9. Followed(Commands', n + 1, Transit') /\ Len(Commands') = L
  <2>1. Commands' = Commands
    BY <1>2 DEF Commands
  <2>2. ASSUME NEW i \in 1 .. Len(Transit') PROVE Commands[(n + 1) + i] = Transit'[i]
    <3>1. (n + 1) + i = n + (i + 1) /\ i + 1 \in 1 .. Len(Transit)
      BY <1>3, <1>6
    <3> QED BY <1>3, <1>4, <3>1 DEF Followed
  <2> QED BY <1>7, <2>1, <2>2 DEF Followed, L
<1>10. ASSUME n < L - 1,
              mode' \in {"commands", "freeze"}, mode' = "freeze" <=> (n + 1) % 2 = 1,
              frozen' = IF asked = 1 THEN {F[i] : i \in 1 .. (n + 1) \div 2} ELSE Frozen,
              part' = part, known' = known, out' = out, frozen' \subseteq Int
       PROVE  IInv'
  <2>1. n + 1 \in 0 .. Len(Commands') - 1
    BY <1>6, <1>9, <1>10
  <2>2. ReadsCommands'
    BY <1>2, <1>9, <1>10, <2>1 DEF ReadsCommands, F
  <2>3. part' \in Seq(Int) /\ out' \in Seq(Int) /\ NoAnswer'
    BY <1>2, <1>10 DEF NoAnswer
  <2> QED BY <1>10, <2>2, <2>3, SolverMoves
<1>11. CASE mode = "freeze"
  <2>1. frozen' = frozen \cup {w} /\ mode' = "commands" /\ UNCHANGED <<part, known, out>>
    BY <1>8, <1>11 DEF TakeWord
  <2>2. n % 2 = 1
    BY <1>4, <1>11
  <2>3. n < L - 1 /\ (n + 1) % 2 = 0 /\ (n + 1) \div 2 = n \div 2 + 1 /\ n \div 2 \in Nat
    BY <1>6, <2>2
  <2>4. n + 1 \in 1 .. L - 1
    BY <1>6, <2>3
  <2>5. w = F[n \div 2 + 1] /\ asked = 1
    <3>1. L # 1
      BY <1>6, <2>3
    <3>2. asked = 1
      <4>1. asked # 1 => L = 0 + 1
        BY <1>5
      <4> QED BY <3>1, <4>1
    <3>3. Commands[n + 1] = F[(n + 1) \div 2]
      <4>1. (n + 1) % 2 # 1
        BY <2>3
      <4> QED BY <1>5, <2>4, <4>1
    <3> QED BY <1>7, <2>3, <3>2, <3>3
  <2>6. frozen' = {F[i] : i \in 1 .. (n + 1) \div 2}
    <3> DEFINE h == n \div 2
    <3>1. h \in Nat /\ frozen = {F[i] : i \in 1 .. h} /\ w = F[h + 1] /\ (n + 1) \div 2 = h + 1
      BY <1>4, <2>3, <2>5
    <3> HIDE DEF h
    <3>2. 1 .. h + 1 = (1 .. h) \cup {h + 1}
      BY <3>1
    <3> QED BY <2>1, <3>1, <3>2
  <2>7. mode' \in {"commands", "freeze"} /\ (mode' = "freeze" <=> (n + 1) % 2 = 1)
    BY <2>1, <2>3
  <2>8. frozen' = IF asked = 1 THEN {F[i] : i \in 1 .. (n + 1) \div 2} ELSE Frozen
    BY <2>5, <2>6
  <2>9. frozen' \subseteq Int
    BY <1>2, <2>1
  <2> QED BY <1>10, <2>1, <2>3, <2>7, <2>8, <2>9
<1>12. CASE mode = "commands" /\ n < L - 1
  <2>1. Command(w) /\ UNCHANGED <<part, known, frozen>>
    BY <1>8, <1>12 DEF TakeWord
  <2>2. n % 2 = 0
    BY <1>4, <1>6, <1>12
  <2>3. (n + 1) % 2 = 1 /\ (n + 1) \div 2 = n \div 2 /\ n + 1 \in 1 .. L - 1
    BY <1>6, <1>12, <2>2
  <2>4. w = IS_FREEZE
    BY <1>5, <1>7, <2>3
  <2>5. mode' = "freeze" /\ out' = out
    BY <2>1, <2>4 DEF Command, IS_FREEZE, IS_RUNSOLVER
  <2> QED BY <1>2, <1>4, <1>10, <1>12, <2>1, <2>3, <2>5
<1>13. CASE mode = "commands" /\ n = L - 1
  <2>1. Command(w) /\ UNCHANGED <<part, known, frozen>>
    BY <1>8, <1>13 DEF TakeWord
  <2>2. w = IS_RUNSOLVER
    <3>1. n + 1 = L
      BY <1>6, <1>13
    <3> QED BY <1>5, <1>7, <3>1
  <2>3. /\ mode' = "answering"
        /\ \/ out' = <<IS_INDETER>>
           \/ Solutions(known) = {} /\ out' = <<IS_UNSAT>>
           \/ \E a \in Solutions(known) : out' = <<IS_SAT, NumVars>> \o [v \in Vars |-> Bit(a[v])]
    <3>1. IS_RUNSOLVER # IS_FREEZE
      BY DEF IS_FREEZE, IS_RUNSOLVER
    <3> QED BY <2>1, <2>2, <3>1 DEF Command
  <2>4. RightAnswer(out')
    BY <1>2, <2>3 DEF RightAnswer
  <2>5. out' \in Seq(Int) /\ out' # <<>>
    <3>1. out' \in Seq(Int) /\ Len(out') # 0
      BY <2>4, AnswerForm
    <3>2. Len(<<>>) = 0
      OBVIOUS
    <3> QED BY <3>1, <3>2
  <2>6. frozen = Frozen
    <3>1. CASE asked = 1
      <4>1. n \div 2 = C
        <5>1. n = 2 * C
          BY <1>1, <1>5, <1>13, <3>1
        <5> QED BY <1>1, <5>1
      <4> QED BY <1>1, <1>4, <3>1, <4>1
    <3>2. CASE asked # 1
      BY <1>4, <3>2
    <3> QED BY <3>1, <3>2
  <2>7. Transit' = <<>>
    <3>1. Len(Transit') = 0
      BY <1>3, <1>6, <1>7, <1>13
    <3> QED BY <1>3, <3>1, EmptySeq
  <2>8. (got' \o fromSolver') \o out' = out'
    BY <1>2, <2>5 DEF NoAnswer
  <2>9. RightAnswer((got \o fromSolver) \o out)'
    BY <1>2, <2>4, <2>8 DEF RightAnswer
  <2>10. Answers'
    BY <1>2, <2>1, <2>3, <2>5, <2>6, <2>7, <2>9 DEF Answers
  <2>11. part' \in Seq(Int) /\ frozen' \subseteq Int
    BY <1>2, <2>1
  <2> QED BY <2>3, <2>5, <2>10, <2>11, SolverMoves
<1> QED
  BY <1>2, <1>6, <1>11, <1>12, <1>13

LEMMA SolverReadsIInv ==
  ASSUME IInv, SolverReads
  PROVE  IInv'
BY WordTaken, ReadsLiteral, ReadsEnd, ReadsLast, ReadsCommand

\* A word of the answer goes into the pipe; behind the last one the solver reads clauses again.
LEMMA SolverWritesIInv ==
  ASSUME IInv, SolverWrites
  PROVE  IInv'
<1>1. /\ alive /\ mode = "answering" /\ Len(fromSolver) < PipeSize
      /\ fromSolver' = Append(fromSolver, Head(out)) /\ out' = Tail(out)
      /\ mode' = IF Len(out) = 1 THEN "clauses" ELSE mode
      /\ UNCHANGED <<phase, todo, buffer, flushing, got, asked, sent, alive, part, known, frozen, toSolver>>
  BY DEF SolverWrites, checker
<1>2. Answers /\ phase \in {"asking", "reading"}
  BY <1>1 DEF IInv, Exchange, ReadsClauses, ReadsCommands, TypeOK
<1>3. out # <<>>
  BY <1>1, <1>2 DEF Answers
<1>4. got \in Seq(Int) /\ fromSolver \in Seq(Int) /\ out \in Seq(Int) /\ Len(fromSolver) \in Nat /\ PipeSize \in Nat
  BY Typed, Sizes DEF IInv
<1>5. Head(out) \in Int /\ out' \in Seq(Int) /\ Len(out') = Len(out) - 1 /\ Len(out) \in Nat \ {0}
  BY <1>1, <1>3, <1>4, HeadTailProperties, EmptySeq
<1>6. fromSolver' \in Seq(Int) /\ Len(fromSolver') <= PipeSize
  BY <1>1, <1>4, <1>5
<1>7. (got' \o fromSolver') \o out' = (got \o fromSolver) \o out
  <2>1. fromSolver' \o out' = fromSolver \o out
    BY <1>1, <1>3, <1>4, MoveHead
  <2>2. (got \o fromSolver) \o out = got \o (fromSolver \o out)
    BY <1>4, Associative
  <2>3. (got \o fromSolver') \o out' = got \o (fromSolver' \o out')
    BY <1>4, <1>5, <1>6, Associative
  <2> QED BY <1>1, <2>1, <2>2, <2>3
<1>8. mode' = IF out' = <<>> THEN "clauses" ELSE "answering"
  <2>1. Len(out) = 1 <=> out' = <<>>
    BY <1>5, EmptySeq
  <2> QED BY <1>1, <2>1
<1>9. Answers'
  BY <1>1, <1>2, <1>7, <1>8 DEF Answers, Transit, RightAnswer
<1>10. TypeOK'
  BY <1>1, <1>5, <1>6, <1>8 DEF IInv, TypeOK
<1>11. Exchange'
  BY <1>1, <1>2, <1>9 DEF IInv, Exchange
<1>12. BufferHasRoom'
  BY <1>1 DEF IInv, BufferHasRoom
<1> QED
  BY <1>10, <1>11, <1>12 DEF IInv

\* A solver that is gone leaves everything else as it was.
LEMMA DiesIInv ==
  ASSUME IInv, SolverDies
  PROVE  IInv'
<1>1. alive' = FALSE /\ UNCHANGED <<phase, todo, buffer, flushing, got, asked, sent, mode, part, known, frozen, out, toSolver, fromSolver>>
  BY DEF SolverDies, checker, pipes
<1>2. TypeOK' /\ BufferHasRoom'
  BY <1>1 DEF IInv, TypeOK, BufferHasRoom
<1>3. Exchange'
  BY <1>1 DEF IInv, Exchange, NoAnswer, ReadsClauses, ReadsCommands, Answers, RightAnswer, Words, Transit, Rest, Commands
<1> QED
  BY <1>2, <1>3 DEF IInv

LEMMA StutterIInv ==
  ASSUME IInv, UNCHANGED vars
  PROVE  IInv'
<1>1. UNCHANGED <<phase, todo, buffer, flushing, got, asked, sent, alive, mode, part, known, frozen, out, toSolver, fromSolver>>
  BY DEF vars, checker, solver, pipes
<1>2. TypeOK' /\ BufferHasRoom'
  BY <1>1 DEF IInv, TypeOK, BufferHasRoom
<1>3. Exchange'
  BY <1>1 DEF IInv, Exchange, NoAnswer, ReadsClauses, ReadsCommands, Answers, RightAnswer, Words, Transit, Rest, Commands
<1> QED
  BY <1>2, <1>3 DEF IInv

LEMMA StepIInv == IInv /\ [Next]_vars => IInv'
<1> SUFFICES ASSUME IInv, [Next]_vars PROVE IInv'
  OBVIOUS
<1>1. CASE CheckerCalls
  BY <1>1, CreateIInv, KillIInv, AddIInv, SolveIInv DEF CheckerCalls
<1>2. CASE CheckerSteps
  BY <1>2, LiteralIInv, StartSolveIInv, FlushIInv, ReadIInv DEF CheckerSteps
<1>3. CASE SolverSteps
  BY <1>3, SolverReadsIInv, SolverWritesIInv DEF SolverSteps
<1>4. CASE SolverDies
  BY <1>4, DiesIInv
<1>5. CASE readSolverAtEnd \/ UNCHANGED vars
  BY <1>5, StutterIInv DEF readSolverAtEnd
<1> QED
  BY <1>1, <1>2, <1>3, <1>4, <1>5 DEF Next

LEMMA Invariance == Spec => []IInv
BY InitIInv, StepIInv, PTL DEF Spec

--------------------------------------------------------------------------------
(***************************************************************************)
(* Every variable of the two processes and the pipes keeps its type, and   *)
(* neither the buffer nor a pipe ever holds more than it can               *)
(* (src/inc_solver.cc addClauseLiteral, flushBuffer).                      *)
(***************************************************************************)
THEOREM IncSolverTypeCorrect == Spec => []TypeOK
<1>1. IInv => TypeOK
  BY DEF IInv
<1> QED BY <1>1, Invariance, PTL

(***************************************************************************)
(* When the solver answers it has the clauses ConstGen has added for it    *)
(* and keeps the goal variables, whatever the sizes of the buffer and of   *)
(* the pipes and however the two processes are scheduled                   *)
(* (src/inc_solver.cc addClauseLiteral, finishedClauses, freeze).          *)
(***************************************************************************)
THEOREM EncodingArrivesHolds == Spec => []EncodingArrives
<1>1. IInv => EncodingArrives
  <2> SUFFICES ASSUME IInv, alive, mode = "answering" PROVE known = sent /\ frozen = Frozen
    BY DEF EncodingArrives
  <2>1. Answers
    BY DEF IInv, Exchange, ReadsClauses, ReadsCommands, TypeOK
  <2> QED BY <2>1 DEF Answers
<1> QED BY <1>1, Invariance, PTL

(***************************************************************************)
(* The answer the checker has read is right for the clauses it has added:  *)
(* readSolver has stopped at the end of this answer and of no other        *)
(* (src/inc_solver.cc getSolution, readSolver).                            *)
(***************************************************************************)
THEOREM AnswerIsRightHolds == Spec => []AnswerIsRight
<1>1. IInv => AnswerIsRight
  <2> SUFFICES ASSUME IInv, phase = "answered"
               PROVE  IF got[1] = IS_UNSAT THEN Solutions(sent) = {}
                      ELSE [v \in Vars |-> got[v + 2] = 1] \in Solutions(sent)
    BY DEF AnswerIsRight
  <2>1. Answers /\ out = <<>> /\ fromSolver = <<>> /\ got[1] # IS_INDETER /\ got \in Seq(Int)
    BY Typed DEF IInv, Exchange
  <2>2. RightAnswer(got)
    <3>1. (got \o fromSolver) \o out = got
      BY <2>1
    <3> QED BY <2>1, <3>1 DEF Answers
  <2>3. CASE got[1] = IS_UNSAT
    BY <2>2, <2>3, AnswerForm
  <2>4. CASE got[1] = IS_SAT
    <3>1. PICK a \in Solutions(sent) : \A v \in Vars : got[v + 2] = Bit(a[v])
      BY <2>2, <2>4, AnswerForm
    <3>2. a \in [Vars -> BOOLEAN]
      BY DEF Solutions
    <3>3. ASSUME NEW v \in Vars PROVE (got[v + 2] = 1) = a[v]
      BY <3>1, <3>2 DEF Bit
    <3>4. [v \in Vars |-> got[v + 2] = 1] = a
      BY <3>2, <3>3
    <3> QED BY <2>4, <3>4 DEF IS_SAT, IS_UNSAT
  <2> QED BY <2>1, <2>2, <2>3, <2>4, AnswerForm
<1> QED BY <1>1, Invariance, PTL
================================================================================
