-------------------------------- MODULE Clauses --------------------------------
(***************************************************************************)
(* How ConstGen makes clauses (src/constgen.cc): it builds a formula from  *)
(* variables, constants and codes, and addConstraint sends the clauses of  *)
(* the formula to the solver.  Beside each formula stands the set of       *)
(* assignments it is meant to be true in.                                  *)
(***************************************************************************)
EXTENDS Constraint

CONSTANTS
  NumVars,   \* variables of the solver
  MaxParts   \* bound on the variables, constants and codes that are used

ASSUME ClausesAssumption == NumVars \in Nat \ {0} /\ MaxParts \in Nat

VARIABLES
  stack,    \* formulas under construction, with their meaning
  parts,    \* how many parts they have been made from
  clauses,  \* what the solver has got
  meant     \* the assignments that satisfy all that was meant

vars == <<stack, parts, clauses, meant>>

Assignment == [1 .. NumVars -> BOOLEAN]
Code(n, a) == LET bits[j \in 0 .. n] == IF j = 0 THEN 0 ELSE bits[j - 1] + (IF a[j] THEN 2^(j - 1) ELSE 0)
              IN bits[n]
NumBits(x) == IF x = 0 THEN 0 ELSE CHOOSE n \in 1 .. x : 2^(n - 1) <= x /\ x < 2^n

Init ==
  /\ stack = <<>> /\ parts = 0
  /\ clauses = {} /\ meant = Assignment

Push(f, sat) == stack' = Append(stack, [formula |-> f, sat |-> sat])
Part(f, sat) ==
  /\ parts < MaxParts /\ parts' = parts + 1
  /\ Push(f, sat)
  /\ UNCHANGED <<clauses, meant>>

UseVar == \E n \in 1 .. NumVars : Part(Var(n), {a \in Assignment : a[n]})

\* getOrderConstraint and isAlwaysExecuted give constants.
UseConstant == Part(True, Assignment) \/ Part(False, {})

\* getBranch, getValueEncoding and the index of LoadRF.
UseCode == \E n \in 1 .. NumVars : \E value \in 0 .. 2^n - 1 :
  Part(generateConstraint(n, value), {a \in Assignment : Code(n, a) = value})

\* LoadRF: the index is less than the number of stores, with as many bits as this number has.
UseLT == \E value \in 0 .. 2^NumVars - 1 :
  Part(generateLTConstraint(NumBits(value), value),
       {a \in Assignment : Code(NumBits(value), a) < value \/ value = 0})

UseEquiv == \E n \in 0 .. NumVars \div 2 :
  Part(generateEquivConstraint(n), {a \in Assignment : \A i \in 1 .. n : a[i] = a[n + i]})

Last2 == SubSeq(stack, Len(stack) - 1, Len(stack))
Combine(f, sat) ==
  /\ stack' = Append(SubSeq(stack, 1, Len(stack) - 2), [formula |-> f, sat |-> sat])
  /\ UNCHANGED <<parts, clauses, meant>>

combine ==
  /\ Len(stack) >= 2
  /\ LET l == Last2[1]
         r == Last2[2]
     IN \/ Combine(And(<<l.formula, r.formula>>), l.sat \cap r.sat)
        \/ Combine(Or(<<l.formula, r.formula>>), l.sat \cup r.sat)
        \/ Combine(Implies(l.formula, r.formula), (Assignment \ l.sat) \cup r.sat)

\* ConstGen negates codes, equalities of codes and what is made from them by AND and OR, and
\* never uses an IMPLIES on the left of another: where it is negated no formula has one in it.
RECURSIVE HasImplies(_)
HasImplies(c) ==
  \/ c.type = "IMPLIES"
  \/ c.type \in {"AND", "OR"} /\ \E i \in DOMAIN c.operands : HasImplies(c.operands[i])
RECURSIVE NegatesImplies(_)
NegatesImplies(c) ==
  CASE c.type = "IMPLIES" -> HasImplies(c.operands[1]) \/ NegatesImplies(c.operands[2])
    [] c.type \in {"AND", "OR"} -> \E i \in DOMAIN c.operands : NegatesImplies(c.operands[i])
    [] OTHER -> FALSE

negateTop ==
  /\ stack # <<>>
  /\ LET top == Last(stack)
     IN /\ ~HasImplies(top.formula)
        /\ stack' = Append(Front(stack), [formula |-> negate(top.formula),
                                          sat |-> Assignment \ top.sat])
  /\ UNCHANGED <<parts, clauses, meant>>

\* Nor is a constant FALSE asserted, alone or in a conjunction: all the clauses with order
\* constraints in them are disjunctions or implications.
RECURSIVE AssertsFalse(_)
AssertsFalse(c) ==
  \/ c.type = "FALSE"
  \/ c.type = "AND" /\ \E i \in DOMAIN c.operands : AssertsFalse(c.operands[i])

addConstraint ==
  /\ Len(stack) = 1
  /\ LET c == stack[1]
     IN /\ ~NegatesImplies(c.formula) /\ ~AssertsFalse(c.formula)
        /\ clauses' = clauses \cup (ToSet(simplify(c.formula)) \ {True})
        /\ meant' = meant \cap c.sat
  /\ stack' = <<>>
  /\ UNCHANGED parts

Next ==
  \/ UseVar \/ UseConstant \/ UseCode \/ UseLT \/ UseEquiv
  \/ combine \/ negateTop \/ addConstraint

Spec == Init /\ [][Next]_vars

--------------------------------------------------------------------------------
Literals(c) == IF c.type = "OR" THEN ToSet(c.operands) ELSE {c}
Holds(l, a) == IF l.type = "VAR" THEN a[l.var] ELSE ~a[l.var]

\* What addConstraint and printDIMACS assert.
OnlyClauses == \A c \in clauses : \A l \in Literals(c) : Literal(l)

\* The clauses the solver got are literals and disjunctions of literals, satisfied by the
\* assignments that ConstGen means and by no others: neither negation, nor simplification, nor the
\* constants and the codes' clauses lose or add one.
ClausesAreMeant ==
  /\ OnlyClauses
  /\ {a \in Assignment : \A c \in clauses : \E l \in Literals(c) : Holds(l, a)} = meant
================================================================================
