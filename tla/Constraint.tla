------------------------------ MODULE Constraint -------------------------------
(***************************************************************************)
(* Formulas, their negation, their reduction to clauses and the formulas   *)
(* that say something of a code (src/constraint.cc).  A variable of the    *)
(* solver is a number; vars[j] of an array of variables, which holds bit j *)
(* of a code, is variable j + 1.  The code changes formulas in place and   *)
(* frees them; here they are values.                                       *)
(***************************************************************************)
EXTENDS Integers, FiniteSets, Sequences, SequencesExt

True      == [type |-> "TRUE"]
False     == [type |-> "FALSE"]
Var(n)    == [type |-> "VAR", var |-> n]
NotVar(n) == [type |-> "NOTVAR", var |-> n]
And(s)    == [type |-> "AND", operands |-> s]
Or(s)     == [type |-> "OR", operands |-> s]
Implies(l, r) == [type |-> "IMPLIES", operands |-> <<l, r>>]

Literal(c) == c.type \in {"VAR", "NOTVAR"}

RECURSIVE negate(_)
negate(c) ==
  CASE c.type = "TRUE"    -> False
    [] c.type = "FALSE"   -> True
    [] c.type = "VAR"     -> NotVar(c.var)
    [] c.type = "NOTVAR"  -> Var(c.var)
    [] c.type = "IMPLIES" -> Implies(c.operands[2], c.operands[1])
    [] c.type = "AND"     -> Or([i \in DOMAIN c.operands |-> negate(c.operands[i])])
    [] c.type = "OR"      -> And([i \in DOMAIN c.operands |-> negate(c.operands[i])])

\* Fault: the operands of a conjunction stay as they are.
RECURSIVE negate_shallow(_)
negate_shallow(c) ==
  CASE c.type = "TRUE"    -> False
    [] c.type = "FALSE"   -> True
    [] c.type = "VAR"     -> NotVar(c.var)
    [] c.type = "NOTVAR"  -> Var(c.var)
    [] c.type = "IMPLIES" -> Implies(c.operands[2], c.operands[1])
    [] c.type = "AND"     -> Or(c.operands)
    [] c.type = "OR"      -> And([i \in DOMAIN c.operands |-> negate_shallow(c.operands[i])])

\* The loops over mergeandfree: TRUE is left out, and a FALSE makes the result TRUE.
Merge(vectors) ==
  LET all == FlattenSeq(vectors)
  IN IF \E i \in DOMAIN all : all[i] = False THEN <<True>>
     ELSE SelectSeq(all, LAMBDA c : c # True)

\* The clauses of a formula.  In a disjunction the first operand that is not a literal is
\* replaced, and the result simplified again.
RECURSIVE simplify(_)
simplify(c) ==
  LET ops == c.operands
      i   == CHOOSE n \in DOMAIN ops : ~Literal(ops[n]) /\ \A m \in 1 .. n - 1 : Literal(ops[m])
      o   == ops[i]
      rest == RemoveAt(ops, i)
  IN CASE c.type \in {"TRUE", "FALSE", "VAR", "NOTVAR"} -> <<c>>
       [] c.type = "AND"     -> Merge([j \in DOMAIN ops |-> simplify(ops[j])])
       [] c.type = "IMPLIES" -> simplify(Or(<<negate(ops[1]), ops[2]>>))
       [] c.type = "OR"      ->
            IF \A n \in DOMAIN ops : Literal(ops[n])
            THEN IF Len(ops) = 1 THEN ops ELSE <<c>>
            ELSE CASE o.type = "TRUE"    -> <<True>>
                   [] o.type = "FALSE"   -> simplify(Or(rest))
                   [] o.type = "OR"      -> simplify(Or(rest \o o.operands))
                   [] o.type = "IMPLIES" -> simplify(Or(rest \o <<negate(o.operands[1]), o.operands[2]>>))
                   [] o.type = "AND"     ->
                        Merge([j \in DOMAIN o.operands |->
                                 simplify(Or([ops EXCEPT ![i] = o.operands[j]]))])

--------------------------------------------------------------------------------
\* Codes of numvars bits.
Bit(value, j) == (value \div 2^j) % 2

generateConstraint(numvars, value) ==
  And([j \in 1 .. numvars |-> IF Bit(value, j - 1) = 1 THEN Var(j) ELSE NotVar(j)])

OnesNegated(numvars, value) ==
  LET ones == SelectSeq([j \in 1 .. numvars |-> j], LAMBDA j : Bit(value, j - 1) = 1)
  IN [n \in DOMAIN ones |-> NotVar(ones[n])]

LowestOne(value) == CHOOSE d \in {2^j : j \in 0 .. value} : (value \div d) % 2 = 1 /\ value % d = 0

\* A code is less than value: for each one of value, from the lowest on, not all ones of the
\* number with this and the lower ones counted up.
RECURSIVE LTClauses(_, _)
LTClauses(numvars, value) ==
  LET ones == OnesNegated(numvars, value)
  IN IF ones = <<>> THEN <<>>
     ELSE <<Or(ones)>> \o LTClauses(numvars, value + LowestOne(value))
\* Fault: value itself is allowed.
generateLEConstraint(numvars, value) == And(LTClauses(numvars, value + 1))
generateLTConstraint(numvars, value) == And(LTClauses(numvars, value))

\* Two codes of numvars bits are the same; the second is in the variables after the first's.
generateEquivConstraint(numvars) ==
  IF numvars = 0 THEN True
  ELSE And([n \in 1 .. 2 * numvars |->
         LET i == (n + 1) \div 2
         IN IF n % 2 = 1 THEN Or(<<NotVar(i), Var(numvars + i)>>)
            ELSE Or(<<Var(i), NotVar(numvars + i)>>)])
================================================================================
