----------------------------- MODULE ValueEncoding -----------------------------
(***************************************************************************)
(* The values in the encoding (src/constgen.cc, src/storeloadset.cc,       *)
(* src/valuerecord.cc, src/functionrecord.cc, src/equalsrecord.cc): after  *)
(* the planner has spread the values, operations that may meet at an       *)
(* address form groups with common codes, each record gets codes for its   *)
(* address and its values, and clauses tie them to those of its operands.  *)
(*                                                                         *)
(* A solution is a choice of codes.  That a load reads the latest store is *)
(* the subject of ReadsFrom: here it reads from any it may read from.  The *)
(* clauses themselves, which are that of BranchEncoding and Clauses made,  *)
(* are predicates on the codes.                                            *)
(***************************************************************************)
EXTENDS Planner

VARIABLES
  encoded,   \* the records in the encoding, and the values seen of them when it was made
  groups,    \* storeloadtable, and the groups themselves
  solution

encodingVars == <<encoded, groups, solution>>
vars == <<program, phase, turn, executionVars, knowledgeVars, completedset, encodingVars>>

NumBits(n) == IF n = 0 THEN 0 ELSE CHOOSE b \in 1 .. n : 2^(b - 1) <= n /\ n < 2^b
Codes(n) == 0 .. 2^NumBits(n - 1) - 1
IsMemory(r) == Op(r).type \in {"LOAD", "STORE", "RMW"}
Reads(r) == Op(r).type \in {"LOAD", "RMW"}
Writes(r) == Op(r).type \in {"STORE", "RMW"}
Insert(s, e) == IF e \in ToSet(s) THEN s ELSE Append(s, e)
InsertAll(s, t) == FoldLeft(Insert, s, t)

--------------------------------------------------------------------------------
(***************************************************************************)
(* Groups: of[a] is the group of address a, sets[g] what is in it.         *)
(***************************************************************************)
NoGroup == 0
EmptyGroup == [ops |-> <<>>, addresses |-> <<>>, values |-> <<>>]
NoGroups == [of |-> [a \in Address |-> NoGroup], sets |-> <<>>]

\* StoreLoadSet::add.
addTo(set, r) ==
  [ops       |-> Insert(set.ops, r),
   addresses |-> InsertAll(set.addresses, tables.sets[r][ADDR]),
   values    |-> IF Writes(r) THEN InsertAll(set.values, getStoreSet(tables, r)) ELSE set.values]

mergeSets(G, to, from) ==
  LET moved == G.sets[from].ops
  IN [of   |-> [a \in Address |->
                  IF \E r \in ToSet(moved) : HasValue(tables, r, ADDR, a) THEN to ELSE G.of[a]],
      sets |-> [G.sets EXCEPT ![to] = FoldLeft(addTo, G.sets[to], moved), ![from] = EmptyGroup]]

\* Fault: an address that has a group keeps it.
Join_keeps(G, g, a) ==
  IF G.of[a] = NoGroup THEN [G EXCEPT !.of[a] = g] ELSE G

\* One more address for group g.
Join(G, g, a) ==
  CASE G.of[a] = NoGroup -> [G EXCEPT !.of[a] = g]
    [] G.of[a] = g       -> G
    [] OTHER             -> mergeSets(G, g, G.of[a])

groupMemoryOperations(G, r) ==
  LET first == tables.sets[r][ADDR][1]
      G1 == IF G.of[first] # NoGroup THEN G
            ELSE [of |-> [G.of EXCEPT ![first] = Len(G.sets) + 1], sets |-> Append(G.sets, EmptyGroup)]
      g == G1.of[first]
      G2 == [G1 EXCEPT !.sets[g] = addTo(@, r)]
  IN ForEach(LAMBDA H, a : Join(H, g, a), G2, Tail(tables.sets[r][ADDR]))

\* The traversal goes through the records in program order.
Traversal(S) == SelectSeq([r \in Record |-> r], LAMBDA r : r \in S)
Groups(G, S) == ForEach(groupMemoryOperations, G, SelectSeq(Traversal(S), IsMemory))

\* An address is taken from its group, which is freed with its last one.
removeAddress(G, a) ==
  IF G.of[a] = NoGroup THEN G
  ELSE LET left == SelectSeq(G.sets[G.of[a]].addresses, LAMBDA b : b # a)
       IN [of   |-> [G.of EXCEPT ![a] = NoGroup],
           sets |-> [G.sets EXCEPT ![G.of[a]] = IF left = <<>> THEN EmptyGroup ELSE [@ EXCEPT !.addresses = left]]]

\* No address has a group; a group that was not freed would stay.
resetstoreloadtable(G) ==
  LET R == ForEach(removeAddress, G, SetToSeq(Address))
  IN [R EXCEPT !.sets = SelectSeq(R.sets, LAMBDA set : set # EmptyGroup)]

\* ConstGen::reset.  The tables of branches, functions and loads are made from encoded.
reset == [encoded |-> <<>>, groups |-> resetstoreloadtable(groups)]

getStoreLoadSet(r) == groups.sets[groups.of[tables.sets[r][ADDR][1]]]
Values(r) == getStoreLoadSet(r).values
Addresses(r) == getStoreLoadSet(r).addresses

--------------------------------------------------------------------------------
(***************************************************************************)
(* Codes.  a[r] holds those of record r: addr and mem, the address and the *)
(* value it writes; out, the value it returns; rf, the store it reads      *)
(* from; dir, a branch's direction; new, the variable of an RMW that adds. *)
(***************************************************************************)
NoRF == 0
NotExecuted == 2   \* a branch's code besides its directions
NewDirection == 3

\* The values an output's codes stand for, in order.
OutValues(r) ==
  CASE Reads(r)                -> Values(r)
    [] Op(r).type = "FUNCTION" -> tables.sets[r][FUNCOUT]
    [] Op(r).type = "PHI"      -> tables.sets[r][BASE]
    [] Op(r).type = "EQUALS"   -> <<0, 1>>

\* Fault: no code for a result that is not known.
OutCodes_known(r) == Codes(Len(OutValues(r)))

\* A function has a code for a new result.
OutCodes(r) == Codes(Len(OutValues(r)) + (IF Op(r).type = "FUNCTION" THEN 1 ELSE 0))

\* getNoValueEncoding: all variables of the code are true.
IsNewResult(a, r) == a[r].out = Cardinality(OutCodes(r)) - 1

HasCode(r, v) == v \in ToSet(OutValues(r))
\* getRetValueEncoding, getMemValueEncoding, getAddressEncoding: a code is an index.
At(s, code) == IF code < Len(s) THEN {s[code + 1]} ELSE {}
Returns(a, r, v) == v \in At(OutValues(r), a[r].out)
Stores(a, r, v) == v \in At(Values(r), a[r].mem)
HasAddress(a, r, v) == v \in At(Addresses(r), a[r].addr)

IsExecuted(a, r) == Op(r).on = <<>> \/ a[Op(r).on[1]].dir = Op(r).on[2]

\* getMayReadFromSet, but for stores that are always overwritten.
getMayReadFromSet(r) ==
  {s \in UNION {ToSet(getStoreTable(tables, v)) : v \in ToSet(tables.sets[r][ADDR])} :
     s # r /\ (Op(s).tid # Op(r).tid \/ s < r)}

CodesOf(r) ==
  LET addr == Codes(Len(Addresses(r)))
      val  == Codes(Len(Values(r)))
      dirs == encoded[r] \cup (IF Op(r).on = <<>> THEN {} ELSE {NotExecuted})
                         \cup (IF encoded[r] = {0, 1} THEN {} ELSE {NewDirection})
  IN CASE Op(r).type = "LOAD"      -> [addr : addr, out : val, rf : getMayReadFromSet(r) \cup {NoRF}]
       [] Op(r).type = "STORE"     -> [addr : addr, mem : val]
       [] Op(r).type = "RMW"       -> [addr : addr, mem : val, out : val, new : BOOLEAN,
                                       rf : getMayReadFromSet(r) \cup {NoRF}]
       [] Op(r).type = "BRANCHDIR" -> [dir : dirs]
       [] OTHER                    -> [out : OutCodes(r)]

--------------------------------------------------------------------------------
(***************************************************************************)
(* The clauses of a record, of codes a.                                    *)
(***************************************************************************)
processAddresses(a, r) ==
  IF IsConst(Op(r).addr) THEN HasAddress(a, r, Op(r).addr.val)
  ELSE \A v \in ToSet(tables.sets[r][ADDR]) :
         Returns(a, Op(r).addr.src, Mask(v - Op(r).addr.val)) => HasAddress(a, r, v)

\* Of LoadRF, for the stores in a: value, address, and that it is executed.
ReadsStore(a, r) ==
  /\ a[r].rf \in DOMAIN a =>
       LET s == a[r].rf
       IN a[r].out = a[s].mem /\ a[r].addr = a[s].addr /\ IsExecuted(a, s)
  /\ IsExecuted(a, r) => a[r].rf # NoRF

processStore(a, r) ==
  LET o == Op(r).args[1] IN
  /\ IF IsConst(o) THEN Stores(a, r, o.val)
     ELSE \A v \in ToSet(getStoreSet(tables, r)) : Returns(a, o.src, v) => Stores(a, r, v)
  /\ processAddresses(a, r)

processLoad(a, r) == ReadsStore(a, r) /\ processAddresses(a, r)

\* eq: the CAS is successful.
ComparesOld(a, r, eq) ==
  LET o == Op(r).args[2]
  IN IF IsConst(o) THEN IF HasCode(r, o.val) THEN eq = Returns(a, r, o.val) ELSE ~eq
     ELSE /\ \A v \in ToSet(Values(r)) :
               Returns(a, r, v) => eq = (HasCode(o.src, v) /\ Returns(a, o.src, v))
          /\ \A v \in ToSet(tables.sets[r][OLDVALCAS]) \ ToSet(Values(r)) :
               Returns(a, o.src, v) => ~eq
processCAS(a, r) ==
  LET o == Op(r).args[1] IN
  /\ ReadsStore(a, r)
  /\ \E eq \in BOOLEAN :
       /\ ComparesOld(a, r, eq)
       /\ IF IsConst(o) THEN eq => Stores(a, r, o.val)
          ELSE \A v \in ToSet(getStoreSet(tables, r)) :
                 HasCode(o.src, v) /\ eq /\ Returns(a, o.src, v) => Stores(a, r, v)
       /\ ~eq => a[r].mem = a[r].out
  /\ processAddresses(a, r)

processEXC(a, r) ==
  LET o == Op(r).args[1] IN
  /\ ReadsStore(a, r)
  /\ IF IsConst(o) THEN Stores(a, r, o.val)
     ELSE \A v \in ToSet(getStoreSet(tables, r)) : Returns(a, o.src, v) => Stores(a, r, v)
  /\ processAddresses(a, r)

\* A sum that no store of the group stores is asked for by the goal.
processAdd(a, r) ==
  /\ ReadsStore(a, r)
  /\ \A v \in ToSet(Values(r)) :
       LET sum == Mask(v + Op(r).args[1].val)
       IN sum \in ToSet(Values(r)) /\ Returns(a, r, v) => Stores(a, r, sum) /\ ~a[r].new
  /\ processAddresses(a, r)

\* The goals of a shared function may have inputs this record cannot have.
processFunction(a, r) ==
  LET Applies(g) == /\ \A j \in DOMAIN g.in : IsShared(r) => HasValue(tables, r, BASE + j - 1, g.in[j])
                    /\ \A j \in DOMAIN g.in : Returns(a, Op(r).args[j].src, g.in[j])
  IN \A g \in ToSet(Goals(r)) : Applies(g) => Returns(a, r, g.out)

\* The inputs of a phi that have been seen.
processPhi(a, r) ==
  \A q \in getRevDependences(r, BASE) :
    \A v \in ToSet(tables.sets[r][BASE]) :
      HasCode(q, v) /\ Returns(a, q, v) /\ IsExecuted(a, q) => Returns(a, r, v)

\* Fault: two loads have the same value if their codes are the same, whatever their groups.
processEquals_codes(a, r) ==
  LET o == Op(r).args
      true == Returns(a, r, 1) IN
  CASE ~IsConst(o[1]) /\ ~IsConst(o[2]) -> true = (a[o[1].src].out = a[o[2].src].out)
    [] IsConst(o[1]) /\ IsConst(o[2])   -> true = (o[1].val = o[2].val)
    [] OTHER -> LET c == IF IsConst(o[1]) THEN 1 ELSE 2 IN true = Returns(a, o[3 - c].src, o[c].val)

\* Two reads of a group are compared by their codes.
processEquals(a, r) ==
  LET o == Op(r).args
      true == Returns(a, r, 1)
      InGroup(q) == q # NoRecord /\ Reads(q)
  IN CASE /\ InGroup(o[1].src) /\ InGroup(o[2].src)
          /\ getStoreLoadSet(o[1].src) = getStoreLoadSet(o[2].src) ->
            true = (a[o[1].src].out = a[o[2].src].out)
       [] IsConst(o[1]) /\ IsConst(o[2]) -> true = (o[1].val = o[2].val)
       [] IsConst(o[1]) /\ ~IsConst(o[2]) -> true = Returns(a, o[2].src, o[1].val)
       [] ~IsConst(o[1]) /\ IsConst(o[2]) -> true = Returns(a, o[1].src, o[2].val)
       [] OTHER ->
            \A v \in ToSet(tables.sets[r][BASE]), w \in ToSet(tables.sets[r][BASE + 1]) :
              Returns(a, o[1].src, v) /\ Returns(a, o[2].src, w) => true = (v = w)

processBranch(a, r) ==
  /\ a[r].dir # NotExecuted => IsExecuted(a, r)
  /\ \A v \in encoded[r] : IsExecuted(a, r) /\ Returns(a, Op(r).args[1].src, v) => a[r].dir = v

\* A constant that a CAS stores has a code if a CAS of it has succeeded, or another operation of the
\* group stores it; that of a comparison if the other operand is known to have it.  Otherwise the
\* clause is made of NULL.
HasNullClause(r) ==
  LET o == Op(r).args IN
  \/ /\ Op(r).type = "RMW" /\ Op(r).op = "CAS"
     /\ IsConst(o[1]) /\ ~HasCode(r, o[1].val)
  \/ /\ Op(r).type = "EQUALS"
     /\ \E c \in {1, 2} : IsConst(o[c]) /\ ~IsConst(o[3 - c]) /\ ~HasCode(o[3 - c].src, o[c].val)

processRecord(a, r) ==
  CASE Op(r).type = "LOAD"      -> processLoad(a, r)
    [] Op(r).type = "STORE"     -> processStore(a, r)
    [] Op(r).op = "CAS"         -> processCAS(a, r)
    [] Op(r).op = "ADD"         -> processAdd(a, r)
    [] Op(r).op = "EXC"         -> processEXC(a, r)
    [] Op(r).type = "FUNCTION"  -> processFunction(a, r)
    [] Op(r).type = "PHI"       -> processPhi(a, r)
    [] Op(r).type = "EQUALS"    -> processEquals(a, r)
    [] Op(r).type = "BRANCHDIR" -> processBranch(a, r)

--------------------------------------------------------------------------------
\* The solutions with codes from offered, record by record.
SolutionsFrom(offered) ==
  LET Extend(A, r) ==
        {a \in {[q \in DOMAIN b \cup {r} |-> IF q = r THEN c ELSE b[q]] : b \in A, c \in offered[r]} :
           processRecord(a, r) /\ \A q \in DOMAIN a : Reads(q) => ReadsStore(a, q)}
  IN ForEach(Extend, {<<>>}, Traversal(DOMAIN encoded))

Plan ==
  /\ Ended /\ phase' = "plan"
  /\ UNCHANGED <<program, turn, executionVars, knowledgeVars, completedset, encodingVars>>

\* simplify reads the NULL of a clause, and the checker crashes.
process ==
  /\ Planned /\ completedset' = {}
  /\ encoded' = [r \in ToSet(created) |-> seen[r]] @@ reset.encoded
  /\ groups' = Groups(reset.groups, ToSet(created))
  /\ UNCHANGED <<program, turn, executionVars, knowledgeVars, solution>>
  /\ phase' = IF \E r \in ToSet(created) : HasNullClause(r)' THEN "crashed" ELSE "solve"

solve ==
  /\ phase = "solve" /\ solution = <<>>
  /\ solution' \in SolutionsFrom([r \in DOMAIN encoded |-> CodesOf(r)]) \ {<<>>}
  /\ UNCHANGED <<program, phase, turn, executionVars, knowledgeVars, completedset, encoded, groups>>

\* The next execution, which may follow any solution; if the encoding is used again it
\* comes without a plan.
nextExecution ==
  /\ phase = "solve" \/ (Ended /\ turn > 1)
  /\ StartExecution
  /\ phase' = "run" /\ solution' = <<>>
  /\ UNCHANGED <<program, knowledgeVars, completedset, encoded, groups>>

Init == PlannerInit /\ encoded = <<>> /\ groups = NoGroups /\ solution = <<>>
Next ==
  \/ Step /\ UNCHANGED encodingVars
  \/ Plan
  \/ processChanges /\ UNCHANGED encodingVars
  \/ process \/ solve \/ nextExecution
Fairness == WF_vars(processChanges /\ UNCHANGED encodingVars) /\ WF_vars(process)
Spec == Init /\ [][Next]_vars /\ Fairness

--------------------------------------------------------------------------------
Solved == phase = "solve" /\ solution # <<>>
Only(S) == CHOOSE v \in S : TRUE

\* The result of r in a solution, as a set: empty if its code stands for no value.
Result(r) == At(OutValues(r), solution[r].out)
Operand(o) == IF IsConst(o) THEN {o.val} ELSE {Mask(v + o.val) : v \in Result(o.src)}
Known(r) == \A j \in DOMAIN Op(r).args : Operand(Op(r).args[j]) # {}
In(r) == [j \in DOMAIN Op(r).args |-> Only(Operand(Op(r).args[j]))]

\* Every sum is one that is stored in the group: otherwise the value an RMW stores is anyone's guess.
SumsKnown ==
  \A r \in DOMAIN encoded : Op(r).op = "ADD" /\ IsExecuted(solution, r) /\ Result(r) # {} =>
    NewMemory("ADD", Only(Result(r)), In(r)) \in ToSet(Values(r))

\* In a solution each executed operation does what the program would do with its operands: a load
\* returns what the store it reads from has stored, to the load's address; a store stores its operand
\* where its address says; an RMW, a comparison, a phi and a function the checker has called with these
\* inputs return and store what they would.  The sums of RMWs must be known.
SolutionFollowsCode ==
  Solved /\ SumsKnown => \A r \in DOMAIN encoded : IsExecuted(solution, r) =>
    /\ IsMemory(r) => Operand(Op(r).addr) = {} \/ Operand(Op(r).addr) = At(Addresses(r), solution[r].addr)
    /\ Reads(r) => LET s == solution[r].rf
                   IN /\ Result(r) = At(Values(s), solution[s].mem)
                      /\ At(Addresses(r), solution[r].addr) = At(Addresses(s), solution[s].addr)
    /\ Op(r).type # "PHI" /\ Known(r) =>
         CASE Op(r).type = "STORE" -> Stores(solution, r, In(r)[1])
           [] Op(r).type = "RMW" ->
                Result(r) # {} =>
                  LET new == NewMemory(Op(r).op, Only(Result(r)), In(r))
                  IN Stores(solution, r, new)
           [] Op(r).type = "EQUALS" -> Returns(solution, r, IF In(r)[1] = In(r)[2] THEN 1 ELSE 0)
           [] Op(r).type = "FUNCTION" ->
                \A g \in ToSet(Goals(r)) : g.in = In(r) => Returns(solution, r, g.out)
           [] OTHER -> TRUE
    /\ Op(r).type = "PHI" =>
         \A o \in ToSet(Op(r).args) : o.src \in DOMAIN encoded /\ IsExecuted(solution, o.src) => Result(r) = Result(o.src)

\* The goals of a solution are worth an execution: a function whose code is that of a new result has
\* inputs it has never been called with, and an RMW that claims a new sum adds to one no store stores.
NewGoalsAreNew ==
  Solved => \A r \in DOMAIN encoded : IsExecuted(solution, r) =>
    /\ Op(r).type = "FUNCTION" /\ IsNewResult(solution, r) /\ Known(r) =>
         \A g \in ToSet(Goals(r)) : g.in # In(r)
    /\ Op(r).type = "RMW" /\ Op(r).op = "ADD" /\ Result(r) # {} /\ solution[r].new =>
         NewMemory("ADD", Only(Result(r)), In(r)) \notin ToSet(Values(r))

\* The codes of what this execution did.
IndexOf(s, v) == (CHOOSE i \in DOMAIN s : s[i] = v) - 1
Did(r) ==
  {c \in CodesOf(r) :
     /\ IsMemory(r) => c.addr = IndexOf(Addresses(r), event[r][ADDR])
     /\ Writes(r) => c.mem = IndexOf(Values(r), event[r][StoreIndex(r)])
     /\ Reads(r) => c.out = IndexOf(Values(r), event[r][RF])
     /\ Op(r).type \in {"FUNCTION", "EQUALS"} => c.out = IndexOf(OutValues(r), event[r][FUNCOUT])
     /\ Op(r).type = "PHI" => c.out = IndexOf(OutValues(r), event[r][BASE])
     /\ Op(r).type = "BRANCHDIR" => c.dir = IF event[r][BASE] \in encoded[r] THEN event[r][BASE] ELSE NewDirection}

\* An execution that records nothing new is a solution of the last encoding: the solver cannot have
\* ruled it out.
ExecutionIsSolution ==
  (Ended /\ turn > 1 /\ tables.changeset = <<>> /\ DOMAIN event \subseteq DOMAIN encoded) =>
    SolutionsFrom([r \in DOMAIN encoded |-> IF r \in DOMAIN event THEN Did(r) ELSE CodesOf(r)]) # {}

\* The planner comes to an end, although values go round in circles.
PlanEnds == (phase = "plan") ~> (phase # "plan")
================================================================================
