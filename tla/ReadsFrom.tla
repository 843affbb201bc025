------------------------------- MODULE ReadsFrom -------------------------------
(***************************************************************************)
(* Which store a load reads from, in the encoding (src/loadrf.cc, and      *)
(* getMayReadFromSet and computeConflictSet of src/constgen.cc).  A load   *)
(* has a code for the store it reads from; clauses say that this store has *)
(* been executed, has the load's address and value, comes before the load  *)
(* and is not followed by another store to the address before the load.    *)
(* Stores that cannot matter are left out of the clauses.                  *)
(*                                                                         *)
(* The order of the operations is that of OrderEncoding.  Values are left  *)
(* out: a load that is executed has that of the store it reads from.  The  *)
(* directions of the branches are any, whatever the loads return.          *)
(***************************************************************************)
EXTENDS OrderEncoding, SequencesExt

CONSTANT MoreAddresses  \* an operation's addresses but the first: <<operation, location>>

VARIABLES
  recorded,  \* the stores, in the order in which the store tables hold them
  reads      \* the clauses of the loads: the stores, in the order of their codes, and
             \* for each of them the stores that must not come between

vars == <<decided, recorded, reads>>

Reader == {a \in Action : Kind(a) \in {"LOAD", "RMW"}}
Writer == {a \in Action : Kind(a) \in {"STORE", "RMW"}}
Fence  == {a \in Action : Kind(a) = "FENCE"}

Addresses ==
  [a \in Reader \cup Writer |-> {Code[a.tid][a.point].loc} \cup {l \in Loc : <<a, l>> \in MoreAddresses}]

\* The programs have no loops, and executions have recorded no more than their tables hold.
ASSUME ReadsFromAssumption ==
  /\ MoreAddresses \subseteq (Reader \cup Writer) \X Loc /\ IsFiniteSet(MoreAddresses)
  /\ \A t \in Tid : DOMAIN Code[t] \subseteq BlockPoint
  /\ IsFiniteSet(Action) /\ Cardinality(Action) < 2^30

IsTrue(a, b) == <<a, b>> \in TruePairs
IsFalse(a, b) == <<a, b>> \notin TruePairs \cup VariablePairs

\* The bits of a number of 32 bits without its leading zeros.
NumBits(x) == CHOOSE n \in 0 .. 32 : x < 2^n /\ \A m \in 0 .. n - 1 : 2^m <= x

\* The directions an operation needs: pairs of a branch and a direction.
Guards ==
  [a \in Action |->
     {<<[tid |-> a.tid, point |-> SubSeq(a.point, 1, i - 1)], a.point[i].val>> :
        i \in {j \in DOMAIN a.point : a.point[j].type = "BRANCH"}}]
Branches == {g[1] : g \in UNION {Guards[a] : a \in Action}}

\* subsumesExecutionConstraint: if b is executed, so is a.
Subsumes(a, b) == Guards[a] \subseteq Guards[b]

--------------------------------------------------------------------------------
\* getMayReadFromSetOpt: the load's thread has always stored to the load's only address here.
LatestOwn(load) ==
  {s \in Writer : /\ <<s, load>> \in AfterPairs
                  /\ isAlwaysExecuted(s) /\ Addresses[s] = Addresses[load]}

\* getMayReadFromSet, and getMayReadFromSetOpt for a load of one address.
getMayReadFromSet(load) ==
  {s \in Writer :
     /\ Addresses[s] \cap Addresses[load] # {}
     /\ s.tid # load.tid \/ <<s, load>> \in AfterPairs
     /\ Cardinality(Addresses[load]) = 1 /\ s.tid = load.tid =>
          ~\E latest \in LatestOwn(load) : <<s, latest>> \in AfterPairs}

\* d is always between the store and c, or between c and the load.
AlwaysBetween(store, load, c, d) ==
  \/ IsTrue(store, c) /\ IsTrue(store, d) /\ IsTrue(d, c)
  \/ IsTrue(c, load) /\ IsTrue(c, d) /\ IsTrue(d, load)

\* Fault: the other store may be to another address.
Redundant_any_address(store, load, common, c, stores) ==
  \E d \in stores : common \in Addresses[d] /\ Subsumes(d, c) /\ AlwaysBetween(store, load, c, d)

\* c need not be looked at: another store, which is to the common address for certain and is
\* executed if c is, is in the way as well.
Redundant(store, load, common, c, stores) ==
  \E d \in stores : Addresses[d] = {common} /\ Subsumes(d, c) /\ AlwaysBetween(store, load, c, d)

\* The stores are looked at in the order in which the set holds them; one that is
\* removed no longer makes others redundant.
computeConflictSet(store, load, stores) ==
  LET common == Addresses[store] \cap Addresses[load]
      left[n \in 0 .. Len(stores)] ==
        IF n = 0 THEN ToSet(stores)
        ELSE IF Redundant(store, load, CHOOSE l \in common : TRUE, stores[n], left[n - 1])
             THEN left[n - 1] \ {stores[n]} ELSE left[n - 1]
  IN IF Cardinality(common) # 1 THEN ToSet(stores) ELSE left[Len(stores)]

\* Whether a store comes before the load: the load sees its own thread's stores from
\* program order on, in a TSO build also those in the buffer.
Sees(load, store) ==
  IF store.tid = load.tid THEN <<store, load>> \in AfterPairs ELSE Before(store, load)

\* genConstraints: the stores a load may read from, in the order of their codes, and for
\* each of them those that must not come between.
genConstraints(load) ==
  LET found[n \in 0 .. Len(recorded)] ==
        IF n = 0 THEN <<>>
        ELSE IF recorded[n] \in getMayReadFromSet(load)
             THEN Append(found[n - 1], recorded[n]) ELSE found[n - 1]
      stores == found[Len(recorded)]
  IN [stores    |-> stores,
      conflicts |-> [i \in DOMAIN stores |->
                       {c \in computeConflictSet(stores[i], load, stores) : ~IsFalse(stores[i], c)}]]

\* Fault: no code is left for a load that is not executed.
RfBits_exact(load) == NumBits(Len(reads[load].stores) - 1)
RfBits(load) == NumBits(Len(reads[load].stores))

--------------------------------------------------------------------------------
Executed(a, d) == \A g \in Guards[a] : d[g[1]] = g[2]

\* The clauses storeaddressmatch, confstore and validrf hold of code i.
Allowed(load, i, d, ad) ==
  LET r == reads[load]
  IN /\ i < Len(r.stores) =>
          LET s == r.stores[i + 1]
          IN /\ Sees(load, s) /\ Executed(s, d) /\ ad[s] = ad[load]
             /\ \A c \in r.conflicts[i + 1] :
                  (Before(s, c) /\ Sees(load, c) /\ Executed(c, d)) => ad[c] # ad[load]
     /\ Executed(load, d) => i < Len(r.stores)

\* The clause of a fence in a branch body: if it is executed, the last store listed before it
\* comes before the first load listed after it.  Other fences have no pairs that may pass them.
ListedLast(S)  == CHOOSE a \in S : \A b \in S \ {a} : Listed(b, a)
ListedFirst(S) == CHOOSE a \in S : \A b \in S \ {a} : Listed(a, b)

\* Fault: the clause is that of the first store.
processFence_first(f, d) ==
  LET stores == {s \in Action : Kind(s) = "STORE" /\ Listed(s, f)}
      loads  == {l \in Action : Kind(l) = "LOAD" /\ Listed(f, l)}
  IN (~isAlwaysExecuted(f) /\ stores # {} /\ loads # {} /\ Executed(f, d))
       => Before(ListedFirst(stores), ListedFirst(loads))

processFence(f, d) ==
  LET stores == {s \in Action : Kind(s) = "STORE" /\ Listed(s, f)}
      loads  == {l \in Action : Kind(l) = "LOAD" /\ Listed(f, l)}
  IN (~isAlwaysExecuted(f) /\ stores # {} /\ loads # {} /\ Executed(f, d))
       => Before(ListedLast(stores), ListedFirst(loads))

RfCodes(load) == 0 .. 2^RfBits(load) - 1

Directions == [Branches -> {0, 1}]
Locations == {ad \in [Reader \cup Writer -> Loc] : \A a \in DOMAIN ad : ad[a] \in Addresses[a]}

generate ==
  /\ reads = <<>>
  /\ reads' = [load \in Reader |-> genConstraints(load)]
  /\ UNCHANGED <<decided, recorded>>

\* The solver decides the order first.
decide == reads # <<>> /\ Decide /\ UNCHANGED <<recorded, reads>>

\* A store is put in the table when it is first executed.
RecordedFirst(a, b) == Subsumes(a, b) /\ <<a, b>> \in TruePairs \cup AfterPairs
Recordings ==
  {order \in SetToSeqs(Writer) : \A i, j \in DOMAIN order : RecordedFirst(order[i], order[j]) => i < j}

RfInit == Init /\ recorded \in Recordings /\ reads = <<>>
RfNext == generate \/ decide
RfSpec == RfInit /\ [][RfNext]_vars

--------------------------------------------------------------------------------
\* The orders SolutionIsOrder and ExecutionIsSolution are about, but for the fences: a load may pass
\* a store although there is a fence between them that is not executed.
OrderFound ==
  /\ reads # <<>>
  /\ Complete
  /\ \A a, b, c \in Reader \cup Writer : Precedes(a, b) /\ Precedes(b, c) => Precedes(a, c)

\* The stores the load can see, by the memory model.
Visible(load, d, ad) ==
  {s \in Writer : /\ Executed(s, d) /\ ad[s] = ad[load] /\ s # load
                  /\ Before(s, load) \/ <<s, load>> \in AfterPairs}
ReadsLatest(load, s, d, ad) ==
  /\ s \in Visible(load, d, ad)
  /\ \A c \in Visible(load, d, ad) \ {s} : Before(c, s)

\* In a solution every load that is executed has the code of a store, and of the last one to its
\* address that it can see: in memory or, in a TSO build, in the buffer of its own thread.  No clause
\* that is left out is missed.
LoadsReadLatest ==
  OrderFound => \A d \in Directions, ad \in Locations, l \in Reader : \A i \in RfCodes(l) :
    Allowed(l, i, d, ad) /\ Executed(l, d) =>
      i < Len(reads[l].stores) /\ ReadsLatest(l, reads[l].stores[i + 1], d, ad)

\* No clause, and no store that is left out, hides an execution: in every order, for all directions and
\* addresses, a load that is executed may have the code of the last store it can see, and one that is not
\* executed has a code as well.  A load that sees no store is left aside: the program initialises what it reads.
LatestCanBeRead ==
  OrderFound => \A d \in Directions, ad \in Locations, l \in Reader :
    \/ Executed(l, d) /\ Visible(l, d, ad) = {}
    \/ \E i \in RfCodes(l) :
         /\ Allowed(l, i, d, ad)
         /\ Executed(l, d) => ReadsLatest(l, reads[l].stores[i + 1], d, ad)

\* An executed fence keeps the loads after it behind the stores before it, though there is one clause
\* for all of them, and its store may be in a body that is not executed.
FencesDrain ==
  OrderFound => \A d \in Directions, f \in Fence : (processFence(f, d) /\ Executed(f, d)) =>
    \A s \in Writer, l \in Reader :
      <<s, f>> \in AfterPairs /\ <<f, l>> \in AfterPairs => Before(s, l)
================================================================================
