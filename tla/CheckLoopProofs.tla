---------------------------- MODULE CheckLoopProofs ----------------------------
(***************************************************************************)
(* The loop of MC::check, for any number of threads, records and           *)
(* behaviours: what it has recorded when it says "Finished!" is all there  *)
(* is.                                                                     *)
(***************************************************************************)
EXTENDS CheckLoop, FiniteSetTheorems, TLAPS

\* Where the threads are.
Current == {at[t] : t \in Thread}

OnItsWay == \A t \in Thread : at[t] # Nil => at[t] \in Reached(behaviour, t, Everything)

\* What a thread has executed is recorded, from its first record to where it is.
Recorded ==
  \A t \in Thread : \E D \in SUBSET Record :
    /\ First[t] \in D \cup {at[t]}
    /\ \A r \in D : Pair(r, behaviour) \in known /\ Succ[r][behaviour[r]] \in D \cup {at[t], Nil}

\* What follows something recorded has been executed, or is about to be.
FollowedUp ==
  /\ \A t \in Thread : First[t] \in seen \cup Current
  /\ \A r \in Branch : \A v \in Value : <<r, v>> \in known => Succ[r][v] \in seen \cup Current \cup {Nil}
  /\ \A f \in Function \cap seen : \A v \in Value : Succ[f][v] \in seen \cup Current \cup {Nil}

KnownDirections == \A p \in known : p[1] \in Branch => p[2] < NumDirs[p[1]]

\* An execution process has scheduled leaves the encoding.
Leaves == fresh /\ ~finished => Frontier(behaviour, encoded) # {}

HasStopped == finished => Ended /\ Stop

IInv ==
  /\ TypeOK
  /\ OnItsWay
  /\ Recorded
  /\ FollowedUp
  /\ KnownDirections
  /\ Leaves
  /\ HasStopped
  /\ OpenGoalsUnachieved

--------------------------------------------------------------------------------
(***************************************************************************)
(* What a behaviour reaches.                                               *)
(***************************************************************************)
LEMMA BehaviourTyped ==
  ASSUME NEW b \in Behaviour, NEW r \in Record
  PROVE  /\ b \in [Record -> Value] /\ b[r] \in Value
         /\ Succ[r][b[r]] \in Record \cup {Nil}
         /\ Goals[r] \in Record /\ Pair(r, b) \in Everything
<1>1. b \in [Record -> Value] /\ b[r] \in Value
  BY DEF Behaviour
<1>2. Succ[r] \in [Value -> Record \cup {Nil}] /\ Goals[r] \in Record
  BY LoopAssumption
<1>3. Succ[r][b[r]] \in Record \cup {Nil}
  BY <1>1, <1>2
<1> QED
  BY <1>1, <1>2, <1>3 DEF Pair, Everything

LEMMA ReachedFirst ==
  ASSUME NEW b, NEW t \in Thread, NEW K
  PROVE  First[t] \in Reached(b, t, K)
<1>1. First[t] \in Record
  BY LoopAssumption
<1> QED
  BY <1>1 DEF Reached

LEMMA ReachedNext ==
  ASSUME NEW b \in Behaviour, NEW t \in Thread, NEW K, NEW r \in Reached(b, t, K),
         Pair(r, b) \in K, Succ[r][b[r]] # Nil
  PROVE  Succ[r][b[r]] \in Reached(b, t, K)
<1> DEFINE n == Succ[r][b[r]]
<1>1. r \in Record
  BY DEF Reached
<1>2. n \in Record
  BY <1>1, BehaviourTyped
<1>3. ASSUME NEW S \in SUBSET (Record \ {n}), First[t] \in S, Closed(S, b, K) PROVE FALSE
  <2>1. r \in S
    <3> SUFFICES ASSUME r \notin S PROVE FALSE
      OBVIOUS
    <3>1. S \in SUBSET (Record \ {r})
      OBVIOUS
    <3> QED BY <1>3, <3>1 DEF Reached
  <2>2. n \in S
    BY <1>3, <2>1 DEF Closed
  <2> QED BY <2>2
<1> QED
  BY <1>2, <1>3 DEF Reached

LEMMA ReachedLeast ==
  ASSUME NEW b, NEW t \in Thread, NEW K, NEW S \in SUBSET Record, First[t] \in S, Closed(S, b, K)
  PROVE  Reached(b, t, K) \subseteq S
<1> SUFFICES ASSUME NEW r \in Reached(b, t, K), r \notin S PROVE FALSE
  OBVIOUS
<1>1. S \in SUBSET (Record \ {r})
  OBVIOUS
<1> QED
  BY <1>1 DEF Reached

LEMMA ReachedGrows ==
  ASSUME NEW b \in Behaviour, NEW t \in Thread, NEW K, NEW L, K \subseteq L
  PROVE  Reached(b, t, K) \subseteq Reached(b, t, L)
<1>1. Reached(b, t, L) \in SUBSET Record /\ First[t] \in Reached(b, t, L)
  BY ReachedFirst DEF Reached
<1>2. Closed(Reached(b, t, L), b, K)
  BY ReachedNext DEF Closed
<1> QED
  BY <1>1, <1>2, ReachedLeast

\* A branch that is executed takes one of its directions.
LEMMA DirectionTaken ==
  ASSUME NEW b \in Behaviour, NEW t \in Thread, NEW r \in Reached(b, t, Everything), r \in Branch
  PROVE  b[r] \in 0 .. NumDirs[r] - 1 /\ NumDirs[r] \in Nat /\ Pair(r, b) = <<r, b[r]>>
<1>1. r \in Record /\ b[r] \in Value /\ b[r] \in Nat
  BY BehaviourTyped, LoopAssumption DEF Reached
<1>2. b[r] < NumDirs[r]
  BY <1>1 DEF Behaviour
<1>3. NumDirs[r] \in Nat /\ Goals[r] = r
  BY <1>1, LoopAssumption
<1> QED
  BY <1>1, <1>2, <1>3 DEF Pair

\* Without its goal a branch has taken every direction.
LEMMA DirectionsCounted ==
  ASSUME known \subseteq Everything, KnownDirections, NEW r \in Branch, NumDirs[r] \in Nat,
         NEW d \in 0 .. NumDirs[r] - 1, <<r, d>> \notin known
  PROVE  Cardinality(Directions(r)) < NumDirs[r]
<1> DEFINE N == NumDirs[r]
           V == (0 .. N - 1) \ {d}
           D == Directions(r)
           g == [p \in D |-> p[2]]
<1>1. IsFiniteSet(0 .. N - 1) /\ Cardinality(0 .. N - 1) = N /\ N \in Nat \ {0}
  <2>1. N \in Nat \ {0} /\ 0 \in Int /\ N - 1 \in Int /\ ~(0 > N - 1) /\ (N - 1) - 0 + 1 = N
    OBVIOUS
  <2> HIDE DEF N
  <2> QED BY <2>1, FS_Interval
<1>2. IsFiniteSet(V) /\ Cardinality(V) = N - 1
  <2> DEFINE U == 0 .. N - 1
  <2>1. IsFiniteSet(U) /\ Cardinality(U) = N /\ d \in U
    BY <1>1
  <2> HIDE DEF U
  <2>2. IsFiniteSet(U \ {d}) /\ Cardinality(U \ {d}) = N - 1
    BY <2>1, FS_RemoveElement
  <2> QED BY <2>2 DEF U
<1>3. ASSUME NEW p \in D PROVE p = <<r, p[2]>> /\ p[2] \in V
  <2>1. p \in known /\ p[1] = r /\ p \in Record \X Value
    BY DEF Directions, Everything
  <2>2. p = <<r, p[2]>> /\ p[2] \in Value
    BY <2>1
  <2>3. p[2] \in Nat /\ p[2] < N
    BY <2>1, <2>2, LoopAssumption DEF KnownDirections
  <2>4. p[2] # d
    BY <2>1, <2>2
  <2> QED BY <2>2, <2>3, <2>4
<1>4. g \in Injection(D, V)
  <2>1. g \in [D -> V]
    BY <1>3
  <2>2. ASSUME NEW p \in D, NEW q \in D, g[p] = g[q] PROVE p = q
    <3>1. p[2] = q[2]
      BY <2>2
    <3> HIDE DEF D
    <3> QED BY <1>3, <3>1
  <2> HIDE DEF g
  <2> QED BY <2>1, <2>2 DEF Injection, IsInjective
<1>5. IsFiniteSet(D) /\ Cardinality(D) <= Cardinality(V)
  <2> HIDE DEF D, V, g
  <2> QED BY <1>2, <1>4, FS_Injection
<1>6. Cardinality(D) \in Nat
  BY <1>5, FS_CardinalityType
<1> QED
  BY <1>1, <1>2, <1>5, <1>6

--------------------------------------------------------------------------------
(***************************************************************************)
(* When the search is over.                                                *)
(***************************************************************************)
\* Between two executions everything that is reached by way of recorded values has been executed.
LEMMA ReachedSeen ==
  ASSUME TypeOK, FollowedUp, Ended, NEW b \in Behaviour, NEW t \in Thread
  PROVE  Reached(b, t, known) \subseteq seen
<1>1. seen \in SUBSET Record /\ First[t] \in Record /\ Nil \notin Record
  BY LoopAssumption DEF TypeOK
<1>2. \A x \in Current : x = Nil
  BY DEF Ended, Current
<1>3. First[t] \in seen
  BY <1>1, <1>2 DEF FollowedUp
<1>4. ASSUME NEW r \in seen, Pair(r, b) \in known, Succ[r][b[r]] # Nil PROVE Succ[r][b[r]] \in seen
  <2>1. r \in Record /\ b[r] \in Value
    BY <1>1, BehaviourTyped
  <2>2. CASE r \in Branch
    <3>1. Pair(r, b) = <<r, b[r]>>
      BY <2>1, <2>2, LoopAssumption DEF Pair
    <3> QED BY <1>2, <1>4, <2>1, <2>2, <3>1 DEF FollowedUp
  <2>3. CASE r \in Function
    BY <1>2, <1>4, <2>1, <2>3 DEF FollowedUp
  <2> QED BY <2>1, <2>2, <2>3 DEF Record
<1>5. Closed(seen, b, known)
  BY <1>4 DEF Closed
<1> QED
  BY <1>1, <1>3, <1>5, ReachedLeast

\* A behaviour that leaves what is recorded does so at a record with a goal.
LEMMA FrontierHasGoal ==
  ASSUME TypeOK, FollowedUp, KnownDirections, Ended, NEW b \in Behaviour
  PROVE  Frontier(b, known) \subseteq NewGoals
<1> SUFFICES ASSUME NEW t \in Thread, NEW r \in Reached(b, t, known), Pair(r, b) \notin known
             PROVE  r \in NewGoals
  BY DEF Frontier
<1>1. r \in seen
  BY ReachedSeen
<1>2. known \subseteq Everything
  BY DEF TypeOK
<1>3. ASSUME r \in Branch PROVE Cardinality(Directions(r)) < NumDirs[r]
  <2>1. r \in Reached(b, t, Everything)
    BY <1>2, ReachedGrows
  <2>2. b[r] \in 0 .. NumDirs[r] - 1 /\ NumDirs[r] \in Nat /\ <<r, b[r]>> \notin known
    BY <1>3, <2>1, DirectionTaken
  <2> QED BY <1>2, <1>3, <2>2, DirectionsCounted
<1> QED
  BY <1>1, <1>3 DEF NewGoals

\* Without a branch that has a goal every branch that any behaviour executes has been seen.
LEMMA BranchesSeen ==
  ASSUME TypeOK, FollowedUp, KnownDirections, Ended, ~HasUntakenBranches,
         NEW b \in Behaviour, NEW t \in Thread
  PROVE  \A r \in Reached(b, t, Everything) : r \in seen /\ (r \in Branch => Pair(r, b) \in known)
<1> DEFINE R == Reached(b, t, Everything)
<1>1. known \subseteq Everything /\ seen \in SUBSET Record /\ First[t] \in Record /\ Nil \notin Record
  BY LoopAssumption DEF TypeOK
<1>2. \A x \in Current : x = Nil
  BY DEF Ended, Current
<1>3. First[t] \in seen \cap R
  BY <1>1, <1>2, ReachedFirst DEF FollowedUp
<1>4. ASSUME NEW r \in seen \cap R, r \in Branch PROVE <<r, b[r]>> \in known /\ Pair(r, b) = <<r, b[r]>>
  <2>1. b[r] \in 0 .. NumDirs[r] - 1 /\ NumDirs[r] \in Nat /\ Pair(r, b) = <<r, b[r]>>
    BY <1>4, DirectionTaken
  <2>2. ~(Cardinality(Directions(r)) < NumDirs[r])
    BY <1>4 DEF HasUntakenBranches, NewGoals
  <2> QED BY <1>1, <1>4, <2>1, <2>2, DirectionsCounted
<1>5. ASSUME NEW r \in seen \cap R, Succ[r][b[r]] # Nil PROVE Succ[r][b[r]] \in seen \cap R
  <2>1. r \in Record /\ b[r] \in Value /\ Pair(r, b) \in Everything
    BY <1>1, BehaviourTyped
  <2>2. Succ[r][b[r]] \in R
    BY <1>5, <2>1, ReachedNext
  <2>3. CASE r \in Branch
    BY <1>2, <1>4, <1>5, <2>1, <2>2, <2>3 DEF FollowedUp
  <2>4. CASE r \in Function
    BY <1>2, <1>5, <2>1, <2>2, <2>4 DEF FollowedUp
  <2> QED BY <2>1, <2>3, <2>4 DEF Record
<1>6. R \subseteq seen \cap R
  <2>1. Closed(seen \cap R, b, Everything) /\ seen \cap R \in SUBSET Record
    BY <1>1, <1>5 DEF Closed
  <2> HIDE DEF R
  <2>2. Reached(b, t, Everything) \subseteq seen \cap R
    BY <1>3, <2>1, ReachedLeast
  <2> QED BY <2>2 DEF R
<1> QED
  BY <1>4, <1>6

LEMMA StopIsComplete ==
  ASSUME TypeOK, FollowedUp, KnownDirections, HasStopped
  PROVE  SearchIsComplete
<1> SUFFICES ASSUME finished, NEW b \in feasible
             PROVE  IF branches
                    THEN \A r \in UNION {Reached(b, t, Everything) : t \in Thread} :
                           r \in Branch => Pair(r, b) \in known
                    ELSE Frontier(b, known) = {}
  BY DEF SearchIsComplete
<1>1. b \in Behaviour /\ Ended /\ Stop
  BY DEF TypeOK, HasStopped
<1>2. CASE NewGoals = {} \/ IsUnsat(known, NewGoals)
  <2>1. Frontier(b, known) \subseteq NewGoals
    BY <1>1, FrontierHasGoal
  <2>2. Frontier(b, known) = {}
    BY <1>2, <2>1 DEF IsUnsat
  <2>3. ASSUME NEW t \in Thread, NEW r \in Reached(b, t, Everything) PROVE Pair(r, b) \in known
    <3>1. \A q \in Reached(b, t, known) : Pair(q, b) \in known
      BY <2>2 DEF Frontier
    <3>2. Closed(Reached(b, t, known), b, Everything)
      BY <1>1, <3>1, ReachedNext DEF Closed
    <3>3. Reached(b, t, known) \in SUBSET Record /\ First[t] \in Reached(b, t, known)
      BY ReachedFirst DEF Reached
    <3> QED BY <3>1, <3>2, <3>3, ReachedLeast
  <2> QED BY <2>2, <2>3
<1>3. CASE branches /\ ~HasUntakenBranches
  BY <1>1, <1>3, BranchesSeen
<1> QED
  BY <1>1, <1>2, <1>3 DEF Stop

--------------------------------------------------------------------------------
(***************************************************************************)
(* The steps.                                                              *)
(***************************************************************************)
LEMMA InitIInv == Init => IInv
<1> SUFFICES ASSUME Init PROVE IInv
  OBVIOUS
<1>1. PICK some \in [1 .. MaxFeasible -> Behaviour] : feasible = {some[i] : i \in 1 .. MaxFeasible}
  BY DEF Init
<1>2. feasible \in SUBSET Behaviour /\ behaviour \in feasible /\ at = First /\ First \in [Thread -> Record]
  BY <1>1, LoopAssumption DEF Init
<1>3. branches \in BOOLEAN
  BY DEF Init, parse_options, param_defaults
<1>4. /\ known = {} /\ seen = {} /\ encoded = {} /\ goalset = {} /\ open = {}
      /\ solver = FALSE /\ finished = FALSE /\ fresh = FALSE
  BY DEF Init
<1>5. TypeOK
  BY <1>2, <1>3, <1>4 DEF TypeOK
<1>6. OnItsWay
  BY <1>2, ReachedFirst DEF OnItsWay
<1>7. Recorded
  <2> SUFFICES ASSUME NEW t \in Thread
               PROVE  \E D \in SUBSET Record :
                        /\ First[t] \in D \cup {at[t]}
                        /\ \A r \in D : Pair(r, behaviour) \in known /\ Succ[r][behaviour[r]] \in D \cup {at[t], Nil}
    BY DEF Recorded
  <2> WITNESS {} \in SUBSET Record
  <2> QED BY <1>2
<1>8. FollowedUp
  BY <1>2, <1>4 DEF FollowedUp, Current
<1>9. KnownDirections /\ Leaves /\ HasStopped /\ OpenGoalsUnachieved
  BY <1>4 DEF KnownDirections, Leaves, HasStopped, OpenGoalsUnachieved
<1> QED
  BY <1>5, <1>6, <1>7, <1>8, <1>9 DEF IInv

\* The value of a record becomes known and the thread goes on.
LEMMA RecordIInv ==
  ASSUME IInv, NEW t \in Thread, NEW r \in Record, RecordValue(t, r), achievedGoal(r)
  PROVE  IInv'
<1> DEFINE next == Succ[r][behaviour[r]]
<1>1. /\ at[t] = r /\ seen' = seen \cup {r} /\ known' = known \cup {Pair(r, behaviour)}
      /\ at' = [at EXCEPT ![t] = next]
      /\ UNCHANGED <<feasible, branches, encoded, goalset, solver, finished, fresh, behaviour>>
      /\ open' = IF Pair(r, behaviour) \in known THEN open ELSE open \ {r}
  BY DEF RecordValue, achievedGoal
<1>2. /\ behaviour \in feasible /\ behaviour \in Behaviour /\ feasible \in SUBSET Behaviour
      /\ at \in [Thread -> Record \cup {Nil}] /\ Nil \notin Record
      /\ seen \subseteq Record /\ known \subseteq Everything
  BY LoopAssumption DEF IInv, TypeOK
<1>3. next \in Record \cup {Nil} /\ behaviour[r] \in Value /\ Pair(r, behaviour) \in Everything
  BY <1>2, BehaviourTyped
<1> HIDE DEF next
<1>4. at'[t] = next /\ \A u \in Thread \ {t} : at'[u] = at[u]
  BY <1>1, <1>2
<1>5. TypeOK'
  <2>1. seen' \subseteq Record /\ known' \subseteq Everything /\ at' \in [Thread -> Record \cup {Nil}]
    BY <1>1, <1>2, <1>3
  <2>2. open' \subseteq goalset' /\ encoded' \subseteq known'
    BY <1>1 DEF IInv, TypeOK
  <2> QED BY <1>1, <2>1, <2>2 DEF IInv, TypeOK
<1>6. r \in Reached(behaviour, t, Everything)
  BY <1>1, <1>2 DEF IInv, OnItsWay
<1>7. OnItsWay'
  <2> SUFFICES ASSUME NEW u \in Thread, at'[u] # Nil
               PROVE  at'[u] \in Reached(behaviour, u, Everything)
    BY <1>1 DEF OnItsWay
  <2>1. CASE u = t
    BY <1>2, <1>3, <1>4, <1>6, <2>1, ReachedNext DEF next
  <2>2. CASE u # t
    BY <1>4, <2>2 DEF IInv, OnItsWay
  <2> QED BY <2>1, <2>2
<1>8. Recorded'
  <2> SUFFICES ASSUME NEW u \in Thread
               PROVE  \E D \in SUBSET Record :
                        /\ First[u] \in D \cup {at'[u]}
                        /\ \A q \in D : Pair(q, behaviour) \in known' /\ Succ[q][behaviour[q]] \in D \cup {at'[u], Nil}
    BY <1>1 DEF Recorded
  <2>1. PICK D \in SUBSET Record :
          /\ First[u] \in D \cup {at[u]}
          /\ \A q \in D : Pair(q, behaviour) \in known /\ Succ[q][behaviour[q]] \in D \cup {at[u], Nil}
    BY DEF IInv, Recorded
  <2>2. CASE u = t
    <3>1. First[u] \in (D \cup {r}) \cup {at'[u]}
      BY <1>1, <2>1, <2>2
    <3>2. ASSUME NEW q \in D \cup {r}
          PROVE  Pair(q, behaviour) \in known' /\ Succ[q][behaviour[q]] \in (D \cup {r}) \cup {at'[u], Nil}
      BY <1>1, <1>4, <2>1, <2>2 DEF next
    <3> QED BY <3>1, <3>2
  <2>3. CASE u # t
    BY <1>1, <1>4, <2>1, <2>3
  <2> QED BY <2>2, <2>3
<1>9. FollowedUp'
  <2> DEFINE Old == seen \cup Current
             New == seen' \cup Current'
  <2>1. Old \subseteq New /\ next \in New /\ Current' = {at'[u] : u \in Thread}
    BY <1>1, <1>4 DEF Current
  <2> HIDE DEF Old, New
  <2>2. \A u \in Thread : First[u] \in New
    BY <2>1 DEF IInv, FollowedUp, Old
  <2>3. ASSUME NEW q \in Branch, NEW v \in Value, <<q, v>> \in known' PROVE Succ[q][v] \in New \cup {Nil}
    <3>1. CASE <<q, v>> \in known
      BY <2>1, <3>1 DEF IInv, FollowedUp, Old
    <3>2. CASE <<q, v>> = Pair(r, behaviour)
      <4>1. Goals[r] = q /\ v = behaviour[r]
        BY <3>2 DEF Pair
      <4>2. Goals[r] = r
        BY <4>1, LoopAssumption
      <4> QED BY <2>1, <4>1, <4>2 DEF next
    <3> QED BY <1>1, <2>3, <3>1, <3>2
  <2>4. ASSUME NEW f \in Function \cap seen', NEW v \in Value PROVE Succ[f][v] \in New \cup {Nil}
    <3>1. CASE f \in seen
      BY <2>1, <3>1 DEF IInv, FollowedUp, Old
    <3>2. CASE f = r
      <4>1. Succ[f][v] = next
        BY <1>3, <3>2, LoopAssumption DEF next
      <4> QED BY <2>1, <4>1
    <3> QED BY <1>1, <3>1, <3>2
  <2> QED BY <2>2, <2>3, <2>4 DEF FollowedUp, New
<1>10. KnownDirections'
  <2> SUFFICES ASSUME NEW p \in known', p[1] \in Branch PROVE p[2] < NumDirs[p[1]]
    BY DEF KnownDirections
  <2>1. CASE p \in known
    BY <2>1 DEF IInv, KnownDirections
  <2>2. CASE p = Pair(r, behaviour)
    <3>1. p[1] = Goals[r] /\ p[2] = behaviour[r]
      BY <2>2 DEF Pair
    <3>2. r \in Branch /\ p[1] = r
      BY <3>1, LoopAssumption
    <3>3. behaviour[r] \in 0 .. NumDirs[r] - 1 /\ NumDirs[r] \in Nat
      BY <1>2, <1>6, <3>2, DirectionTaken
    <3> QED BY <3>1, <3>2, <3>3
  <2> QED BY <1>1, <2>1, <2>2
<1>11. ~finished
  BY <1>1, <1>2 DEF IInv, HasStopped, Ended
<1>12. Leaves' /\ HasStopped'
  BY <1>1, <1>11 DEF IInv, Leaves, HasStopped, Frontier
<1>13. OpenGoalsUnachieved'
  <2> SUFFICES ASSUME NEW q \in open', \A x \in Record \ {q} : Goals[x] # Goals[q],
                      NEW p \in known', p[1] = Goals[q]
               PROVE  p \in encoded
    BY <1>1 DEF OpenGoalsUnachieved
  <2>1. q \in open
    BY <1>1
  <2>2. p \in known => p \in encoded
    BY <2>1 DEF IInv, OpenGoalsUnachieved
  <2>3. ASSUME p = Pair(r, behaviour), p \notin known PROVE FALSE
    <3>1. Goals[r] = Goals[q] /\ r # q
      BY <1>1, <2>3 DEF Pair
    <3> QED BY <3>1
  <2> QED BY <1>1, <2>2, <2>3
<1> QED
  BY <1>5, <1>7, <1>8, <1>9, <1>10, <1>12, <1>13 DEF IInv

\* The next execution starts, and does not end within the encoding.
LEMMA RunStarts ==
  ASSUME IInv, Ended, NEW b, NEW K, Run(b, K), UNCHANGED <<feasible, known, seen>>
  PROVE  /\ behaviour' \in feasible /\ at' \in [Thread -> Record \cup {Nil}]
         /\ OnItsWay' /\ Recorded' /\ FollowedUp'
         /\ Frontier(behaviour', K) # {}
<1>1. PICK e \in feasible :
        /\ \E t \in Thread :
             /\ Frontier(b, K) \cap Reached(b, t, K) # {}
             /\ Reached(e, t, K) = Reached(b, t, K)
             /\ \A r \in Reached(b, t, K) : e[r] = b[r]
        /\ behaviour' = e
        /\ at' = First
  BY DEF Run
<1>2. First \in [Thread -> Record] /\ Nil \notin Record /\ seen \subseteq Record
  BY LoopAssumption DEF IInv, TypeOK
<1>3. OnItsWay'
  BY <1>1, ReachedFirst DEF OnItsWay
<1>4. Recorded'
  <2> SUFFICES ASSUME NEW t \in Thread
               PROVE  \E D \in SUBSET Record :
                        /\ First[t] \in D \cup {at'[t]}
                        /\ \A r \in D : Pair(r, behaviour') \in known' /\ Succ[r][behaviour'[r]] \in D \cup {at'[t], Nil}
    BY DEF Recorded
  <2> WITNESS {} \in SUBSET Record
  <2> QED BY <1>1
<1>5. FollowedUp'
  <2>1. \A x \in Current : x = Nil
    BY DEF Ended, Current
  <2>2. UNCHANGED <<known, seen>>
    OBVIOUS
  <2>3. \A t \in Thread : First[t] \in seen
    BY <1>2, <2>1 DEF IInv, FollowedUp
  <2>4. \A r \in Branch : \A v \in Value : <<r, v>> \in known => Succ[r][v] \in seen \cup {Nil}
    BY <2>1 DEF IInv, FollowedUp
  <2>5. \A f \in Function \cap seen : \A v \in Value : Succ[f][v] \in seen \cup {Nil}
    BY <2>1 DEF IInv, FollowedUp
  <2> QED BY <2>2, <2>3, <2>4, <2>5 DEF FollowedUp
<1>6. Frontier(e, K) # {}
  <2>1. PICK t \in Thread :
          /\ Frontier(b, K) \cap Reached(b, t, K) # {}
          /\ Reached(e, t, K) = Reached(b, t, K)
          /\ \A r \in Reached(b, t, K) : e[r] = b[r]
    BY <1>1
  <2>2. PICK r \in Reached(b, t, K) : Pair(r, b) \notin K
    BY <2>1 DEF Frontier
  <2>3. r \in Reached(e, t, K) /\ Pair(r, e) = Pair(r, b)
    BY <2>1, <2>2 DEF Pair
  <2> QED BY <2>2, <2>3 DEF Frontier
<1> QED
  BY <1>1, <1>2, <1>3, <1>4, <1>5, <1>6

LEMMA ReuseIInv ==
  ASSUME IInv, reuseEncoding
  PROVE  IInv'
<1>1. PICK s \in Solutions(encoded, open) : open' = open \ s.claimed /\ Run(s.behaviour, encoded)
  BY DEF reuseEncoding
<1>2. /\ Ended /\ ~finished /\ fresh' = FALSE
      /\ UNCHANGED <<feasible, branches, known, seen, encoded, goalset, solver, finished>>
  BY DEF reuseEncoding
<1>3. /\ behaviour' \in feasible /\ at' \in [Thread -> Record \cup {Nil}]
      /\ OnItsWay' /\ Recorded' /\ FollowedUp'
  BY <1>1, <1>2, RunStarts
<1>4. TypeOK'
  BY <1>1, <1>2, <1>3 DEF IInv, TypeOK
<1>5. KnownDirections' /\ Leaves' /\ HasStopped'
  BY <1>2 DEF IInv, KnownDirections, Leaves, HasStopped
<1>6. OpenGoalsUnachieved'
  BY <1>1, <1>2 DEF IInv, OpenGoalsUnachieved
<1> QED
  BY <1>3, <1>4, <1>5, <1>6 DEF IInv

LEMMA ProcessIInv ==
  ASSUME IInv, process
  PROVE  IInv'
<1>1. PICK s \in Solutions(known, NewGoals) : open' = NewGoals \ s.claimed /\ Run(s.behaviour, known)
  BY DEF process
<1>2. /\ Ended /\ ~finished
      /\ encoded' = known /\ goalset' = NewGoals /\ solver' = TRUE /\ fresh' = TRUE
      /\ UNCHANGED <<feasible, branches, known, seen, finished>>
  BY DEF process
<1>3. /\ behaviour' \in feasible /\ at' \in [Thread -> Record \cup {Nil}]
      /\ OnItsWay' /\ Recorded' /\ FollowedUp'
      /\ Frontier(behaviour', known) # {}
  BY <1>1, <1>2, RunStarts
<1>4. NewGoals \subseteq Record
  BY DEF IInv, TypeOK, NewGoals
<1>5. TypeOK'
  BY <1>1, <1>2, <1>3, <1>4 DEF IInv, TypeOK
<1>6. KnownDirections' /\ HasStopped'
  BY <1>2 DEF IInv, KnownDirections, HasStopped
<1>7. Leaves'
  BY <1>2, <1>3 DEF Leaves, Frontier
<1>8. OpenGoalsUnachieved'
  BY <1>2 DEF OpenGoalsUnachieved
<1> QED
  BY <1>3, <1>5, <1>6, <1>7, <1>8 DEF IInv

\* Nothing is left to look for.
LEMMA StopsIInv ==
  ASSUME IInv, processStops
  PROVE  IInv'
<1>1. /\ Ended /\ Stop /\ finished' = TRUE /\ solver' = FALSE
      /\ encoded' = known /\ goalset' = NewGoals /\ open' = NewGoals
      /\ UNCHANGED <<feasible, branches, known, seen, fresh, behaviour, at>>
  BY DEF processStops
<1>2. NewGoals \subseteq Record
  BY DEF IInv, TypeOK, NewGoals
<1>3. TypeOK'
  BY <1>1, <1>2 DEF IInv, TypeOK
<1>4. OnItsWay' /\ Recorded' /\ FollowedUp' /\ KnownDirections'
  BY <1>1 DEF IInv, OnItsWay, Recorded, FollowedUp, KnownDirections, Current
<1>5. HasStopped' /\ Leaves' /\ OpenGoalsUnachieved'
  BY ZenonT(40), <1>1 DEF HasStopped, Leaves, OpenGoalsUnachieved, Ended, Stop, HasUntakenBranches, NewGoals, Directions,
              IsUnsat, Frontier
<1> QED
  BY <1>3, <1>4, <1>5 DEF IInv

LEMMA StutterIInv ==
  ASSUME IInv, UNCHANGED vars
  PROVE  IInv'
<1>1. UNCHANGED <<feasible, branches, known, seen, encoded, goalset, open, solver, finished, fresh, behaviour, at>>
  BY DEF vars, loopVars
<1>2. TypeOK' /\ OnItsWay' /\ Recorded' /\ FollowedUp' /\ KnownDirections'
  BY <1>1 DEF IInv, TypeOK, OnItsWay, Recorded, FollowedUp, KnownDirections, Current
<1>3. HasStopped' /\ Leaves' /\ OpenGoalsUnachieved'
  BY <1>1 DEF IInv, HasStopped, Leaves, OpenGoalsUnachieved, Ended, Stop, HasUntakenBranches, NewGoals, Directions,
              IsUnsat, Frontier
<1> QED
  BY <1>2, <1>3 DEF IInv

LEMMA StepIInv == IInv /\ [Next]_vars => IInv'
<1> SUFFICES ASSUME IInv, [Next]_vars PROVE IInv'
  OBVIOUS
<1>1. CASE \E t \in Thread : branchDir(t) \/ function(t)
  <2>1. PICK t \in Thread, r \in Record : RecordValue(t, r) /\ achievedGoal(r)
    BY <1>1 DEF branchDir, function, Record
  <2> QED BY <2>1, RecordIInv
<1>2. CASE reuseEncoding
  BY <1>2, ReuseIInv
<1>3. CASE process
  BY <1>3, ProcessIInv
<1>4. CASE processStops
  BY <1>4, StopsIInv
<1>5. CASE Stopped \/ UNCHANGED vars
  BY <1>5, StutterIInv DEF Stopped
<1> QED
  BY <1>1, <1>2, <1>3, <1>4, <1>5 DEF Next

LEMMA Invariance == Spec => []IInv
BY InitIInv, StepIInv, PTL DEF Spec

--------------------------------------------------------------------------------
(***************************************************************************)
(* The loop keeps its variables typed; no goal is open that the encoding   *)
(* does not have (src/constgen.cc goalset and goalvararray).               *)
(***************************************************************************)
THEOREM CheckLoopTypeCorrect == Spec => []TypeOK
<1>1. IInv => TypeOK
  BY DEF IInv
<1> QED BY <1>1, Invariance, PTL

(***************************************************************************)
(* When MC::check says "Finished!" no behaviour of the program leaves what *)
(* has been recorded; with -b, no branch of any behaviour does             *)
(* (src/model.cc check, src/constgen.cc process).                          *)
(***************************************************************************)
THEOREM SearchIsCompleteHolds == Spec => []SearchIsComplete
<1>1. IInv => SearchIsComplete
  BY StopIsComplete DEF IInv
<1> QED BY <1>1, Invariance, PTL

(***************************************************************************)
(* An execution that process has scheduled records a value the encoding    *)
(* did not have (src/constgen.cc process, src/planner.cc plan).            *)
(***************************************************************************)
THEOREM NewEncodingLearnsHolds == Spec => []NewEncodingLearns
<1>1. IInv => NewEncodingLearns
  <2> SUFFICES ASSUME IInv, Ended, fresh, ~finished PROVE known # encoded
    BY DEF NewEncodingLearns
  <2>1. behaviour \in Behaviour /\ encoded \subseteq Everything /\ Nil \notin Record
    BY LoopAssumption DEF IInv, TypeOK
  <2>2. PICK t \in Thread : \E q \in Reached(behaviour, t, encoded) : Pair(q, behaviour) \notin encoded
    BY DEF IInv, Leaves, Frontier
  <2>3. PICK D \in SUBSET Record :
          /\ First[t] \in D \cup {at[t]}
          /\ \A q \in D : Pair(q, behaviour) \in known /\ Succ[q][behaviour[q]] \in D \cup {at[t], Nil}
    BY DEF IInv, Recorded
  <2>4. at[t] = Nil /\ First[t] \in D
    BY <2>1, <2>3, LoopAssumption DEF Ended
  <2>5. Closed(D, behaviour, encoded)
    BY <2>3, <2>4 DEF Closed
  <2>6. Reached(behaviour, t, encoded) \subseteq D
    BY <2>4, <2>5, ReachedLeast
  <2> QED BY <2>2, <2>3, <2>6
<1> QED BY <1>1, Invariance, PTL

(***************************************************************************)
(* A goal canReuseEncoding still asks for has not been reached since the   *)
(* encoding was built (src/constgen.cc achievedGoal, canReuseEncoding).    *)
(***************************************************************************)
THEOREM OpenGoalsUnachievedHolds == Spec => []OpenGoalsUnachieved
<1>1. IInv => OpenGoalsUnachieved
  BY DEF IInv
<1> QED BY <1>1, Invariance, PTL
================================================================================
