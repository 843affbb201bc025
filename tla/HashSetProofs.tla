------------------------------ MODULE HashSetProofs -----------------------------
(***************************************************************************)
(* Hash table and hash set for any keys, any hash and any sequence of      *)
(* operations: a lookup finds exactly the keys of the list, a put always   *)
(* finds a free slot, and the table with its list is one ordered set.      *)
(***************************************************************************)
EXTENDS HashSet, Lemmas, FiniteSetTheorems

(***************************************************************************)
(* What makes a table right.  The slots hold the keys of N: each once,     *)
(* with its own node, and reached by a search for it that never meets a    *)
(* slot that was not used.                                                 *)
(***************************************************************************)
Slot     == [key : (Key \ {0}) \cup {NoKey}, val : Key \cup {Null, Removed}]
Table(c) == [slot : [0 .. c - 1 -> Slot], zero : {0, Null}, size : Nat]

Reached(t, i) ==
  \E n \in 0 .. Capacity(t) - 1 :
    /\ i = Probe(t, t.slot[i].key, n)
    /\ \A m \in 0 .. n - 1 : ~NeverUsed(t.slot[Probe(t, t.slot[i].key, m)])

Taken(t) == {i \in DOMAIN t.slot : ~Free(t.slot[i])}

SlotsHold(t, c, N) ==
  /\ c \in Nat \ {0}
  /\ t \in Table(c)
  /\ N \subseteq Key \ {0}
  /\ \A i \in Taken(t) : t.slot[i].val = t.slot[i].key /\ t.slot[i].key \in N /\ Reached(t, i)
  /\ \A i, j \in Taken(t) : t.slot[i].key = t.slot[j].key => i = j
  /\ \A k \in N : \E i \in Taken(t) : t.slot[i].key = k

\* The table holds the keys of K: the slots all but the key 0, and their number is kept.
Holds(t, c, K) ==
  /\ SlotsHold(t, c, K \ {0})
  /\ K \subseteq Key
  /\ t.zero = IF 0 \in K THEN 0 ELSE Null
  /\ t.size = Cardinality(K)

(***************************************************************************)
(* What makes a list right: the nodes are those of the keys of m, each     *)
(* linked to its neighbours.                                               *)
(***************************************************************************)
Keys(m) == {m[i] : i \in 1 .. Len(m)}

ListHolds(nodes, first, end, m) ==
  /\ m \in Seq(Key)
  /\ \A i, j \in 1 .. Len(m) : m[i] = m[j] => i = j
  /\ DOMAIN nodes = Keys(m)
  /\ \A i \in 1 .. Len(m) :
       nodes[m[i]] = [prev |-> IF i = 1 THEN Null ELSE m[i - 1],
                      next |-> IF i = Len(m) THEN Null ELSE m[i + 1]]
  /\ first = IF m = <<>> THEN Null ELSE m[1]
  /\ end = IF m = <<>> THEN Null ELSE m[Len(m)]

\* The key returned last comes before the one returned next: the iterator never holds a node
\* that is removed through it.
IteratorHolds(m) ==
  /\ walking \in BOOLEAN
  /\ ~walking => curr = Null /\ last = Null
  /\ {curr, last} \subseteq Keys(m) \cup {Null}
  /\ \A i, j \in 1 .. Len(m) : m[i] = last /\ m[j] = curr => i < j

Represents(m) ==
  /\ ListHolds(node, list, tail, m)
  /\ \E c \in Nat : Holds(table, c, Keys(m))
  /\ IteratorHolds(m)

\* The inductive invariant: list and table stand for one sequence of keys.
IInv == \E m \in Seq(Key) : Represents(m)

--------------------------------------------------------------------------------
(***************************************************************************)
(* A search of the table.                                                  *)
(***************************************************************************)
LEMMA TableCapacity ==
  ASSUME NEW c \in Nat \ {0}, NEW t, DOMAIN t.slot = 0 .. c - 1
  PROVE  Capacity(t) = c
<1>1. Cardinality(0 .. c - 1) = c
  BY FS_Interval
<1> QED
  BY <1>1 DEF Capacity

LEMMA HashSlot ==
  ASSUME NEW c \in Nat \ {0}, NEW key \in Key
  PROVE  Hash[key] % c \in 0 .. c - 1
<1>1. Hash[key] \in Nat
  BY TableAssumption
<1> QED
  BY <1>1

\* A search looks at every slot once.
LEMMA ProbeOnce ==
  ASSUME NEW c \in Nat \ {0}, NEW t, Capacity(t) = c, NEW key \in Key
  PROVE  /\ \A n \in 0 .. c - 1 : Probe(t, key, n) \in 0 .. c - 1
         /\ \A m, n \in 0 .. c - 1 : Probe(t, key, m) = Probe(t, key, n) => m = n
         /\ \A i \in 0 .. c - 1 : \E n \in 0 .. c - 1 : Probe(t, key, n) = i
<1> DEFINE h == Hash[key] % c
<1>1. h \in 0 .. c - 1
  BY HashSlot
<1>2. \A n \in 0 .. c - 1 : Probe(t, key, n) = IF h + n < c THEN h + n ELSE h + n - c
  <2>1. h = Hash[key] % Capacity(t)
    OBVIOUS
  <2> HIDE DEF h
  <2> QED BY <1>1, <2>1 DEF Probe
<1> HIDE DEF h
<1>3. ASSUME NEW i \in 0 .. c - 1 PROVE \E n \in 0 .. c - 1 : Probe(t, key, n) = i
  <2>1. CASE i >= h
    <3>1. i - h \in 0 .. c - 1 /\ Probe(t, key, i - h) = i
      BY <1>1, <1>2, <2>1
    <3> QED BY <3>1
  <2>2. CASE i < h
    <3>1. i - h + c \in 0 .. c - 1 /\ Probe(t, key, i - h + c) = i
      BY <1>1, <1>2, <2>2
    <3> QED BY <3>1
  <2> QED BY <1>1, <2>1, <2>2
<1>4. \A n \in 0 .. c - 1 : Probe(t, key, n) \in 0 .. c - 1
  BY <1>1, <1>2
<1>5. ASSUME NEW m \in 0 .. c - 1, NEW n \in 0 .. c - 1, Probe(t, key, m) = Probe(t, key, n)
      PROVE  m = n
  BY <1>1, <1>2, <1>5
<1> QED
  BY <1>3, <1>4, <1>5

\* A search for one of some slots ends at the first of them it meets, and nowhere else.
LEMMA SearchEnds ==
  ASSUME NEW c \in Nat \ {0}, NEW t, DOMAIN t.slot = 0 .. c - 1, NEW key \in Key,
         NEW slots \in SUBSET (0 .. c - 1), slots # {}
  PROVE  StopsAt(t, key, Meets(t, key, slots), slots) /\ Meets(t, key, slots) \in slots
<1>1. Capacity(t) = c
  BY TableCapacity
<1> DEFINE S == {n \in 0 .. c - 1 : Probe(t, key, n) \in slots}
<1>2. S # {} /\ S \in SUBSET Nat
  <2>1. PICK i \in slots : i \in 0 .. c - 1
    OBVIOUS
  <2>2. \E n \in 0 .. c - 1 : Probe(t, key, n) = i
    BY <1>1, <2>1, ProbeOnce
  <2> QED BY <2>2
<1>3. PICK n \in S : \A m \in S : n <= m
  BY <1>2, LeastNatural
<1>4. StopsAt(t, key, Probe(t, key, n), slots)
  <2>1. \A m \in 0 .. n - 1 : m \in 0 .. c - 1 /\ ~(n <= m)
    OBVIOUS
  <2> QED BY <1>1, <1>3, <2>1 DEF StopsAt
<1>5. \E i \in DOMAIN t.slot : StopsAt(t, key, i, slots)
  BY <1>4 DEF StopsAt
<1> QED
  BY <1>5 DEF Meets, StopsAt

LEMMA SearchUnique ==
  ASSUME NEW c \in Nat \ {0}, NEW t, DOMAIN t.slot = 0 .. c - 1, NEW key \in Key, NEW slots,
         NEW i, NEW j, StopsAt(t, key, i, slots), StopsAt(t, key, j, slots)
  PROVE  i = j
<1>1. Capacity(t) = c
  BY TableCapacity
<1>2. PICK n \in 0 .. c - 1 : i = Probe(t, key, n) /\ \A m \in 0 .. n - 1 : Probe(t, key, m) \notin slots
  BY <1>1 DEF StopsAt
<1>3. PICK o \in 0 .. c - 1 : j = Probe(t, key, o) /\ \A m \in 0 .. o - 1 : Probe(t, key, m) \notin slots
  BY <1>1 DEF StopsAt
<1>4. i \in slots /\ j \in slots
  BY DEF StopsAt
<1>5. ~(n < o) /\ ~(o < n)
  BY <1>2, <1>3, <1>4
<1> QED
  BY <1>2, <1>3, <1>5

LEMMA SlotTypes ==
  ASSUME NEW c, NEW t, NEW N, SlotsHold(t, c, N)
  PROVE  /\ c \in Nat \ {0} /\ DOMAIN t.slot = 0 .. c - 1 /\ Capacity(t) = c
         /\ \A i \in 0 .. c - 1 : t.slot[i] \in Slot
         /\ \A key \in Key \ {0} : \A i \in 0 .. c - 1 : HasKey(t.slot[i], key) => i \in Taken(t) /\ key \in N
<1>1. c \in Nat \ {0} /\ t \in Table(c)
  BY DEF SlotsHold
<1>2. DOMAIN t.slot = 0 .. c - 1 /\ \A i \in 0 .. c - 1 : t.slot[i] \in Slot
  BY <1>1 DEF Table
<1>3. Capacity(t) = c
  BY <1>1, <1>2, TableCapacity
<1>4. ASSUME NEW key \in Key \ {0}, NEW i \in 0 .. c - 1, HasKey(t.slot[i], key)
      PROVE  i \in Taken(t) /\ key \in N
  <2>1. i \in Taken(t)
    BY <1>2, <1>4, TableAssumption DEF Taken, Free, HasKey
  <2> QED BY <1>4, <2>1 DEF SlotsHold, HasKey
<1> QED
  BY <1>1, <1>2, <1>3, <1>4

\* The search of get and remove for a key the table holds ends at its slot.
LEMMA KeyFound ==
  ASSUME NEW c, NEW t, NEW N, SlotsHold(t, c, N), NEW key \in N
  PROVE  /\ StopsAt(t, key, Meets(t, key, UnusedOrKey(t, key)), UnusedOrKey(t, key))
         /\ Meets(t, key, UnusedOrKey(t, key)) \in Taken(t)
         /\ t.slot[Meets(t, key, UnusedOrKey(t, key))].key = key
<1> DEFINE U == UnusedOrKey(t, key)
<1>1. /\ c \in Nat \ {0} /\ DOMAIN t.slot = 0 .. c - 1 /\ Capacity(t) = c
      /\ key \in Key \ {0}
  BY SlotTypes DEF SlotsHold
<1>2. PICK i \in Taken(t) : t.slot[i].key = key
  BY DEF SlotsHold
<1>3. PICK n \in 0 .. c - 1 : i = Probe(t, key, n) /\ \A m \in 0 .. n - 1 : ~NeverUsed(t.slot[Probe(t, key, m)])
  BY <1>1, <1>2 DEF SlotsHold, Reached
<1>4. ASSUME NEW m \in 0 .. n - 1 PROVE Probe(t, key, m) \notin U
  <2>1. m \in 0 .. c - 1 /\ m # n
    BY <1>1
  <2>2. Probe(t, key, m) \in 0 .. c - 1 /\ Probe(t, key, m) # i
    BY <1>1, <1>3, <2>1, ProbeOnce
  <2>3. ~HasKey(t.slot[Probe(t, key, m)], key)
    <3> SUFFICES ASSUME HasKey(t.slot[Probe(t, key, m)], key) PROVE FALSE
      OBVIOUS
    <3>1. Probe(t, key, m) \in Taken(t)
      BY <1>1, <2>2, SlotTypes
    <3> QED BY <1>2, <2>2, <3>1 DEF SlotsHold, HasKey
  <2> QED BY <1>3, <2>3 DEF UnusedOrKey
<1>5. StopsAt(t, key, i, U)
  <2>1. i \in U
    BY <1>2 DEF UnusedOrKey, HasKey, Taken
  <2> QED BY <1>1, <1>3, <1>4, <2>1 DEF StopsAt
<1>6. U \in SUBSET (0 .. c - 1) /\ U # {}
  BY <1>1, <1>5 DEF StopsAt, UnusedOrKey
<1> HIDE DEF U
<1>7. StopsAt(t, key, Meets(t, key, U), U)
  BY <1>1, <1>6, SearchEnds
<1>8. Meets(t, key, U) = i
  BY <1>1, <1>5, <1>7, SearchUnique
<1> QED
  BY <1>2, <1>7, <1>8 DEF U

\* A lookup finds exactly the keys the table holds, whatever was removed before.
LEMMA GetRight ==
  ASSUME NEW c, NEW t, NEW K, Holds(t, c, K), NEW key \in Key
  PROVE  Get(t, key) = IF key \in K THEN key ELSE Null
<1>1. CASE key = 0
  BY <1>1 DEF Holds, Get
<1>2. CASE key # 0
  <2> DEFINE U == UnusedOrKey(t, key)
             S == \E i \in DOMAIN t.slot : StopsAt(t, key, i, U) /\ HasKey(t.slot[i], key)
  <2>1. Get(t, key) = IF S THEN t.slot[Meets(t, key, U)].val ELSE Null
    BY <1>2 DEF Get
  <2>2. SlotsHold(t, c, K \ {0})
    BY DEF Holds
  <2>3. CASE key \in K
    <3>1. key \in K \ {0}
      BY <1>2, <2>3
    <3> HIDE DEF S
    <3>2. StopsAt(t, key, Meets(t, key, U), U) /\ Meets(t, key, U) \in Taken(t)
          /\ t.slot[Meets(t, key, U)].key = key
      BY <2>2, <3>1, KeyFound
    <3> HIDE DEF U
    <3>3. S
      BY <3>2 DEF S, Taken, HasKey
    <3>4. t.slot[Meets(t, key, U)].val = key
      BY <2>2, <3>2 DEF SlotsHold
    <3> QED BY <2>1, <2>3, <3>3, <3>4
  <2>4. CASE key \notin K
    <3>1. ~S
      BY <1>2, <2>2, <2>4, SlotTypes
    <3> QED BY <2>1, <2>4, <3>1
  <2> QED BY <2>3, <2>4
<1> QED
  BY <1>1, <1>2

--------------------------------------------------------------------------------
(***************************************************************************)
(* A write to one slot.                                                    *)
(***************************************************************************)
LEMMA WriteTypes ==
  ASSUME NEW c \in Nat \ {0}, NEW t \in Table(c), NEW i \in 0 .. c - 1, NEW key, NEW val,
         [key |-> key, val |-> val] \in Slot
  PROVE  /\ Write(t, i, key, val) \in Table(c)
         /\ Capacity(Write(t, i, key, val)) = c
         /\ DOMAIN Write(t, i, key, val).slot = 0 .. c - 1
         /\ Write(t, i, key, val).slot[i] = [key |-> key, val |-> val]
         /\ \A j \in 0 .. c - 1 : j # i => Write(t, i, key, val).slot[j] = t.slot[j]
         /\ Write(t, i, key, val).zero = t.zero
         /\ Write(t, i, key, val).size = t.size
<1> DEFINE s == [key |-> key, val |-> val]
           u == Write(t, i, key, val)
<1>1. u = [t EXCEPT !.slot = [t.slot EXCEPT ![i] = s]]
  BY DEF Write
<1> HIDE DEF s, u
<1>2. t.slot \in [0 .. c - 1 -> Slot] /\ t.zero \in {0, Null} /\ t.size \in Nat /\ s \in Slot
  BY DEF Table, s
<1> DEFINE f == [t.slot EXCEPT ![i] = s]
<1>3. f \in [0 .. c - 1 -> Slot]
  BY <1>2
<1> HIDE DEF f
<1>4. u = [t EXCEPT !.slot = f]
  BY <1>1 DEF f
<1>5. /\ u \in Table(c)
      /\ u.slot = f /\ u.zero = t.zero /\ u.size = t.size
  BY <1>3, <1>4 DEF Table
<1>6. /\ u \in Table(c)
      /\ u.slot = [t.slot EXCEPT ![i] = s] /\ u.zero = t.zero /\ u.size = t.size
  BY <1>5 DEF f
<1>7. /\ DOMAIN u.slot = 0 .. c - 1
      /\ u.slot[i] = s
      /\ \A j \in 0 .. c - 1 : j # i => u.slot[j] = t.slot[j]
  BY <1>2, <1>6
<1>8. Capacity(u) = c
  BY <1>7, TableCapacity
<1> QED
  BY <1>6, <1>7, <1>8 DEF s, u

\* A key stays within reach as long as no slot becomes one that was never used.
LEMMA ReachedKept ==
  ASSUME NEW c \in Nat \ {0}, NEW t, NEW u, Capacity(t) = c, Capacity(u) = c, NEW j,
         t.slot[j].key \in Key, u.slot[j].key = t.slot[j].key, Reached(t, j),
         \A i \in 0 .. c - 1 : NeverUsed(u.slot[i]) => NeverUsed(t.slot[i])
  PROVE  Reached(u, j)
<1> DEFINE key == t.slot[j].key
<1>1. \A n : Probe(u, key, n) = Probe(t, key, n)
  BY DEF Probe
<1>2. PICK n \in 0 .. c - 1 : j = Probe(t, key, n) /\ \A m \in 0 .. n - 1 : ~NeverUsed(t.slot[Probe(t, key, m)])
  BY DEF Reached
<1>3. ASSUME NEW m \in 0 .. n - 1 PROVE ~NeverUsed(u.slot[Probe(t, key, m)])
  <2>1. m \in 0 .. c - 1
    OBVIOUS
  <2>2. Probe(t, key, m) \in 0 .. c - 1
    BY <2>1, ProbeOnce
  <2> QED BY <1>2, <2>2
<1> QED
  BY <1>1, <1>2, <1>3 DEF Reached

\* The number of entries and the entry of the key 0 are no matter of the slots.
LEMMA SlotsOnly ==
  ASSUME NEW c, NEW t, NEW N, SlotsHold(t, c, N), NEW u \in Table(c), u.slot = t.slot
  PROVE  SlotsHold(u, c, N)
<1>1. /\ c \in Nat \ {0} /\ t \in Table(c) /\ N \subseteq Key \ {0}
      /\ \A i \in Taken(t) : t.slot[i].val = t.slot[i].key /\ t.slot[i].key \in N /\ Reached(t, i)
      /\ \A i, j \in Taken(t) : t.slot[i].key = t.slot[j].key => i = j
      /\ \A k \in N : \E i \in Taken(t) : t.slot[i].key = k
  BY DEF SlotsHold
<1>2. Taken(u) = Taken(t) /\ Capacity(u) = Capacity(t)
  BY DEF Taken, Capacity
<1>3. ASSUME NEW i, Reached(t, i) PROVE Reached(u, i)
  BY <1>2, <1>3 DEF Reached, Probe
<1> QED
  BY <1>1, <1>2, <1>3 DEF SlotsHold

\* Where a new key is put, a search for it ends.
LEMMA PutFree ==
  ASSUME NEW c, NEW t, NEW N, SlotsHold(t, c, N), NEW key \in Key \ {0}, key \notin N,
         FreeSlots(t) # {}
  PROVE  /\ FreeOrKey(t, key) = FreeSlots(t)
         /\ Meets(t, key, FreeSlots(t)) \in FreeSlots(t)
         /\ SlotsHold(Write(t, Meets(t, key, FreeSlots(t)), key, key), c, N \cup {key})
<1> DEFINE i == Meets(t, key, FreeSlots(t))
           u == Write(t, i, key, key)
<1>1. /\ c \in Nat \ {0} /\ t \in Table(c) /\ N \subseteq Key \ {0}
      /\ DOMAIN t.slot = 0 .. c - 1 /\ Capacity(t) = c
      /\ \A j \in Taken(t) : t.slot[j].val = t.slot[j].key /\ t.slot[j].key \in N /\ Reached(t, j)
      /\ \A j, k \in Taken(t) : t.slot[j].key = t.slot[k].key => j = k
      /\ \A k \in N : \E j \in Taken(t) : t.slot[j].key = k
  BY SlotTypes DEF SlotsHold
<1>2. FreeOrKey(t, key) = FreeSlots(t)
  BY <1>1, SlotTypes DEF FreeOrKey, FreeSlots
<1>3. FreeSlots(t) \in SUBSET (0 .. c - 1)
  BY <1>1 DEF FreeSlots
<1>4. StopsAt(t, key, i, FreeSlots(t)) /\ i \in FreeSlots(t)
  BY <1>1, <1>3, SearchEnds
<1> HIDE DEF i
<1>5. i \in 0 .. c - 1 /\ i \notin Taken(t)
  BY <1>3, <1>4 DEF FreeSlots, Taken
<1>6. /\ u \in Table(c) /\ Capacity(u) = c /\ DOMAIN u.slot = 0 .. c - 1
      /\ u.slot[i] = [key |-> key, val |-> key]
      /\ \A j \in 0 .. c - 1 : j # i => u.slot[j] = t.slot[j]
  <2>1. [key |-> key, val |-> key] \in Slot
    BY DEF Slot
  <2> QED BY <1>1, <1>5, <2>1, WriteTypes
<1> HIDE DEF u
<1>7. ~Free(u.slot[i])
  BY <1>6, TableAssumption DEF Free
<1>8. Taken(u) = Taken(t) \cup {i}
  <2>1. \A j \in 0 .. c - 1 : j # i => (j \in Taken(u) <=> j \in Taken(t))
    BY <1>1, <1>6 DEF Taken
  <2>2. i \in Taken(u)
    BY <1>5, <1>6, <1>7 DEF Taken
  <2>3. Taken(u) \subseteq 0 .. c - 1 /\ Taken(t) \subseteq 0 .. c - 1
    BY <1>1, <1>6 DEF Taken
  <2> QED BY <1>5, <2>1, <2>2, <2>3
<1>9. \A j \in Taken(t) : j # i /\ j \in 0 .. c - 1 /\ u.slot[j] = t.slot[j]
  BY <1>1, <1>5, <1>6 DEF Taken
<1>10. \A j \in 0 .. c - 1 : NeverUsed(u.slot[j]) => NeverUsed(t.slot[j])
  BY <1>6, <1>7 DEF NeverUsed
<1>11. ASSUME NEW j \in Taken(t) PROVE Reached(u, j)
  <2>1. t.slot[j].key \in Key /\ u.slot[j].key = t.slot[j].key /\ Reached(t, j)
    BY <1>1, <1>9
  <2> QED BY <1>1, <1>6, <1>10, <2>1, ReachedKept
<1>12. Reached(u, i)
  <2>1. PICK n \in 0 .. c - 1 : i = Probe(t, key, n) /\ \A m \in 0 .. n - 1 : Probe(t, key, m) \notin FreeSlots(t)
    BY <1>1, <1>4 DEF StopsAt
  <2>2. ASSUME NEW m \in 0 .. n - 1 PROVE ~NeverUsed(u.slot[Probe(t, key, m)])
    <3>1. m \in 0 .. c - 1
      BY <1>1
    <3>2. Probe(t, key, m) \in 0 .. c - 1
      BY <1>1, <3>1, ProbeOnce
    <3>3. ~Free(t.slot[Probe(t, key, m)])
      BY <1>1, <2>1, <3>2 DEF FreeSlots
    <3> QED BY <1>10, <3>2, <3>3 DEF NeverUsed
  <2>3. \A m : Probe(u, key, m) = Probe(t, key, m)
    BY <1>1, <1>6 DEF Probe
  <2>4. u.slot[i].key = key
    BY <1>6
  <2> QED BY <1>6, <2>1, <2>2, <2>3, <2>4 DEF Reached
<1>13. \A j \in Taken(u) : u.slot[j].val = u.slot[j].key /\ u.slot[j].key \in N \cup {key} /\ Reached(u, j)
  BY <1>1, <1>6, <1>8, <1>9, <1>11, <1>12
<1>14. \A j, k \in Taken(u) : u.slot[j].key = u.slot[k].key => j = k
  BY <1>1, <1>6, <1>8, <1>9
<1>15. \A k \in N \cup {key} : \E j \in Taken(u) : u.slot[j].key = k
  BY <1>1, <1>6, <1>8, <1>9
<1>16. SlotsHold(u, c, N \cup {key})
  BY <1>1, <1>6, <1>13, <1>14, <1>15 DEF SlotsHold
<1> QED
  BY <1>2, <1>4, <1>16 DEF u, i

--------------------------------------------------------------------------------
(***************************************************************************)
(* The number of keys.                                                     *)
(***************************************************************************)
\* No more keys than slots.
LEMMA KeysFitSlots ==
  ASSUME NEW c, NEW t, NEW N, SlotsHold(t, c, N)
  PROVE  IsFiniteSet(N) /\ Cardinality(N) \in Nat /\ Cardinality(N) <= c
<1> DEFINE f == [k \in N |-> CHOOSE i \in Taken(t) : t.slot[i].key = k]
<1>1. c \in Nat \ {0} /\ DOMAIN t.slot = 0 .. c - 1
  BY SlotTypes
<1>2. \A k \in N : f[k] \in Taken(t) /\ t.slot[f[k]].key = k
  BY DEF SlotsHold
<1>3. f \in Injection(N, 0 .. c - 1)
  <2> HIDE DEF f
  <2>1. f \in [N -> 0 .. c - 1]
    BY <1>1, <1>2 DEF f, Taken
  <2> QED BY <1>2, <2>1 DEF Injection, IsInjective
<1>4. IsFiniteSet(0 .. c - 1) /\ Cardinality(0 .. c - 1) = c
  BY <1>1, FS_Interval
<1> HIDE DEF f
<1>5. IsFiniteSet(N) /\ Cardinality(N) <= Cardinality(0 .. c - 1)
  BY <1>3, <1>4, FS_Injection
<1> QED
  BY <1>4, <1>5, FS_CardinalityType

\* With fewer keys than slots there is a free one: removed entries do not fill a table.
LEMMA FreeSlotLeft ==
  ASSUME NEW c, NEW t, NEW N, SlotsHold(t, c, N), Cardinality(N) < c
  PROVE  FreeSlots(t) # {}
<1> SUFFICES ASSUME FreeSlots(t) = {} PROVE FALSE
  OBVIOUS
<1> DEFINE f == [i \in 0 .. c - 1 |-> t.slot[i].key]
<1>1. c \in Nat \ {0} /\ DOMAIN t.slot = 0 .. c - 1
  BY SlotTypes
<1>2. \A i \in 0 .. c - 1 : i \in Taken(t)
  BY <1>1 DEF FreeSlots, Taken
<1>3. f \in Injection(0 .. c - 1, N)
  <2>1. f \in [0 .. c - 1 -> N]
    BY <1>2 DEF SlotsHold
  <2>2. \A i, j \in 0 .. c - 1 : f[i] = f[j] => i = j
    BY <1>2 DEF SlotsHold
  <2> HIDE DEF f
  <2> QED BY <2>1, <2>2 DEF Injection, IsInjective
<1>4. Cardinality(0 .. c - 1) = c
  BY <1>1, FS_Interval
<1>5. IsFiniteSet(N) /\ Cardinality(N) \in Nat
  BY KeysFitSlots
<1> HIDE DEF f
<1>6. Cardinality(0 .. c - 1) <= Cardinality(N)
  BY <1>3, <1>5, FS_Injection
<1> QED
  BY <1>1, <1>4, <1>5, <1>6

LEMMA KeysFinite ==
  ASSUME NEW K \in SUBSET Key
  PROVE  IsFiniteSet(K) /\ Cardinality(K) \in 0 .. Cardinality(Key) /\ Cardinality(Key) \in Nat
<1>1. IsFiniteSet(K) /\ Cardinality(K) <= Cardinality(Key)
  BY TableAssumption, FS_Subset
<1> QED
  BY <1>1, TableAssumption, FS_CardinalityType

LEMMA OneKeyMore ==
  ASSUME NEW K \in SUBSET Key, NEW key \in Key \ K
  PROVE  Cardinality(K \cup {key}) = Cardinality(K) + 1
BY KeysFinite, FS_AddElement

LEMMA OneKeyLess ==
  ASSUME NEW K \in SUBSET Key, NEW key \in K
  PROVE  Cardinality(K \ {key}) = Cardinality(K) - 1
BY KeysFinite, FS_RemoveElement

--------------------------------------------------------------------------------
(***************************************************************************)
(* remove, and the empty table.                                            *)
(***************************************************************************)
LEMMA DeleteRight ==
  ASSUME NEW c, NEW t, NEW K, Holds(t, c, K), NEW key \in K
  PROVE  Holds(Delete(t, key), c, K \ {key})
<1>1. /\ SlotsHold(t, c, K \ {0}) /\ K \subseteq Key
      /\ t.zero = (IF 0 \in K THEN 0 ELSE Null) /\ t.size = Cardinality(K)
  BY DEF Holds
<1>2. c \in Nat \ {0} /\ t \in Table(c) /\ DOMAIN t.slot = 0 .. c - 1 /\ Capacity(t) = c
  BY <1>1, SlotTypes DEF SlotsHold
<1>3. Cardinality(K \ {key}) = t.size - 1 /\ t.size - 1 \in Nat
  BY <1>1, OneKeyLess, KeysFinite
<1>4. CASE key = 0
  <2> DEFINE u == Delete(t, key)
  <2>1. u = [t EXCEPT !.zero = Null, !.size = t.size - 1]
    BY <1>4 DEF Delete
  <2> HIDE DEF u
  <2>2. u \in Table(c) /\ u.slot = t.slot /\ u.zero = Null /\ u.size = t.size - 1
    BY <1>2, <1>3, <2>1 DEF Table
  <2>3. SlotsHold(u, c, K \ {0})
    BY <1>1, <2>2, SlotsOnly
  <2>4. (K \ {key}) \ {0} = K \ {0} /\ 0 \notin K \ {key} /\ K \ {key} \subseteq Key
    BY <1>1, <1>4
  <2>5. Holds(u, c, K \ {key})
    BY <1>3, <2>2, <2>3, <2>4 DEF Holds
  <2> QED BY <2>5 DEF u
<1>5. CASE key # 0
  <2> DEFINE i == Meets(t, key, UnusedOrKey(t, key))
             v == Write(t, i, NoKey, Removed)
             u == Delete(t, key)
             N == K \ {0}
  <2>1. key \in N
    BY <1>5
  <2>2. i \in Taken(t) /\ t.slot[i].key = key
    BY <1>1, <2>1, KeyFound
  <2>3. i \in 0 .. c - 1
    BY <1>2, <2>2 DEF Taken
  <2>4. u = [v EXCEPT !.size = v.size - 1]
    BY <1>5 DEF Delete
  <2>5. /\ v \in Table(c) /\ Capacity(v) = c /\ DOMAIN v.slot = 0 .. c - 1
        /\ v.slot[i] = [key |-> NoKey, val |-> Removed]
        /\ \A j \in 0 .. c - 1 : j # i => v.slot[j] = t.slot[j]
        /\ v.zero = t.zero /\ v.size = t.size
    <3>1. [key |-> NoKey, val |-> Removed] \in Slot
      BY DEF Slot
    <3> HIDE DEF i
    <3> QED BY <1>2, <2>3, <3>1, WriteTypes
  <2> HIDE DEF i, v, u
  <2>6. Taken(v) = Taken(t) \ {i}
    <3>1. \A j \in 0 .. c - 1 : j # i => (j \in Taken(v) <=> j \in Taken(t))
      BY <1>2, <2>5 DEF Taken
    <3>2. i \notin Taken(v)
      BY <2>5 DEF Taken, Free
    <3>3. Taken(v) \subseteq 0 .. c - 1 /\ Taken(t) \subseteq 0 .. c - 1
      BY <1>2, <2>5 DEF Taken
    <3> QED BY <3>1, <3>2, <3>3
  <2>7. \A j \in Taken(v) : j \in 0 .. c - 1 /\ j \in Taken(t) /\ v.slot[j] = t.slot[j]
    BY <1>2, <2>5, <2>6 DEF Taken
  <2>8. \A j \in 0 .. c - 1 : NeverUsed(v.slot[j]) => NeverUsed(t.slot[j])
    BY <2>5, TableAssumption DEF NeverUsed
  <2>9. /\ N \subseteq Key \ {0}
        /\ \A j \in Taken(t) : t.slot[j].val = t.slot[j].key /\ t.slot[j].key \in N /\ Reached(t, j)
        /\ \A j, k \in Taken(t) : t.slot[j].key = t.slot[k].key => j = k
        /\ \A k \in N : \E j \in Taken(t) : t.slot[j].key = k
    BY <1>1 DEF SlotsHold
  <2>10. ASSUME NEW j \in Taken(v) PROVE Reached(v, j)
    <3>1. t.slot[j].key \in Key /\ v.slot[j].key = t.slot[j].key /\ Reached(t, j)
      BY <2>7, <2>9
    <3> QED BY <1>2, <2>5, <2>8, <3>1, ReachedKept
  <2> HIDE DEF N
  <2>11. \A j \in Taken(v) : v.slot[j].val = v.slot[j].key /\ v.slot[j].key \in N \ {key} /\ Reached(v, j)
    BY <2>2, <2>6, <2>7, <2>9, <2>10
  <2>12. \A j, k \in Taken(v) : v.slot[j].key = v.slot[k].key => j = k
    BY <2>7, <2>9
  <2>13. \A k \in N \ {key} : \E j \in Taken(v) : v.slot[j].key = k
    BY <2>2, <2>6, <2>7, <2>9
  <2>14. SlotsHold(v, c, N \ {key})
    BY <1>2, <2>5, <2>9, <2>11, <2>12, <2>13 DEF SlotsHold
  <2>15. u \in Table(c) /\ u.slot = v.slot /\ u.zero = t.zero /\ u.size = t.size - 1
    BY <1>3, <2>4, <2>5 DEF Table
  <2>16. SlotsHold(u, c, N \ {key})
    BY <2>14, <2>15, SlotsOnly
  <2>17. (K \ {key}) \ {0} = N \ {key} /\ (0 \in K \ {key} <=> 0 \in K) /\ K \ {key} \subseteq Key
    BY <1>1, <1>5 DEF N
  <2>18. Holds(u, c, K \ {key})
    BY <1>1, <1>3, <2>15, <2>16, <2>17 DEF Holds
  <2> QED BY <2>18 DEF u
<1> QED
  BY <1>4, <1>5

LEMMA EmptyRight ==
  ASSUME NEW c \in Nat \ {0}
  PROVE  Holds(EmptyTable(c), c, {})
<1> DEFINE t == EmptyTable(c)
<1>1. t \in Table(c)
  BY DEF EmptyTable, EmptySlots, Table, Slot
<1>2. Taken(t) = {}
  BY DEF EmptyTable, EmptySlots, Taken, Free
<1>3. SlotsHold(t, c, {} \ {0})
  BY <1>1, <1>2 DEF SlotsHold
<1>4. t.zero = Null /\ t.size = 0
  BY DEF EmptyTable
<1>5. Cardinality({}) = 0
  BY FS_EmptySet
<1> QED
  BY <1>3, <1>4, <1>5 DEF Holds

--------------------------------------------------------------------------------
(***************************************************************************)
(* resize: after i steps the new table holds the keys of the first i slots *)
(* of the old one, and has a free slot for the next.                       *)
(***************************************************************************)
KeysBefore(t, i) == {t.slot[j].key : j \in {k \in Taken(t) : k < i}}

MovedTo(t, d, i, u) ==
  /\ SlotsHold(u, d, KeysBefore(t, i))
  /\ u.zero = t.zero
  /\ u.size = t.size

LEMMA MoveStep ==
  ASSUME NEW c, NEW t, NEW N, SlotsHold(t, c, N), NEW d \in Nat \ {0}, c < d,
         NEW i \in 1 .. c, NEW u, MovedTo(t, d, i - 1, u)
  PROVE  /\ MoveEntry(u, t.slot[i - 1]) \in Table(d)
         /\ MovedTo(t, d, i, MoveEntry(u, t.slot[i - 1]))
<1> DEFINE s == t.slot[i - 1]
           M == KeysBefore(t, i - 1)
<1>1. /\ c \in Nat \ {0} /\ DOMAIN t.slot = 0 .. c - 1 /\ N \subseteq Key \ {0}
      /\ \A j \in Taken(t) : t.slot[j].val = t.slot[j].key /\ t.slot[j].key \in N
      /\ \A j, k \in Taken(t) : t.slot[j].key = t.slot[k].key => j = k
  BY SlotTypes DEF SlotsHold
<1>2. i \in Int /\ i - 1 \in 0 .. c - 1 /\ \A j \in Taken(t) : j \in Int
  BY <1>1 DEF Taken
<1>3. SlotsHold(u, d, M) /\ u.zero = t.zero /\ u.size = t.size /\ u \in Table(d)
  BY DEF MovedTo, SlotsHold
<1>4. CASE Free(s)
  <2>1. i - 1 \notin Taken(t)
    BY <1>4 DEF Taken
  <2>2. KeysBefore(t, i) = M
    <3>1. \A j \in Taken(t) : j < i <=> j < i - 1
      BY <1>2, <2>1
    <3> QED BY <3>1 DEF KeysBefore
  <2>3. MoveEntry(u, s) = u
    BY <1>4 DEF MoveEntry
  <2> QED BY <1>3, <2>2, <2>3 DEF MovedTo
<1>5. CASE ~Free(s)
  <2>1. i - 1 \in Taken(t)
    BY <1>1, <1>2, <1>5 DEF Taken
  <2>2. s.val = s.key /\ s.key \in Key \ {0}
    BY <1>1, <2>1
  <2>3. s.key \notin M
    <3> SUFFICES ASSUME s.key \in M PROVE FALSE
      OBVIOUS
    <3>1. PICK k \in Taken(t) : k < i - 1 /\ t.slot[k].key = s.key
      BY DEF KeysBefore
    <3>2. k = i - 1
      BY <1>1, <2>1, <3>1
    <3> QED BY <1>2, <3>1, <3>2
  <2>4. KeysBefore(t, i) = M \cup {s.key}
    <3>1. \A j \in Taken(t) : j < i <=> (j < i - 1 \/ j = i - 1)
      BY <1>2
    <3> QED BY <2>1, <3>1 DEF KeysBefore
  <2>5. Cardinality(M) < d
    <3>1. M \subseteq N
      BY <1>1 DEF KeysBefore
    <3>2. IsFiniteSet(N) /\ Cardinality(N) \in Nat /\ Cardinality(N) <= c
      BY KeysFitSlots
    <3>3. IsFiniteSet(M) /\ Cardinality(M) <= Cardinality(N)
      BY <3>1, <3>2, FS_Subset
    <3>4. Cardinality(M) \in Nat
      BY <3>3, FS_CardinalityType
    <3> QED BY <1>1, <3>2, <3>3, <3>4
  <2> HIDE DEF M, s
  <2>6. FreeSlots(u) # {}
    BY <1>3, <2>5, FreeSlotLeft
  <2> DEFINE j == Meets(u, s.key, FreeSlots(u))
             w == Write(u, j, s.key, s.key)
  <2>7. MoveEntry(u, s) = w
    BY <1>5, <2>2 DEF MoveEntry
  <2>8. j \in FreeSlots(u) /\ SlotsHold(w, d, M \cup {s.key})
    BY <1>3, <2>2, <2>3, <2>6, PutFree
  <2>9. j \in 0 .. d - 1
    BY <1>3, <2>8 DEF FreeSlots, Table
  <2> HIDE DEF j
  <2>10. [key |-> s.key, val |-> s.key] \in Slot
    BY <2>2 DEF Slot
  <2>11. w \in Table(d) /\ w.zero = u.zero /\ w.size = u.size
    BY <1>3, <2>9, <2>10, WriteTypes
  <2> HIDE DEF w
  <2>12. MovedTo(t, d, i, w)
    BY <1>3, <2>4, <2>8, <2>11 DEF MovedTo
  <2>13. MoveEntry(u, s) \in Table(d) /\ MovedTo(t, d, i, MoveEntry(u, s))
    BY <2>7, <2>11, <2>12
  <2> QED BY <2>13 DEF s
<1> QED
  BY <1>4, <1>5

\* As long as the steps stay among the tables, they move the keys.
LEMMA MoveLoop ==
  ASSUME NEW c, NEW t, NEW N, SlotsHold(t, c, N), NEW d \in Nat \ {0}, c < d, NEW f,
         f[0] = [t EXCEPT !.slot = EmptySlots(d)],
         \A i \in 1 .. c : MoveEntry(f[i - 1], t.slot[i - 1]) \in Table(d)
                             => f[i] = MoveEntry(f[i - 1], t.slot[i - 1])
  PROVE  \A i \in 0 .. c : MovedTo(t, d, i, f[i])
<1> DEFINE S == {i \in 0 .. c : MovedTo(t, d, i, f[i])}
<1>1. c \in Nat \ {0} /\ t \in Table(c)
  BY DEF SlotsHold
<1>2. MovedTo(t, d, 0, f[0])
  <2> DEFINE u == [t EXCEPT !.slot = EmptySlots(d)]
  <2>1. EmptySlots(d) \in [0 .. d - 1 -> Slot]
    BY DEF EmptySlots, Slot
  <2>2. u \in Table(d) /\ u.slot = EmptySlots(d) /\ u.zero = t.zero /\ u.size = t.size
    BY <1>1, <2>1 DEF Table
  <2> HIDE DEF u
  <2>3. Taken(u) = {}
    BY <2>2 DEF EmptySlots, Taken, Free
  <2>4. KeysBefore(t, 0) = {}
    <3>1. \A j \in Taken(t) : j \in Nat
      BY <1>1 DEF Taken, Table
    <3> QED BY <3>1 DEF KeysBefore
  <2>5. SlotsHold(u, d, {})
    BY <2>2, <2>3 DEF SlotsHold
  <2> QED BY <2>2, <2>4, <2>5 DEF MovedTo, u
<1>3. 0 \in S
  BY <1>1, <1>2
<1>4. ASSUME NEW i \in 1 .. c, i - 1 \in S PROVE i \in S
  BY <1>1, <1>4, MoveStep
<1>5. ASSUME NEW n \in 0 .. c PROVE n \in S
  <2>1. n \in Nat /\ \A i \in 1 .. n : i \in 1 .. c
    BY <1>1
  <2> HIDE DEF S
  <2> QED BY <1>3, <1>4, <2>1, LoopInduction
<1> QED
  BY <1>5

LEMMA ResizeLoop ==
  ASSUME NEW c, NEW t, NEW N, SlotsHold(t, c, N), NEW d \in Nat \ {0}, c < d
  PROVE  MovedTo(t, d, c, Resize(t, d))
<1> DEFINE fresh == [t EXCEPT !.slot = EmptySlots(d)]
           X == Table(d)
           Next1(n, u) == MoveEntry(u, t.slot[n - 1])
           step == [x \in (1 .. c) \X X |-> IF Next1(x[1], x[2]) \in X THEN Next1(x[1], x[2]) ELSE x[2]]
           Fills(f) == f = [n \in 0 .. c |-> IF n = 0 THEN fresh ELSE MoveEntry(f[n - 1], t.slot[n - 1])]
           moved == CHOOSE f : Fills(f)
<1>1. c \in Nat \ {0} /\ t \in Table(c) /\ Capacity(t) = c
  BY SlotTypes DEF SlotsHold
<1>2. Resize(t, d) = moved[c]
  BY <1>1 DEF Resize
<1>3. fresh \in X
  <2>1. EmptySlots(d) \in [0 .. d - 1 -> Slot]
    BY DEF EmptySlots, Slot
  <2> QED BY <1>1, <2>1 DEF Table
<1>4. step \in [(1 .. c) \X X -> X]
  <2> HIDE DEF Next1, X
  <2> QED OBVIOUS
<1>5. PICK f : Iterates(f, fresh, step, c, X)
  <2> HIDE DEF X, step, fresh
  <2> QED BY <1>1, <1>3, <1>4, Iteration
<1>6. f \in [0 .. c -> X] /\ f[0] = fresh /\ \A i \in 1 .. c : f[i] = step[<<i, f[i - 1]>>]
  BY <1>5 DEF Iterates
<1>7. \A i \in 1 .. c : Next1(i, f[i - 1]) \in X => f[i] = Next1(i, f[i - 1])
  <2> SUFFICES ASSUME NEW i \in 1 .. c, Next1(i, f[i - 1]) \in X PROVE f[i] = Next1(i, f[i - 1])
    OBVIOUS
  <2>1. i - 1 \in 0 .. c
    BY <1>1
  <2>2. f[i - 1] \in X /\ <<i, f[i - 1]>> \in (1 .. c) \X X
    BY <1>6, <2>1
  <2> HIDE DEF Next1, X
  <2>3. step[<<i, f[i - 1]>>] = Next1(i, f[i - 1])
    BY <2>2
  <2> QED BY <1>6, <2>3
<1>8. \A i \in 0 .. c : MovedTo(t, d, i, f[i])
  BY <1>6, <1>7, MoveLoop
<1>9. \A i \in 1 .. c : f[i] = MoveEntry(f[i - 1], t.slot[i - 1])
  <2> SUFFICES ASSUME NEW i \in 1 .. c PROVE f[i] = MoveEntry(f[i - 1], t.slot[i - 1])
    OBVIOUS
  <2>1. i - 1 \in 0 .. c
    BY <1>1
  <2>2. Next1(i, f[i - 1]) \in X
    BY <1>8, <2>1, MoveStep
  <2> QED BY <1>7, <2>2
<1>10. Fills(f)
  <2> HIDE DEF fresh, step, X
  <2>1. \A n \in 0 .. c : f[n] = IF n = 0 THEN fresh ELSE MoveEntry(f[n - 1], t.slot[n - 1])
    BY <1>1, <1>6, <1>9
  <2> QED BY <1>1, <1>6, <2>1
<1>11. Fills(moved)
  <2> HIDE DEF Fills
  <2> QED BY <1>10
<1>12. moved[0] = fresh /\ \A i \in 1 .. c : moved[i] = MoveEntry(moved[i - 1], t.slot[i - 1])
  <2> HIDE DEF fresh, moved
  <2> QED BY <1>1, <1>11
<1>13. MovedTo(t, d, c, moved[c])
  <2> HIDE DEF moved
  <2>1. \A i \in 0 .. c : MovedTo(t, d, i, moved[i])
    BY <1>12, MoveLoop
  <2> QED BY <1>1, <2>1
<1> QED
  BY <1>2, <1>13

--------------------------------------------------------------------------------
(***************************************************************************)
(* put.                                                                    *)
(***************************************************************************)
LEMMA ResizeRight ==
  ASSUME NEW c, NEW t, NEW K, Holds(t, c, K)
  PROVE  Holds(Resize(t, 2 * c), 2 * c, K) /\ FreeSlots(Resize(t, 2 * c)) # {}
<1> DEFINE N == K \ {0}
           u == Resize(t, 2 * c)
<1>1. SlotsHold(t, c, N)
  BY DEF Holds
<1>2. c \in Nat \ {0} /\ DOMAIN t.slot = 0 .. c - 1 /\ 2 * c \in Nat \ {0} /\ c < 2 * c
  BY <1>1, SlotTypes
<1>3. MovedTo(t, 2 * c, c, u)
  BY <1>1, <1>2, ResizeLoop
<1> HIDE DEF N, u
<1>4. KeysBefore(t, c) = N
  <2>1. \A j \in Taken(t) : j < c
    BY <1>2 DEF Taken
  <2>2. \A j \in Taken(t) : t.slot[j].key \in N
    BY <1>1 DEF SlotsHold
  <2>3. \A k \in N : \E j \in Taken(t) : t.slot[j].key = k
    BY <1>1 DEF SlotsHold
  <2> QED BY <2>1, <2>2, <2>3 DEF KeysBefore
<1>5. SlotsHold(u, 2 * c, N) /\ u.zero = t.zero /\ u.size = t.size
  BY <1>3, <1>4 DEF MovedTo
<1>6. Holds(u, 2 * c, K)
  BY <1>5 DEF Holds, N
<1>7. Cardinality(N) < 2 * c
  BY <1>1, <1>2, KeysFitSlots
<1>8. FreeSlots(u) # {}
  BY <1>5, <1>7, FreeSlotLeft
<1> QED
  BY <1>6, <1>8 DEF u

\* A put finds a free slot: the entries are never more than half the slots when it looks, or the
\* table has just been doubled, and removed entries are free.
LEMMA GrownRight ==
  ASSUME NEW c, NEW t, NEW K, Holds(t, c, K)
  PROVE  \E d \in Nat : Holds(Grown(t), d, K) /\ FreeSlots(Grown(t)) # {}
<1> DEFINE N == K \ {0}
<1>1. SlotsHold(t, c, N) /\ K \subseteq Key /\ t.size = Cardinality(K)
  BY DEF Holds
<1>2. c \in Nat \ {0} /\ Capacity(t) = c /\ 2 * c \in Nat
  BY <1>1, SlotTypes
<1>3. CASE t.size > Threshold(t)
  <2>1. Grown(t) = Resize(t, 2 * c)
    BY <1>2, <1>3 DEF Grown
  <2> QED BY <1>2, <2>1, ResizeRight
<1>4. CASE ~(t.size > Threshold(t))
  <2>1. Grown(t) = t
    BY <1>4 DEF Grown
  <2>2. Cardinality(N) \in Nat /\ Cardinality(K) \in Nat /\ Cardinality(N) <= Cardinality(K)
    BY <1>1, KeysFinite, FS_Subset
  <2>3. c \div 2 \in Nat /\ c \div 2 < c
    BY <1>2
  <2>4. Cardinality(K) <= c \div 2
    BY <1>1, <1>2, <1>4, <2>2, <2>3 DEF Threshold
  <2> HIDE DEF N
  <2>5. Cardinality(N) < c
    BY <1>2, <2>2, <2>3, <2>4
  <2>6. FreeSlots(t) # {}
    BY <1>1, <2>5, FreeSlotLeft
  <2> QED BY <1>2, <2>1, <2>6
<1> QED
  BY <1>3, <1>4

LEMMA PutRight ==
  ASSUME NEW c, NEW t, NEW K, Holds(t, c, K), NEW key \in Key \ K
  PROVE  \E d \in Nat : Holds(Put(t, key, key), d, K \cup {key})
<1>1. K \subseteq Key
  BY DEF Holds
<1>2. Cardinality(K \cup {key}) = Cardinality(K) + 1 /\ Cardinality(K) \in Nat
  BY <1>1, OneKeyMore, KeysFinite
<1>3. CASE key = 0
  <2> DEFINE u == Put(t, key, key)
  <2>1. SlotsHold(t, c, K \ {0}) /\ t.zero = Null /\ t.size = Cardinality(K) /\ t \in Table(c) /\ c \in Nat
    BY <1>3 DEF Holds, SlotsHold
  <2>2. u = [t EXCEPT !.zero = 0, !.size = t.size + 1]
    BY <1>3, <2>1 DEF Put
  <2> HIDE DEF u
  <2>3. u \in Table(c) /\ u.slot = t.slot /\ u.zero = 0 /\ u.size = t.size + 1
    <3>1. t.size \in Nat /\ t.size + 1 \in Nat
      BY <1>2, <2>1
    <3> QED BY <2>1, <2>2, <3>1 DEF Table
  <2>4. SlotsHold(u, c, K \ {0})
    BY <2>1, <2>3, SlotsOnly
  <2>5. (K \cup {key}) \ {0} = K \ {0} /\ 0 \in K \cup {key} /\ K \cup {key} \subseteq Key
    BY <1>1, <1>3
  <2>6. Holds(u, c, K \cup {key})
    BY <1>2, <2>1, <2>3, <2>4, <2>5 DEF Holds
  <2> QED BY <2>1, <2>6 DEF u
<1>4. CASE key # 0
  <2> DEFINE g == Grown(t)
             i == Meets(g, key, FreeSlots(g))
             w == Write(g, i, key, key)
             u == Put(t, key, key)
             N == K \ {0}
  <2>1. PICK d \in Nat : Holds(g, d, K) /\ FreeSlots(g) # {}
    BY GrownRight
  <2> HIDE DEF g
  <2>2. SlotsHold(g, d, N) /\ g.zero = (IF 0 \in K THEN 0 ELSE Null) /\ g.size = Cardinality(K)
    BY <2>1 DEF Holds
  <2>3. key \in Key \ {0} /\ key \notin N
    BY <1>4
  <2>4. FreeOrKey(g, key) = FreeSlots(g) /\ i \in FreeSlots(g) /\ SlotsHold(w, d, N \cup {key})
    BY <2>1, <2>2, <2>3, PutFree
  <2>5. d \in Nat \ {0} /\ g \in Table(d)
    BY <2>2 DEF SlotsHold
  <2>6. i \in 0 .. d - 1 /\ Free(g.slot[i])
    BY <2>4, <2>5 DEF FreeSlots, Table
  <2>7. u = [w EXCEPT !.size = w.size + 1]
    <3>1. u = [w EXCEPT !.size = IF Free(g.slot[i]) THEN w.size + 1 ELSE w.size]
      BY <1>4, <2>4 DEF Put, PutSlot, g
    <3> HIDE DEF w, i, u
    <3> QED BY <2>6, <3>1
  <2> HIDE DEF i, u
  <2>8. w \in Table(d) /\ w.zero = g.zero /\ w.size = g.size
    <3>1. [key |-> key, val |-> key] \in Slot
      BY <2>3 DEF Slot
    <3>2. d \in Nat \ {0} /\ g \in Table(d) /\ i \in 0 .. d - 1
      BY <2>5, <2>6
    <3>3. /\ Write(g, i, key, key) \in Table(d)
          /\ Write(g, i, key, key).zero = g.zero
          /\ Write(g, i, key, key).size = g.size
      BY <3>1, <3>2, WriteTypes
    <3> QED BY <3>3
  <2> HIDE DEF w
  <2>9. u \in Table(d) /\ u.slot = w.slot /\ u.zero = g.zero /\ u.size = g.size + 1
    BY <1>2, <2>2, <2>7, <2>8 DEF Table
  <2>10. SlotsHold(u, d, N \cup {key})
    BY <2>4, <2>9, SlotsOnly
  <2>11. (K \cup {key}) \ {0} = N \cup {key} /\ (0 \in K \cup {key} <=> 0 \in K) /\ K \cup {key} \subseteq Key
    BY <1>1, <1>4
  <2> HIDE DEF N
  <2>12. Holds(u, d, K \cup {key})
    BY <1>2, <2>2, <2>9, <2>10, <2>11 DEF Holds
  <2> QED BY <2>12 DEF u
<1> QED
  BY <1>3, <1>4

--------------------------------------------------------------------------------
(***************************************************************************)
(* copy: after n steps the new table holds the first n keys.               *)
(***************************************************************************)
KeysTo(m, n) == {m[i] : i \in 1 .. n}
AnyTable     == UNION {Table(c) : c \in Nat \ {0}}

LEMMA FillStep ==
  ASSUME NEW m \in Seq(Key), \A i, j \in 1 .. Len(m) : m[i] = m[j] => i = j,
         NEW n \in 1 .. Len(m), NEW c, NEW t, Holds(t, c, KeysTo(m, n - 1))
  PROVE  /\ Put(t, m[n], m[n]) \in AnyTable
         /\ \E d \in Nat : Holds(Put(t, m[n], m[n]), d, KeysTo(m, n))
<1>1. m[n] \in Key /\ m[n] \notin KeysTo(m, n - 1)
  BY DEF KeysTo
<1>2. KeysTo(m, n) = KeysTo(m, n - 1) \cup {m[n]}
  <2>1. \A i : i \in 1 .. n <=> (i \in 1 .. n - 1 \/ i = n)
    OBVIOUS
  <2> QED BY <2>1 DEF KeysTo
<1>3. PICK d \in Nat : Holds(Put(t, m[n], m[n]), d, KeysTo(m, n))
  BY <1>1, <1>2, PutRight
<1>4. Put(t, m[n], m[n]) \in AnyTable
  BY <1>3 DEF Holds, SlotsHold, AnyTable
<1> QED
  BY <1>3, <1>4

LEMMA FillLoop ==
  ASSUME NEW m \in Seq(Key), \A i, j \in 1 .. Len(m) : m[i] = m[j] => i = j,
         NEW c \in Nat \ {0}, NEW f, f[0] = EmptyTable(c),
         \A n \in 1 .. Len(m) : Put(f[n - 1], m[n], m[n]) \in AnyTable => f[n] = Put(f[n - 1], m[n], m[n])
  PROVE  \A n \in 0 .. Len(m) : \E d \in Nat : Holds(f[n], d, KeysTo(m, n))
<1> DEFINE S == {n \in 0 .. Len(m) : \E d \in Nat : Holds(f[n], d, KeysTo(m, n))}
<1>1. Len(m) \in Nat
  OBVIOUS
<1>2. 0 \in S
  <2>1. KeysTo(m, 0) = {}
    BY DEF KeysTo
  <2>2. Holds(f[0], c, KeysTo(m, 0))
    BY <2>1, EmptyRight
  <2> QED BY <1>1, <2>2
<1>3. ASSUME NEW n \in 1 .. Len(m), n - 1 \in S PROVE n \in S
  BY <1>1, <1>3, FillStep
<1>4. ASSUME NEW n \in 0 .. Len(m) PROVE n \in S
  <2>1. n \in Nat /\ \A i \in 1 .. n : i \in 1 .. Len(m)
    BY <1>1
  <2> HIDE DEF S
  <2> QED BY <1>2, <1>3, <2>1, LoopInduction
<1> QED
  BY <1>4

LEMMA FilledRight ==
  ASSUME NEW m \in Seq(Key), \A i, j \in 1 .. Len(m) : m[i] = m[j] => i = j, NEW c \in Nat \ {0}
  PROVE  \E d \in Nat : Holds(Filled(c, m), d, KeysTo(m, Len(m)))
<1> DEFINE k == Len(m)
           X == AnyTable
           Next1(n, t) == Put(t, m[n], m[n])
           step == [x \in (1 .. k) \X X |-> IF Next1(x[1], x[2]) \in X THEN Next1(x[1], x[2]) ELSE x[2]]
           Fills(f) == f = [n \in 0 .. k |-> IF n = 0 THEN EmptyTable(c) ELSE Put(f[n - 1], m[n], m[n])]
           put == CHOOSE f : Fills(f)
<1>1. k \in Nat
  OBVIOUS
<1>2. Filled(c, m) = put[k]
  BY DEF Filled
<1>3. EmptyTable(c) \in X
  BY EmptyRight DEF Holds, SlotsHold, AnyTable
<1>4. step \in [(1 .. k) \X X -> X]
  <2> HIDE DEF Next1, X
  <2> QED OBVIOUS
<1>5. PICK f : Iterates(f, EmptyTable(c), step, k, X)
  <2> HIDE DEF X, step, k
  <2> QED BY <1>1, <1>3, <1>4, Iteration
<1>6. f \in [0 .. k -> X] /\ f[0] = EmptyTable(c) /\ \A i \in 1 .. k : f[i] = step[<<i, f[i - 1]>>]
  BY <1>5 DEF Iterates
<1>7. \A i \in 1 .. k : Next1(i, f[i - 1]) \in X => f[i] = Next1(i, f[i - 1])
  <2> SUFFICES ASSUME NEW i \in 1 .. k, Next1(i, f[i - 1]) \in X PROVE f[i] = Next1(i, f[i - 1])
    OBVIOUS
  <2>1. i - 1 \in 0 .. k
    BY <1>1
  <2>2. f[i - 1] \in X /\ <<i, f[i - 1]>> \in (1 .. k) \X X
    BY <1>6, <2>1
  <2> HIDE DEF Next1, X
  <2>3. step[<<i, f[i - 1]>>] = Next1(i, f[i - 1])
    BY <2>2
  <2> QED BY <1>6, <2>3
<1>8. \A n \in 0 .. k : \E d \in Nat : Holds(f[n], d, KeysTo(m, n))
  <2>1. f[0] = EmptyTable(c)
    BY <1>6
  <2> HIDE DEF step
  <2> QED BY <1>7, <2>1, FillLoop
<1>9. \A i \in 1 .. k : f[i] = Put(f[i - 1], m[i], m[i])
  <2> SUFFICES ASSUME NEW i \in 1 .. k PROVE f[i] = Put(f[i - 1], m[i], m[i])
    OBVIOUS
  <2>1. i - 1 \in 0 .. k
    BY <1>1
  <2>2. Next1(i, f[i - 1]) \in X
    BY <1>8, <2>1, FillStep
  <2> QED BY <1>7, <2>2
<1>10. Fills(f)
  <2> HIDE DEF step, X, k
  <2>1. \A n \in 0 .. k : f[n] = IF n = 0 THEN EmptyTable(c) ELSE Put(f[n - 1], m[n], m[n])
    BY <1>1, <1>6, <1>9
  <2> QED BY <1>1, <1>6, <2>1
<1>11. Fills(put)
  <2> HIDE DEF Fills
  <2> QED BY <1>10
<1>12. put[0] = EmptyTable(c) /\ \A i \in 1 .. k : put[i] = Put(put[i - 1], m[i], m[i])
  <2> HIDE DEF put, k
  <2> QED BY <1>1, <1>11
<1>13. \E d \in Nat : Holds(put[k], d, KeysTo(m, k))
  <2> HIDE DEF put
  <2>1. \A n \in 0 .. k : \E d \in Nat : Holds(put[n], d, KeysTo(m, n))
    BY <1>12, FillLoop
  <2> QED BY <1>1, <2>1
<1> QED
  BY <1>2, <1>13

--------------------------------------------------------------------------------
(***************************************************************************)
(* The list.                                                               *)
(***************************************************************************)
LEMMA ListTypes ==
  ASSUME NEW nodes, NEW first, NEW end, NEW m, ListHolds(nodes, first, end, m)
  PROVE  /\ m \in Seq(Key) /\ Len(m) \in Nat /\ Cardinality(Key) \in Nat
         /\ Len(m) <= Cardinality(Key)
         /\ \A i \in 1 .. Len(m) : m[i] \in Key /\ m[i] # Null
         /\ Keys(m) \subseteq Key
<1>1. m \in Seq(Key) /\ Len(m) \in Nat /\ \A i \in 1 .. Len(m) : m[i] \in Key
  BY DEF ListHolds
<1>2. m \in Injection(1 .. Len(m), Key)
  <2>1. m \in [1 .. Len(m) -> Key]
    BY <1>1
  <2> QED BY <2>1 DEF ListHolds, Injection, IsInjective
<1>3. Cardinality(1 .. Len(m)) = Len(m)
  <2>1. Cardinality(1 .. Len(m)) = IF 1 > Len(m) THEN 0 ELSE Len(m) - 1 + 1
    BY <1>1, FS_Interval
  <2> QED BY <1>1, <2>1
<1>4. IsFiniteSet(Key) /\ Cardinality(Key) \in Nat
  BY TableAssumption, FS_CardinalityType
<1>5. Len(m) <= Cardinality(Key)
  BY <1>2, <1>3, <1>4, FS_Injection
<1>6. Keys(m) \subseteq Key
  BY <1>1 DEF Keys
<1> QED
  BY <1>1, <1>4, <1>5, <1>6, TableAssumption

\* The node at place i of the list, or none behind the end.
Place(m, i) == IF i <= Len(m) THEN m[i] ELSE Null

\* Following the links from a place gives the keys from there on.
LEMMA WalkRight ==
  ASSUME NEW nodes, NEW first, NEW end, NEW m, ListHolds(nodes, first, end, m),
         NEW i \in 1 .. Len(m) + 1
  PROVE  Walk(nodes, Place(m, i)) = SubSeq(m, i, Len(m))
<1> DEFINE C == Cardinality(Key)
           k == Len(m)
           start == Place(m, i)
           Fills(f) == f = [n \in 0 .. C |-> IF n = 0 THEN start
                                             ELSE IF f[n - 1] = Null THEN Null ELSE nodes[f[n - 1]].next]
           at == CHOOSE f : Fills(f)
           g == [n \in 0 .. C |-> Place(m, i + n)]
           length == Cardinality({n \in DOMAIN at : at[n] # Null})
<1>1. Walk(nodes, start) = [n \in 1 .. length |-> at[n - 1]]
  BY DEF Walk
<1>2. /\ m \in Seq(Key) /\ k \in Nat /\ C \in Nat /\ k <= C
      /\ \A j \in 1 .. k : m[j] \in Key /\ m[j] # Null
  BY ListTypes
<1>3. \A j \in 1 .. k : nodes[m[j]].next = Place(m, j + 1)
  <2> SUFFICES ASSUME NEW j \in 1 .. k PROVE nodes[m[j]].next = Place(m, j + 1)
    OBVIOUS
  <2> HIDE DEF at, g, length, Fills, start
  <2>1. nodes[m[j]] = [prev |-> IF j = 1 THEN Null ELSE m[j - 1], next |-> IF j = Len(m) THEN Null ELSE m[j + 1]]
    BY DEF ListHolds
  <2> QED BY <1>2, <2>1 DEF Place
<1>4. \A j \in Nat \ {0} : Place(m, j) = Null <=> j > k
  BY <1>2 DEF Place
<1>5. \A n \in 1 .. C : Place(m, i + n) = IF Place(m, i + (n - 1)) = Null THEN Null
                                         ELSE nodes[Place(m, i + (n - 1))].next
  <2> SUFFICES ASSUME NEW n \in 1 .. C
               PROVE  Place(m, i + n) = IF Place(m, i + (n - 1)) = Null THEN Null
                                        ELSE nodes[Place(m, i + (n - 1))].next
    OBVIOUS
  <2> DEFINE j == i + (n - 1)
  <2>1. j \in Nat \ {0} /\ i + n = j + 1 /\ j + 1 \in Nat \ {0}
    BY <1>2
  <2> HIDE DEF j
  <2> SUFFICES Place(m, j + 1) = IF Place(m, j) = Null THEN Null ELSE nodes[Place(m, j)].next
    BY <2>1 DEF j
  <2>2. CASE j > k
    BY <1>2, <1>4, <2>1, <2>2
  <2>3. CASE j <= k
    <3>1. Place(m, j) = m[j] /\ Place(m, j) # Null /\ j \in 1 .. k
      BY <1>2, <1>4, <2>1, <2>3 DEF Place
    <3> QED BY <1>3, <2>1, <3>1
  <2> QED BY <1>2, <2>1, <2>2, <2>3
<1> HIDE DEF k, C
<1>6. g[0] = start /\ \A n \in 0 .. C : g[n] = Place(m, i + n)
  BY <1>2
<1>7. Fills(g)
  <2> HIDE DEF start
  <2>1. ASSUME NEW n \in 0 .. C
        PROVE  Place(m, i + n) = IF n = 0 THEN start
                                 ELSE IF g[n - 1] = Null THEN Null ELSE nodes[g[n - 1]].next
    <3>1. CASE n = 0
      BY <1>6, <3>1
    <3>2. CASE n # 0
      <4>1. n \in 1 .. C /\ n - 1 \in 0 .. C
        BY <1>2, <3>2
      <4>2. g[n - 1] = Place(m, i + (n - 1))
        BY <4>1
      <4> HIDE DEF g
      <4> QED BY <1>5, <3>2, <4>1, <4>2
    <3> QED BY <3>1, <3>2
  <2> QED BY <2>1
<1>8. Fills(at)
  <2> HIDE DEF Fills
  <2> QED BY <1>7
<1>9. /\ DOMAIN at = 0 .. C /\ at[0] = start
      /\ \A n \in 1 .. C : at[n] = IF at[n - 1] = Null THEN Null ELSE nodes[at[n - 1]].next
  <2> HIDE DEF start, at
  <2> QED BY <1>2, <1>8
<1> HIDE DEF at, Fills
<1>10. ASSUME NEW n \in 0 .. C PROVE at[n] = Place(m, i + n)
  <2> DEFINE S == {j \in 0 .. C : at[j] = Place(m, i + j)}
  <2>1. 0 \in S
    BY <1>2, <1>6, <1>9
  <2>2. ASSUME NEW j \in 1 .. C, j - 1 \in S PROVE j \in S
    <3>1. at[j - 1] = Place(m, i + (j - 1))
      BY <2>2
    <3>2. at[j] = Place(m, i + j)
      BY <1>5, <1>9, <3>1
    <3> QED BY <1>2, <3>2
  <2>3. n \in Nat /\ \A j \in 1 .. n : j \in 1 .. C
    BY <1>2
  <2>4. n \in S
    <3> HIDE DEF S
    <3> QED BY <2>1, <2>2, <2>3, LoopInduction
  <2> QED BY <2>4
<1>11. length = k - i + 1
  <2>1. {n \in DOMAIN at : at[n] # Null} = 0 .. k - i
    <3>1. ASSUME NEW n \in 0 .. C PROVE at[n] # Null <=> n \in 0 .. k - i
      <4>1. i + n \in Nat \ {0}
        OBVIOUS
      <4>2. at[n] # Null <=> ~(i + n > k)
        BY <1>4, <1>10, <4>1
      <4> QED BY <1>2, <4>2
    <3>2. 0 .. k - i \subseteq 0 .. C
      BY <1>2
    <3> QED BY <1>9, <3>1, <3>2
  <2>2. i \in 1 .. k + 1
    BY DEF k
  <2>3. Cardinality(0 .. k - i) = k - i + 1
    <3>1. Cardinality(0 .. k - i) = IF 0 > k - i THEN 0 ELSE k - i - 0 + 1
      BY <1>2, <2>2, FS_Interval
    <3> QED BY <1>2, <2>2, <3>1
  <2> QED BY <2>1, <2>3
<1>12. [n \in 1 .. length |-> at[n - 1]] = SubSeq(m, i, k)
  <2>1. i \in 1 .. k + 1
    BY DEF k
  <2>2. /\ SubSeq(m, i, k) \in Seq(Key) /\ Len(SubSeq(m, i, k)) = k - i + 1
        /\ \A n \in 1 .. k - i + 1 : SubSeq(m, i, k)[n] = m[i + n - 1]
    BY <1>2, <2>1 DEF k
  <2>3. \A n \in 1 .. k - i + 1 : at[n - 1] = m[i + n - 1]
    <3> SUFFICES ASSUME NEW n \in 1 .. k - i + 1 PROVE at[n - 1] = m[i + n - 1]
      OBVIOUS
    <3>1. n - 1 \in 0 .. C /\ i + (n - 1) <= k /\ i + (n - 1) = i + n - 1
      BY <1>2, <2>1
    <3>2. Place(m, i + (n - 1)) = m[i + (n - 1)]
      BY <3>1 DEF Place, k
    <3> QED BY <1>10, <3>1, <3>2
  <2>4. SubSeq(m, i, k) = [n \in 1 .. k - i + 1 |-> SubSeq(m, i, k)[n]]
    BY <2>2
  <2>5. SubSeq(m, i, k) = [n \in 1 .. k - i + 1 |-> at[n - 1]]
    BY <2>2, <2>3, <2>4
  <2> HIDE DEF length
  <2> QED BY <1>11, <2>5
<1> QED
  BY <1>1, <1>12 DEF k

\* What the users of a list see from its first node, from none, and from any other.
LEMMA WalkFromAny ==
  ASSUME NEW nodes, NEW first, NEW end, NEW m, ListHolds(nodes, first, end, m)
  PROVE  /\ Walk(nodes, first) = m
         /\ Walk(nodes, Null) = <<>>
         /\ \A i \in 1 .. Len(m) : Walk(nodes, m[i]) = SubSeq(m, i, Len(m))
<1>1. m \in Seq(Key) /\ Len(m) \in Nat
  BY ListTypes
<1>2. Walk(nodes, Null) = <<>>
  <2>1. Place(m, Len(m) + 1) = Null /\ Len(m) + 1 \in 1 .. Len(m) + 1
    BY <1>1 DEF Place
  <2>2. Walk(nodes, Null) = SubSeq(m, Len(m) + 1, Len(m))
    BY <2>1, WalkRight
  <2> QED BY <1>1, <2>2
<1>3. Walk(nodes, first) = m
  <2>1. 1 \in 1 .. Len(m) + 1 /\ first = Place(m, 1)
    BY <1>1 DEF Place, ListHolds
  <2>2. Walk(nodes, first) = SubSeq(m, 1, Len(m))
    BY <2>1, WalkRight
  <2> QED BY <1>1, <2>2
<1>4. ASSUME NEW i \in 1 .. Len(m) PROVE Walk(nodes, m[i]) = SubSeq(m, i, Len(m))
  <2>1. i \in 1 .. Len(m) + 1 /\ m[i] = Place(m, i)
    BY <1>1 DEF Place
  <2> QED BY <2>1, WalkRight
<1> QED
  BY <1>2, <1>3, <1>4

LEMMA Appended ==
  ASSUME NEW m \in Seq(Key), NEW key \in Key
  PROVE  /\ Append(m, key) \in Seq(Key) /\ Len(Append(m, key)) = Len(m) + 1
         /\ Append(m, key)[Len(m) + 1] = key
         /\ \A i \in 1 .. Len(m) : Append(m, key)[i] = m[i]
         /\ Keys(Append(m, key)) = Keys(m) \cup {key}
         /\ \A i \in 1 .. Len(m) : SubSeq(Append(m, key), i, Len(m) + 1) = Append(SubSeq(m, i, Len(m)), key)
<1> DEFINE a == Append(m, key)
           k == Len(m)
<1>1. /\ k \in Nat /\ a \in Seq(Key) /\ Len(a) = k + 1 /\ a[k + 1] = key
      /\ \A i \in 1 .. k : a[i] = m[i]
  OBVIOUS
<1> HIDE DEF a
<1>2. Keys(a) = Keys(m) \cup {key}
  <2>1. \A i : i \in 1 .. k + 1 <=> (i \in 1 .. k \/ i = k + 1)
    BY <1>1
  <2> HIDE DEF k
  <2>2. Keys(a) = {a[i] : i \in 1 .. k + 1}
    BY <1>1 DEF Keys
  <2>3. Keys(m) = {m[i] : i \in 1 .. k}
    BY DEF Keys, k
  <2> QED BY <1>1, <2>1, <2>2, <2>3
<1>3. ASSUME NEW i \in 1 .. k PROVE SubSeq(a, i, k + 1) = Append(SubSeq(m, i, k), key)
  <2> DEFINE s == SubSeq(a, i, k + 1)
             b == SubSeq(m, i, k)
  <2>1. /\ s \in Seq(Key) /\ Len(s) = k + 2 - i
        /\ \A j \in 1 .. k + 2 - i : s[j] = a[i + j - 1]
    BY <1>1
  <2>2. /\ b \in Seq(Key) /\ Len(b) = k + 1 - i
        /\ \A j \in 1 .. k + 1 - i : b[j] = m[i + j - 1]
    BY <1>1
  <2> HIDE DEF s, b
  <2>3. /\ Append(b, key) \in Seq(Key) /\ Len(Append(b, key)) = k + 2 - i
        /\ Append(b, key)[k + 2 - i] = key
        /\ \A j \in 1 .. k + 1 - i : Append(b, key)[j] = b[j]
    <3>1. /\ Append(b, key) \in Seq(Key) /\ Len(Append(b, key)) = Len(b) + 1
          /\ Append(b, key)[Len(b) + 1] = key
          /\ \A j \in 1 .. Len(b) : Append(b, key)[j] = b[j]
      BY <2>2, AppendProperties
    <3>2. Len(b) + 1 = k + 2 - i
      BY <1>1, <2>2
    <3> QED BY <2>2, <3>1, <3>2
  <2>4. \A j \in 1 .. k + 2 - i : s[j] = Append(b, key)[j]
    <3> SUFFICES ASSUME NEW j \in 1 .. k + 2 - i PROVE s[j] = Append(b, key)[j]
      OBVIOUS
    <3>1. CASE j = k + 2 - i
      <4>1. i + j - 1 = k + 1
        BY <1>1, <3>1
      <4> QED BY <1>1, <2>1, <2>3, <3>1, <4>1
    <3>2. CASE j # k + 2 - i
      <4>1. j \in 1 .. k + 1 - i /\ i + j - 1 \in 1 .. k
        BY <1>1, <3>2
      <4> QED BY <1>1, <2>1, <2>2, <2>3, <4>1
    <3> QED BY <3>1, <3>2
  <2>5. s = Append(b, key)
    BY <2>1, <2>3, <2>4, SeqEqual
  <2> QED BY <2>5 DEF s, b
<1> QED
  BY <1>1, <1>2, <1>3 DEF a

\* A new node behind the last.
LEMMA AppendHolds ==
  ASSUME NEW nodes, NEW first, NEW end, NEW m, ListHolds(nodes, first, end, m),
         NEW key \in Key \ Keys(m), NEW after,
         after = [k \in DOMAIN nodes \cup {key} |->
                    IF k = key THEN [prev |-> end, next |-> Null]
                    ELSE IF k = end THEN [nodes[k] EXCEPT !.next = key] ELSE nodes[k]]
  PROVE  ListHolds(after, IF end = Null THEN key ELSE first, key, Append(m, key))
<1> DEFINE a == Append(m, key)
           n == Len(m)
<1>1. /\ m \in Seq(Key) /\ n \in Nat
      /\ \A i \in 1 .. n : m[i] \in Key /\ m[i] # Null
      /\ \A i, j \in 1 .. n : m[i] = m[j] => i = j
      /\ DOMAIN nodes = Keys(m)
      /\ \A i \in 1 .. n : nodes[m[i]] = [prev |-> IF i = 1 THEN Null ELSE m[i - 1],
                                          next |-> IF i = n THEN Null ELSE m[i + 1]]
      /\ first = (IF m = <<>> THEN Null ELSE m[1])
      /\ end = (IF m = <<>> THEN Null ELSE m[n])
  BY ListTypes DEF ListHolds
<1>2. /\ a \in Seq(Key) /\ Len(a) = n + 1 /\ a[n + 1] = key
      /\ \A i \in 1 .. n : a[i] = m[i]
      /\ Keys(a) = Keys(m) \cup {key}
  BY <1>1, Appended
<1>3. \A i \in 1 .. n : m[i] \in Keys(m) /\ m[i] # key
  BY DEF Keys
<1>4. m = <<>> <=> n = 0
  BY <1>1
<1> HIDE DEF a, n
<1>5. end = (IF n = 0 THEN Null ELSE m[n]) /\ (n # 0 => end # Null)
  BY <1>1, <1>4
<1>6. \A i, j \in 1 .. n + 1 : a[i] = a[j] => i = j
  <2>1. \A i \in 1 .. n + 1 : i \in 1 .. n \/ i = n + 1
    BY <1>1
  <2> QED BY <1>1, <1>2, <1>3, <2>1
<1>7. DOMAIN after = Keys(a)
  BY <1>1, <1>2
<1>8. ASSUME NEW i \in 1 .. n + 1
      PROVE  after[a[i]] = [prev |-> IF i = 1 THEN Null ELSE a[i - 1],
                            next |-> IF i = n + 1 THEN Null ELSE a[i + 1]]
  <2>1. CASE i = n + 1
    <3>1. after[a[i]] = [prev |-> end, next |-> Null]
      BY <1>1, <1>2, <2>1
    <3>2. end = IF i = 1 THEN Null ELSE a[i - 1]
      BY <1>1, <1>2, <1>5, <2>1
    <3> QED BY <2>1, <3>1, <3>2
  <2>2. CASE i = n
    <3>1. i \in 1 .. n /\ a[i] = m[i] /\ m[i] = end /\ a[i + 1] = key /\ i # n + 1
      BY <1>1, <1>2, <1>5, <2>2
    <3>2. nodes[m[i]] = [prev |-> IF i = 1 THEN Null ELSE m[i - 1], next |-> Null]
      BY <1>1, <2>2, <3>1
    <3>3. after[a[i]] = [nodes[m[i]] EXCEPT !.next = key]
      BY <1>1, <1>2, <1>3, <3>1
    <3>4. after[a[i]] = [prev |-> IF i = 1 THEN Null ELSE m[i - 1], next |-> key]
      BY <3>2, <3>3
    <3>5. i # 1 => a[i - 1] = m[i - 1]
      BY <1>1, <1>2, <3>1
    <3> QED BY <3>1, <3>4, <3>5
  <2>3. CASE i < n
    <3>1. i \in 1 .. n /\ a[i] = m[i] /\ a[i + 1] = m[i + 1] /\ i # n /\ i # n + 1 /\ m[i] # end
      BY SMTT(60), <1>1, <1>2, <1>5, <2>3
    <3>2. after[a[i]] = nodes[m[i]]
      BY <1>1, <1>2, <1>3, <3>1
    <3>3. nodes[m[i]] = [prev |-> IF i = 1 THEN Null ELSE m[i - 1], next |-> m[i + 1]]
      BY <1>1, <3>1
    <3>4. i # 1 => a[i - 1] = m[i - 1]
      BY SMTT(60), <1>1, <1>2, <3>1
    <3> QED BY <3>1, <3>2, <3>3, <3>4
  <2> QED BY <1>1, <2>1, <2>2, <2>3
<1>9. (IF end = Null THEN key ELSE first) = a[1]
  <2>1. CASE n = 0
    BY <1>2, <1>5, <2>1
  <2>2. CASE n # 0
    <3>1. first = m[1] /\ a[1] = m[1]
      BY <1>1, <1>2, <1>4, <2>2
    <3> QED BY <1>5, <2>2, <3>1
  <2> QED BY <2>1, <2>2
<1>10. a # <<>>
  BY <1>1, <1>2
<1>11. ListHolds(after, IF end = Null THEN key ELSE first, key, a)
  BY <1>2, <1>6, <1>7, <1>8, <1>9, <1>10 DEF ListHolds
<1> QED
  BY <1>11 DEF a

LEMMA RemovedAt ==
  ASSUME NEW m \in Seq(Key), NEW i \in 1 .. Len(m)
  PROVE  /\ RemoveAt(m, i) \in Seq(Key) /\ Len(RemoveAt(m, i)) = Len(m) - 1
         /\ \A j \in 1 .. Len(m) - 1 : RemoveAt(m, i)[j] = IF j < i THEN m[j] ELSE m[j + 1]
<1> DEFINE a == SubSeq(m, 1, i - 1)
           b == SubSeq(m, i + 1, Len(m))
           k == Len(m)
<1>1. k \in Nat /\ i \in 1 .. k
  OBVIOUS
<1>2. a \in Seq(Key) /\ Len(a) = i - 1 /\ \A j \in 1 .. i - 1 : a[j] = m[j]
  BY <1>1
<1>3. b \in Seq(Key) /\ Len(b) = k - i /\ \A j \in 1 .. k - i : b[j] = m[i + j]
  <2>1. b \in Seq(Key) /\ Len(b) = k - i /\ \A j \in 1 .. k - i : b[j] = m[(i + 1) + j - 1]
    BY <1>1
  <2>2. \A j \in 1 .. k - i : (i + 1) + j - 1 = i + j
    BY <1>1
  <2> QED BY <2>1, <2>2
<1> HIDE DEF a, b, k
<1>4. /\ a \o b \in Seq(Key) /\ Len(a \o b) = Len(a) + Len(b)
      /\ \A j \in 1 .. Len(a) + Len(b) : (a \o b)[j] = IF j <= Len(a) THEN a[j] ELSE b[j - Len(a)]
  BY <1>2, <1>3, ConcatProperties
<1>5. ASSUME NEW j \in 1 .. k - 1 PROVE (a \o b)[j] = IF j < i THEN m[j] ELSE m[j + 1]
  <2>1. j \in 1 .. Len(a) + Len(b)
    BY <1>1, <1>2, <1>3
  <2>2. CASE j < i
    <3>1. j \in 1 .. i - 1
      BY <1>1, <2>2
    <3>2. j <= Len(a)
      BY <1>2, <3>1
    <3> QED BY <1>2, <1>4, <2>1, <2>2, <3>1, <3>2
  <2>3. CASE ~(j < i)
    <3>1. j - Len(a) \in 1 .. k - i /\ ~(j <= Len(a)) /\ i + (j - Len(a)) = j + 1
      BY <1>1, <1>2, <2>3
    <3> QED BY <1>3, <1>4, <2>1, <2>3, <3>1
  <2> QED BY <2>2, <2>3
<1>6. RemoveAt(m, i) = a \o b
  BY DEF RemoveAt, a, b, k
<1>7. Len(a \o b) = k - 1
  BY <1>1, <1>2, <1>3, <1>4
<1> QED
  BY <1>4, <1>5, <1>6, <1>7 DEF k

\* The keys that are left, and what lies behind the place of the removed one.
LEMMA RemovedKeys ==
  ASSUME NEW m \in Seq(Key), \A i, j \in 1 .. Len(m) : m[i] = m[j] => i = j, NEW i \in 1 .. Len(m)
  PROVE  /\ Keys(RemoveAt(m, i)) = Keys(m) \ {m[i]}
         /\ \A j \in i + 1 .. Len(m) : /\ RemoveAt(m, i)[j - 1] = m[j]
                                       /\ SubSeq(RemoveAt(m, i), j - 1, Len(m) - 1) = SubSeq(m, j, Len(m))
         /\ \A j \in 1 .. Len(m) - 1 : \A n \in 1 .. Len(m) - 1 :
              RemoveAt(m, i)[j] = RemoveAt(m, i)[n] => j = n
<1> DEFINE r == RemoveAt(m, i)
           k == Len(m)
<1>1. /\ k \in Nat /\ i \in 1 .. k /\ r \in Seq(Key) /\ Len(r) = k - 1
      /\ \A j \in 1 .. k - 1 : r[j] = IF j < i THEN m[j] ELSE m[j + 1]
  <2>1. k \in Nat /\ i \in 1 .. k
    OBVIOUS
  <2>2. /\ r \in Seq(Key) /\ Len(r) = k - 1
        /\ \A j \in 1 .. k - 1 : r[j] = IF j < i THEN m[j] ELSE m[j + 1]
    <3> HIDE DEF r, k
    <3> QED BY RemovedAt DEF r, k
  <2> QED BY <2>1, <2>2
<1>2. \A a, b \in 1 .. k : m[a] = m[b] => a = b
  OBVIOUS
<1>3. Keys(r) = {r[j] : j \in 1 .. k - 1} /\ Keys(m) = {m[j] : j \in 1 .. k}
  BY <1>1 DEF Keys
<1> HIDE DEF r, k
<1>4. ASSUME NEW j \in 1 .. k - 1 PROVE r[j] \in Keys(m) \ {m[i]}
  <2>1. CASE j < i
    <3>1. j \in 1 .. k /\ j # i /\ r[j] = m[j]
      BY <1>1, <2>1
    <3> QED BY <1>1, <1>2, <1>3, <3>1
  <2>2. CASE ~(j < i)
    <3>1. j + 1 \in 1 .. k /\ j + 1 # i /\ r[j] = m[j + 1]
      BY <1>1, <2>2
    <3> QED BY <1>1, <1>2, <1>3, <3>1
  <2> QED BY <2>1, <2>2
<1>5. ASSUME NEW j \in 1 .. k, j # i PROVE m[j] \in Keys(r)
  <2>1. CASE j < i
    <3>1. j \in 1 .. k - 1 /\ r[j] = m[j]
      BY <1>1, <2>1
    <3> QED BY <1>3, <3>1
  <2>2. CASE ~(j < i)
    <3>1. j - 1 \in 1 .. k - 1 /\ ~(j - 1 < i) /\ (j - 1) + 1 = j
      BY <1>1, <1>5, <2>2
    <3>2. r[j - 1] = m[j]
      BY <1>1, <3>1
    <3> QED BY <1>3, <3>1, <3>2
  <2> QED BY <2>1, <2>2
<1>6. Keys(r) = Keys(m) \ {m[i]}
  <2>1. Keys(r) \subseteq Keys(m) \ {m[i]}
    BY <1>3, <1>4
  <2>2. Keys(m) \ {m[i]} \subseteq Keys(r)
    BY <1>3, <1>5
  <2> QED BY <2>1, <2>2
<1>7. \A j \in i + 1 .. k : r[j - 1] = m[j]
  <2> SUFFICES ASSUME NEW j \in i + 1 .. k PROVE r[j - 1] = m[j]
    OBVIOUS
  <2>1. j - 1 \in 1 .. k - 1 /\ ~(j - 1 < i) /\ (j - 1) + 1 = j
    BY <1>1
  <2> QED BY <1>1, <2>1
<1>8. ASSUME NEW j \in i + 1 .. k PROVE SubSeq(r, j - 1, k - 1) = SubSeq(m, j, k)
  <2> DEFINE s == SubSeq(r, j - 1, k - 1)
             q == SubSeq(m, j, k)
  <2>1. j - 1 \in 1 .. k - 1 /\ j \in 1 .. k
    BY <1>1
  <2>2. /\ s \in Seq(Key) /\ Len(s) = k - j + 1
        /\ \A n \in 1 .. k - j + 1 : s[n] = r[(j - 1) + n - 1]
    <3>1. (k - 1) - (j - 1) + 1 = k - j + 1 /\ j - 1 <= k - 1 /\ j - 1 \in Int /\ k - 1 \in Int
      BY <1>1
    <3>2. \A n \in j - 1 .. k - 1 : r[n] \in Key
      BY <1>1
    <3>3. /\ s \in Seq(Key) /\ Len(s) = (k - 1) - (j - 1) + 1
          /\ \A n \in 1 .. (k - 1) - (j - 1) + 1 : s[n] = r[(j - 1) + n - 1]
      <4> HIDE DEF s
      <4> QED BY <3>1, <3>2, SubSeqProperties DEF s
    <3> QED BY <3>1, <3>3
  <2>3. /\ q \in Seq(Key) /\ Len(q) = k - j + 1
        /\ \A n \in 1 .. k - j + 1 : q[n] = m[j + n - 1]
    BY SMTT(60), <1>1, <2>1 DEF k
  <2> HIDE DEF s, q
  <2>4. ASSUME NEW n \in 1 .. k - j + 1 PROVE s[n] = q[n]
    <3>1. j + n - 1 \in i + 1 .. k /\ (j - 1) + n - 1 = (j + n - 1) - 1
      BY <1>1
    <3> QED BY SMTT(60), <1>7, <2>2, <2>3, <3>1
  <2>5. s = q
    BY <2>2, <2>3, <2>4, SeqEqual
  <2> QED BY <2>5 DEF s, q
<1>9. ASSUME NEW j \in 1 .. k - 1, NEW n \in 1 .. k - 1, r[j] = r[n] PROVE j = n
  <2> DEFINE a == IF j < i THEN j ELSE j + 1
             b == IF n < i THEN n ELSE n + 1
  <2>1. a \in 1 .. k /\ b \in 1 .. k /\ r[j] = m[a] /\ r[n] = m[b]
    BY <1>1
  <2>2. a = b
    <3> HIDE DEF a, b
    <3> QED BY <1>2, <1>9, <2>1
  <2> QED BY <1>1, <2>2
<1> QED
  BY <1>6, <1>7, <1>8, <1>9 DEF r, k

\* A node leaves the list.
LEMMA UnlinkHolds ==
  ASSUME NEW nodes, NEW first, NEW end, NEW m, ListHolds(nodes, first, end, m),
         NEW i \in 1 .. Len(m), NEW after,
         after = [k \in DOMAIN nodes \ {m[i]} |->
                    [prev |-> IF nodes[k].prev = m[i] THEN nodes[m[i]].prev ELSE nodes[k].prev,
                     next |-> IF nodes[k].next = m[i] THEN nodes[m[i]].next ELSE nodes[k].next]]
  PROVE  ListHolds(after,
                   IF nodes[m[i]].prev = Null THEN nodes[m[i]].next ELSE first,
                   IF nodes[m[i]].next = Null THEN nodes[m[i]].prev ELSE end,
                   RemoveAt(m, i))
<1> DEFINE r == RemoveAt(m, i)
           n == Len(m)
           before(j) == IF j = 1 THEN Null ELSE m[j - 1]
           behind(j) == IF j = n THEN Null ELSE m[j + 1]
<1>1. /\ m \in Seq(Key) /\ n \in Nat /\ i \in 1 .. n
      /\ \A j \in 1 .. n : m[j] \in Key /\ m[j] # Null
      /\ \A j, k \in 1 .. n : m[j] = m[k] => j = k
      /\ DOMAIN nodes = Keys(m)
      /\ \A j \in 1 .. n : nodes[m[j]] = [prev |-> before(j), next |-> behind(j)]
      /\ first = (IF m = <<>> THEN Null ELSE m[1])
      /\ end = (IF m = <<>> THEN Null ELSE m[n])
  BY ListTypes DEF ListHolds
<1>2. \A j \in 1 .. n : nodes[m[j]].prev = before(j) /\ nodes[m[j]].next = behind(j)
  <2> SUFFICES ASSUME NEW j \in 1 .. n PROVE nodes[m[j]].prev = before(j) /\ nodes[m[j]].next = behind(j)
    OBVIOUS
  <2>1. nodes[m[j]] = [prev |-> before(j), next |-> behind(j)]
    BY <1>1
  <2> HIDE DEF before, behind, n
  <2> QED BY <2>1
<1>3. /\ r \in Seq(Key) /\ Len(r) = n - 1
      /\ \A j \in 1 .. n - 1 : r[j] = IF j < i THEN m[j] ELSE m[j + 1]
      /\ Keys(r) = Keys(m) \ {m[i]}
      /\ \A j, k \in 1 .. n - 1 : r[j] = r[k] => j = k
  BY <1>1, RemovedAt, RemovedKeys
<1> HIDE DEF r, n
<1>4. n # 0 /\ m # <<>> /\ first = m[1] /\ end = m[n]
  BY <1>1 DEF n
<1>5. DOMAIN after = Keys(r)
  BY <1>1, <1>3
<1>6. ASSUME NEW j \in 1 .. n - 1
      PROVE  after[r[j]] = [prev |-> IF j = 1 THEN Null ELSE r[j - 1],
                            next |-> IF j = n - 1 THEN Null ELSE r[j + 1]]
  <2> DEFINE a == IF j < i THEN j ELSE j + 1
  <2>1. a \in 1 .. n /\ a # i /\ r[j] = m[a] /\ n - 1 \in Nat
    BY <1>1, <1>3
  <2>2. r[j] \in DOMAIN nodes \ {m[i]}
    BY <1>1, <1>3 DEF Keys
  <2>3. after[r[j]] = [prev |-> IF before(a) = m[i] THEN before(i) ELSE before(a),
                       next |-> IF behind(a) = m[i] THEN behind(i) ELSE behind(a)]
    <3> HIDE DEF before, behind, a
    <3>1. /\ nodes[r[j]].prev = before(a) /\ nodes[r[j]].next = behind(a)
          /\ nodes[m[i]].prev = before(i) /\ nodes[m[i]].next = behind(i)
      BY <1>1, <1>2, <2>1
    <3> QED BY <2>2, <3>1
  <2>4. (IF before(a) = m[i] THEN before(i) ELSE before(a)) = IF j = 1 THEN Null ELSE r[j - 1]
    <3>1. CASE j < i
      <4>1. a = j /\ before(a) # m[i]
        <5>1. j # 1 => j - 1 \in 1 .. n /\ j - 1 # i
          BY <1>1, <3>1
        <5> QED BY <1>1, <3>1, <5>1
      <4>2. j # 1 => r[j - 1] = m[j - 1]
        BY <1>1, <1>3, <3>1
      <4> QED BY <4>1, <4>2
    <3>2. CASE j = i
      <4>1. a = j + 1 /\ before(a) = m[i]
        BY <1>1, <3>2
      <4>2. j # 1 => r[j - 1] = m[j - 1]
        BY <1>1, <1>3, <3>2
      <4> QED BY <3>2, <4>1, <4>2
    <3>3. CASE j > i
      <4>1. a = j + 1 /\ j # 1 /\ j \in 1 .. n /\ before(a) = m[j] /\ m[j] # m[i]
        BY <1>1, <3>3
      <4>2. j - 1 \in 1 .. n - 1 /\ ~(j - 1 < i) /\ (j - 1) + 1 = j
        BY <1>1, <3>3
      <4>3. r[j - 1] = m[j]
        BY <1>3, <4>2
      <4> QED BY <4>1, <4>3
    <3> QED BY <1>1, <3>1, <3>2, <3>3
  <2>5. (IF behind(a) = m[i] THEN behind(i) ELSE behind(a)) = IF j = n - 1 THEN Null ELSE r[j + 1]
    <3>1. CASE j + 1 < i
      <4>1. a = j /\ j # n /\ j # n - 1 /\ j + 1 \in 1 .. n /\ j + 1 \in 1 .. n - 1 /\ j + 1 # i
        BY <1>1, <3>1
      <4>2. behind(a) = m[j + 1] /\ m[j + 1] # m[i] /\ r[j + 1] = m[j + 1]
        BY <1>1, <1>3, <3>1, <4>1
      <4> QED BY <4>1, <4>2
    <3>2. CASE j + 1 = i
      <4>1. a = j /\ j # n /\ behind(a) = m[i] /\ (j = n - 1 <=> i = n)
        BY <1>1, <3>2
      <4>2. j # n - 1 => r[j + 1] = m[i + 1]
        BY <1>1, <1>3, <3>2
      <4> QED BY <4>1, <4>2
    <3>3. CASE j + 1 > i
      <4>1. a = j + 1 /\ (j = n - 1 <=> a = n)
        BY <1>1, <3>3
      <4>2. j # n - 1 => j + 2 \in 1 .. n /\ j + 2 # i /\ j + 1 \in 1 .. n - 1 /\ (j + 1) + 1 = j + 2
        BY <1>1, <3>3
      <4>3. j # n - 1 => behind(a) = m[j + 2] /\ m[j + 2] # m[i] /\ r[j + 1] = m[j + 2]
        BY <1>1, <1>3, <3>3, <4>1, <4>2
      <4>4. j = n - 1 => behind(a) = Null /\ Null # m[i]
        BY <1>1, <4>1
      <4> QED BY <4>3, <4>4
    <3> QED BY <1>1, <3>1, <3>2, <3>3
  <2> HIDE DEF a, before, behind
  <2> QED BY <2>3, <2>4, <2>5
<1>7. r = <<>> <=> n = 1
  BY <1>1, <1>3
<1>8. (IF nodes[m[i]].prev = Null THEN nodes[m[i]].next ELSE first) = IF r = <<>> THEN Null ELSE r[1]
  <2>1. CASE i = 1
    <3>1. nodes[m[i]].prev = Null /\ nodes[m[i]].next = IF n = 1 THEN Null ELSE m[2]
      BY <1>1, <1>2, <2>1
    <3>2. n # 1 => r[1] = m[2]
      BY <1>1, <1>3, <2>1
    <3> QED BY <1>7, <3>1, <3>2
  <2>2. CASE i # 1
    <3>1. nodes[m[i]].prev # Null /\ n # 1 /\ r[1] = m[1]
      BY <1>1, <1>2, <1>3, <2>2
    <3> QED BY <1>4, <1>7, <3>1
  <2> QED BY <2>1, <2>2
<1>9. (IF nodes[m[i]].next = Null THEN nodes[m[i]].prev ELSE end) = IF r = <<>> THEN Null ELSE r[Len(r)]
  <2>1. CASE i = n
    <3>1. nodes[m[i]].next = Null /\ nodes[m[i]].prev = IF n = 1 THEN Null ELSE m[n - 1]
      BY <1>1, <1>2, <2>1
    <3>2. n # 1 => r[n - 1] = m[n - 1]
      BY <1>1, <1>3, <2>1
    <3> QED BY <1>3, <1>7, <3>1, <3>2
  <2>2. CASE i # n
    <3>1. nodes[m[i]].next # Null /\ n # 1
      BY <1>1, <1>2, <2>2
    <3>2. r[n - 1] = m[n]
      <4>1. n - 1 \in 1 .. n - 1 /\ ~(n - 1 < i) /\ (n - 1) + 1 = n
        BY <1>1, <2>2, <3>1
      <4> QED BY <1>3, <4>1
    <3> QED BY <1>3, <1>4, <1>7, <3>1, <3>2
  <2> QED BY <2>1, <2>2
<1>10. \A j, k \in 1 .. Len(r) : r[j] = r[k] => j = k
  BY <1>3
<1>11. \A j \in 1 .. Len(r) : after[r[j]] = [prev |-> IF j = 1 THEN Null ELSE r[j - 1],
                                             next |-> IF j = Len(r) THEN Null ELSE r[j + 1]]
  <2> SUFFICES ASSUME NEW j \in 1 .. Len(r)
               PROVE  after[r[j]] = [prev |-> IF j = 1 THEN Null ELSE r[j - 1],
                                     next |-> IF j = Len(r) THEN Null ELSE r[j + 1]]
    OBVIOUS
  <2>1. Len(r) = n - 1 /\ j \in 1 .. n - 1
    BY <1>3
  <2>2. after[r[j]] = [prev |-> IF j = 1 THEN Null ELSE r[j - 1],
                       next |-> IF j = n - 1 THEN Null ELSE r[j + 1]]
    BY <1>6, <2>1
  <2> QED BY <2>1, <2>2
<1>12. ListHolds(after, IF nodes[m[i]].prev = Null THEN nodes[m[i]].next ELSE first,
                 IF nodes[m[i]].next = Null THEN nodes[m[i]].prev ELSE end, r)
  BY <1>3, <1>5, <1>8, <1>9, <1>10, <1>11 DEF ListHolds
<1> QED
  BY <1>12 DEF r

--------------------------------------------------------------------------------
(***************************************************************************)
(* The operations keep list and table together.                            *)
(***************************************************************************)
LEMMA Lookup ==
  ASSUME NEW m, Represents(m), NEW key \in Key
  PROVE  Get(table, key) = IF key \in Keys(m) THEN key ELSE Null
<1>1. PICK c \in Nat : Holds(table, c, Keys(m))
  BY DEF Represents
<1> QED
  BY <1>1, GetRight

LEMMA ListOf ==
  ASSUME NEW m, Represents(m)
  PROVE  /\ ListHolds(node, list, tail, m)
         /\ m \in Seq(Key) /\ Len(m) \in Nat /\ Keys(m) \subseteq Key
         /\ \A i, j \in 1 .. Len(m) : m[i] = m[j] => i = j
         /\ \A i \in 1 .. Len(m) : m[i] \in Key /\ m[i] # Null
BY ListTypes DEF Represents, ListHolds

LEMMA InitRepresents == Init => Represents(<<>>)
<1> SUFFICES ASSUME Init PROVE Represents(<<>>)
  OBVIOUS
<1>1. Keys(<<>>) = {} /\ Len(<<>>) = 0 /\ <<>> \in Seq(Key)
  BY DEF Keys
<1>2. ListHolds(node, list, tail, <<>>)
  BY <1>1 DEF Init, ListHolds
<1>3. InitialCapacity \in Nat \ {0}
  BY TableAssumption
<1>4. Holds(table, InitialCapacity, Keys(<<>>))
  BY <1>1, <1>3, EmptyRight DEF Init
<1>5. IteratorHolds(<<>>)
  <2>1. walking = FALSE /\ curr = Null /\ last = Null
    BY DEF Init
  <2>2. \A i, j \in 1 .. Len(<<>>) : FALSE
    BY <1>1
  <2> QED BY <2>1, <2>2 DEF IteratorHolds
<1> QED
  BY <1>2, <1>3, <1>4, <1>5 DEF Represents

LEMMA AddRepresents ==
  ASSUME NEW m, Represents(m), NEW key \in Key, add(key)
  PROVE  key \notin Keys(m) /\ Represents(Append(m, key))'
<1> DEFINE a == Append(m, key)
<1>1. /\ ListHolds(node, list, tail, m) /\ m \in Seq(Key) /\ Len(m) \in Nat
      /\ \A i \in 1 .. Len(m) : m[i] \in Key /\ m[i] # Null
  BY ListOf
<1>2. Get(table, key) = Null /\ LinkLast(key) /\ table' = Put(table, key, key)
      /\ walking' = walking /\ curr' = curr /\ last' = last
  BY DEF add, iterator
<1>3. key \notin Keys(m) /\ key # Null
  BY <1>2, Lookup, TableAssumption
<1>4. ListHolds(node', list', tail', a)
  BY <1>1, <1>2, <1>3, AppendHolds DEF LinkLast
<1>5. /\ a \in Seq(Key) /\ Len(a) = Len(m) + 1 /\ a[Len(m) + 1] = key
      /\ \A i \in 1 .. Len(m) : a[i] = m[i]
      /\ Keys(a) = Keys(m) \cup {key}
  BY <1>1, Appended
<1>6. \E d \in Nat : Holds(table', d, Keys(a))
  <2>1. PICK c \in Nat : Holds(table, c, Keys(m))
    BY DEF Represents
  <2> HIDE DEF a
  <2> QED BY <1>2, <1>3, <1>5, <2>1, PutRight
<1>7. IteratorHolds(a)'
  <2>1. /\ walking \in BOOLEAN
        /\ ~walking => curr = Null /\ last = Null
        /\ {curr, last} \subseteq Keys(m) \cup {Null}
        /\ \A i, j \in 1 .. Len(m) : m[i] = last /\ m[j] = curr => i < j
    BY DEF Represents, IteratorHolds
  <2> HIDE DEF a
  <2>2. curr # key /\ last # key
    BY <1>3, <2>1
  <2>3. ASSUME NEW i \in 1 .. Len(a), NEW j \in 1 .. Len(a), a[i] = last, a[j] = curr PROVE i < j
    <3>1. i # Len(m) + 1 /\ j # Len(m) + 1
      BY <1>5, <2>2, <2>3
    <3>2. i \in 1 .. Len(m) /\ j \in 1 .. Len(m)
      BY <1>1, <1>5, <3>1
    <3> QED BY <1>5, <2>1, <2>3, <3>2
  <2> QED BY <1>2, <1>5, <2>1, <2>3 DEF IteratorHolds
<1> QED
  BY <1>3, <1>4, <1>6, <1>7 DEF Represents

\* A key is removed: the list loses its place, the table its entry.
LEMMA RemoveRepresents ==
  ASSUME NEW m, Represents(m), NEW key \in Key, removeKey(key)
  PROVE  \E i \in 1 .. Len(m) :
           /\ m[i] = key
           /\ ListHolds(node', list', tail', RemoveAt(m, i))
           /\ \E d \in Nat : Holds(table', d, Keys(RemoveAt(m, i)))
<1>1. /\ ListHolds(node, list, tail, m) /\ m \in Seq(Key) /\ Len(m) \in Nat
      /\ \A i, j \in 1 .. Len(m) : m[i] = m[j] => i = j
  BY ListOf
<1>2. Get(table, key) # Null /\ Unlink(Get(table, key)) /\ table' = Delete(table, key)
  BY DEF removeKey
<1>3. key \in Keys(m) /\ Unlink(key)
  BY <1>2, Lookup
<1>4. PICK i \in 1 .. Len(m) : m[i] = key
  BY <1>3 DEF Keys
<1>5. ListHolds(node', list', tail', RemoveAt(m, i))
  <2>1. /\ node' = [k \in DOMAIN node \ {m[i]} |->
                      [prev |-> IF node[k].prev = m[i] THEN node[m[i]].prev ELSE node[k].prev,
                       next |-> IF node[k].next = m[i] THEN node[m[i]].next ELSE node[k].next]]
        /\ list' = IF node[m[i]].prev = Null THEN node[m[i]].next ELSE list
        /\ tail' = IF node[m[i]].next = Null THEN node[m[i]].prev ELSE tail
    BY <1>3, <1>4 DEF Unlink
  <2> QED BY <1>1, <2>1, UnlinkHolds
<1>6. \E d \in Nat : Holds(table', d, Keys(RemoveAt(m, i)))
  <2>1. PICK c \in Nat : Holds(table, c, Keys(m))
    BY DEF Represents
  <2>2. Keys(RemoveAt(m, i)) = Keys(m) \ {key}
    BY <1>1, <1>4, RemovedKeys
  <2> QED BY <1>2, <1>3, <2>1, <2>2, DeleteRight
<1> QED
  BY <1>4, <1>5, <1>6

LEMMA DirectRemoveRepresents ==
  ASSUME NEW m, Represents(m), NEW key \in Key, remove(key)
  PROVE  \E i \in 1 .. Len(m) : m[i] = key /\ Represents(RemoveAt(m, i))'
<1>1. ~walking /\ removeKey(key) /\ walking' = walking /\ curr' = curr /\ last' = last
  BY DEF remove, iterator
<1>2. PICK i \in 1 .. Len(m) :
        /\ m[i] = key
        /\ ListHolds(node', list', tail', RemoveAt(m, i))
        /\ \E d \in Nat : Holds(table', d, Keys(RemoveAt(m, i)))
  BY <1>1, RemoveRepresents
<1>3. walking \in BOOLEAN /\ curr = Null /\ last = Null
  BY <1>1 DEF Represents, IteratorHolds
<1>4. \A j \in 1 .. Len(RemoveAt(m, i)) : RemoveAt(m, i)[j] # Null
  BY <1>2, ListTypes
<1>5. IteratorHolds(RemoveAt(m, i))'
  BY <1>1, <1>3, <1>4 DEF IteratorHolds
<1> QED
  BY <1>2, <1>5 DEF Represents

LEMMA IteratorRemoveRepresents ==
  ASSUME NEW m, Represents(m), iteratorRemove
  PROVE  \E i \in 1 .. Len(m) : m[i] = last /\ Represents(RemoveAt(m, i))'
<1>1. last # Null /\ removeKey(last) /\ last' = Null /\ walking' = walking /\ curr' = curr
  BY DEF iteratorRemove
<1>2. /\ m \in Seq(Key) /\ Len(m) \in Nat
      /\ \A i, j \in 1 .. Len(m) : m[i] = m[j] => i = j
  BY ListOf
<1>3. /\ walking \in BOOLEAN
      /\ ~walking => curr = Null /\ last = Null
      /\ {curr, last} \subseteq Keys(m) \cup {Null}
      /\ \A i, j \in 1 .. Len(m) : m[i] = last /\ m[j] = curr => i < j
  BY DEF Represents, IteratorHolds
<1>4. last \in Key
  BY <1>1, <1>3, ListOf
<1>5. PICK i \in 1 .. Len(m) :
        /\ m[i] = last
        /\ ListHolds(node', list', tail', RemoveAt(m, i))
        /\ \E d \in Nat : Holds(table', d, Keys(RemoveAt(m, i)))
  BY <1>1, <1>4, RemoveRepresents
<1>6. \A j \in 1 .. Len(RemoveAt(m, i)) : RemoveAt(m, i)[j] # Null
  BY <1>5, ListTypes
<1>7. Keys(RemoveAt(m, i)) = Keys(m) \ {last}
  BY <1>2, <1>5, RemovedKeys
<1>8. curr # last
  <2> SUFFICES ASSUME curr = last PROVE FALSE
    OBVIOUS
  <2> QED BY <1>2, <1>3, <1>5
<1>9. IteratorHolds(RemoveAt(m, i))'
  BY <1>1, <1>3, <1>6, <1>7, <1>8 DEF IteratorHolds
<1> QED
  BY <1>5, <1>9 DEF Represents

LEMMA ResetRepresents ==
  ASSUME NEW m, Represents(m), reset
  PROVE  ~walking /\ Represents(<<>>)'
<1>1. /\ ~walking /\ table' = Reset(table) /\ node' = [k \in {} |-> Null] /\ list' = Null /\ tail' = Null
      /\ walking' = walking /\ curr' = curr /\ last' = last
  BY DEF reset, iterator
<1>2. Keys(<<>>) = {} /\ Len(<<>>) = 0 /\ <<>> \in Seq(Key)
  BY DEF Keys
<1>3. ListHolds(node', list', tail', <<>>)
  BY <1>1, <1>2 DEF ListHolds
<1>4. PICK c \in Nat : Holds(table, c, Keys(m))
  BY DEF Represents
<1>5. c \in Nat \ {0} /\ Capacity(table) = c
  BY <1>4, SlotTypes DEF Holds
<1>6. Holds(table', c, Keys(<<>>))
  BY <1>1, <1>2, <1>5, EmptyRight DEF Reset
<1>7. walking \in BOOLEAN /\ curr = Null /\ last = Null
  BY <1>1 DEF Represents, IteratorHolds
<1>8. IteratorHolds(<<>>)'
  BY <1>1, <1>2, <1>7 DEF IteratorHolds
<1> QED
  BY <1>1, <1>3, <1>5, <1>6, <1>8 DEF Represents

LEMMA CopyRepresents ==
  ASSUME NEW m, Represents(m), copy
  PROVE  Represents(m)'
<1>1. /\ table' = Filled(Capacity(table), From(list))
      /\ UNCHANGED <<node, list, tail, walking, curr, last>>
  BY DEF copy
<1>2. /\ ListHolds(node, list, tail, m) /\ m \in Seq(Key)
      /\ \A i, j \in 1 .. Len(m) : m[i] = m[j] => i = j
  BY ListOf
<1>3. From(list) = m
  BY <1>2, WalkFromAny DEF From
<1>4. Capacity(table) \in Nat \ {0}
  BY SlotTypes DEF Represents, Holds
<1>5. KeysTo(m, Len(m)) = Keys(m)
  BY DEF KeysTo, Keys
<1>6. \E d \in Nat : Holds(table', d, Keys(m))
  BY <1>1, <1>2, <1>3, <1>4, <1>5, FilledRight
<1>7. IteratorHolds(m)'
  BY <1>1 DEF Represents, IteratorHolds
<1> QED
  BY <1>1, <1>2, <1>6, <1>7 DEF Represents

\* The iterator only walks: the list and the table stay.
LEMMA WalkRepresents ==
  ASSUME NEW m, Represents(m), newIterator \/ next \/ deleteIterator
  PROVE  Represents(m)'
<1>1. UNCHANGED <<table, node, list, tail>>
  BY DEF newIterator, next, deleteIterator
<1>2. /\ ListHolds(node, list, tail, m) /\ m \in Seq(Key) /\ Len(m) \in Nat
      /\ \A i, j \in 1 .. Len(m) : m[i] = m[j] => i = j
      /\ \A i \in 1 .. Len(m) : m[i] \in Key /\ m[i] # Null
  BY ListOf
<1>3. /\ walking \in BOOLEAN
      /\ ~walking => curr = Null /\ last = Null
      /\ {curr, last} \subseteq Keys(m) \cup {Null}
  BY DEF Represents, IteratorHolds
<1>4. CASE newIterator
  <2>1. walking' = TRUE /\ curr' = list /\ last' = Null
    BY <1>3, <1>4 DEF newIterator
  <2>2. list \in Keys(m) \cup {Null}
    BY <1>2 DEF ListHolds, Keys
  <2>3. IteratorHolds(m)'
    BY <1>2, <2>1, <2>2 DEF IteratorHolds
  <2> QED BY <1>1, <2>3 DEF Represents
<1>5. CASE next
  <2>1. curr # Null /\ last' = curr /\ curr' = node[curr].next /\ walking' = walking
    BY <1>5 DEF next
  <2>2. PICK i \in 1 .. Len(m) : m[i] = curr
    BY <1>3, <2>1 DEF Keys
  <2>3. node[m[i]].next = IF i = Len(m) THEN Null ELSE m[i + 1]
    <3>1. node[m[i]] = [prev |-> IF i = 1 THEN Null ELSE m[i - 1], next |-> IF i = Len(m) THEN Null ELSE m[i + 1]]
      BY <1>2 DEF ListHolds
    <3> QED BY <3>1
  <2>4. walking
    BY <1>3, <2>1
  <2>5. {curr', last'} \subseteq Keys(m) \cup {Null}
    <3>1. i # Len(m) => i + 1 \in 1 .. Len(m)
      BY <1>2
    <3> QED BY <1>3, <2>1, <2>2, <2>3, <3>1 DEF Keys
  <2>6. ASSUME NEW a \in 1 .. Len(m), NEW b \in 1 .. Len(m), m[a] = last', m[b] = curr' PROVE a < b
    <3>1. a = i
      BY <1>2, <2>1, <2>2, <2>6
    <3>2. i # Len(m) /\ m[b] = m[i + 1]
      BY <1>2, <2>1, <2>2, <2>3, <2>6
    <3>3. i + 1 \in 1 .. Len(m)
      BY <1>2, <3>2
    <3>4. b = i + 1
      BY <1>2, <3>2, <3>3
    <3> QED BY <3>1, <3>4
  <2>7. IteratorHolds(m)'
    BY <1>3, <2>1, <2>4, <2>5, <2>6 DEF IteratorHolds
  <2> QED BY <1>1, <2>7 DEF Represents
<1>6. CASE deleteIterator
  <2>1. walking' = FALSE /\ curr' = Null /\ last' = Null
    BY <1>6 DEF deleteIterator
  <2>2. IteratorHolds(m)'
    BY <1>2, <2>1 DEF IteratorHolds
  <2> QED BY <1>1, <2>2 DEF Represents
<1> QED
  BY <1>4, <1>5, <1>6

LEMMA StepRepresents ==
  ASSUME NEW m, Represents(m), [Next]_vars
  PROVE  \E n \in Seq(Key) : Represents(n)'
<1>0. m \in Seq(Key)
  BY ListOf
<1>1. CASE UNCHANGED vars
  <2>1. Represents(m)'
    BY <1>1 DEF vars, Represents, IteratorHolds
  <2> QED BY <1>0, <2>1
<1>2. ASSUME NEW key \in Key, add(key) PROVE \E n \in Seq(Key) : Represents(n)'
  <2>1. Append(m, key) \in Seq(Key)
    BY <1>0
  <2> QED BY <1>2, <2>1, AddRepresents
<1>3. ASSUME NEW key \in Key, remove(key) PROVE \E n \in Seq(Key) : Represents(n)'
  BY <1>0, <1>3, DirectRemoveRepresents, RemovedAt
<1>4. CASE reset
  <2>1. <<>> \in Seq(Key)
    OBVIOUS
  <2>2. Represents(<<>>)'
    BY <1>4, ResetRepresents
  <2> QED BY <2>1, <2>2
<1>5. CASE copy
  BY <1>0, <1>5, CopyRepresents
<1>6. CASE newIterator \/ next \/ deleteIterator
  BY <1>0, <1>6, WalkRepresents
<1>7. CASE iteratorRemove
  BY <1>0, <1>7, IteratorRemoveRepresents, RemovedAt
<1> QED
  BY <1>1, <1>2, <1>3, <1>4, <1>5, <1>6, <1>7 DEF Next

LEMMA Invariance == Spec => []IInv
<1>1. Init => IInv
  <2>1. <<>> \in Seq(Key)
    OBVIOUS
  <2> QED BY <2>1, InitRepresents DEF IInv
<1>2. IInv /\ [Next]_vars => IInv'
  BY StepRepresents DEF IInv
<1> QED
  BY <1>1, <1>2, PTL DEF Spec

--------------------------------------------------------------------------------
(***************************************************************************)
(* What follows.                                                           *)
(***************************************************************************)
\* Links and iterator name nodes of keys, and the table counts its keys: for any keys and hashes.
THEOREM HashSetTypeCorrect == Spec => []TypeOK
<1>1. ASSUME IInv PROVE TypeOK
  <2>1. PICK m \in Seq(Key) : Represents(m)
    BY <1>1 DEF IInv
  <2>2. PICK c \in Nat : Holds(table, c, Keys(m))
    BY <2>1 DEF Represents
  <2>3. /\ ListHolds(node, list, tail, m) /\ Keys(m) \subseteq Key /\ Len(m) \in Nat
        /\ \A i \in 1 .. Len(m) : m[i] \in Key
    BY <2>1, ListOf
  <2>4. DOMAIN node = Keys(m) /\ {list, tail} \subseteq Key \cup {Null}
    BY <2>3 DEF ListHolds
  <2>5. ASSUME NEW k \in Keys(m) PROVE node[k] \in Link
    <3>1. PICK i \in 1 .. Len(m) : m[i] = k
      BY DEF Keys
    <3>2. node[k] = [prev |-> IF i = 1 THEN Null ELSE m[i - 1], next |-> IF i = Len(m) THEN Null ELSE m[i + 1]]
      BY <2>3, <3>1 DEF ListHolds
    <3>3. i = 1 \/ m[i - 1] \in Key
      BY <2>3
    <3>4. i = Len(m) \/ m[i + 1] \in Key
      BY <2>3
    <3> QED BY <3>2, <3>3, <3>4 DEF Link
  <2>6. /\ table.slot \in [DOMAIN table.slot -> Slot]
        /\ table.zero \in {0, Null}
    BY <2>2 DEF Holds, SlotsHold, Table
  <2>7. table.size \in 0 .. Cardinality(Key)
    BY <2>2, <2>3, KeysFinite DEF Holds
  <2>8. /\ walking \in BOOLEAN
        /\ ~walking => curr = Null /\ last = Null
        /\ {curr, last} \subseteq Key \cup {Null}
    BY <2>1, <2>3 DEF Represents, IteratorHolds
  <2> QED BY <2>3, <2>4, <2>5, <2>6, <2>7, <2>8 DEF TypeOK, Slot
<1> QED
  BY <1>1, Invariance, PTL

\* What a user sees of the set: the keys in order, and those the iterator has still to return.
LEMMA View ==
  ASSUME NEW m, Represents(m)
  PROVE  /\ From(list) = m
         /\ curr = Null => From(curr) = <<>>
         /\ \A i \in 1 .. Len(m) : curr = m[i] => From(curr) = SubSeq(m, i, Len(m))
<1>1. ListHolds(node, list, tail, m)
  BY DEF Represents
<1> QED
  BY <1>1, WalkFromAny DEF From

\* A lookup finds exactly the keys of the list, for any keys, any hash and any sequence of adding,
\* removing, growing, copying and walking: get, hashtable.h:211.
THEOREM LookupsAgreeHolds == Spec => []LookupsAgree
<1>1. ASSUME IInv PROVE LookupsAgree
  <2>1. PICK m \in Seq(Key) : Represents(m)
    BY <1>1 DEF IInv
  <2>2. From(list) = m
    BY <2>1, View
  <2>3. \A key : Contains(m, key) <=> key \in Keys(m)
    BY DEF Contains, Keys
  <2> QED BY <2>1, <2>2, <2>3, Lookup DEF LookupsAgree
<1> QED
  BY <1>1, Invariance, PTL

\* The loop of put ends in every table the set can have, for any keys and any hash: hashtable.h:186.
THEOREM PutEndsHolds == Spec => []PutEnds
<1>1. ASSUME IInv PROVE PutEnds
  <2>1. PICK m \in Seq(Key) : Represents(m)
    BY <1>1 DEF IInv
  <2>2. PICK c \in Nat : Holds(table, c, Keys(m))
    BY <2>1 DEF Represents
  <2>3. PICK d \in Nat : Holds(Grown(table), d, Keys(m)) /\ FreeSlots(Grown(table)) # {}
    BY <2>2, GrownRight
  <2>4. PICK i \in DOMAIN Grown(table).slot : Free(Grown(table).slot[i])
    BY <2>3 DEF FreeSlots
  <2> QED BY <2>4 DEF PutEnds
<1> QED
  BY <1>1, Invariance, PTL

--------------------------------------------------------------------------------
(***************************************************************************)
(* Every operation is one of the abstract set.                             *)
(***************************************************************************)
LEMMA ViewNext ==
  ASSUME NEW m, Represents(m)'
  PROVE  /\ From(list)' = m
         /\ curr' = Null => From(curr)' = <<>>
         /\ \A i \in 1 .. Len(m) : curr' = m[i] => From(curr)' = SubSeq(m, i, Len(m))
<1>1. ListHolds(node', list', tail', m)
  BY DEF Represents
<1> QED
  BY <1>1, WalkFromAny DEF From

\* Where the iterator stands: behind the last key, or at one of them.
LEMMA Standing ==
  ASSUME NEW m, Represents(m)
  PROVE  curr = Null \/ \E i \in 1 .. Len(m) : m[i] = curr
BY DEF Represents, IteratorHolds, Keys

LEMMA RestNotEmpty ==
  ASSUME NEW m \in Seq(Key), NEW i \in 1 .. Len(m)
  PROVE  /\ SubSeq(m, i, Len(m)) # <<>>
         /\ Head(SubSeq(m, i, Len(m))) = m[i]
         /\ Tail(SubSeq(m, i, Len(m))) = SubSeq(m, i + 1, Len(m))
<1> DEFINE k == Len(m)
           s == SubSeq(m, i, k)
           q == SubSeq(m, i + 1, k)
<1>1. k \in Nat /\ i \in 1 .. k
  OBVIOUS
<1>2. s \in Seq(Key) /\ Len(s) = k - i + 1 /\ \A n \in 1 .. k - i + 1 : s[n] = m[i + n - 1]
  BY <1>1
<1>3. q \in Seq(Key) /\ Len(q) = k - i /\ \A n \in 1 .. k - i : q[n] = m[i + n]
  <2>1. q \in Seq(Key) /\ Len(q) = k - i /\ \A n \in 1 .. k - i : q[n] = m[(i + 1) + n - 1]
    BY <1>1
  <2>2. \A n \in 1 .. k - i : (i + 1) + n - 1 = i + n
    BY <1>1
  <2> QED BY <2>1, <2>2
<1> HIDE DEF k, s, q
<1>4. s # <<>> /\ Head(s) = m[i]
  BY <1>1, <1>2
<1>5. Tail(s) \in Seq(Key) /\ Len(Tail(s)) = k - i /\ \A n \in 1 .. k - i : Tail(s)[n] = s[n + 1]
  BY <1>1, <1>2, <1>4
<1>6. \A n \in 1 .. k - i : Tail(s)[n] = q[n]
  <2> SUFFICES ASSUME NEW n \in 1 .. k - i PROVE Tail(s)[n] = q[n]
    OBVIOUS
  <2>1. n + 1 \in 1 .. k - i + 1 /\ i + (n + 1) - 1 = i + n
    BY <1>1
  <2> QED BY <1>2, <1>3, <1>5, <2>1
<1>7. Tail(s) = q
  BY <1>3, <1>5, <1>6, SeqEqual
<1> QED
  BY <1>4, <1>7 DEF k, s, q

LEMMA AddImplements ==
  ASSUME NEW m, Represents(m), NEW key \in Key, add(key)
  PROVE  Abstract!Add(key)
<1>1. /\ m \in Seq(Key) /\ Len(m) \in Nat
      /\ \A i \in 1 .. Len(m) : m[i] \in Key /\ m[i] # Null
  BY ListOf
<1>2. key \notin Keys(m) /\ Represents(Append(m, key))'
  BY AddRepresents
<1>3. From(list) = m /\ From(list)' = Append(m, key)
  BY <1>2, View, ViewNext
<1>4. walking' = walking /\ curr' = curr /\ last' = last
  BY DEF add, iterator
<1>5. From(curr)' = IF From(curr) = <<>> THEN From(curr) ELSE Append(From(curr), key)
  <2>1. CASE curr = Null
    <3>1. From(curr) = <<>>
      BY <2>1, View
    <3>2. From(curr)' = <<>>
      BY <1>2, <1>4, <2>1, ViewNext
    <3> QED BY <3>1, <3>2
  <2>2. ASSUME NEW i \in 1 .. Len(m), m[i] = curr
        PROVE  From(curr)' = IF From(curr) = <<>> THEN From(curr) ELSE Append(From(curr), key)
    <3>1. From(curr) = SubSeq(m, i, Len(m)) /\ SubSeq(m, i, Len(m)) # <<>>
      BY <1>1, <2>2, View, RestNotEmpty
    <3>2. /\ Len(Append(m, key)) = Len(m) + 1 /\ Append(m, key)[i] = curr
          /\ SubSeq(Append(m, key), i, Len(m) + 1) = Append(SubSeq(m, i, Len(m)), key)
      BY <1>1, <2>2, Appended
    <3>3. i \in 1 .. Len(Append(m, key))
      BY <1>1, <3>2
    <3>4. From(curr)' = SubSeq(Append(m, key), i, Len(m) + 1)
      BY <1>2, <1>4, <3>2, <3>3, ViewNext
    <3> QED BY <3>1, <3>2, <3>4
  <2> QED BY <2>1, <2>2, Standing
<1>6. ~Abstract!Has(key)
  BY <1>2, <1>3 DEF Abstract!Has, Abstract!Contains, Keys
<1> QED
  BY <1>3, <1>4, <1>5, <1>6 DEF Abstract!Add

\* The place of a key in the list is the one the abstract set finds.
LEMMA WithoutKey ==
  ASSUME NEW m, Represents(m), NEW i \in 1 .. Len(m)
  PROVE  Abstract!Has(m[i]) /\ Abstract!Without(m[i]) = RemoveAt(m, i)
<1>1. m \in Seq(Key) /\ \A j, k \in 1 .. Len(m) : m[j] = m[k] => j = k
  BY ListOf
<1>2. From(list) = m
  BY View
<1>3. (CHOOSE j \in DOMAIN m : m[j] = m[i]) = i
  BY <1>1
<1>4. Abstract!Without(m[i]) = RemoveAt(m, i)
  BY <1>2, <1>3 DEF Abstract!Without, Abstract!RemoveAt, RemoveAt
<1>5. Abstract!Has(m[i])
  BY <1>2 DEF Abstract!Has, Abstract!Contains
<1> QED
  BY <1>4, <1>5

LEMMA RemoveImplements ==
  ASSUME NEW m, Represents(m), NEW key \in Key, remove(key)
  PROVE  Abstract!Discard(key)
<1>1. PICK i \in 1 .. Len(m) : m[i] = key /\ Represents(RemoveAt(m, i))'
  BY DirectRemoveRepresents
<1>2. ~walking /\ walking' = walking /\ curr' = curr /\ last' = last
  BY DEF remove, iterator
<1>3. curr = Null
  BY <1>2 DEF Represents, IteratorHolds
<1>4. From(list)' = RemoveAt(m, i) /\ From(curr) = <<>> /\ From(curr)' = <<>>
  BY <1>1, <1>2, <1>3, View, ViewNext
<1>5. Abstract!Has(key) /\ Abstract!Without(key) = RemoveAt(m, i)
  BY <1>1, WithoutKey
<1> QED
  BY <1>2, <1>4, <1>5 DEF Abstract!Discard

LEMMA ResetImplements ==
  ASSUME NEW m, Represents(m), reset
  PROVE  Abstract!Clear
<1>1. ~walking /\ Represents(<<>>)'
  BY ResetRepresents
<1>2. walking' = walking /\ curr' = curr /\ last' = last
  BY DEF reset, iterator
<1>3. curr = Null
  BY <1>1 DEF Represents, IteratorHolds
<1>4. From(list)' = <<>> /\ From(curr) = <<>> /\ From(curr)' = <<>>
  BY <1>1, <1>2, <1>3, View, ViewNext
<1> QED
  BY <1>1, <1>2, <1>4 DEF Abstract!Clear

LEMMA CopyImplements ==
  ASSUME NEW m, Represents(m), copy
  PROVE  UNCHANGED Abstract!vars
<1>1. UNCHANGED <<node, list, tail, walking, curr, last>>
  BY DEF copy
<1> QED
  BY <1>1 DEF Abstract!vars, From

LEMMA NewIteratorImplements ==
  ASSUME NEW m, Represents(m), newIterator
  PROVE  Abstract!StartWalk
<1>1. ~walking /\ walking' = TRUE /\ curr' = list /\ UNCHANGED <<node, list, last>>
  BY DEF newIterator
<1>2. From(curr)' = From(list) /\ From(list)' = From(list)
  BY <1>1 DEF From
<1> QED
  BY <1>1, <1>2 DEF Abstract!StartWalk

LEMMA NextImplements ==
  ASSUME NEW m, Represents(m), next
  PROVE  Abstract!Return
<1>1. /\ m \in Seq(Key) /\ Len(m) \in Nat
      /\ \A i \in 1 .. Len(m) : m[i] \in Key /\ m[i] # Null
  BY ListOf
<1>2. curr # Null /\ last' = curr /\ curr' = node[curr].next /\ UNCHANGED <<node, list, walking>>
  BY DEF next
<1>3. PICK i \in 1 .. Len(m) : m[i] = curr
  BY <1>2, Standing
<1>4. From(curr) = SubSeq(m, i, Len(m))
  BY <1>3, View
<1>5. /\ From(curr) # <<>> /\ Head(From(curr)) = curr
      /\ Tail(From(curr)) = SubSeq(m, i + 1, Len(m))
  BY <1>1, <1>3, <1>4, RestNotEmpty
<1>6. curr' = IF i = Len(m) THEN Null ELSE m[i + 1]
  <2>1. node[m[i]] = [prev |-> IF i = 1 THEN Null ELSE m[i - 1], next |-> IF i = Len(m) THEN Null ELSE m[i + 1]]
    BY DEF Represents, ListHolds
  <2> QED BY <1>2, <1>3, <2>1
<1>7. Represents(m)'
  BY WalkRepresents
<1>8. From(curr)' = SubSeq(m, i + 1, Len(m))
  <2>1. CASE i = Len(m)
    <3>1. From(curr)' = <<>>
      BY <1>6, <1>7, <2>1, ViewNext
    <3>2. SubSeq(m, i + 1, Len(m)) = <<>>
      BY <1>1, <2>1, SubSeqEmpty
    <3> QED BY <3>1, <3>2
  <2>2. CASE i # Len(m)
    <3>1. i + 1 \in 1 .. Len(m)
      BY <1>1, <2>2
    <3> QED BY <1>6, <1>7, <2>2, <3>1, ViewNext
  <2> QED BY <2>1, <2>2
<1>9. From(list)' = From(list)
  BY <1>2 DEF From
<1> QED
  BY <1>2, <1>5, <1>8, <1>9 DEF Abstract!Return

LEMMA IteratorRemoveImplements ==
  ASSUME NEW m, Represents(m), iteratorRemove
  PROVE  Abstract!RemoveReturned
<1>1. /\ m \in Seq(Key) /\ Len(m) \in Nat
      /\ \A i, j \in 1 .. Len(m) : m[i] = m[j] => i = j
  BY ListOf
<1>2. last # Null /\ last' = Null /\ walking' = walking /\ curr' = curr
  BY DEF iteratorRemove
<1>3. PICK i \in 1 .. Len(m) : m[i] = last /\ Represents(RemoveAt(m, i))'
  BY IteratorRemoveRepresents
<1>4. From(list)' = RemoveAt(m, i)
  BY <1>3, ViewNext
<1>5. From(curr)' = From(curr)
  <2>1. CASE curr = Null
    BY <1>2, <1>3, <2>1, View, ViewNext
  <2>2. ASSUME NEW j \in 1 .. Len(m), m[j] = curr PROVE From(curr)' = From(curr)
    <3>1. i < j
      BY <1>3, <2>2 DEF Represents, IteratorHolds
    <3>2. j \in i + 1 .. Len(m) /\ Len(RemoveAt(m, i)) = Len(m) - 1 /\ j - 1 \in 1 .. Len(m) - 1
      BY <1>1, <3>1, RemovedAt
    <3>3. /\ RemoveAt(m, i)[j - 1] = m[j]
          /\ SubSeq(RemoveAt(m, i), j - 1, Len(m) - 1) = SubSeq(m, j, Len(m))
      BY <1>1, <3>2, RemovedKeys
    <3>4. From(curr)' = SubSeq(RemoveAt(m, i), j - 1, Len(m) - 1)
      BY <1>2, <1>3, <2>2, <3>2, <3>3, ViewNext
    <3> QED BY <2>2, <3>3, <3>4, View
  <2> QED BY <2>1, <2>2, Standing
<1>6. Abstract!Without(last) = RemoveAt(m, i)
  BY <1>3, WithoutKey
<1> QED
  BY <1>2, <1>4, <1>5, <1>6 DEF Abstract!RemoveReturned

LEMMA DeleteIteratorImplements ==
  ASSUME NEW m, Represents(m), deleteIterator
  PROVE  Abstract!EndWalk
<1>1. walking /\ walking' = FALSE /\ curr' = Null /\ last' = Null /\ UNCHANGED <<node, list>>
  BY DEF deleteIterator
<1>2. Represents(m)'
  BY WalkRepresents
<1>3. From(curr)' = <<>> /\ From(list)' = From(list)
  BY <1>1, <1>2, ViewNext DEF From
<1> QED
  BY <1>1, <1>3 DEF Abstract!EndWalk

LEMMA StepImplements == IInv /\ [Next]_vars => [Abstract!Next]_(Abstract!vars)
<1> SUFFICES ASSUME IInv, [Next]_vars PROVE [Abstract!Next]_(Abstract!vars)
  OBVIOUS
<1>1. PICK m \in Seq(Key) : Represents(m)
  BY DEF IInv
<1>2. CASE UNCHANGED vars
  BY <1>2 DEF vars, Abstract!vars, From
<1>3. ASSUME NEW key \in Key, add(key) PROVE Abstract!Next
  BY <1>1, <1>3, AddImplements DEF Abstract!Next
<1>4. ASSUME NEW key \in Key, remove(key) PROVE Abstract!Next
  BY <1>1, <1>4, RemoveImplements DEF Abstract!Next
<1>5. CASE reset
  BY <1>1, <1>5, ResetImplements DEF Abstract!Next
<1>6. CASE copy
  BY <1>1, <1>6, CopyImplements
<1>7. CASE newIterator
  BY <1>1, <1>7, NewIteratorImplements DEF Abstract!Next
<1>8. CASE next
  BY <1>1, <1>8, NextImplements DEF Abstract!Next
<1>9. CASE iteratorRemove
  BY <1>1, <1>9, IteratorRemoveImplements DEF Abstract!Next
<1>10. CASE deleteIterator
  BY <1>1, <1>10, DeleteIteratorImplements DEF Abstract!Next
<1> QED
  BY <1>2, <1>3, <1>4, <1>5, <1>6, <1>7, <1>8, <1>9, <1>10 DEF Next

LEMMA InitImplements == Init => Abstract!Init
<1> SUFFICES ASSUME Init PROVE Abstract!Init
  OBVIOUS
<1>1. Represents(<<>>)
  BY InitRepresents
<1>2. walking = FALSE /\ curr = Null /\ last = Null
  BY DEF Init
<1>3. From(list) = <<>> /\ From(curr) = <<>>
  BY <1>1, <1>2, View
<1> QED
  BY <1>2, <1>3 DEF Abstract!Init

\* Table, nodes and iterator together are one set that is walked in the order of insertion, for
\* any keys and any hash: also while keys are added and the key just returned is removed.
THEOREM HashSetIsOrderedSet == Spec => ImplementsOrderedSet
<1> QED BY InitImplements, StepImplements, Invariance, PTL DEF Spec, ImplementsOrderedSet, Abstract!Spec
================================================================================
