------------------------------- MODULE HashTable -------------------------------
(***************************************************************************)
(* The open-addressing table every map and set of the checker is built on  *)
(* (src/hashtable.h).  A table is a value: its slots, the separate entry   *)
(* of the key 0, and the number of entries.  A slot whose key is absent    *)
(* was either never used (no value: a search ends there) or held an entry  *)
(* that was removed (the value 1: a search goes on).                       *)
(*                                                                         *)
(* The load factor is the default of every instantiation, one half.        *)
(***************************************************************************)
EXTENDS Integers, FiniteSets, SequencesExt

CONSTANTS Key,              \* the keys, 0 among them
          Hash,             \* the hash of a key, before the mask
          InitialCapacity,  \* a power of two
          NoKey,            \* the key of an empty slot
          Null,             \* no value
          Removed           \* the value left in the slot of a removed entry

ASSUME TableAssumption ==
  /\ Hash \in [Key -> Nat]
  /\ InitialCapacity \in Nat
  /\ \E n \in 1 .. InitialCapacity : InitialCapacity = 2 ^ n
  /\ 0 \in Key
  /\ IsFiniteSet(Key)
  /\ NoKey \notin Key
  /\ Null \notin Key
  /\ Null # Removed

Capacity(t)  == Cardinality(DOMAIN t.slot)
Threshold(t) == Capacity(t) \div 2
Free(s)      == s.key = NoKey
NeverUsed(s) == Free(s) /\ s.val = Null

EmptySlots(n) == [i \in 0 .. n - 1 |-> [key |-> NoKey, val |-> Null]]
EmptyTable(n) == [slot |-> EmptySlots(n), zero |-> Null, size |-> 0]

\* memset of the table: the capacity stays.
Reset(t) == EmptyTable(Capacity(t))

\* The slot a search for key looks at after n steps: behind the last slot comes the first.
Probe(t, key, n) ==
  LET i == (Hash[key] % Capacity(t)) + n IN IF i < Capacity(t) THEN i ELSE i - Capacity(t)

(***************************************************************************)
(* A search walks from the slot the key hashes to and wraps at the end of  *)
(* the table.  It ends at the first slot it meets of a set of slots; if it *)
(* meets none of them it does not end.                                     *)
(***************************************************************************)
StopsAt(t, key, i, slots) ==
  /\ i \in slots
  /\ \E n \in 0 .. Capacity(t) - 1 :
       /\ i = Probe(t, key, n)
       /\ \A m \in 0 .. n - 1 : Probe(t, key, m) \notin slots

Meets(t, key, slots) == CHOOSE i \in DOMAIN t.slot : StopsAt(t, key, i, slots)

HasKey(s, key)      == s.key = key
FreeSlots(t)        == {i \in DOMAIN t.slot : Free(t.slot[i])}
FreeOrKey(t, key)   == {i \in DOMAIN t.slot : Free(t.slot[i]) \/ HasKey(t.slot[i], key)}
UnusedOrKey(t, key) == {i \in DOMAIN t.slot : NeverUsed(t.slot[i]) \/ HasKey(t.slot[i], key)}

Write(t, i, key, val) == [t EXCEPT !.slot = [@ EXCEPT ![i] = [key |-> key, val |-> val]]]

\* The loop body of resize: one entry of the old table finds a free slot.
MoveEntry(t, s) ==
  IF Free(s) THEN t ELSE Write(t, Meets(t, s.key, FreeSlots(t)), s.key, s.val)

\* The entries move in the order of the slots; removed slots are left behind.
Resize(t, newsize) ==
  LET moved[n \in 0 .. Capacity(t)] ==
        IF n = 0 THEN [t EXCEPT !.slot = EmptySlots(newsize)] ELSE MoveEntry(moved[n - 1], t.slot[n - 1])
  IN  moved[Capacity(t)]

\* Fault: it grows only when there are more entries than slots.
GrownFull(t) == IF t.size > Capacity(t) THEN Resize(t, 2 * Capacity(t)) ELSE t

\* The table grows before an entry is put, whether or not the key is new.
Grown(t) == IF t.size > Threshold(t) THEN Resize(t, 2 * Capacity(t)) ELSE t

\* A put stops at the first free slot, removed ones included.
PutSlot(t, key) == Meets(t, key, FreeOrKey(t, key))

Put(t, key, val) ==
  IF key = 0
  THEN [t EXCEPT !.zero = val, !.size = IF t.zero = Null THEN @ + 1 ELSE @]
  ELSE LET u == Grown(t)
           i == PutSlot(u, key)
       IN  [Write(u, i, key, val) EXCEPT !.size = IF Free(u.slot[i]) THEN @ + 1 ELSE @]

\* A lookup also ends when it is back where it started.
Get(t, key) ==
  IF key = 0
  THEN t.zero
  ELSE IF \E i \in DOMAIN t.slot :
            /\ StopsAt(t, key, i, UnusedOrKey(t, key))
            /\ HasKey(t.slot[i], key)
       THEN t.slot[Meets(t, key, UnusedOrKey(t, key))].val
       ELSE Null

\* Fault: the slot of a removed entry looks as if it had never been used.
DeleteClean(t, key) ==
  IF key = 0
  THEN [t EXCEPT !.zero = Null, !.size = @ - 1]
  ELSE LET i == Meets(t, key, UnusedOrKey(t, key))
       IN  [Write(t, i, NoKey, Null) EXCEPT !.size = @ - 1]

\* remove of a key the table holds; of another key it changes nothing.
Delete(t, key) ==
  IF key = 0
  THEN [t EXCEPT !.zero = Null, !.size = @ - 1]
  ELSE LET i == Meets(t, key, UnusedOrKey(t, key))
       IN  [Write(t, i, NoKey, Removed) EXCEPT !.size = @ - 1]
================================================================================
