-------------------------------- MODULE HashSet --------------------------------
(***************************************************************************)
(* The sets of the checker (src/hashset.h): a hash table from keys to link *)
(* nodes and a doubly linked list of the nodes in the order of insertion.  *)
(* A key has at most one node, so a node is named by its key; node holds   *)
(* the allocated ones.  The planner's change sets, the sets of records,    *)
(* values and goals are all of this class.                                 *)
(*                                                                         *)
(* One iterator is live at a time.  The callers remove through it only the *)
(* key it returned last, and remove directly only when none is live        *)
(* (src/planner.cc:59, src/planner.cc:82, src/storeloadset.h:34).          *)
(***************************************************************************)
EXTENDS HashTable

VARIABLES table,     \* key -> node
          node,      \* the allocated link nodes
          list,      \* the first node
          tail,      \* the last node
          walking,   \* an iterator is live
          curr,      \* the node it returns next
          last       \* the node it returned last, until that is freed

links    == <<node, list, tail>>
iterator == <<walking, curr, last>>
vars     == <<table, node, list, tail, walking, curr, last>>

Link     == [prev : Key \cup {Null}, next : Key \cup {Null}]
Dangling == curr # Null /\ curr \notin DOMAIN node

TypeOK ==
  /\ DOMAIN node \subseteq Key
  /\ \A k \in DOMAIN node : node[k] \in Link
  /\ {list, tail} \subseteq Key \cup {Null}
  /\ table.slot \in [DOMAIN table.slot -> [key : (Key \ {0}) \cup {NoKey}, val : Key \cup {Null, Removed}]]
  /\ table.zero \in {0, Null}
  /\ table.size \in 0 .. Cardinality(Key)
  /\ walking \in BOOLEAN
  /\ {curr, last} \subseteq Key \cup {Null}
  /\ ~walking => curr = Null /\ last = Null

Init ==
  /\ table = EmptyTable(InitialCapacity)
  /\ node = [k \in {} |-> Null]
  /\ list = Null
  /\ tail = Null
  /\ walking = FALSE
  /\ curr = Null
  /\ last = Null

-------------------------------------------------------------------------------
(***************************************************************************)
(* The operations.                                                         *)
(***************************************************************************)
\* Fault: a new node is linked before the first.
LinkFirst(key) ==
  /\ node' = [k \in DOMAIN node \cup {key} |->
                IF k = key THEN [prev |-> Null, next |-> list]
                ELSE IF k = list THEN [node[k] EXCEPT !.prev = key] ELSE node[k]]
  /\ list' = key
  /\ tail' = IF tail = Null THEN key ELSE tail

\* A new node is linked behind the tail.
LinkLast(key) ==
  /\ node' = [k \in DOMAIN node \cup {key} |->
                IF k = key THEN [prev |-> tail, next |-> Null]
                ELSE IF k = tail THEN [node[k] EXCEPT !.next = key] ELSE node[k]]
  /\ list' = IF tail = Null THEN key ELSE list
  /\ tail' = key

add(key) ==
  /\ Get(table, key) = Null
  /\ LinkLast(key)
  /\ table' = Put(table, key, key)
  /\ UNCHANGED iterator

\* The node leaves the list and is freed.
Unlink(key) ==
  LET old == node[key] IN
  /\ node' = [k \in DOMAIN node \ {key} |->
                [prev |-> IF node[k].prev = key THEN old.prev ELSE node[k].prev,
                 next |-> IF node[k].next = key THEN old.next ELSE node[k].next]]
  /\ list' = IF old.prev = Null THEN old.next ELSE list
  /\ tail' = IF old.next = Null THEN old.prev ELSE tail

removeKey(key) ==
  /\ Get(table, key) # Null
  /\ Unlink(Get(table, key))
  /\ table' = Delete(table, key)

remove(key) == ~walking /\ removeKey(key) /\ UNCHANGED iterator

reset ==
  /\ ~walking
  /\ table' = Reset(table)
  /\ node' = [k \in {} |-> Null]
  /\ list' = Null
  /\ tail' = Null
  /\ UNCHANGED iterator

\* The keys from a node on, following the links of the nodes.
Walk(nodes, first) ==
  LET at[n \in 0 .. Cardinality(Key)] ==
        IF n = 0 THEN first ELSE IF at[n - 1] = Null THEN Null ELSE nodes[at[n - 1]].next
      length == Cardinality({n \in DOMAIN at : at[n] # Null})
  IN  [n \in 1 .. length |-> at[n - 1]]

From(first) == Walk(node, first)

\* The keys are put one by one into a table as large as the one they come from.
Filled(capacity, keys) ==
  LET put[n \in 0 .. Len(keys)] ==
        IF n = 0 THEN EmptyTable(capacity) ELSE Put(put[n - 1], keys[n], keys[n])
  IN  put[Len(keys)]

\* The caller goes on with a copy, filled by adding the keys in their order.
copy ==
  /\ ~walking
  /\ table' = Filled(Capacity(table), From(list))
  /\ UNCHANGED <<node, list, tail, walking, curr, last>>

newIterator ==
  /\ ~walking
  /\ walking' = TRUE
  /\ curr' = list
  /\ UNCHANGED <<table, node, list, tail, last>>

next ==
  /\ curr # Null
  /\ last' = curr
  /\ curr' = node[curr].next
  /\ UNCHANGED <<table, node, list, tail, walking>>

iteratorRemove ==
  /\ last # Null
  /\ removeKey(last)
  /\ last' = Null
  /\ UNCHANGED <<walking, curr>>

deleteIterator ==
  /\ walking
  /\ walking' = FALSE
  /\ curr' = Null
  /\ last' = Null
  /\ UNCHANGED <<table, node, list, tail>>

Next ==
  \/ \E key \in Key : add(key) \/ remove(key)
  \/ reset
  \/ copy
  \/ newIterator
  \/ next
  \/ iteratorRemove
  \/ deleteIterator

Spec == Init /\ [][Next]_vars
-------------------------------------------------------------------------------
(***************************************************************************)
(* A lookup finds exactly the keys of the list, whatever was added,        *)
(* removed and moved before: the slots of removed entries must not cut a   *)
(* later entry off, and growing must move every entry.                     *)
(***************************************************************************)
LookupsAgree ==
  \A key \in Key : Get(table, key) = IF Contains(From(list), key) THEN key ELSE Null

(***************************************************************************)
(* The loop of put has no bound: it ends because some slot is free, where- *)
(* ever the key hashes to, although removed slots do not count as entries  *)
(* (src/hashtable.h:188) and growing is decided before the key is found.   *)
(***************************************************************************)
PutEnds == \E i \in DOMAIN Grown(table).slot : Free(Grown(table).slot[i])

\* The abstract set the table and the list stand for.
Abstract == INSTANCE OrderedSet WITH
  members  <- From(list),
  rest     <- From(curr),
  returned <- last

(***************************************************************************)
(* Seen from outside the list and the table are one set, walked in the     *)
(* order of insertion; a walk survives that keys are added and that the    *)
(* key just returned is removed and its node freed (src/planner.cc:78).    *)
(***************************************************************************)
ImplementsOrderedSet == Abstract!Spec
================================================================================
