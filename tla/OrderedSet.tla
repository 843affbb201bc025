------------------------------ MODULE OrderedSet -------------------------------
(***************************************************************************)
(* What the users of src/hashset.h rely on: a set that is walked in the    *)
(* order in which its keys were added, and that may be added to, and have  *)
(* the key just returned taken out, while it is walked.                    *)
(***************************************************************************)
EXTENDS SequencesExt

CONSTANTS Key, Null

VARIABLES members,   \* the keys, in the order they were added
          walking,   \* somebody walks the set
          rest,      \* the keys the walk has still to return
          returned   \* the key it returned last, while that is in the set

vars == <<members, walking, rest, returned>>

Init == members = <<>> /\ walking = FALSE /\ rest = <<>> /\ returned = Null

Has(key)     == Contains(members, key)
Without(key) == RemoveAt(members, CHOOSE i \in DOMAIN members : members[i] = key)

\* A key added during a walk is returned by it, unless the walk was through.
Add(key) ==
  /\ ~Has(key)
  /\ members' = Append(members, key)
  /\ rest' = IF rest = <<>> THEN rest ELSE Append(rest, key)
  /\ UNCHANGED <<walking, returned>>

Discard(key) ==
  /\ ~walking
  /\ Has(key)
  /\ members' = Without(key)
  /\ UNCHANGED <<walking, rest, returned>>

Clear ==
  /\ ~walking
  /\ members' = <<>>
  /\ UNCHANGED <<walking, rest, returned>>

StartWalk ==
  /\ ~walking
  /\ walking' = TRUE
  /\ rest' = members
  /\ UNCHANGED <<members, returned>>

Return ==
  /\ rest # <<>>
  /\ returned' = Head(rest)
  /\ rest' = Tail(rest)
  /\ UNCHANGED <<members, walking>>

RemoveReturned ==
  /\ returned # Null
  /\ members' = Without(returned)
  /\ returned' = Null
  /\ UNCHANGED <<walking, rest>>

EndWalk ==
  /\ walking
  /\ walking' = FALSE
  /\ rest' = <<>>
  /\ returned' = Null
  /\ UNCHANGED members

Next ==
  \/ \E key \in Key : Add(key) \/ Discard(key)
  \/ Clear
  \/ StartWalk
  \/ Return
  \/ RemoveReturned
  \/ EndWalk

Spec == Init /\ [][Next]_vars
================================================================================
