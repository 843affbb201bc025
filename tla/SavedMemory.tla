------------------------------ MODULE SavedMemory ------------------------------
(***************************************************************************)
(* What the checker wants of a snapshot (src/snapshot.cc): the memory of   *)
(* the program is put back to what it was when the snapshot was taken,     *)
(* the checker's own memory is kept, and later snapshots are forgotten.    *)
(***************************************************************************)
EXTENDS Naturals, Sequences

CONSTANTS Page, Shared, Content

VARIABLES memory,   \* the content of every page
          saved,    \* the memory of the program at every snapshot
          ended     \* the program has exited

vars == <<memory, saved, ended>>

Snapshotted == Page \ Shared
Program(m)  == [p \in Snapshotted |-> m[p]]

Init ==
  /\ memory \in [Page -> Content]
  /\ saved = <<>>
  /\ ended = FALSE

Write(p, c) ==
  /\ memory' = [memory EXCEPT ![p] = c]
  /\ UNCHANGED <<saved, ended>>

Take ==
  /\ saved' = Append(saved, Program(memory))
  /\ UNCHANGED <<memory, ended>>

RollBack(id) ==
  /\ memory' = [p \in Page |-> IF p \in Shared THEN memory[p] ELSE saved[id][p]]
  /\ saved' = SubSeq(saved, 1, id)
  /\ UNCHANGED ended

Exit == ended' = TRUE /\ UNCHANGED <<memory, saved>>

Next ==
  /\ ~ended
  /\ \/ \E p \in Page, c \in Content : Write(p, c)
     \/ Take
     \/ \E id \in DOMAIN saved : RollBack(id)
     \/ Exit

Spec == Init /\ [][Next]_vars
================================================================================
