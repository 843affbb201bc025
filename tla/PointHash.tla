------------------------------- MODULE PointHash -------------------------------
(***************************************************************************)
(* Execution points with the hash value the class keeps beside the pairs   *)
(* (src/execpoint.cc).  It is not computed from the pairs but brought up   *)
(* to date by each push, pop and count, for as long as the thread runs;    *)
(* the table of the records finds a point only if it is the same.          *)
(*                                                                         *)
(* A word is the set of its bits that are set.                             *)
(***************************************************************************)
EXTENDS ExecPoint, FiniteSetsExt, SequencesExt

CONSTANT HashWidth   \* the bits of an unsigned int

ASSUME HashAssumption == HashWidth \in Nat /\ HashWidth > 3

Bits(n)          == {b \in 0 .. HashWidth - 1 : (n \div 2^b) % 2 = 1}
rotate_left(h)   == {(b + 3) % HashWidth : b \in h}
rotate_right(h)  == {(b + HashWidth - 3) % HashWidth : b \in h}
Top(e)           == Bits(e.pairs[Len(e.pairs)].val)

push(e, pair) ==
  [pairs |-> Push(e.pairs, pair), hashvalue |-> SymDiff(rotate_left(e.hashvalue), Bits(pair.val))]

\* Fault: the rotation of push is not undone.
pop_rotated(e) == [pairs |-> Pop(e.pairs), hashvalue |-> SymDiff(e.hashvalue, Top(e))]

pop(e) == [pairs |-> Pop(e.pairs), hashvalue |-> rotate_right(SymDiff(e.hashvalue, Top(e)))]

incrementTop(e) ==
  LET f == IncrementTop(e.pairs)
  IN [pairs |-> f, hashvalue |-> SymDiff(SymDiff(e.hashvalue, Top(e)), Bits(f[Len(f)].val))]

\* Pairs are popped until size are left.
popTo(e, size) ==
  LET popped[n \in 0 .. Len(e.pairs) - size] == IF n = 0 THEN e ELSE pop(popped[n - 1])
  IN popped[Len(e.pairs) - size]

\* add_thread: the point of a new thread.
NewPoint(tid) == push([pairs |-> <<>>, hashvalue |-> Bits(tid)], Counter(0))
================================================================================
