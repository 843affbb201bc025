------------------------------- MODULE MCHashSet -------------------------------
(***************************************************************************)
(* Keys that collide in a table of four slots, before and after it grows,  *)
(* and the key 0.                                                          *)
(***************************************************************************)
EXTENDS HashSet

MCHash == [k \in Key |-> k]
================================================================================
