------------------------------ MODULE MCSnapshot -------------------------------
(***************************************************************************)
(* Snapshots of a program with a heap page (1) and a page of zeroed data   *)
(* (2), a mapping of no file after the program's text (0); page 3 is the   *)
(* checker's library.                                                      *)
(***************************************************************************)
EXTENDS Snapshot

Line(page, w, name) == [page |-> page, w |-> w, name |-> name]

MCMaps == <<Line(0, FALSE, "program"), Line(2, TRUE, "none"), Line(3, TRUE, "library")>>
================================================================================
