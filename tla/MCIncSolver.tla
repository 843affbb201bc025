------------------------------ MODULE MCIncSolver ------------------------------
(***************************************************************************)
(* Four variables, so that the literals 3 and 4 look like the commands;    *)
(* clauses that can be satisfied alone but not together.                   *)
(***************************************************************************)
EXTENDS IncSolver

MCClause == {<<3, 4>>, <<-3>>, <<-4, 3>>}
MCFrozen == {3, 4}
================================================================================
