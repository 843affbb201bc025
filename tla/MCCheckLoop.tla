------------------------------ MODULE MCCheckLoop ------------------------------
(***************************************************************************)
(* Two threads.  The first branches and in one direction calls a function  *)
(* that shares its goals with that of the second thread; in the other it   *)
(* branches again.                                                         *)
(***************************************************************************)
EXTENDS CheckLoop, TLC

CONSTANTS a, c, f, g, t1, t2

Always(r) == [v \in Value |-> r]
MCFirst   == t1 :> a @@ t2 :> f
MCSucc    == a :> (0 :> g @@ 1 :> c) @@ f :> Always(Nil) @@ g :> Always(Nil) @@ c :> Always(Nil)
MCGoals   == [r \in Record |-> IF r = g THEN f ELSE r]
MCNumDirs == [r \in Branch |-> 2]
================================================================================
