--------------------------- MODULE MCBranchEncoding ----------------------------
(***************************************************************************)
(* A switch with three cases, and in case 1 of it a branch on any value,   *)
(* on a load or a comparison.  A yield in case 0 and one behind both.      *)
(***************************************************************************)
EXTENDS BranchEncoding

Source(kind, S, O) == [kind |-> kind, values |-> SetToSeq(S), observed |-> O]

Loads(V) == {Source("LOAD", S, O) : <<S, O>> \in {p \in (SUBSET V) \X (SUBSET V \ {{}}) : p[2] \subseteq p[1]}}
Functions(V) == {Source("FUNCTION", S, S) : S \in SUBSET V \ {{}}}
Comparison == Source("EQUALS", {0, 1}, {0, 1})

TwoBranches   == {1, 2}
OuterInner    == <<None, <<1, 1>>>>
OuterSources  == Loads(0 .. 2) \cup Functions(0 .. 2) \cup {Comparison}
InnerSources  == Loads(0 .. 2) \cup {Comparison}
MCSources     == <<OuterSources, InnerSources>>
BranchDirs    == <<3, 2>>
TwoYields     == {1, 2}
FirstIsInside == <<<<1, 0>>, None>>
YieldsAhead   == <<{1}, {1, 2}>>
InnerOnAny    == <<FALSE, TRUE>>
================================================================================
