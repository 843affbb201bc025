------------------------------- MODULE MCValues --------------------------------
(***************************************************************************)
(* Programs for the planner and the encoding of values.  Each is there for *)
(* a chain of steps that has to be foreseen: values that travel through    *)
(* two loads and two stores, an address that is itself loaded, a shared    *)
(* function and a body that is first executed late, read-modify-writes     *)
(* whose results are stored and compared.                                  *)
(*                                                                         *)
(* An operand is a constant, C(v), or the result of an operation, D(r); on *)
(* is the branch an operation is in the body of, with its direction.       *)
(***************************************************************************)
EXTENDS ValueEncoding

None == [src |-> 0, val |-> 0]
C(v) == [src |-> 0, val |-> v]
D(r) == [src |-> r, val |-> 0]

Operation(t, on, type, op, addr, args, shared, f) ==
  [tid |-> t, on |-> on, type |-> type, op |-> op, addr |-> addr, args |-> args, shared |-> shared, f |-> f]
Ld(t, on, a) == Operation(t, on, "LOAD", "", a, <<>>, 0, <<>>)
St(t, on, a, v) == Operation(t, on, "STORE", "", a, <<v>>, 0, <<>>)
Add(t, on, a, v) == Operation(t, on, "RMW", "ADD", a, <<v>>, 0, <<>>)
Cas(t, on, a, new, old) == Operation(t, on, "RMW", "CAS", a, <<new, old>>, 0, <<>>)
Exc(t, on, a, v) == Operation(t, on, "RMW", "EXC", a, <<v>>, 0, <<>>)
Eq(t, on, v, w) == Operation(t, on, "EQUALS", "", None, <<v, w>>, 0, <<>>)
Fn(t, on, args, shared, f) == Operation(t, on, "FUNCTION", "", None, args, shared, f)
Phi(t, on, args) == Operation(t, on, "PHI", "", None, args, 0, <<>>)
Br(t, on, v) == Operation(t, on, "BRANCHDIR", "", None, <<v>>, 0, <<>>)

All == <<>>
x == 4
y == 5
MCAddress == {x, y}

Half == [v \in {<<i>> : i \in 0 .. 7} |-> v[1] \div 2]

\* Values go from one location to the other and back.
Relay == <<
  St(0, All, C(x), C(0)), St(0, All, C(y), C(0)),
  Ld(1, All, C(x)), St(1, All, C(y), D(3)),
  Ld(2, All, C(y)), St(2, All, C(x), C(1)), Eq(2, All, D(5), C(1)), Br(2, All, D(7))>>

\* A published address is read through; where it points to depends on the schedule.
Pointer == <<
  St(0, All, C(x), C(y)), St(0, All, C(y), C(x)),
  Ld(1, All, C(x)), Ld(1, All, D(3)), Fn(1, All, <<D(4)>>, 0, Half),
  St(2, All, C(x), C(x)), Ld(2, All, C(y)), Fn(2, All, <<D(7)>>, 0, Half)>>

\* A shared function, and a body that is found late.
Late == <<
  St(0, All, C(x), C(0)), St(0, All, C(y), C(0)),
  Ld(1, All, C(x)), Fn(1, All, <<D(3)>>, 1, Half), Br(1, All, D(4)),
  Ld(1, <<5, 1>>, C(y)), Ld(1, <<5, 0>>, C(x)), Phi(1, All, <<D(6), D(7)>>), Fn(1, All, <<D(8)>>, 1, Half),
  St(2, All, C(x), C(2)), St(2, All, C(y), C(3))>>

\* RMWs.
Updates == <<
  St(0, All, C(x), C(0)), St(0, All, C(y), C(1)),
  Add(1, All, C(x), C(1)), St(1, All, C(y), D(3)),
  Cas(2, All, C(x), C(2), C(0)), Exc(2, All, C(y), C(2)), Eq(2, All, D(5), D(6))>>

MCPrograms == <<Relay, Pointer, Late, Updates>>
================================================================================
