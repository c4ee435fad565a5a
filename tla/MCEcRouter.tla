------------------------------- MODULE MCEcRouter -------------------------------
(***************************************************************************)
(* EC routers on small topologies.                                         *)
(***************************************************************************)
EXTENDS EcRouter

CONSTANTS n1, n2, n3

Three == {n1, n2, n3}
Breaking == {<<n2, n3>>}

(* The line n1 - n2 - n3. *)
Line == [n \in Three |-> IF n = n2 THEN {n1, n3} ELSE {n2}]
=============================================================================
