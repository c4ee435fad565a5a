------------------------------- MODULE MCFloodSub -------------------------------
(***************************************************************************)
(* FloodSub on small topologies.                                           *)
(***************************************************************************)
EXTENDS FloodSub, TLC

CONSTANTS n1, n2, n3, n4

Pair == {n1, n2}
EachOther == [n \in Pair |-> Pair \ {n}]
Interchangeable == Permutations(Pair)

(* The cycle n2 - n3 - n4 with n1 hanging from n2. *)
Four == {n1, n2, n3, n4}
Edges == {{n1, n2}, {n2, n3}, {n3, n4}, {n2, n4}}
Joined == [n \in Four |-> {p \in Four \ {n} : {n, p} \in Edges}]
=============================================================================
