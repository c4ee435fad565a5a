--------------------------------- MODULE MCShadow ---------------------------------
(***************************************************************************)
(* Simulations of two and three nodes with messages, of four without, and  *)
(* the generation of larger topologies.  The field is GF(8); a byte has    *)
(* four bits and a chunk of three bytes four elements of three bits, which *)
(* take a byte each on the network.  Two data chunks come with one parity  *)
(* chunk, three with two.                                                  *)
(***************************************************************************)
EXTENDS Shadow

Request(type, nodeCount, param, percent) ==
  [type |-> type, nodeCount |-> nodeCount, param |-> param, percent |-> percent]

(* The last three need two attempts or three.                           *)
SomeRequests ==
  {Request(type, n, 0, 0) : type \in {"linear", "ring", "mesh"}, n \in {2, 3, 4, 7}} \cup
  {Request("tree", n, b, 0) : n \in {3, 4, 10}, b \in {1, 3}} \cup
  {Request("small-world", n, k, percent) : n \in {2, 4, 9}, k \in {1, 5}, percent \in {0, 7, 50}} \cup
  {Request("random-regular", n, d, 0) : n \in {2, 3, 4, 8}, d \in {0, 3}} \cup
  {Request("random-regular", n, 2, 0) : n \in {11, 17, 35}}

(* Messages of some chunks. *)
Chunk1 == <<1, 0, 1, 0, 1, 1, 0, 0, 0, 1, 1, 1>>
Chunk2 == <<0, 1, 1, 1, 1, 1, 0, 1, 0, 0, 0, 1>>
Chunk3 == <<1, 1, 0, 0, 0, 1, 1, 1, 1, 0, 1, 0>>
SomeMessages(n) ==
  CASE n = 2 -> {Chunk1, Chunk2 \o Chunk1, Chunk1 \o Chunk2 \o Chunk3}
    [] n = 3 -> {Chunk1 \o Chunk2, Chunk3 \o Chunk3 \o Chunk2}
    [] OTHER -> {}
=============================================================================
