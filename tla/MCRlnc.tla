--------------------------------- MODULE MCRlnc ---------------------------------
(***************************************************************************)
(* A line of three nodes, and a message of two chunks.  A byte has four    *)
(* bits; a chunk is a byte with four elements modulo 3, one bit each, that *)
(* take two bits each on the network.                                      *)
(***************************************************************************)
EXTENDS Rlnc

CONSTANTS n1, n2, n3

Line == {<<n1, n2>>, <<n2, n3>>}
TwoChunks == << <<0, 1, 1, 0>>, <<1, 1, 0, 1>> >>
FourGenerators == <<1, 2, 2, 1>>
=============================================================================
