--------------------------------- MODULE MCHost ---------------------------------
(***************************************************************************)
(* Two hosts that connect to each other, the first one twice.              *)
(***************************************************************************)
EXTENDS Host

CONSTANTS h1, h2, c1, c2, c3

FirstDials == [c \in {c1, c2, c3} |-> IF c = c3 THEN h2 ELSE h1]
SecondListens == [c \in {c1, c2, c3} |-> IF c = c3 THEN h1 ELSE h2]
=============================================================================
