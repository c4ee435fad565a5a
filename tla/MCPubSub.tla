------------------------------- MODULE MCPubSub -------------------------------
(***************************************************************************)
(* PubSub with every connection coming from the same peer, so that a       *)
(* second connection is the peer's reconnection.  Goroutines,              *)
(* Subscription objects and connections are interchangeable (for the runs  *)
(* of safety properties).                                                  *)
(***************************************************************************)
EXTENDS PubSub, TLC

CONSTANT p1

OnePeer == {p1}
SamePeer == [c \in Conns |-> p1]

Interchangeable ==
  Permutations(Apps) \cup Permutations(Subs) \cup Permutations(Conns)
=============================================================================
