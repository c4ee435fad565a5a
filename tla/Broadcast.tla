------------------------------- MODULE Broadcast -------------------------------
(***************************************************************************)
(* What a topic promises: every node hands a message to its application at *)
(* most once and only after somebody published it, and everybody gets what *)
(* was published.  FloodSub.tla is shown to implement this module.         *)
(***************************************************************************)
EXTENDS Sequences

CONSTANTS Nodes, Messages

VARIABLES
  published,  \* the messages published so far
  delivered   \* the messages handed to each node's application, oldest first

vars == <<published, delivered>>

Init ==
  /\ published = {}
  /\ delivered = [n \in Nodes |-> <<>>]

Has(n, m) == \E i \in DOMAIN delivered[n] : delivered[n][i] = m

Publish(m) ==
  /\ published' = published \cup {m}
  /\ UNCHANGED delivered

Deliver(n, m) ==
  /\ m \in published
  /\ ~Has(n, m)
  /\ delivered' = [delivered EXCEPT ![n] = Append(@, m)]
  /\ UNCHANGED published

Next == \E m \in Messages : Publish(m) \/ \E n \in Nodes : Deliver(n, m)

Spec == Init /\ [][Next]_vars

(* What can be delivered is. *)
LiveSpec == Spec /\ \A n \in Nodes, m \in Messages : WF_vars(Deliver(n, m))
=============================================================================
