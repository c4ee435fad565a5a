----------------------------- MODULE FifoQueue -----------------------------
(***************************************************************************)
(* What a caller of Next may rely on: an unbounded first-in first-out      *)
(* queue.  Messages are accepted one at a time, every accepted message is  *)
(* taken at most once, in the order of acceptance, and a call of Next ends *)
(* without a message only when its context is done or the queue is closed. *)
(* Subscription.tla is shown to implement this module.                     *)
(***************************************************************************)
EXTENDS Sequences

CONSTANTS Readers, Messages

VARIABLES
  queue,     \* accepted and not yet taken
  taken,     \* history: the messages handed out, oldest first
  calling,   \* readers inside a call of Next
  done,      \* readers whose call's context is done
  closed     \* the queue has been closed

vars == <<queue, taken, calling, done, closed>>

Init ==
  /\ queue = <<>>
  /\ taken = <<>>
  /\ calling = {}
  /\ done = {}
  /\ closed = FALSE

Accept(m) ==
  /\ queue' = Append(queue, m)
  /\ UNCHANGED <<taken, calling, done, closed>>

Call(r) ==
  /\ r \notin calling
  /\ calling' = calling \cup {r}
  /\ done' = done \ {r}
  /\ UNCHANGED <<queue, taken, closed>>

Cancel(r) ==
  /\ r \in calling
  /\ done' = done \cup {r}
  /\ UNCHANGED <<queue, taken, calling, closed>>

Shut ==
  /\ closed' = TRUE
  /\ UNCHANGED <<queue, taken, calling, done>>

Take(r) ==
  /\ r \in calling
  /\ queue # <<>>
  /\ taken' = Append(taken, Head(queue))
  /\ queue' = Tail(queue)
  /\ calling' = calling \ {r}
  /\ UNCHANGED <<done, closed>>

Fail(r) ==
  /\ r \in calling
  /\ r \in done \/ closed
  /\ calling' = calling \ {r}
  /\ UNCHANGED <<queue, taken, done, closed>>

Next ==
  \/ \E m \in Messages : Accept(m)
  \/ \E r \in Readers : Call(r) \/ Cancel(r) \/ Take(r) \/ Fail(r)
  \/ Shut

Spec == Init /\ [][Next]_vars

-----------------------------------------------------------------------------
(* The promise about progress: a call that could return does. *)
Served == \A r \in Readers : WF_vars(Take(r) \/ Fail(r))
=============================================================================
