---------------------------- MODULE Subscription ----------------------------
(***************************************************************************)
(* The blocking buffer behind Subscription.Next, put and Close             *)
(* (src/pubsub/subscription.go), at the granularity at which goroutines    *)
(* interleave: the mutex is held from Lock to Unlock or Wait, but          *)
(* cancelling a context, context.AfterFunc callbacks and Close's Broadcast *)
(* take no lock and may fall between any two steps of a lock holder.       *)
(* FloodSubRouter.Next and EcRouter.Next repeat this code line for line.   *)
(*                                                                         *)
(* The condition variable is Go's sync.Cond: Wait joins the notify list    *)
(* before it unlocks, Signal wakes the longest waiter of the list, and     *)
(* Broadcast wakes all of it; a wakeup nobody is listed for is lost.       *)
(***************************************************************************)
EXTENDS Naturals, Sequences, FiniteSets

CONSTANTS
  Readers,        \* goroutines that call Next
  Messages,       \* message contents
  Cancellable,    \* readers whose context may be cancelled
  MayClose,       \* whether Close is called
  MaxPuts,        \* bound: number of calls of put
  MaxBroadcasts,  \* bound: AfterFunc callbacks started and not yet run
  Free            \* the value of an unlocked mutex

ASSUME ReadersAssumption == IsFiniteSet(Readers) /\ Free \notin Readers
ASSUME CallersAssumption == Cancellable \subseteq Readers /\ MayClose \in BOOLEAN
ASSUME BoundsAssumption == MaxPuts \in Nat /\ MaxBroadcasts \in Nat

VARIABLES
  mutex,             \* sub.mutex: its holder, or Free
  receivedMessages,  \* sub.receivedMessages
  notifyList,        \* the goroutines inside cond.Wait, oldest ticket first
  pc,                \* where each reader is in Next
  ctxDone,           \* the context passed to Next is done
  afterFunc,         \* the callback of AfterFunc is registered
  broadcasts,        \* callbacks started whose Broadcast has not run yet
  closing,           \* progress of Close
  accepted,          \* history: arguments of put, oldest first
  delivered,         \* history: results of Next, oldest first
  disturbed          \* history: a context was cancelled, or Close called

vars == <<mutex, receivedMessages, notifyList, pc, ctxDone, afterFunc,
          broadcasts, closing, accepted, delivered, disturbed>>

(* idle: not in Next; locking: before Lock; empty: the fast path found no   *)
(* message; looping: at the head of the for loop; waiting: inside Wait, on  *)
(* the notify list; woken: taken off the list, before Wait locks again;     *)
(* selecting: at the select.                                                *)
PCs == {"idle", "locking", "empty", "looping", "waiting", "woken", "selecting"}
HoldingPCs == {"empty", "looping", "selecting"}

TypeOK ==
  /\ mutex \in Readers \cup {Free}
  /\ receivedMessages \in Seq(Messages)
  /\ notifyList \in Seq(Readers)
  /\ pc \in [Readers -> PCs]
  /\ ctxDone \in [Readers -> BOOLEAN]
  /\ afterFunc \in [Readers -> BOOLEAN]
  /\ broadcasts \in Nat
  /\ closing \in {"open", "cancelled", "closed"}
  /\ accepted \in Seq(Messages)
  /\ delivered \in Seq(Messages)
  /\ disturbed \in BOOLEAN

Init ==
  /\ mutex = Free
  /\ receivedMessages = <<>>
  /\ notifyList = <<>>
  /\ pc = [r \in Readers |-> "idle"]
  /\ ctxDone = [r \in Readers |-> FALSE]
  /\ afterFunc = [r \in Readers |-> FALSE]
  /\ broadcasts = 0
  /\ closing = "open"
  /\ accepted = <<>>
  /\ delivered = <<>>
  /\ disturbed = FALSE

-----------------------------------------------------------------------------
(* sync.Cond *)

Signal ==
  IF notifyList = <<>>
  THEN UNCHANGED <<notifyList, pc>>
  ELSE /\ pc' = [pc EXCEPT ![Head(notifyList)] = "woken"]
       /\ notifyList' = Tail(notifyList)

Broadcast ==
  /\ pc' = [r \in Readers |-> IF pc[r] = "waiting" THEN "woken" ELSE pc[r]]
  /\ notifyList' = <<>>

(* context.AfterFunc runs its callback in a goroutine of its own once the   *)
(* context is done, at once when it already is.                             *)
StartBroadcast(registered) ==
  broadcasts' = IF registered THEN broadcasts + 1 ELSE broadcasts

-----------------------------------------------------------------------------
(* put *)

(* Mutant of put: it signals only when the buffer was empty. *)
PutSignalsFirstOnly(m) ==
  /\ mutex = Free
  /\ Len(accepted) < MaxPuts
  /\ receivedMessages' = Append(receivedMessages, m)
  /\ accepted' = Append(accepted, m)
  /\ IF receivedMessages = <<>> THEN Signal ELSE UNCHANGED <<notifyList, pc>>
  /\ UNCHANGED <<mutex, ctxDone, afterFunc, broadcasts, closing, delivered, disturbed>>

put(m) ==
  /\ mutex = Free
  /\ Len(accepted) < MaxPuts
  /\ receivedMessages' = Append(receivedMessages, m)
  /\ accepted' = Append(accepted, m)
  /\ Signal
  /\ UNCHANGED <<mutex, ctxDone, afterFunc, broadcasts, closing, delivered, disturbed>>

-----------------------------------------------------------------------------
(* Next *)

(* Mutant of Pop: the newest message is handed out first. *)
PopNewest ==
  /\ delivered' = Append(delivered, receivedMessages[Len(receivedMessages)])
  /\ receivedMessages' = SubSeq(receivedMessages, 1, Len(receivedMessages) - 1)

Pop ==
  /\ delivered' = Append(delivered, Head(receivedMessages))
  /\ receivedMessages' = Tail(receivedMessages)

(* A return: the deferred unregister and Unlock run. *)
Return(r) ==
  /\ pc' = [pc EXCEPT ![r] = "idle"]
  /\ afterFunc' = [afterFunc EXCEPT ![r] = FALSE]
  /\ mutex' = Free

Call(r) ==
  /\ pc[r] = "idle"
  /\ pc' = [pc EXCEPT ![r] = "locking"]
  /\ ctxDone' = [ctxDone EXCEPT ![r] = FALSE]
  /\ UNCHANGED <<mutex, receivedMessages, notifyList, afterFunc, broadcasts,
                 closing, accepted, delivered, disturbed>>

TakeBuffered(r) ==
  /\ pc[r] = "locking"
  /\ mutex = Free
  /\ receivedMessages # <<>>
  /\ Pop
  /\ Return(r)
  /\ UNCHANGED <<notifyList, ctxDone, broadcasts, closing, accepted, disturbed>>

FindEmpty(r) ==
  /\ pc[r] = "locking"
  /\ mutex = Free
  /\ receivedMessages = <<>>
  /\ mutex' = r
  /\ pc' = [pc EXCEPT ![r] = "empty"]
  /\ UNCHANGED <<receivedMessages, notifyList, ctxDone, afterFunc, broadcasts,
                 closing, accepted, delivered, disturbed>>

RegisterAfterFunc(r) ==
  /\ pc[r] = "empty"
  /\ ctxDone[r] => broadcasts < MaxBroadcasts
  /\ StartBroadcast(ctxDone[r])
  /\ afterFunc' = [afterFunc EXCEPT ![r] = ~ctxDone[r]]
  /\ pc' = [pc EXCEPT ![r] = "looping"]
  /\ UNCHANGED <<mutex, receivedMessages, notifyList, ctxDone, closing,
                 accepted, delivered, disturbed>>

Wait(r) ==
  /\ pc[r] = "looping"
  /\ receivedMessages = <<>>
  /\ notifyList' = Append(notifyList, r)
  /\ pc' = [pc EXCEPT ![r] = "waiting"]
  /\ mutex' = Free
  /\ UNCHANGED <<receivedMessages, ctxDone, afterFunc, broadcasts, closing,
                 accepted, delivered, disturbed>>

Relock(r) ==
  /\ pc[r] = "woken"
  /\ mutex = Free
  /\ mutex' = r
  /\ pc' = [pc EXCEPT ![r] = "selecting"]
  /\ UNCHANGED <<receivedMessages, notifyList, ctxDone, afterFunc, broadcasts,
                 closing, accepted, delivered, disturbed>>

(* Mutant of ReturnError: any wakeup that finds no message is an error.     *)
ReturnErrorWhenWoken(r) ==
  /\ pc[r] = "selecting"
  /\ ctxDone[r] \/ closing # "open" \/ receivedMessages = <<>>
  /\ Return(r)
  /\ UNCHANGED <<receivedMessages, notifyList, ctxDone, broadcasts, closing,
                 accepted, delivered, disturbed>>

ReturnError(r) ==
  /\ pc[r] = "selecting"
  /\ ctxDone[r] \/ closing # "open"
  /\ Return(r)
  /\ UNCHANGED <<receivedMessages, notifyList, ctxDone, broadcasts, closing,
                 accepted, delivered, disturbed>>

(* Mutant of ContinueLoop: the buffer is not looked at again after Wait, as  *)
(* if the for were an if; a call that finds it empty returns a nil message. *)
ReturnWhateverIsThere(r) ==
  /\ pc[r] = "selecting"
  /\ ~ctxDone[r] /\ closing = "open"
  /\ IF receivedMessages # <<>>
     THEN Pop
     ELSE delivered' = Append(delivered, <<>>) /\ UNCHANGED receivedMessages
  /\ Return(r)
  /\ UNCHANGED <<notifyList, ctxDone, broadcasts, closing, accepted, disturbed>>

ContinueLoop(r) ==
  /\ pc[r] = "selecting"
  /\ ~ctxDone[r] /\ closing = "open"
  /\ pc' = [pc EXCEPT ![r] = "looping"]
  /\ UNCHANGED <<mutex, receivedMessages, notifyList, ctxDone, afterFunc,
                 broadcasts, closing, accepted, delivered, disturbed>>

TakeAfterWait(r) ==
  /\ pc[r] = "looping"
  /\ receivedMessages # <<>>
  /\ Pop
  /\ Return(r)
  /\ UNCHANGED <<notifyList, ctxDone, broadcasts, closing, accepted, disturbed>>

-----------------------------------------------------------------------------
(* Cancellation and Close: no lock is taken. *)

Cancel(r) ==
  /\ r \in Cancellable
  /\ pc[r] # "idle"
  /\ ~ctxDone[r]
  /\ afterFunc[r] => broadcasts < MaxBroadcasts
  /\ ctxDone' = [ctxDone EXCEPT ![r] = TRUE]
  /\ StartBroadcast(afterFunc[r])
  /\ afterFunc' = [afterFunc EXCEPT ![r] = FALSE]
  /\ disturbed' = TRUE
  /\ UNCHANGED <<mutex, receivedMessages, notifyList, pc, closing, accepted,
                 delivered>>

(* Mutant of RunAfterFunc: the callback wakes one sleeper, which may be     *)
(* another call than the one that is cancelled.                             *)
RunAfterFuncSignal ==
  /\ broadcasts > 0
  /\ broadcasts' = broadcasts - 1
  /\ Signal
  /\ UNCHANGED <<mutex, receivedMessages, ctxDone, afterFunc, closing,
                 accepted, delivered, disturbed>>

RunAfterFunc ==
  /\ broadcasts > 0
  /\ broadcasts' = broadcasts - 1
  /\ Broadcast
  /\ UNCHANGED <<mutex, receivedMessages, ctxDone, afterFunc, closing,
                 accepted, delivered, disturbed>>

CloseCancel ==
  /\ MayClose
  /\ closing = "open"
  /\ closing' = "cancelled"
  /\ disturbed' = TRUE
  /\ UNCHANGED <<mutex, receivedMessages, notifyList, pc, ctxDone, afterFunc,
                 broadcasts, accepted, delivered>>

(* Mutant of CloseBroadcast: one sleeper is woken, not all of them. *)
CloseSignal ==
  /\ closing = "cancelled"
  /\ closing' = "closed"
  /\ Signal
  /\ UNCHANGED <<mutex, receivedMessages, ctxDone, afterFunc, broadcasts,
                 accepted, delivered, disturbed>>

CloseBroadcast ==
  /\ closing = "cancelled"
  /\ closing' = "closed"
  /\ Broadcast
  /\ UNCHANGED <<mutex, receivedMessages, ctxDone, afterFunc, broadcasts,
                 accepted, delivered, disturbed>>

-----------------------------------------------------------------------------
(* The steps of a call in progress, which the Go scheduler runs on its own. *)
NextStep(r) ==
  \/ TakeBuffered(r) \/ FindEmpty(r) \/ RegisterAfterFunc(r) \/ Wait(r)
  \/ Relock(r) \/ ReturnError(r) \/ ContinueLoop(r) \/ TakeAfterWait(r)

Next ==
  \/ \E m \in Messages : put(m)
  \/ \E r \in Readers : Call(r) \/ Cancel(r) \/ NextStep(r)
  \/ RunAfterFunc \/ CloseCancel \/ CloseBroadcast

Spec == Init /\ [][Next]_vars

(***************************************************************************)
(* Every goroutine that can run is scheduled.  sync.Mutex is starvation    *)
(* free (a waiter that fails for a millisecond is handed the lock), hence  *)
(* strong fairness of a reader's steps; callers need never call.           *)
(***************************************************************************)
Fairness ==
  /\ \A r \in Readers : SF_vars(NextStep(r))
  /\ WF_vars(RunAfterFunc)
  /\ WF_vars(CloseBroadcast)

FairSpec == Spec /\ Fairness

-----------------------------------------------------------------------------
(* What the code promises *)

(* No message is lost, duplicated or reordered, whatever fails or is       *)
(* cancelled in between: what Next returned so far, then what is buffered, *)
(* is what put was given.                                                  *)
FifoExactlyOnce == accepted = delivered \o receivedMessages

(* A buffered message never lies idle while a reader sleeps: for every     *)
(* message, one reader is on its way to the buffer.  A reader that returns *)
(* an error has spent the wakeup of a message on it, hence undisturbed.    *)
OnTheirWay == {r \in Readers : pc[r] \in {"woken", "selecting", "looping"}}
NoStrandedMessage ==
  (~disturbed /\ notifyList # <<>>)
    => Len(receivedMessages) <= Cardinality(OnTheirWay)

(* Close wakes whoever sleeps between its two steps, also when a message   *)
(* wakes it first, and the call returns.                                   *)
CloseWakesSleepers ==
  \A r \in Readers :
    (pc[r] = "waiting" /\ closing = "cancelled") ~> (pc[r] = "idle")

(* A cancelled call that sleeps when its callback is still to run returns, *)
(* whoever else sleeps there, and whatever put, Close and the other calls  *)
(* do before it has the mutex.  Without the premise it may sleep on: see   *)
(* CancelledNextReturns.                                                   *)
CancelWakesSleepers ==
  \A r \in Cancellable :
    (pc[r] = "waiting" /\ ctxDone[r] /\ broadcasts > 0) ~> (pc[r] = "idle")

(* A cancelled call of Next returns.                                       *)
CancelledNextReturns ==
  \A r \in Readers : (pc[r] # "idle" /\ ctxDone[r]) ~> (pc[r] = "idle")

(* Once the subscription is closed every call of Next that is in progress  *)
(* returns.                                                                *)
ClosedNextReturns ==
  \A r \in Readers : (pc[r] # "idle" /\ closing = "closed") ~> (pc[r] = "idle")

(* A reader that sleeps while a message is buffered is woken.              *)
ConsumerNotified ==
  \A r \in Readers :
    (pc[r] = "waiting" /\ receivedMessages # <<>>)
      ~> (pc[r] # "waiting" \/ receivedMessages = <<>>)

(* The buffer implements the queue that callers see. *)
Queue == INSTANCE FifoQueue WITH
  queue <- receivedMessages,
  taken <- delivered,
  calling <- {r \in Readers : pc[r] # "idle"},
  done <- {r \in Readers : ctxDone[r]},
  closed <- closing # "open"

(* Whatever is cancelled or closed, what put, Next and Close do is what    *)
(* FifoQueue allows.                                                       *)
ImplementsQueue == Queue!Spec

(* When nothing is cancelled or closed, a call of Next that could return a *)
(* message does: FifoQueue's promise about progress.                       *)
QueueServed == []~disturbed => Queue!Served
=============================================================================
