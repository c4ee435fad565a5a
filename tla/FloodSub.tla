-------------------------------- MODULE FloodSub --------------------------------
(***************************************************************************)
(* A network of FloodSub routers (src/floodsub/floodsub.go), each with its *)
(* TimeCache of seen message IDs (src/floodsub/timecache.go).  Every RPC   *)
(* the code builds carries one message: Publish passes one, and an RPC is  *)
(* forwarded with the new messages among those it came with.               *)
(*                                                                         *)
(* handleMessages is one critical section followed by the sends; a send    *)
(* changes nothing at the sender, so a message counts as in flight from    *)
(* the moment it is copied for a peer.  Datagrams may be delayed, reordered *)
(* and, with Lossy, lost.  Time is an integer clock common to all nodes.   *)
(***************************************************************************)
EXTENDS Naturals, Sequences

CONSTANTS
  Nodes, Messages,
  Neighbours,  \* the peers each router knows at the start
  Dynamic,     \* whether peers come and go later
  Lossy,       \* whether the network loses datagrams
  Closing,     \* whether routers are closed
  TTL,         \* TimeCacheDuration
  MaxTime,     \* bound: the last instant of the clock
  Never        \* no time

ASSUME NetworkAssumption ==
  /\ Neighbours \in [Nodes -> SUBSET Nodes]
  /\ Dynamic \in BOOLEAN /\ Lossy \in BOOLEAN /\ Closing \in BOOLEAN
ASSUME TimeAssumption == TTL \in Nat /\ MaxTime \in Nat /\ Never \notin Nat

VARIABLES
  peerSendFuncs,     \* router.peerSendFuncs
  entries,           \* router.seenMessages.entries: expiration times
  receivedMessages,  \* router.receivedMessages
  closed,            \* router.ctx is done and the cache is closed
  inFlight,          \* how many copies of a message are on their way to a node
  now,               \* the clock
  lastAccepted,      \* history: when a node last took a message as new
  forwardedTo,       \* history: the peers a node copied a message for
  lost,              \* history: messages the network lost on the way to a node
  handed             \* history: results of Next

vars == <<peerSendFuncs, entries, receivedMessages, closed, inFlight, now,
          lastAccepted, forwardedTo, lost, handed>>

Times == Nat \cup {Never}

TypeOK ==
  /\ peerSendFuncs \in [Nodes -> SUBSET Nodes]
  /\ entries \in [Nodes -> [Messages -> Times]]
  /\ receivedMessages \in [Nodes -> Seq(Messages)]
  /\ closed \in [Nodes -> BOOLEAN]
  /\ inFlight \in [Nodes -> [Messages -> Nat]]
  /\ now \in Nat
  /\ lastAccepted \in [Nodes -> [Messages -> Times]]
  /\ forwardedTo \in [Nodes -> [Messages -> SUBSET Nodes]]
  /\ lost \in [Nodes -> SUBSET Messages]
  /\ handed \in [Nodes -> Seq(Messages)]

Init ==
  /\ peerSendFuncs = Neighbours
  /\ entries = [n \in Nodes |-> [m \in Messages |-> Never]]
  /\ receivedMessages = [n \in Nodes |-> <<>>]
  /\ closed = [n \in Nodes |-> FALSE]
  /\ inFlight = [n \in Nodes |-> [m \in Messages |-> 0]]
  /\ now = 0
  /\ lastAccepted = [n \in Nodes |-> [m \in Messages |-> Never]]
  /\ forwardedTo = [n \in Nodes |-> [m \in Messages |-> {}]]
  /\ lost = [n \in Nodes |-> {}]
  /\ handed = [n \in Nodes |-> <<>>]

-----------------------------------------------------------------------------
(* TimeCache *)

Has(n, m) == entries[n][m] # Never

(* Mutant of Add: the time to live is subtracted. *)
AddExpired(n, m) ==
  entries' = [entries EXCEPT ![n][m] = IF @ = Never THEN now - TTL ELSE @]

Add(n, m) ==
  entries' = [entries EXCEPT ![n][m] = IF @ = Never THEN now + TTL ELSE @]

(* A sweep with the time of the tick, which may be read late.  Mutant: an   *)
(* entry goes at its expiration time already.                               *)
SweepAtOnce(n, at) ==
  /\ ~closed[n]
  /\ entries' = [entries EXCEPT ![n] = [m \in Messages |->
                   IF @[m] # Never /\ @[m] <= at THEN Never ELSE @[m]]]
  /\ UNCHANGED <<peerSendFuncs, receivedMessages, closed, inFlight, now,
                 lastAccepted, forwardedTo, lost, handed>>

Sweep(n, at) ==
  /\ ~closed[n]
  /\ entries' = [entries EXCEPT ![n] = [m \in Messages |->
                   IF @[m] # Never /\ @[m] < at THEN Never ELSE @[m]]]
  /\ UNCHANGED <<peerSendFuncs, receivedMessages, closed, inFlight, now,
                 lastAccepted, forwardedTo, lost, handed>>

-----------------------------------------------------------------------------
(* FloodSubRouter *)

(* handleMessages: a new message is remembered, buffered for Next and       *)
(* copied for every peer, the one it came from included.  inFlightBefore is *)
(* the network without the datagram being handled.  Mutant: the cache is    *)
(* not asked.                                                               *)
handleMessagesUnchecked(n, m, inFlightBefore) ==
  /\ Add(n, m)
  /\ receivedMessages' = [receivedMessages EXCEPT ![n] = Append(@, m)]
  /\ lastAccepted' = [lastAccepted EXCEPT ![n][m] = now]
  /\ forwardedTo' = [forwardedTo EXCEPT ![n][m] = @ \cup peerSendFuncs[n]]
  /\ inFlight' = [p \in Nodes |-> [inFlightBefore[p] EXCEPT ![m] =
                    IF p \in peerSendFuncs[n] THEN @ + 1 ELSE @]]

handleMessages(n, m, inFlightBefore) ==
  IF Has(n, m)
  THEN /\ inFlight' = inFlightBefore
       /\ UNCHANGED <<entries, receivedMessages, lastAccepted, forwardedTo>>
  ELSE /\ Add(n, m)
       /\ receivedMessages' = [receivedMessages EXCEPT ![n] = Append(@, m)]
       /\ lastAccepted' = [lastAccepted EXCEPT ![n][m] = now]
       /\ forwardedTo' = [forwardedTo EXCEPT ![n][m] = @ \cup peerSendFuncs[n]]
       /\ inFlight' = [p \in Nodes |-> [inFlightBefore[p] EXCEPT ![m] =
                         IF p \in peerSendFuncs[n] THEN @ + 1 ELSE @]]

Publish(n, m) ==
  /\ handleMessages(n, m, inFlight)
  /\ UNCHANGED <<peerSendFuncs, closed, now, lost, handed>>

(* Mutants: a closed router drops what arrives; a received message is not   *)
(* forwarded; a duplicate is put back.                                      *)
HandleIncomingRPCClosed(n, m) ==
  /\ inFlight[n][m] > 0
  /\ IF closed[n]
     THEN /\ inFlight' = [inFlight EXCEPT ![n][m] = @ - 1]
          /\ UNCHANGED <<entries, receivedMessages, lastAccepted, forwardedTo>>
     ELSE handleMessages(n, m, [inFlight EXCEPT ![n][m] = @ - 1])
  /\ UNCHANGED <<peerSendFuncs, closed, now, lost, handed>>

HandleIncomingRPCLeaf(n, m) ==
  /\ inFlight[n][m] > 0
  /\ inFlight' = [inFlight EXCEPT ![n][m] = @ - 1]
  /\ Add(n, m)
  /\ IF Has(n, m)
     THEN UNCHANGED <<receivedMessages, lastAccepted>>
     ELSE /\ receivedMessages' = [receivedMessages EXCEPT ![n] = Append(@, m)]
          /\ lastAccepted' = [lastAccepted EXCEPT ![n][m] = now]
  /\ UNCHANGED <<peerSendFuncs, closed, now, lost, handed, forwardedTo>>

HandleIncomingRPCRequeue(n, m) ==
  /\ inFlight[n][m] > 0
  /\ handleMessages(n, m, IF Has(n, m) THEN inFlight
                          ELSE [inFlight EXCEPT ![n][m] = @ - 1])
  /\ UNCHANGED <<peerSendFuncs, closed, now, lost, handed>>

HandleIncomingRPC(n, m) ==
  /\ inFlight[n][m] > 0
  /\ handleMessages(n, m, [inFlight EXCEPT ![n][m] = @ - 1])
  /\ UNCHANGED <<peerSendFuncs, closed, now, lost, handed>>

(* router.Next as its caller sees it (Subscription.tla has the details).    *)
(* Mutant: the message stays in the buffer.                                 *)
TakeNextPeek(n) ==
  /\ receivedMessages[n] # <<>>
  /\ handed' = [handed EXCEPT ![n] = Append(@, Head(receivedMessages[n]))]
  /\ UNCHANGED <<peerSendFuncs, entries, receivedMessages, closed, inFlight, now,
                 lastAccepted, forwardedTo, lost>>

TakeNext(n) ==
  /\ receivedMessages[n] # <<>>
  /\ handed' = [handed EXCEPT ![n] = Append(@, Head(receivedMessages[n]))]
  /\ receivedMessages' = [receivedMessages EXCEPT ![n] = Tail(@)]
  /\ UNCHANGED <<peerSendFuncs, entries, closed, inFlight, now, lastAccepted,
                 forwardedTo, lost>>

AddPeer(n, p) ==
  /\ Dynamic
  /\ p \notin peerSendFuncs[n]
  /\ peerSendFuncs' = [peerSendFuncs EXCEPT ![n] = @ \cup {p}]
  /\ UNCHANGED <<entries, receivedMessages, closed, inFlight, now, lastAccepted,
                 forwardedTo, lost, handed>>

RemovePeer(n, p) ==
  /\ Dynamic
  /\ p \in peerSendFuncs[n]
  /\ peerSendFuncs' = [peerSendFuncs EXCEPT ![n] = @ \ {p}]
  /\ UNCHANGED <<entries, receivedMessages, closed, inFlight, now, lastAccepted,
                 forwardedTo, lost, handed>>

(* Close stops the sweeping; nothing else looks at router.ctx but Next. *)
Close(n) ==
  /\ Closing
  /\ ~closed[n]
  /\ closed' = [closed EXCEPT ![n] = TRUE]
  /\ UNCHANGED <<peerSendFuncs, entries, receivedMessages, inFlight, now,
                 lastAccepted, forwardedTo, lost, handed>>

-----------------------------------------------------------------------------
(* The environment *)

Lose(n, m) ==
  /\ Lossy
  /\ inFlight[n][m] > 0
  /\ inFlight' = [inFlight EXCEPT ![n][m] = @ - 1]
  /\ lost' = [lost EXCEPT ![n] = @ \cup {m}]
  /\ UNCHANGED <<peerSendFuncs, entries, receivedMessages, closed, now,
                 lastAccepted, forwardedTo, handed>>

Tick ==
  /\ now < MaxTime
  /\ now' = now + 1
  /\ UNCHANGED <<peerSendFuncs, entries, receivedMessages, closed, inFlight,
                 lastAccepted, forwardedTo, lost, handed>>

-----------------------------------------------------------------------------
Next ==
  \/ \E n \in Nodes, m \in Messages :
       Publish(n, m) \/ HandleIncomingRPC(n, m) \/ Lose(n, m)
  \/ \E n \in Nodes : TakeNext(n) \/ Close(n) \/ \E at \in 0 .. now : Sweep(n, at)
  \/ \E n, p \in Nodes : AddPeer(n, p) \/ RemovePeer(n, p)
  \/ Tick

Spec == Init /\ [][Next]_vars

(* A datagram that is not lost arrives, and the topic's background          *)
(* goroutine keeps calling Next.                                            *)
Fairness ==
  /\ \A n \in Nodes, m \in Messages : WF_vars(HandleIncomingRPC(n, m))
  /\ \A n \in Nodes : WF_vars(TakeNext(n))

FairSpec == Spec /\ Fairness

-----------------------------------------------------------------------------
(* What the code promises *)

Accepted(n) == {m \in Messages : lastAccepted[n][m] # Never}
Published == UNION {Accepted(n) : n \in Nodes}

(* A message is not forgotten before its time to live is over, whatever     *)
(* sweeps, duplicates and republications come in between ...                *)
RememberedForTTL ==
  \A n \in Nodes, m \in Messages :
    (m \in Accepted(n) /\ now <= lastAccepted[n][m] + TTL) => Has(n, m)

(* ... so no node takes it as new a second time within TTL.                 *)
NoDuplicateWithinTTL ==
  [][\A n \in Nodes, m \in Messages :
       (/\ m \in Accepted(n)
        /\ lastAccepted'[n][m] # lastAccepted[n][m])
         => lastAccepted'[n][m] > lastAccepted[n][m] + TTL]_vars

(* The flood has no hole but what the network lost: whoever a router copied *)
(* a message for has it, or it is on the way there.                         *)
NoHole ==
  \A n, p \in Nodes, m \in Messages :
    p \in forwardedTo[n][m] =>
      m \in Accepted(p) \/ inFlight[p][m] > 0 \/ m \in lost[p]

(* Nodes that know each other end up with the same messages once the        *)
(* network is quiet, when it lost nothing.                                  *)
Agreement ==
  (\A n \in Nodes, m \in Messages : inFlight[n][m] = 0) =>
    \A n, p \in Nodes :
      p \in Neighbours[n] => Accepted(n) \subseteq Accepted(p) \cup lost[p]

(* The flood of a message dies out: nobody forwards it for ever.            *)
FloodEnds == <>[](\A n \in Nodes, m \in Messages : inFlight[n][m] = 0)

Topic == INSTANCE Broadcast WITH
  published <- Published,
  delivered <- handed

ImplementsBroadcast == Topic!Spec
ImplementsLiveBroadcast == Topic!LiveSpec
=============================================================================
