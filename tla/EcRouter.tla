--------------------------------- MODULE EcRouter ---------------------------------
(***************************************************************************)
(* A network of EC routers (src/ec/ec.go) that use the Reed-Solomon        *)
(* encoder.  HandleIncomingRPC adds the chunk in one critical section,     *)
(* then forwards chunks one critical section at a time (sendChunk), then   *)
(* notifies in another (notifyMessage); one handler per connection runs,   *)
(* and Publish runs beside them, outside the router's mutex while it emits.*)
(* Every RPC the code builds carries one chunk.  Next is atomic here, see  *)
(* Subscription.tla.  Datagrams are delayed, reordered and, with Lossy,    *)
(* lost; two copies of a chunk on their way between the same two nodes are *)
(* not told apart, because the second is refused wherever the first was    *)
(* taken.                                                                  *)
(***************************************************************************)
EXTENDS RsEncoder

CONSTANTS
  Nodes, Messages,
  Neighbours,         \* the peers each router knows at the start
  Changing,           \* pairs <<n, p>>: p comes and goes as a peer of n
  Lossy,              \* whether the network loses datagrams
  PublishMultiplier,  \* params.PublishMultiplier
  ForwardMultiplier,  \* params.ForwardMultiplier
  MaxPublishes,       \* bound: how often a message is published
  Takers              \* bound: the nodes whose applications take messages

ASSUME RouterAssumption ==
  /\ IsFiniteSet(Nodes)
  /\ Neighbours \in [Nodes -> SUBSET Nodes]
  /\ Changing \subseteq Nodes \X Nodes /\ Lossy \in BOOLEAN
  /\ PublishMultiplier \in Nat /\ ForwardMultiplier \in Nat
  /\ MaxPublishes \in Nat /\ Takers \subseteq Nodes

VARIABLES
  peers,      \* router.peers
  entry,      \* router.encoder, by message
  received,   \* router.received
  notified,   \* router.notified
  handler,    \* the goroutine handling an RPC from a peer
  publisher,  \* the goroutine inside Publish
  inFlight,   \* chunks sent and not yet handled
  publishes,  \* history: how often a message has been published
  handed      \* history: results of Next

vars == <<peers, entry, received, notified, handler, publisher, inFlight,
          publishes, handed>>

Datagrams == [from : Nodes, to : Nodes, msg : Messages, chunk : Chunks]

(* A handler at work has sends left to do, and then maybe to notify. *)
Handlers == [busy : {FALSE}] \cup
            [busy : {TRUE}, msg : Messages, sends : Nat, notify : BOOLEAN]
Publishers == [pc : {"idle"}] \cup
              [pc : {"queueing"}, msg : Messages] \cup
              [pc : {"sending"}, msg : Messages, sends : Nat \ {0},
               to : Seq(Nodes) \ {<<>>}]
NoHandler == [busy |-> FALSE]
NoPublisher == [pc |-> "idle"]

TypeOK ==
  /\ peers \in [Nodes -> SUBSET Nodes]
  /\ entry \in [Nodes -> [Messages -> Entry]]
  /\ received \in [Nodes -> Seq(Messages)]
  /\ notified \in [Nodes -> SUBSET Messages]
  /\ handler \in [Nodes -> [Nodes -> Handlers]]
  /\ publisher \in [Nodes -> Publishers]
  /\ inFlight \subseteq Datagrams
  /\ publishes \in [Messages -> Nat]
  /\ handed \in [Nodes -> Seq(Messages)]

Init ==
  /\ peers = Neighbours
  /\ entry = [n \in Nodes |-> [m \in Messages |-> NoEntry]]
  /\ received = [n \in Nodes |-> <<>>]
  /\ notified = [n \in Nodes |-> {}]
  /\ handler = [n \in Nodes |-> [p \in Nodes |-> NoHandler]]
  /\ publisher = [n \in Nodes |-> NoPublisher]
  /\ inFlight = {}
  /\ publishes = [m \in Messages |-> 0]
  /\ handed = [n \in Nodes |-> <<>>]

-----------------------------------------------------------------------------
(* Publish *)

(* The chunks are generated before the router's mutex is taken.  A router   *)
(* runs one Publish at a time here; the code does not forbid several.       *)
PublishGenerate(n, m) ==
  /\ publisher[n].pc = "idle"
  /\ publishes[m] < MaxPublishes
  /\ publishes' = [publishes EXCEPT ![m] = @ + 1]
  /\ entry' = [entry EXCEPT ![n][m] = GenerateThenAddChunks(@)]
  /\ publisher' = [publisher EXCEPT ![n] = [pc |-> "queueing", msg |-> m]]
  /\ UNCHANGED <<peers, received, notified, handler, inFlight, handed>>

(* All the orders in which the copied peers may come out of the shuffle. *)
Shuffles(S) == {q \in [1 .. Cardinality(S) -> S] : \A p \in S : \E i \in DOMAIN q : q[i] = p}

PublishQueue(n) ==
  LET m == publisher[n].msg IN
  /\ publisher[n].pc = "queueing"
  /\ received' = [received EXCEPT ![n] = Append(@, m)]
  /\ \E q \in Shuffles(peers[n]) :
       publisher' = [publisher EXCEPT ![n] =
         IF q = <<>> \/ PublishMultiplier = 0 THEN NoPublisher
         ELSE [pc |-> "sending", msg |-> m,
               sends |-> TotalChunks * PublishMultiplier, to |-> q]]
  /\ UNCHANGED <<peers, entry, notified, handler, inFlight, publishes, handed>>

(* One round of the loop: the peers are served in turn, those removed       *)
(* meanwhile included.                                                      *)
PublishSend(n) ==
  LET pub == publisher[n]
      e == entry[n][pub.msg]
  IN
  /\ pub.pc = "sending"
  /\ entry' = [entry EXCEPT ![n][pub.msg] = EmitChunk(@)]
  /\ inFlight' = inFlight \cup
       {[from |-> n, to |-> Head(pub.to), msg |-> pub.msg, chunk |-> Emitted(e)]}
  /\ publisher' = [publisher EXCEPT ![n] =
       IF pub.sends = 1 THEN NoPublisher
       ELSE [pub EXCEPT !.sends = @ - 1, !.to = Append(Tail(@), Head(@))]]
  /\ UNCHANGED <<peers, received, notified, handler, publishes, handed>>

-----------------------------------------------------------------------------
(* HandleIncomingRPC *)

(* The critical section, for a chunk that is refused ... *)
HandleUseless(d) ==
  /\ d \in inFlight
  /\ handler[d.to][d.from] = NoHandler
  /\ ~Acceptable(entry[d.to][d.msg], d.chunk)
  /\ inFlight' = inFlight \ {d}
  /\ UNCHANGED <<peers, entry, received, notified, handler, publisher,
                 publishes, handed>>

(* ... and for a useful one.  Mutant: the count is compared with > instead  *)
(* of >=, so one chunk more than needed is waited for.                      *)
HandleUsefulOffByOne(d) ==
  LET after == VerifyThenAddChunk(entry[d.to][d.msg], d.chunk) IN
  /\ d \in inFlight
  /\ handler[d.to][d.from] = NoHandler
  /\ Acceptable(entry[d.to][d.msg], d.chunk)
  /\ inFlight' = inFlight \ {d}
  /\ entry' = [entry EXCEPT ![d.to][d.msg] = after]
  /\ handler' = [handler EXCEPT ![d.to][d.from] =
       [busy |-> TRUE, msg |-> d.msg, sends |-> ForwardMultiplier,
        notify |-> Cardinality(after.chunks) > DataChunks]]
  /\ UNCHANGED <<peers, received, notified, publisher, publishes, handed>>

HandleUseful(d) ==
  LET after == VerifyThenAddChunk(entry[d.to][d.msg], d.chunk) IN
  /\ d \in inFlight
  /\ handler[d.to][d.from] = NoHandler
  /\ Acceptable(entry[d.to][d.msg], d.chunk)
  /\ inFlight' = inFlight \ {d}
  /\ entry' = [entry EXCEPT ![d.to][d.msg] = after]
  /\ handler' = [handler EXCEPT ![d.to][d.from] =
       [busy |-> TRUE, msg |-> d.msg, sends |-> ForwardMultiplier,
        notify |-> Reconstructible(after)]]
  /\ UNCHANGED <<peers, received, notified, publisher, publishes, handed>>

(* VerifyThenAddChunk, GetChunkCount and ReconstructMessage each take the   *)
(* encoder's mutex, and Publish generates its chunks under that mutex only: *)
(* it may do so between the first two.                                      *)
HandleUsefulWhilePublishing(d) ==
  LET n == d.to
      after == VerifyThenAddChunk(entry[n][d.msg], d.chunk)
  IN
  /\ d \in inFlight
  /\ handler[n][d.from] = NoHandler
  /\ Acceptable(entry[n][d.msg], d.chunk)
  /\ publisher[n].pc = "idle"
  /\ publishes[d.msg] < MaxPublishes
  /\ inFlight' = inFlight \ {d}
  /\ publishes' = [publishes EXCEPT ![d.msg] = @ + 1]
  /\ entry' = [entry EXCEPT ![n][d.msg] = GenerateThenAddChunks(after)]
  /\ publisher' = [publisher EXCEPT ![n] = [pc |-> "queueing", msg |-> d.msg]]
  /\ handler' = [handler EXCEPT ![n][d.from] =
       [busy |-> TRUE, msg |-> d.msg, sends |-> ForwardMultiplier, notify |-> TRUE]]
  /\ UNCHANGED <<peers, received, notified, handed>>

(* sendChunk: to a random peer other than the sender, if there is one. *)
(* Mutant: the loop around it does not count. *)
SendChunkUncounted(n, p) ==
  LET h == handler[n][p]
      available == peers[n] \ {p}
  IN
  /\ h.busy /\ h.sends > 0
  /\ IF available = {}
     THEN UNCHANGED <<entry, inFlight>>
     ELSE \E q \in available :
            /\ entry' = [entry EXCEPT ![n][h.msg] = EmitChunk(@)]
            /\ inFlight' = inFlight \cup
                 {[from |-> n, to |-> q, msg |-> h.msg, chunk |-> Emitted(entry[n][h.msg])]}
  /\ UNCHANGED <<peers, received, notified, handler, publisher, publishes, handed>>

SendChunk(n, p) ==
  LET h == handler[n][p]
      available == peers[n] \ {p}
  IN
  /\ h.busy /\ h.sends > 0
  /\ handler' = [handler EXCEPT ![n][p].sends = @ - 1]
  /\ IF available = {}
     THEN UNCHANGED <<entry, inFlight>>
     ELSE \E q \in available :
            /\ entry' = [entry EXCEPT ![n][h.msg] = EmitChunk(@)]
            /\ inFlight' = inFlight \cup
                 {[from |-> n, to |-> q, msg |-> h.msg, chunk |-> Emitted(entry[n][h.msg])]}
  /\ UNCHANGED <<peers, received, notified, publisher, publishes, handed>>

(* notifyMessage.  Mutant: the message is not looked up in notified. *)
NotifyUnchecked(n, p) ==
  LET h == handler[n][p] IN
  /\ h.busy /\ h.sends = 0 /\ h.notify
  /\ handler' = [handler EXCEPT ![n][p] = NoHandler]
  /\ notified' = [notified EXCEPT ![n] = @ \cup {h.msg}]
  /\ received' = [received EXCEPT ![n] = Append(@, h.msg)]
  /\ UNCHANGED <<peers, entry, publisher, inFlight, publishes, handed>>

Notify(n, p) ==
  LET h == handler[n][p] IN
  /\ h.busy /\ h.sends = 0 /\ h.notify
  /\ handler' = [handler EXCEPT ![n][p] = NoHandler]
  /\ IF h.msg \in notified[n]
     THEN UNCHANGED <<notified, received>>
     ELSE /\ notified' = [notified EXCEPT ![n] = @ \cup {h.msg}]
          /\ received' = [received EXCEPT ![n] = Append(@, h.msg)]
  /\ UNCHANGED <<peers, entry, publisher, inFlight, publishes, handed>>

HandleReturn(n, p) ==
  /\ handler[n][p].busy /\ handler[n][p].sends = 0 /\ ~handler[n][p].notify
  /\ handler' = [handler EXCEPT ![n][p] = NoHandler]
  /\ UNCHANGED <<peers, entry, received, notified, publisher, inFlight,
                 publishes, handed>>

-----------------------------------------------------------------------------
(* Next, AddPeer and RemovePeer *)

TakeNext(n) ==
  /\ n \in Takers
  /\ received[n] # <<>>
  /\ handed' = [handed EXCEPT ![n] = Append(@, Head(received[n]))]
  /\ received' = [received EXCEPT ![n] = Tail(@)]
  /\ UNCHANGED <<peers, entry, notified, handler, publisher, inFlight, publishes>>

AddPeer(n, p) ==
  /\ <<n, p>> \in Changing
  /\ p \notin peers[n]
  /\ peers' = [peers EXCEPT ![n] = @ \cup {p}]
  /\ UNCHANGED <<entry, received, notified, handler, publisher, inFlight,
                 publishes, handed>>

RemovePeer(n, p) ==
  /\ <<n, p>> \in Changing
  /\ p \in peers[n]
  /\ peers' = [peers EXCEPT ![n] = @ \ {p}]
  /\ UNCHANGED <<entry, received, notified, handler, publisher, inFlight,
                 publishes, handed>>

(* The environment *)
Lose(d) ==
  /\ Lossy
  /\ d \in inFlight
  /\ inFlight' = inFlight \ {d}
  /\ UNCHANGED <<peers, entry, received, notified, handler, publisher,
                 publishes, handed>>

-----------------------------------------------------------------------------
HandlerStep(n, p) == SendChunk(n, p) \/ Notify(n, p) \/ HandleReturn(n, p)
PublisherStep(n) == PublishQueue(n) \/ PublishSend(n)

Next ==
  \/ \E n \in Nodes, m \in Messages : PublishGenerate(n, m)
  \/ \E n \in Nodes : PublisherStep(n) \/ TakeNext(n)
  \/ \E d \in inFlight : HandleUseless(d) \/ HandleUseful(d) \/ Lose(d)
  \/ \E d \in inFlight : HandleUsefulWhilePublishing(d)
  \/ \E n, p \in Nodes : HandlerStep(n, p) \/ AddPeer(n, p) \/ RemovePeer(n, p)

Spec == Init /\ [][Next]_vars

(* Goroutines are scheduled, a datagram that is not lost arrives, and the   *)
(* topic's background goroutine keeps calling Next.                         *)
Fairness ==
  /\ \A n \in Nodes : WF_vars(PublisherStep(n)) /\ WF_vars(TakeNext(n))
  /\ \A n, p \in Nodes : WF_vars(HandlerStep(n, p))
  /\ \A n, p \in Nodes : WF_vars(\E d \in inFlight :
       d.from = p /\ d.to = n /\ (HandleUseless(d) \/ HandleUseful(d)))

FairSpec == Spec /\ Fairness

-----------------------------------------------------------------------------
(* What the code promises *)

Listed(q, m) == \E i \in DOMAIN q : q[i] = m
Delivered(n, m) == Listed(received[n], m) \/ Listed(handed[n], m)
AtWork(n, m) ==
  \/ publisher[n].pc = "queueing" /\ publisher[n].msg = m
  \/ \E p \in Nodes : handler[n][p].busy /\ handler[n][p].msg = m

(* No reconstruction is missed: a node that stores enough chunks of a       *)
(* message has delivered it or has a goroutine at work that will.           *)
NoMissedReconstruction ==
  \A n \in Nodes, m \in Messages :
    Reconstructible(entry[n][m]) => Delivered(n, m) \/ AtWork(n, m)

(* A message that is published once is queued once at a node, however many  *)
(* handlers complete it at the same time, and none that is not published.   *)
DeliveredOnce ==
  \A n \in Nodes :
    LET q == handed[n] \o received[n] IN
    \A i, j \in DOMAIN q :
      /\ publishes[q[i]] > 0
      /\ q[i] = q[j] /\ publishes[q[i]] = 1 => i = j

(* However the same message is published and reconstructed again, it is     *)
(* queued once for a Publish and once more for a node that was notified:    *)
(* chunks that arrive or are generated after that bring no further copy.    *)
Deliveries(m) ==
  UNION {{<<n, i>> : i \in {j \in DOMAIN (handed[n] \o received[n]) :
                              (handed[n] \o received[n])[j] = m}} : n \in Nodes}
DeliveriesAccounted ==
  \A m \in Messages :
    Cardinality(Deliveries(m)) <=
      publishes[m] + Cardinality({n \in Nodes : m \in notified[n]})

(* A chunk is emitted MinEmitCount times before a later one is emitted at   *)
(* all, whether chunks arrive, are published or are forwarded meanwhile.    *)
EmittedInOrder ==
  \A n \in Nodes, m \in Messages :
    LET order == entry[n][m].chunkOrder
        count(i) == entry[n][m].emitCounts[order[i]]
    IN  \A i, j \in DOMAIN order :
          (i < j /\ count(j) > 0 /\ \A k \in 1 .. i : order[k] # order[j])
            => count(i) >= MinEmitCount

(* The chunks of a message are on their way for a finite time only. *)
FloodEnds == <>[](inFlight = {})

Topic == INSTANCE Broadcast WITH
  published <- {m \in Messages : publishes[m] > 0},
  delivered <- handed

ImplementsBroadcast == Topic!Spec
ImplementsLiveBroadcast == Topic!LiveSpec

(* No message is delivered to the application twice. *)
NoDuplicateDelivery ==
  \A n \in Nodes : \A i, j \in DOMAIN handed[n] : handed[n][i] = handed[n][j] => i = j
=============================================================================
