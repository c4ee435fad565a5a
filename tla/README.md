# Formal models of the pubsub library

TLA+ models of this repository's pubsub stack, TLC configurations that check
them on small instances, and TLAPS proofs of what matters most for every
instance. Everything here was translated from the source; `PROJECT.json`
names, for each definition, the lines it stands for.

    tlc -config SubscriptionNext.cfg Subscription.tla   # a run of the table below
    tlapm SubscriptionProofs.tla   # proofs; also PubSubProofs, FloodSubProofs, EcRouterProofs,
                                   # HostProofs, ShadowProofs, RlncProofs, FieldMatrixProofs

## 1. Inventory

| component | state | operations | talks to |
|---|---|---|---|
| `Host` (host/host.go) | `connections`, the two peer handlers | `Connect`, accept loop, `Close`, `SetPeerHandlers` | calls the peer handlers under `host.mutex`, one at a time |
| `PubSub` (pubsub/pubsub.go) | `peerConnections`, `topicSubscriptions`, `joinedTopics`, `mySubscriptions`, all under `p.mutex` | `Join`, `Close`, `handleAddPeer`, `handleRemovePeer`, `handleTopicEvent`, `handleIncomingRPC` | one receive loop per connection; listens to topic events; adds and removes peers of topics |
| `Topic` (pubsub/topic.go) | `subscriptions`, `peers`, listeners, under `topic.mutex` | `Subscribe`, `Close`, `removeSubscription`, `addPeer`, `removePeer`, a background goroutine | calls the listener with its mutex held; the goroutine loops over `router.Next` and `put` |
| `Subscription` (pubsub/subscription.go) | `receivedMessages`, a condition variable | `Next`, `put`, `Close` | consumers call `Next`, the topic calls `put` |
| `FloodSubRouter` (floodsub/floodsub.go) | `peerSendFuncs`, `receivedMessages`, `seenMessages` | `Publish`, `HandleIncomingRPC`, `Next`, `AddPeer`, `RemovePeer`, `Close` | sends to every peer after unlocking |
| `TimeCache` (floodsub/timecache.go) | expiration times | `Has`, `Add`, `sweep`, `Close` | a ticker goroutine sweeps |
| `EcRouter` (ec/ec.go) | `peers`, `received`, `notified` | as FloodSub, plus `sendChunk` and `notifyMessage` | the encoder, which has its own mutex; sends under `router.mutex` when it forwards |
| `RsEncoder` (ec/encode/rs) | chunks, their order, emission counts, by message | generate, verify and add, emit, reconstruct | called by the router and by `Publish` outside the router's mutex |
| `RlncEncoder` (ec/encode/rlnc) | coded chunks with their coefficients, by message | the same interface, by linear algebra | the field and matrix functions (ec/field), a verifier (Pedersen commitments over ec/group) |
| fields and matrices (ec/field) | none | arithmetic in a prime and a binary field, packing of bytes into elements, elimination, inversion | both encoders |
| topology generator (shadow/topology) | a graph: connections and adjacency lists | six generators, `AddConnection`, `IsConnected` and the retry of `GenerateRandomRegular`, saving and loading | its files are what the Shadow simulations load |
| Shadow drivers (shadow/rs, rlnc, floodsub) | the topology each node loaded | `main`: load, dial the higher neighbours, publish at node 0, relay | a Host, a PubSub and a router per node; the topology file agrees on who dials |

Hard to test here: two mutexes taken in both orders; callbacks that run beside
the lock holders (`context.AfterFunc`, `cond.Broadcast` without the mutex);
receive loops that outlive the registration of their peer; state copied under a
mutex and used after it; datagrams that are lost or overtaken; caches that
expire while copies are still on their way; concurrent handlers that complete
the same message. `PROJECT.json` lists each of them with its line under
`hazards`, and which properties watch it.

## 2. The models

**Subscription.tla** has one action per step of `Next` between two points where
another goroutine can interfere: `Call`, `TakeBuffered`/`FindEmpty` (the fast
path), `RegisterAfterFunc`, `Wait`, `Relock`, `ReturnError`/`ContinueLoop` (the
select) and `TakeAfterWait`. `put` is one critical section. `Cancel` (the
caller's context), `RunAfterFunc` (the callback) and `CloseCancel`,
`CloseBroadcast` hold no lock and interleave with everything. `disturbed` records
that somebody cancelled or closed, after which a wakeup may be spent on a reader
that returns an error; until then `QueueServed` asks that what is buffered is
handed out to a reader that asks. `sync.Cond` is
modelled as Go documents it: an ordered notify list, `Signal` wakes its oldest
entry, a wakeup with nobody listed is lost. The same code, line for line, is
`FloodSubRouter.Next` and `EcRouter.Next`; those models take a message
atomically and rely on this one. A new `Call` has a fresh context.

**FifoQueue.tla** is what a caller may rely on: first in, first out, exactly
once, and a call ends without a message only if it was cancelled or the queue
was closed. `Subscription` implements it by the mapping at the end of
Subscription.tla.

**PubSub.tla** is one node. Applications, the host's handler and one receive
loop per connection are goroutines with a program counter; a critical section
is one action unless it asks for a second mutex inside, in which case it keeps
the first from one action to the next. That happens in four places and makes
the lock order visible: `Subscribe` and `removeSubscription` (topic, then
PubSub), `handleSubscriptions` and `handleRemovePeer` (PubSub, then topic).
`told` records the last announcement about a topic on a connection, which is
what the remote peer believes when nothing is lost. The background goroutine
is modelled around its `router.Next`, to the extent that `Close` depends on it. An
RPC carries announcements or data, never both: the hello packet and the announcements
(pubsub.go) have no data, and what a topic sends (topic.go:165) has nothing else.
A connection is used once and a peer's second connection is refused until
`handleRemovePeer` has run for the first, as `host.handleConnection` does.

**FloodSub.tla** is a network of routers, each with its TimeCache. A handler's
critical section and its sends are one action: the sends come after it, change
nothing at the sender, and their datagrams may be delayed for as long as one
likes. The clock is an integer; a sweep may use any earlier instant, because
the ticker's time is read late. **Broadcast.tla** is the promise it implements:
at most once, only what was published, and everybody in the end.

**RsEncoder.tla** holds the encoder's bookkeeping as constant operators from
entry to entry, and **EcRouter.tla** the network of routers that call them:
the critical section that adds a chunk, the sends of `sendChunk` one at a time,
`notifyMessage` in a critical section of its own, one handler per connection,
and `Publish` beside them. `Publish` generates its chunks under the encoder's mutex
only, so it may do so while a handler is between two calls of the encoder
(`HandleUsefulWhilePublishing`). A router runs one `Publish` at a time in the model.
EcRouter implements Broadcast too: the run EcLine checks it with liveness, and
its safety is proved for every network.

**PrimeField.tla** and **BinaryField.tla** are the two fields. The code keeps an
element of the binary field as a big integer of coefficients; the model keeps it
as the set of the exponents whose coefficient is one, so that a shift adds to the
exponents and exclusive or is the symmetric difference, and each loop of the code
is a fold over the positions it visits. **FieldMatrix.tla** is the arithmetic over
either: the packing of elements into bytes (a byte string is a sequence of bits,
`ByteBits` of them in a byte) and the elimination algorithms, one fold step per
column or row in the order of the code's loops. Sums, the value of a string of bits
and powers of two are recursive functions, whose recursion the proofs can use.
Rlnc and RsCode instantiate FieldMatrixProofs.tla, which is FieldMatrix with the lemmas
about it, so that both sets of proofs cite the same lemmas about the operators that TLC
evaluates.

**Rlnc.tla** has the RLNC encoders of several nodes and the chunks between them.
Chunks are combined with every choice of random factors, travel, and are verified
and stored; a commitment is an integer modulo the group's order, so that the
homomorphism `Verify` relies on holds for the reason it holds in the code. The
definitions TLC compares with are not the code's: `Span` lists all combinations of
the stored coefficient vectors, and `Independent` tries all factors where the code
eliminates.

**RsCode.tla** is what RsEncoder leaves out, the contents of the Reed-Solomon
chunks: evaluation points, the systematic generator matrix, encoding, and decoding
from the data chunks or from any others. RsEncoder takes any `DataChunks` distinct
chunks to determine the message; `AnyChunksDecode` says so of the code, for every
subset of the chunks that the map's iteration order may choose. The order in which the
map gives the chosen chunks is one for each subset in the model; the theorem
`AnyOrderDecodes` is about every order. `EvaluationPointsAssumption` is that the
evaluation points differ, which the code presumes (rs.go:674) and the constants decide:
TLC evaluates it for the instance of ShadowRs.

**Topology.tla** is the topology generator: each of the six generators as the
calls of `AddConnection` it makes, in their order, the structure that they fill,
the attempts of `GenerateRandomRegular` until `IsConnected`, and the file. Its
seeds are used modulo the number of nodes, so attempts are counted modulo that,
and the search for a connected graph is a finite one. **Shadow.tla** composes it
with RsCode into a simulation of shadow/rs: every node loads the file and dials
its part of the connections, node 0 publishes, and chunks are relayed over the
links there are. The sleeps of `main` order nothing, so a node may publish while
another has still to start, and its dial then fails.

**Host.tla** is hosts and the connections between them. A connection has two
ends, each alive until its context is done; `Connect` is its dial and what
follows, the accept loop handles one connection at a time, and each registered
connection has the goroutine that waits for its end. `known` counts the calls
of the peer handlers, which may be set any number of times, and each time announce
every peer again; `HandlersInTurns` is what PubSub.tla assumes of its host. The
goroutine that `Connect` starts (host.go:111) ends with the context that `Close`
cancels, so that it never holds `Close` up, and closing the transport is taken to
succeed.
QUIC is external: a closed end is noticed at the other end some time later,
unless that end times out by itself.

MC*.tla give the instances. Definitions whose comment says *Mutant* are
variants a plausible slip would produce; nothing uses them. They exist so that
each property can be shown to fail when the code does.

## 3. The runs

| run | instance | checks |
|---|---|---|
| SubscriptionNext | 3 readers, one cancellable, 2 messages, 3 puts, 1 pending callback, Close; fair | type; exactly-once FIFO; no message stranded beside a sleeping reader; implements FifoQueue; what is buffered is served while nothing is cancelled or closed; Close wakes whoever sleeps; a cancellation wakes the sleeping reader |
| SubscriptionCancel | one cancellable reader, fair | *violated*: a cancelled `Next` returns |
| PubSubPeers | 2 goroutines, 2 subscriptions, a connection and a reconnection, 1 RPC on each | topic.peers = topicSubscriptions, no stale sender, no missed announcement |
| PubSubClose | 2 goroutines with all methods, 2 subscriptions, deliveries, data RPCs | PubSub.Close leaves no joined topic open; mySubscriptions exact, between first subscriptions and last unsubscriptions and also with subscriptions after Topic.Close |
| PubSubLockCycle | 1 goroutine, 1 RPC | *violated*: no two goroutines wait for each other's mutex |
| FloodSubChurn | 2 routers, time to live 1, 3 instants, losses, peers come and go, Close | type; remembered for the time to live; no second acceptance within it; no hole in the flood |
| FloodSubNet | 4 routers: a cycle with a leaf, any publisher, fair | agreement when quiet; the flood ends; Broadcast with liveness |
| EcConcurrent | line of three, one message published twice, at one node or at two, 2 data + 1 parity chunks, losses, one peer that comes and goes | no reconstruction missed; published once, delivered once; emission order; a publication or a notification for each delivery |
| EcLine | line of three, PublishMultiplier 2, fair | the traffic ends; Broadcast with liveness |
| RlncRelay | line of three, 2 publishers, 2 chunks of 4 elements modulo 3, one chunk in flight | stored chunks independent; full rank gives the message back; a refused chunk is useless; nothing known is lost; help is possible |
| HostPeers | 2 hosts, 3 dials in both directions, one may time out, one host may close; fair | type; map and goroutines agree; handlers alternate; Close returns; dead peers are forgotten |
| ShadowRs | 41 requests for topologies of 2 to 35 nodes, simulated up to 4 nodes; GF(8), 1 to 3 data chunks, any dial may fail; fair generator | generated networks are connected; each connection is dialled once; any sufficient chunks give the message back; a quiet network is complete; generation ends |

Bounds. Two readers and three puts of two messages suffice for a wakeup to go to the
wrong reader and for messages to be reordered; a third reader sleeps
while the others race, and one of them may be cancelled at any point. One peer with two connections is what
a stale goroutine of the old connection needs to disturb the new one; two
goroutines and two Subscription objects give every race between the first
subscription and the last unsubscription. Time to live 1 with instants 0 to 2
includes a sweep exactly at, just before and just after an expiration, and a
message accepted again. A cycle is needed for duplicates and a leaf for a
node with one source. Three chunks of which two suffice let two handlers
complete a message together and a late chunk follow. Two publications on a line
meet in every order: at one node, at two at once, over chunks that have arrived and
been forwarded, and in the middle of a handler. In EcConcurrent one application takes
messages (`Takers`): its invariants are about what is handed out together with what
is buffered, which taking does not change, and whether the other two take is
seen by no other action. Modulo 3 there are zero
pivots, swaps, dependent vectors and inverses other than oneself, and factors
below 4 wrap around the modulus; the middle of the line recombines what it
stores, and publishes itself in between. Two dials of one host and one of the
other give the simultaneous connection, the refused second one, and a
connection after an earlier one of the same peer has ended. In GF(8) both the
reduction and Euclid's algorithm take several rounds; a byte of four bits and
chunks of three bytes make elements of three bits that become four on the network,
so that both packings round; one, two and three data chunks come with one, one and
two parity chunks, and three nodes let a node decode from any mixture. The
generators run on sizes below, at and above their defaults, with degrees that are
corrected, and with requests that need two and three attempts. `CHECK_DEADLOCK` is off
throughout because applications may stop calling and networks may fall
silent; the deadlock that matters has its own property, NoLockCycle.

Symmetry (`Interchangeable`) is used only in runs of safety properties, over
sets that the specification treats alike.

Fairness. A goroutine that can run is scheduled (weak fairness). A step that
needs a mutex others keep taking gets strong fairness, because `sync.Mutex`
hands the lock to a waiter that has waited for a millisecond. In the
networks, a datagram that is not lost arrives and the topic's goroutine keeps
calling `Next`; the live runs lose nothing, since QUIC datagrams are not
retransmitted and the code does not retry. The topology generator is one goroutine's
loop, and nothing is assumed of the nodes of a simulation: that a quiet network is
complete is a safety property. Nobody is obliged to publish, call,
cancel or close. In Host.tla each step that fairness asks for can be taken
only once for a connection, so one condition for all of them says as much as
one for each.

## 4. Where the code departs from what it says

The two violated runs are departures of the code from its own comments; each
is explained in `findings`. The same modules state further promises that TLC
refutes in the same way and that are not among the runs:

* Subscription: `ClosedNextReturns`, `ConsumerNotified` (a wakeup lost at
  Close, or spent on a reader that is returning an error);
* PubSub: `ClosedTopicIsEmpty` (Subscribe checks the context before it locks),
  `PeersConnected` (an announcement handled before its connection is registered
  leaves a nil sender), `AnnouncementsCurrent` (a hello packet sent after a later
  Unsubscribe), `RemovedPeerForgotten` (an RPC received before the disconnection
  and handled after it puts the peer back), `MapsGuarded` (`handleIncomingRPC`
  reads `joinedTopics` without the mutex) and `TopicCloseReturns` (under
  FairSpec: Close waits for a goroutine asleep in `router.Next`);
* EcRouter: `NoDuplicateDelivery` (Publish appends to `received` without
  looking at `notified`);
* Host: `PeersAgree` (two hosts that dial each other at once each keep the
  connection the other refuses; a connection refused in `Connect` is not
  closed).

* Topology: `GenerationEnds`, for some requests. `GenerateRandomRegular`
  "regenerates" until the graph is connected (generators.go:100-101), but its seed
  enters the picks modulo the number of nodes, and for 34 nodes with the default
  degree, or with any degree from 1 to 8, for 23, 25 or 37 nodes with degree 2 and
  for 6 nodes with degree 1 none of the seeds gives a connected graph, so that it
  never returns. ShadowRs leaves these requests out. The degrees are
  not exact either: 6 nodes of degree 3 get from two to four connections, because
  a pick of a lower node is dropped and nobody counts what others picked;
* Topology: two nodes of a small world get their one connection only if node 0 is
  rewired, and its hash is 7, so they stay apart with a rewiring of 7 % or less
  (`Apart` in Shadow.tla);
* RsCode: with more chunks than the multiplicative group has elements (255 in
  GF(2^8)) evaluation points repeat, and `InvertMatrix` panics or some chunks
  do not decode, although rs.go:646 says of these points that they
  "guarantee[s] the MDS property".

Four preconditions are the caller's to keep: `PaddingAssumption` of Rlnc.tla and
`MaxCoefficientBits # 0`, which `NewRlncEncoder` does not check, the
`EvaluationPointsAssumption` of RsCode.tla, which `NewRsEncoder` does not check, and that nobody calls `Connect` while
`Host.Close` runs, since a connection established just before may be registered
after Close has returned.

## 5. The proofs

SubscriptionProofs.tla proves, for any set of readers and messages and any bounds,
from the three assumptions of Subscription.tla (finitely many readers, `Free` is
none of them, the bounds are natural numbers):

* `TypeCorrect` - `Spec => []TypeOK`. It is inductive together with two facts
  about locking: the mutex has one holder, the reader between Lock and Unlock, and
  the notify list holds exactly the goroutines inside `Wait`, once each. `Wait`
  appends a reader that must not be listed yet, and only the mutex excludes that;
* `DeliveryCorrect` - `accepted = delivered \o receivedMessages`, which needs that a
  reader pops only a non-empty buffer;
* `NothingStranded` - `NoStrandedMessage`, while nothing is cancelled or closed: if
  somebody sleeps, there are no more messages than readers on their way. `put` adds
  one to both sides, since it wakes a sleeper if there is one; a reader that takes a
  message takes one from both; no reader leaves without a message, because an error
  needs a cancellation (`Undisturbed`); and a reader goes to sleep only on an empty
  buffer;
* `ImplementsFifoQueue` - each step maps to a step of FifoQueue or to a stutter,
  with the case distinction over `Next`.

PubSubProofs.tla proves, for any peers, topics, connections, Subscription objects
and goroutines, from `ThreadsAssumption` and `ValuesAssumption`, the five properties
that the two PubSub runs check:

* `SubscriptionsExact` - `MySubscriptionsExact`. `TopicMutexInv` says that the mutex
  of a topic is held exactly by a goroutine between the two halves of Subscribe or
  removeSubscription, and `NothingLeft` that the second half of a removal still
  finds the topic without subscriptions;
* `TopicsKnowTheirPeers` and `SendersNeverStale` - `PeersMatchSubscribers` and
  `SenderNeverStale`. `MutexInv` ties `p.mutex` to the program counters of the
  application, the receive loops and the host's handler; `Matching` and `Fresh` say
  what `handleRemovePeer` has undone so far while it holds the mutex; and
  `SessionInv` that a peer's connection is out of the map before its next one is
  registered, which is what the host's taking turns is for;
* `PeersAreTold` - `SubscriptionsAnnounced`. What a peer between its registration
  and its hello packet has not been told is in the packet (`ToldInv`);
* `CloseLeavesNoTopic` - `CloseClosesTopics`. Once `PubSub.Close` has copied the
  joined topics nobody is inside Join and nobody can enter it, and each topic of the
  copy is closed, being closed, or still on the list (`CloseInv`).

An application's step replaces one frame (`ReplaceFrame`, `CloseFrame`), and
`AppQuiet`, `AppMaps` and `ToldAside` say once which steps concern an invariant at
all, so that only those are looked at.

FloodSubProofs.tla proves, for any nodes, neighbours, messages, time to live, churn,
loss and closing, from `NetworkAssumption` and `TimeAssumption`:

* `TypeCorrect` - `Spec => []TypeOK`; a router takes a datagram off the network only
  if it is there;
* `CacheRemembers` - `RememberedForTTL`. It is inductive with the converse half of
  `CacheInv`: an entry in the cache was made when its message was last taken for new
  and expires TTL after that. A sweep removes what expired before a tick that is not
  in the future, so what `CacheInv` says must be there stays;
* `NoEarlyDuplicate` - `NoDuplicateWithinTTL`, an action property: a message is
  taken for new only when the cache does not have it (`AcceptStep`), and then
  `RememberedForTTL` puts the last time at least TTL back;
* `FloodHasNoHole` - `NoHole`. A copy leaves the network by being handled, and then
  the node has accepted its message now or (by `CacheInv`) before, or by being lost;
* `NeighboursAgree` - `Agreement` when peers neither come nor go, in every topology:
  from `NoHole` and `ForwardedToAll`, that a router copies what it accepts for all
  its neighbours;
* `FloodImplementsBroadcast` - the refinement of Broadcast's safety, when the clock
  does not pass the first time to live (`MaxTime <= TTL`; afterwards a forgotten
  message may be delivered again, as the code's TTL means it). The invariant
  `SeenOnce` says that what an application got, followed by what is buffered for it,
  has no message twice and only accepted ones.

`Duplicate` and `NewMessage` describe the two outcomes of `handleMessages` once, for
`Publish` and `HandleIncomingRPC` alike; the other proofs use them instead of the
actions. FieldMatrixProofs.tla begins with the facts about sequences, folds and
induction that several proof modules need.

HostProofs.tla proves, for any hosts and connections, from `EndsAssumption`:
`TypeCorrect`, `EntriesAreWatched` and `HandlersTakeTurns`. The three are one
inductive invariant together with `WatchersOwn` (a goroutine waits only for a
connection that ends at its host): the entry a goroutine deletes is its own because
no other connection of the peer can have been registered meanwhile (`RegisterKeeps`,
`CleanUpKeeps`), and the count of handler calls follows the map.

EcRouterProofs.tla proves, for any nodes, neighbours, messages, code rate,
`MinEmitCount`, multiplier, churn and loss, from the assumptions of EcRouter.tla and
RsEncoder.tla:

* `TypeCorrect` and `EmissionOrder` - `EmittedInOrder`. `EntryInv` says of one entry
  that only stored chunks stand in its order and have been emitted, and that a chunk
  is emitted only after all before it have reached `MinEmitCount` (`InOrder`);
  generating, adding and emitting keep it, and every action leaves an entry alone or
  replaces it by the result of one of these three. `LeastNumber` (a set of naturals
  has a smallest) is what makes "the first chunk that may be emitted" defined, and
  comes from the well-foundedness of finite subsets;
* `ReconstructionNotMissed` - `NoMissedReconstruction`: a node with enough chunks
  has put the message before its application, or a goroutine is at work that will.
  `Started` is what is common to the two actions in which Publish generates its
  chunks, and `FrameStep` says once what a step may do to chunks, notified messages and
  deliveries, and why; `Promised` follows from it: what is notified is pending, and
  what is reconstructible is pending or has its handler or publisher on the way;
* `EveryDeliveryAccounted` - `DeliveriesAccounted`, for any number of publications. It
  is inductive when the publishers that have generated and not yet queued are counted
  with the deliveries (`Accounted`): each step that delivers takes one of them away or
  adds a notified node;
* `PublishedOnceDeliveredOnce` - `DeliveredOnce`, whatever becomes of other messages.
  `Single` says that an unpublished message has left no trace anywhere and, of a
  message that has been published once so far, that no handler works on it at its
  publisher, that it is notified before it is pending everywhere else, and that what an
  application got, followed by what waits for it, does not have it twice;
* `DeliveredAtMostOnce` and `EcImplementsBroadcast`, the refinement of Broadcast's
  safety, follow when every message is published at most once (`MaxPublishes <= 1`).
  That premise is needed: `Publish` appends to `received` without looking at
  `notified`, so a second publication is a second delivery (`EveryDeliveryAccounted`
  is what is left then).

ShadowProofs.tla proves, from the assumptions of Topology.tla, BinaryField.tla,
RsCode.tla and Shadow.tla and for every request, six theorems about Shadow.tla and the
three about fields, matrices and chunks that the last of them rests on:

* `TopologyCorrect`: whatever calls of `AddConnection` a generator makes, including
  those it rejects, the connections are distinct pairs in order, the adjacency lists
  say the same as the connections, and the file is what was built. Only the
  connections are saved; that both ends of an edge agree on it after loading is what
  lets the nodes divide the dials without a word. The inductive invariant is
  `GeneratorInv`;
* `NetworkConnected` - `GeneratedConnected`, for all six generators. Five of them
  connect every node but the first to a lower one (`Parented`), and a call that is
  still to be made or rejected does not lose that (`GeneratorInv`); random-regular
  saves only what `IsConnected` has passed, and its search leaves no set that
  nothing leads out of (`SearchStaysInside`). The attempt to prove it for every
  rewiring is what found `Apart` to be wider than the case of no rewiring at all;
* `DialsAreTheConnections` - `EachDialledOnce`. What a node has dialled and what it
  has still to dial are, without overlap, the connections of which it is the lower
  end (`DialInv`), which follows for a node that has just loaded the file from
  `TopologyCorrect`;
* `ShadowTypes`, and `QuietNetworkComplete` - `QuietMeansComplete`: node 0 has every
  chunk once it has published (`ChunkInv`), and in a quiet network no link leads out
  of the set of the nodes that have them all, which in a connected network is the
  set of all nodes;
* `BinaryIsField` - what BinaryField.tla computes is a field, for every irreducible
  polynomial of every degree. A product of polynomials has an exponent when an odd
  number of pairs add up to it (`OddPairs`), in whatever order the loop takes them, so
  that the polynomials are a ring; `reduce` leaves the only element congruent to its
  argument (`ReduceUnique`), which carries the laws over to the elements. For `Inv`,
  `EuclidInv` is the invariant of the loop: the cofactors, the common divisors, and the
  degrees, by which Degree + 1 rounds are enough;
* `EncodingMatrixIs` - the MDS property of rs.go:647. Rows of powers of distinct points
  are independent (`VandermondeIndep`, by induction: a combination of n + 1 rows that is
  zero makes one of n rows, with each factor multiplied by the distance to the last
  point); the inverse of the first rows exists (`IndependenceDecided`, `InverseFound`),
  is an inverse on both sides (`RightInverse`), and multiplying by it keeps any choice of
  rows independent (`ProductIndep`);
* `AnyOrderDecodes` - that many different chunks, in any order, give the message. What a
  node reads from the bytes of a vector is the vector and some zeros, if the last byte
  leaves room for more elements (`SplitOfPackPadded`), and this is linear, so that every
  chunk as it is read is its row of the matrix times the data chunks as they are read
  (`ReadChunks`); the data come back out of their elements (`CutOfPack`), and the zeros
  are cut off;
* `ChunksDecode` - `AnyChunksDecode`, with `ContentInv`: after the publication every
  node's chunks are the publisher's, because `Relay` copies one and `Publish`
  makes them all. With `ChunkInv` that is the premise of `AnyOrderDecodes` at every node.

RlncProofs.tla proves the five properties of RlncRelay for any prime, any number of
nodes, publishers and chunks, any sizes and any links, from the assumptions of
PrimeField.tla and Rlnc.tla:

* `GenuineAlways` - the inductive invariant `GenuineInv`: the data of each chunk, in
  a cache or on its way, is the combination of the published chunks that its
  coefficients say, its extra holds the publisher's commitments, and the
  coefficients a node stores have passed `IsLinearlyIndependent` together. None of
  the five properties is inductive without it. TLC checked it on the instance of
  RlncRelay before the proof. `RlncTypes` is part of it;
* `StoredIndependent` - `ChunksIndependent`. What it takes is `IndependenceDecided`:
  the elimination decides independence. Swapping rows and clearing a column keep
  independence both ways, and after each column the rows reduced so far have a unit
  column each and the others are zero in the columns passed (`Eliminated`);
* `KnowledgeIsKept` - `KnowledgeKept`: what is derivable is a subspace; a chunk more
  makes it no smaller, and a publisher's unit vectors make it everything;
* `RefusedOnlyUseless` - `RefusedIsUseless`. `commit` is linear, so `Verify` accepts
  every genuine chunk (`GenuineVerifies`) and a refusal means dependence; the factor
  of the refused chunk in the dependence is not zero, since the stored ones are
  independent, and dividing by it derives the chunk;
* `HelpIsPossible` - `HelpPossible`, if `MaxCoefficientBits # 0`. Of the chunks of a
  node that knows more, one is new to the other, and the factors may come out as one
  for it and zero for the rest. NewRlncEncoder does not check that premise: with 0
  every random factor is zero and nobody can help anybody. The default is 16;
* `ReconstructionIsExact` - `ReconstructionExact`. `InvertMatrix` does to the left
  half of its rows what the elimination does to the matrix (`InvertStep`), so that
  independent rows always give a pivot (`RankGrows`); each row's left half stays the
  combination of the given rows by its right half (`MadeFrom`), so that in the end
  the right half is the inverse. The message's bits survive both packings
  (`SplitOfPack`, `PackOfSplit`), which is where `PaddingAssumption` enters.

FieldMatrixProofs.tla has what both encoders need: the elimination, the inversion, the
packing and the rest as lemmas about any field, with the laws of a field (`FieldLaws`)
and of the bits of its elements (`PackingLaws`) as hypotheses, of which RlncProofs
discharges the first for the prime fields (`PrimeIsField`) and ShadowProofs for the
binary ones. Both fields have their instance and so a state where the lemmas apply.
That P is prime is used once, to show that every element but zero has an inverse;
the linear algebra uses only the laws of a field. Those are derived from the division of
integers, of which the provers know little once products are not linear (`ModUnique`
to `MulIsMonoid`).

Induction. The library's induction theorems take an operator as a parameter, which
the installed provers do not instantiate. FieldMatrixProofs.tla has instead
`SetInduction` and `BoundedInduction`, over the set of the numbers for which a claim
holds; that comes from the well-foundedness of the order of the naturals, which
needs no such parameter. A fold is reasoned about through its history: `FoldHistory`
gives the sequence of its intermediate states, `BoundedRecursion` that of a
recursive function, and `FlattenSteps` that of a flattened sequence, so that an
invariant of a loop is stated and proved as one of a state machine is.

Only model-checked:

* every liveness property, because the prover does not reach fairness or `ENABLED`.
  Every safety property of a passing run, invariant or action property, has a theorem;
* what the two violated runs and section 4 refute.

`TypeOK` of PubSub.tla documents the variables and holds in every state of its runs;
the runs do not list it again, and PubSubProofs.tla proves the types that its
argument needs (`AppInv`, `MapTypes`). `TypeOK` of Rlnc.tla and `ShadowTypeOK` are
proved and no run's property.

## 6. Not modelled

* Marshalling (pb/), hashing, BLS signatures and the cryptographic group: the group
  is arithmetic modulo a 252-bit prime in a library; Rlnc.tla has the commitments in
  a small group instead. A signature is reduced to who signed.
* `Random` and `RandomMax` of the binary field: only RLNC draws random elements,
  and it runs over a prime field; its model draws every element.
* The rounding of the parity ratio: a fraction in the models, a truncated
  floating-point product in the code (rs.go:273, 505), equal in encoder and decoder.
* Several calls of `Publish` at one EC router at the same time.
* No peer sends a chunk or message that no router or encoder built.
* EcRouter runs on RsEncoder; the RLNC encoder is checked without the router.
* The Shadow drivers of floodsub and rlnc, which differ from that of rs in the
  router and the encoder, both of which have models of their own; drawing and
  statistics of topologies; the scripts that read logs.
* Logging, options, TLS and address parsing, the example programs, generated code.

## 7. Plan

EcRouter over the RLNC encoder's ranks, where a chunk that is stored may still be
useless to a peer; PubSub between two nodes rather than one node and its messages.

Proofs worth adding: that the powers of a primitive element differ as long as there
are no more of them than elements other than zero, which would replace
`EvaluationPointsAssumption` by one about `PrimitiveElement`; and the same for the
RsEncoder's `DataChunks`, as a refinement from chunks to their contents.
