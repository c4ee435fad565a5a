-------------------------------- MODULE PubSub --------------------------------
(***************************************************************************)
(* One node's PubSub and its Topics (src/pubsub/pubsub.go, topic.go) at    *)
(* the granularity of their locks.  The goroutines are the application's   *)
(* callers of Join, Subscribe and the Close methods, the host's peer       *)
(* handlers (serialised by host.mutex) and one receive loop per connection.*)
(* A critical section is one action unless it asks for a second mutex      *)
(* inside; then it holds the first one from one action to the next:        *)
(*   Subscribe and removeSubscription hold topic.mutex and ask for p.mutex *)
(*   (notifyEvent calls handleTopicEvent);                                 *)
(*   handleSubscriptions and handleRemovePeer hold p.mutex and ask for     *)
(*   topic.mutex (addPeer, hasPeer, removePeer).                           *)
(* Remote peers and the network are the environment.                       *)
(***************************************************************************)
EXTENDS Naturals, Sequences, FiniteSets

CONSTANTS
  Peers, Topics, Subs,  \* remote peers, topic names, Subscription objects
  Conns,                \* connections, each used once
  PeerOf,               \* the remote peer of a connection
  Apps,                 \* application goroutines
  Calls,                \* the methods the application calls
  Kinds,                \* the kinds of RPCs that peers send
  Deliveries,           \* whether the router hands messages to the topic
  MaxRPCs,              \* bound: RPCs a peer sends on one connection
  Host,                 \* the goroutine running a peer handler
  Free,                 \* the value of an unlocked mutex
  Nil, Absent           \* a nil connection; a peer that is not in a map

ASSUME ThreadsAssumption ==
  /\ PeerOf \in [Conns -> Peers]
  /\ Apps \cap Conns = {}
  /\ Host \notin Apps \cup Conns
  /\ Free \notin Apps \cup Conns \cup {Host}
ASSUME ValuesAssumption ==
  /\ Nil \notin Conns \cup Topics \cup Subs
  /\ Absent \notin Conns /\ Nil # Absent
  /\ MaxRPCs \in Nat
  /\ Calls \subseteq {"join", "subscribe", "unsubscribe", "closeTopic", "closePubSub"}
  /\ Kinds \subseteq {"subscribe", "unsubscribe", "data"}
  /\ Deliveries \in BOOLEAN

VARIABLES
  pMutex,              \* p.mutex
  tMutex,              \* topic.mutex
  ctxDone,             \* p.ctx is cancelled
  peerConnections,     \* p.peerConnections
  topicSubscriptions,  \* p.topicSubscriptions
  joinedTopics,        \* p.joinedTopics
  mySubscriptions,     \* p.mySubscriptions
  topicDone,           \* topics whose ctx is cancelled
  subscriptions,       \* topic.subscriptions
  peers,               \* topic.peers: the sender of each router callback
  background,          \* topic.background: where it is in router.Next
  wakeup,              \* its AfterFunc callback: off, armed or started
  app, host, rx,       \* where the other goroutines are
  connState,           \* new, up, down (context done), removed
  inbox,               \* RPCs received on a connection and not yet read
  created,             \* the topic of each Subscription object, Nil before
  closed,              \* history: topics whose Close has returned
  sent,                \* history: number of RPCs sent on a connection
  told                 \* history: the last announcement about a topic on it

locks == <<pMutex, tMutex>>
maps == <<peerConnections, topicSubscriptions, joinedTopics, mySubscriptions>>
topics == <<topicDone, subscriptions, peers, background, wakeup>>
network == <<connState, inbox, sent>>
vars == <<locks, ctxDone, maps, topics, app, host, rx, network, created,
          closed, told>>

(* The frame of an application call: its method, how far it is, and what is *)
(* left to do of the Close calls it is nested in.                           *)
Ops == {"none", "join", "subscribe", "unsubscribe", "closeTopic", "closePubSub"}
AppPCs == {"idle", "joining", "subscribing", "announcing", "removing",
           "withdrawing", "locking", "closingSubs", "waiting", "copying",
           "closingTopics", "returned"}
Frame == [op : Ops, pc : AppPCs, topic : Topics \cup {Nil},
          sub : Subs \cup {Nil}, subs : SUBSET Subs, topics : SUBSET Topics]
Idle == [op |-> "none", pc |-> "idle", topic |-> Nil, sub |-> Nil, subs |-> {},
         topics |-> {}]

(* An RPC announces a change about some topics or carries data of one: of   *)
(* the two parts of pb.RPC, the announcements and hello packets of PubSub   *)
(* have only subscriptions, and what topics send (topic.go:165) only data.  *)
RPC == [kind : Kinds, topics : SUBSET Topics \ {{}}]

TypeOK ==
  /\ pMutex \in Apps \cup Conns \cup {Host, Free}
  /\ tMutex \in [Topics -> Apps \cup {Free}]
  /\ ctxDone \in BOOLEAN
  /\ peerConnections \in [Peers -> Conns \cup {Nil}]
  /\ topicSubscriptions \in [Topics -> SUBSET Peers]
  /\ joinedTopics \subseteq Topics /\ mySubscriptions \subseteq Topics
  /\ topicDone \subseteq Topics /\ closed \subseteq topicDone
  /\ created \in [Subs -> Topics \cup {Nil}]
  /\ \A t \in Topics : subscriptions[t] \subseteq {s \in Subs : created[s] = t}
  /\ peers \in [Topics -> [Peers -> Conns \cup {Nil, Absent}]]
  /\ background \in [Topics -> {"none", "calling", "arming", "waiting", "woken",
                                "delivering", "gone"}]
  /\ wakeup \in [Topics -> {"off", "armed", "started"}]
  /\ app \in [Apps -> Frame]
  /\ host \in [pc : {"idle", "registering", "greeting", "sending", "locking", "removing"},
               conn : Conns \cup {Nil}, topics : SUBSET Topics]
  /\ rx \in [Conns -> [pc : {"none", "receiving", "handling", "applying", "reading", "gone"},
                       subscribe : BOOLEAN, todo : SUBSET Topics]]
  /\ connState \in [Conns -> {"new", "up", "down", "removed"}]
  /\ \A c \in Conns : \A i \in DOMAIN inbox[c] : inbox[c][i] \in RPC
  /\ sent \in [Conns -> 0 .. MaxRPCs]
  /\ told \in [Conns -> [Topics -> {"nothing", "subscribed", "unsubscribed"}]]

Init ==
  /\ pMutex = Free
  /\ tMutex = [t \in Topics |-> Free]
  /\ ctxDone = FALSE
  /\ peerConnections = [p \in Peers |-> Nil]
  /\ topicSubscriptions = [t \in Topics |-> {}]
  /\ joinedTopics = {} /\ mySubscriptions = {}
  /\ topicDone = {}
  /\ subscriptions = [t \in Topics |-> {}]
  /\ peers = [t \in Topics |-> [p \in Peers |-> Absent]]
  /\ background = [t \in Topics |-> "none"]
  /\ wakeup = [t \in Topics |-> "off"]
  /\ app = [a \in Apps |-> Idle]
  /\ host = [pc |-> "idle", conn |-> Nil, topics |-> {}]
  /\ rx = [c \in Conns |-> [pc |-> "none", subscribe |-> FALSE, todo |-> {}]]
  /\ connState = [c \in Conns |-> "new"]
  /\ inbox = [c \in Conns |-> <<>>]
  /\ created = [s \in Subs |-> Nil] /\ closed = {}
  /\ sent = [c \in Conns |-> 0]
  /\ told = [c \in Conns |-> [t \in Topics |-> "nothing"]]

-----------------------------------------------------------------------------
(* Shared pieces *)

Begin(a, op, pc, t, s) ==
  /\ op \in Calls
  /\ app[a] = Idle
  /\ app' = [app EXCEPT ![a] = [Idle EXCEPT !.op = op, !.pc = pc, !.topic = t, !.sub = s]]

At(a, pc) == app[a].pc = pc
Goto(a, pc) == app' = [app EXCEPT ![a].pc = pc]
Return(a) == app' = [app EXCEPT ![a] = Idle]

(* sendRPC of an announcement about the topics T to the connections C. *)
Tell(C, T, what) ==
  told' = [c \in Conns |-> [t \in Topics |->
             IF c \in C /\ t \in T THEN what ELSE told[c][t]]]

Registered == {peerConnections[p] : p \in Peers} \ {Nil}

(* Mutant of handleTopicEvent: only an Unsubscribe is sent. *)
handleTopicEventQuiet(t, subscribe) ==
  /\ mySubscriptions' = IF subscribe THEN mySubscriptions \cup {t}
                                     ELSE mySubscriptions \ {t}
  /\ IF subscribe THEN UNCHANGED told ELSE Tell(Registered, {t}, "unsubscribed")

handleTopicEvent(t, subscribe) ==
  /\ mySubscriptions' = IF subscribe THEN mySubscriptions \cup {t}
                                     ELSE mySubscriptions \ {t}
  /\ Tell(Registered, {t}, IF subscribe THEN "subscribed" ELSE "unsubscribed")

(* Broadcast on the router's condition variable: it reaches the background  *)
(* goroutine only inside Wait.                                              *)
Woken(t) == IF background[t] = "waiting" THEN [background EXCEPT ![t] = "woken"]
                                         ELSE background

(* newTopic starts the background goroutine; addPeer and removePeer run      *)
(* under the topic's mutex, and hand the sender to the router.              *)
newTopic(t) == background' = [background EXCEPT ![t] = "calling"]
addPeer(t, p) == peers' = [peers EXCEPT ![t][p] = peerConnections[p]]
removePeer(t, p) == peers' = [peers EXCEPT ![t][p] = Absent]

-----------------------------------------------------------------------------
(* PubSub.Join *)

(* Mutant of JoinLock: p.ctx is not looked at. *)
JoinLockUnchecked(a, t) ==
  /\ Begin(a, "join", "joining", t, Nil)
  /\ pMutex = Free
  /\ t \notin joinedTopics
  /\ pMutex' = a
  /\ UNCHANGED <<tMutex, ctxDone, maps, topics, host, rx, network, created,
                 closed, told>>

JoinLock(a, t) ==
  /\ Begin(a, "join", "joining", t, Nil)
  /\ pMutex = Free
  /\ ~ctxDone
  /\ t \notin joinedTopics
  /\ pMutex' = a
  /\ UNCHANGED <<tMutex, ctxDone, maps, topics, host, rx, network, created,
                 closed, told>>

(* newTopic, the map entry, the listener, and addPeer for every known       *)
(* subscriber.  Nobody else holds the new topic's mutex.                    *)
JoinTopic(a) ==
  LET t == app[a].topic IN
  /\ At(a, "joining")
  /\ joinedTopics' = joinedTopics \cup {t}
  /\ peers' = [peers EXCEPT ![t] = [p \in Peers |->
                 IF p \in topicSubscriptions[t] THEN peerConnections[p] ELSE Absent]]
  /\ newTopic(t)
  /\ pMutex' = Free
  /\ Return(a)
  /\ UNCHANGED <<tMutex, ctxDone, peerConnections, topicSubscriptions,
                 mySubscriptions, topicDone, subscriptions, wakeup, host, rx,
                 network, created, closed, told>>

-----------------------------------------------------------------------------
(* Topic.Subscribe *)

(* The check of the topic's context takes no lock. *)
SubscribeCheck(a, t, s) ==
  /\ Begin(a, "subscribe", "subscribing", t, s)
  /\ t \in joinedTopics \ topicDone
  /\ created[s] = Nil
  /\ created' = [created EXCEPT ![s] = t]
  /\ UNCHANGED <<locks, ctxDone, maps, topics, host, rx, network, closed, told>>

(* Mutant of SubscribeLock: an announcement is made only for an open topic. *)
SubscribeLockOpenOnly(a) ==
  LET t == app[a].topic IN
  /\ At(a, "subscribing")
  /\ tMutex[t] = Free
  /\ IF subscriptions[t] = {} /\ t \notin topicDone
     THEN /\ tMutex' = [tMutex EXCEPT ![t] = a]
          /\ Goto(a, "announcing")
          /\ UNCHANGED subscriptions
     ELSE /\ subscriptions' = [subscriptions EXCEPT ![t] = @ \cup {app[a].sub}]
          /\ Return(a)
          /\ UNCHANGED tMutex
  /\ UNCHANGED <<pMutex, ctxDone, maps, topicDone, peers, background, wakeup,
                 host, rx, network, created, closed, told>>

SubscribeLock(a) ==
  LET t == app[a].topic IN
  /\ At(a, "subscribing")
  /\ tMutex[t] = Free
  /\ IF subscriptions[t] = {}
     THEN /\ tMutex' = [tMutex EXCEPT ![t] = a]
          /\ Goto(a, "announcing")
          /\ UNCHANGED subscriptions
     ELSE /\ subscriptions' = [subscriptions EXCEPT ![t] = @ \cup {app[a].sub}]
          /\ Return(a)
          /\ UNCHANGED tMutex
  /\ UNCHANGED <<pMutex, ctxDone, maps, topicDone, peers, background, wakeup,
                 host, rx, network, created, closed, told>>

SubscribeAnnounce(a) ==
  LET t == app[a].topic IN
  /\ At(a, "announcing")
  /\ pMutex = Free
  /\ handleTopicEvent(t, TRUE)
  /\ subscriptions' = [subscriptions EXCEPT ![t] = @ \cup {app[a].sub}]
  /\ tMutex' = [tMutex EXCEPT ![t] = Free]
  /\ Return(a)
  /\ UNCHANGED <<pMutex, ctxDone, peerConnections, topicSubscriptions,
                 joinedTopics, topicDone, peers, background, wakeup, host, rx,
                 network, created, closed>>

-----------------------------------------------------------------------------
(* Subscription.Close, with removeSubscription.  Once Subscribe has returned *)
(* the object may be closed any number of times.                            *)

Unsubscribe(a, t, s) ==
  /\ Begin(a, "unsubscribe", "removing", t, s)
  /\ created[s] = t
  /\ \A b \in Apps : app[b].op = "subscribe" => app[b].sub # s
  /\ UNCHANGED <<locks, ctxDone, maps, topics, host, rx, network, created,
                 closed, told>>

(* Subscription.Close returns to the application or to Topic.Close. *)
AfterRemove(a) ==
  IF app[a].op = "unsubscribe" THEN Return(a) ELSE Goto(a, "closingSubs")

RemoveLock(a) ==
  LET t == app[a].topic IN
  /\ At(a, "removing")
  /\ tMutex[t] = Free
  /\ subscriptions' = [subscriptions EXCEPT ![t] = @ \ {app[a].sub}]
  /\ IF subscriptions'[t] = {}
     THEN tMutex' = [tMutex EXCEPT ![t] = a] /\ Goto(a, "withdrawing")
     ELSE UNCHANGED tMutex /\ AfterRemove(a)
  /\ UNCHANGED <<pMutex, ctxDone, maps, topicDone, peers, background, wakeup,
                 host, rx, network, created, closed, told>>

RemoveAnnounce(a) ==
  LET t == app[a].topic IN
  /\ At(a, "withdrawing")
  /\ pMutex = Free
  /\ handleTopicEvent(t, FALSE)
  /\ tMutex' = [tMutex EXCEPT ![t] = Free]
  /\ AfterRemove(a)
  /\ UNCHANGED <<pMutex, ctxDone, peerConnections, topicSubscriptions,
                 joinedTopics, topics, host, rx, network, created, closed>>

-----------------------------------------------------------------------------
(* Topic.Close *)

CloseTopic(a, t) ==
  /\ Begin(a, "closeTopic", "locking", t, Nil)
  /\ t \in joinedTopics
  /\ UNCHANGED <<locks, ctxDone, maps, topics, host, rx, network, created,
                 closed, told>>

(* Cancel the topic's context, which starts an armed AfterFunc callback,    *)
(* and copy the subscriptions.                                              *)
CloseTopicLock(a) ==
  LET t == app[a].topic IN
  /\ At(a, "locking")
  /\ tMutex[t] = Free
  /\ topicDone' = topicDone \cup {t}
  /\ wakeup' = [wakeup EXCEPT ![t] = IF @ = "armed" THEN "started" ELSE @]
  /\ app' = [app EXCEPT ![a].pc = "closingSubs", ![a].subs = subscriptions[t]]
  /\ UNCHANGED <<locks, ctxDone, maps, subscriptions, peers, background, host,
                 rx, network, created, closed, told>>

CloseTopicSub(a, s) ==
  /\ At(a, "closingSubs")
  /\ s \in app[a].subs
  /\ app' = [app EXCEPT ![a].pc = "removing", ![a].sub = s, ![a].subs = @ \ {s}]
  /\ UNCHANGED <<locks, ctxDone, maps, topics, host, rx, network, created,
                 closed, told>>

(* router.Close broadcasts after it has cancelled the router's context. *)
CloseTopicRouter(a) ==
  /\ At(a, "closingSubs")
  /\ app[a].subs = {}
  /\ background' = Woken(app[a].topic)
  /\ Goto(a, "waiting")
  /\ UNCHANGED <<locks, ctxDone, maps, topicDone, subscriptions, peers, wakeup,
                 host, rx, network, created, closed, told>>

(* t.wg.Wait *)
CloseTopicWait(a) ==
  LET t == app[a].topic IN
  /\ At(a, "waiting")
  /\ background[t] = "gone"
  /\ closed' = closed \cup {t}
  /\ IF app[a].op = "closeTopic" THEN Return(a) ELSE Goto(a, "closingTopics")
  /\ UNCHANGED <<locks, ctxDone, maps, topics, host, rx, network, created, told>>

-----------------------------------------------------------------------------
(* PubSub.Close *)

ClosePubSub(a) ==
  /\ Begin(a, "closePubSub", "copying", Nil, Nil)
  /\ ctxDone' = TRUE
  /\ UNCHANGED <<locks, maps, topics, host, rx, network, created, closed, told>>

ClosePubSubCopy(a) ==
  /\ At(a, "copying")
  /\ pMutex = Free
  /\ app' = [app EXCEPT ![a].pc = "closingTopics", ![a].topics = joinedTopics]
  /\ UNCHANGED <<locks, ctxDone, maps, topics, host, rx, network, created,
                 closed, told>>

ClosePubSubTopic(a, t) ==
  /\ At(a, "closingTopics")
  /\ t \in app[a].topics
  /\ app' = [app EXCEPT ![a].pc = "locking", ![a].topic = t, ![a].topics = @ \ {t}]
  /\ UNCHANGED <<locks, ctxDone, maps, topics, host, rx, network, created,
                 closed, told>>

(* p.wg.Wait: every receive loop has ended. *)
ClosePubSubWait(a) ==
  /\ At(a, "closingTopics")
  /\ app[a].topics = {}
  /\ \A c \in Conns : rx[c].pc \in {"none", "gone"}
  /\ Goto(a, "returned")
  /\ UNCHANGED <<locks, ctxDone, maps, topics, host, rx, network, created,
                 closed, told>>

-----------------------------------------------------------------------------
(* topic.background: a loop around router.Next(t.ctx), which arms an        *)
(* AfterFunc and then waits (see Subscription.tla), and put.                *)

BackgroundCall(t) ==
  /\ background[t] = "calling"
  /\ background' = [background EXCEPT ![t] = "arming"]
  /\ wakeup' = [wakeup EXCEPT ![t] = IF t \in topicDone THEN "started" ELSE "armed"]
  /\ UNCHANGED <<locks, ctxDone, maps, topicDone, subscriptions, peers, app,
                 host, rx, network, created, closed, told>>

BackgroundWait(t) ==
  /\ background[t] = "arming"
  /\ background' = [background EXCEPT ![t] = "waiting"]
  /\ UNCHANGED <<locks, ctxDone, maps, topicDone, subscriptions, peers, wakeup,
                 app, host, rx, network, created, closed, told>>

RunAfterFunc(t) ==
  /\ wakeup[t] = "started"
  /\ wakeup' = [wakeup EXCEPT ![t] = "off"]
  /\ background' = Woken(t)
  /\ UNCHANGED <<locks, ctxDone, maps, topicDone, subscriptions, peers, app,
                 host, rx, network, created, closed, told>>

BackgroundEnd(t) ==
  /\ background[t] = "woken"
  /\ t \in topicDone
  /\ background' = [background EXCEPT ![t] = "gone"]
  /\ UNCHANGED <<locks, ctxDone, maps, topicDone, subscriptions, peers, wakeup,
                 app, host, rx, network, created, closed, told>>

(* The router has a message.  Next disarms the callback as it returns; when *)
(* it was waiting it looks at the context first, and the message stays in   *)
(* the router if the topic is done.                                         *)
BackgroundReceive(t) ==
  /\ Deliveries
  /\ background[t] \in {"calling", "waiting"}
  /\ background' = [background EXCEPT ![t] =
       IF @ = "waiting" /\ t \in topicDone THEN "woken" ELSE "delivering"]
  /\ wakeup' = [wakeup EXCEPT ![t] = IF @ = "armed" THEN "off" ELSE @]
  /\ UNCHANGED <<locks, ctxDone, maps, topicDone, subscriptions, peers, app,
                 host, rx, network, created, closed, told>>

BackgroundDeliver(t) ==
  /\ background[t] = "delivering"
  /\ tMutex[t] = Free
  /\ background' = [background EXCEPT ![t] = "calling"]
  /\ UNCHANGED <<locks, ctxDone, maps, topicDone, subscriptions, peers, wakeup,
                 app, host, rx, network, created, closed, told>>

-----------------------------------------------------------------------------
(* The host's handlers: one at a time, and a peer's new connection is       *)
(* refused until handleRemovePeer has run for the old one.                  *)

(* handleAddPeer starts the receive loop before it registers the peer. *)
AddPeer(c) ==
  /\ host.pc = "idle"
  /\ connState[c] = "new"
  /\ \A d \in Conns : PeerOf[d] = PeerOf[c] => connState[d] \in {"new", "removed"}
  /\ connState' = [connState EXCEPT ![c] = "up"]
  /\ rx' = [rx EXCEPT ![c].pc = "receiving"]
  /\ host' = [host EXCEPT !.pc = "registering", !.conn = c]
  /\ UNCHANGED <<locks, ctxDone, maps, topics, app, inbox, sent, created,
                 closed, told>>

RegisterPeer ==
  /\ host.pc = "registering"
  /\ pMutex = Free
  /\ peerConnections' = [peerConnections EXCEPT ![PeerOf[host.conn]] = host.conn]
  /\ host' = [host EXCEPT !.pc = "greeting"]
  /\ UNCHANGED <<locks, ctxDone, topicSubscriptions, joinedTopics,
                 mySubscriptions, topics, app, rx, network, created, closed, told>>

(* sendHelloPacket: the subscriptions are copied under the mutex ... *)
HelloSnapshot ==
  /\ host.pc = "greeting"
  /\ pMutex = Free
  /\ host' = [host EXCEPT !.pc = "sending", !.topics = mySubscriptions]
  /\ UNCHANGED <<locks, ctxDone, maps, topics, app, rx, network, created,
                 closed, told>>

(* ... and sent after it is unlocked. *)
HelloSend ==
  /\ host.pc = "sending"
  /\ Tell({host.conn}, host.topics, "subscribed")
  /\ host' = [pc |-> "idle", conn |-> Nil, topics |-> {}]
  /\ UNCHANGED <<locks, ctxDone, maps, topics, app, rx, network, created, closed>>

RemovePeer(c) ==
  /\ host.pc = "idle"
  /\ connState[c] = "down"
  /\ host' = [host EXCEPT !.pc = "locking", !.conn = c]
  /\ UNCHANGED <<locks, ctxDone, maps, topics, app, rx, network, created,
                 closed, told>>

(* Mutant of RemovePeerLock: the connection stays in the map. *)
RemovePeerLockKeep ==
  /\ host.pc = "locking"
  /\ pMutex = Free
  /\ pMutex' = Host
  /\ host' = [host EXCEPT !.pc = "removing", !.topics = joinedTopics]
  /\ UNCHANGED <<tMutex, ctxDone, maps, topics, app, rx, network, created,
                 closed, told>>

RemovePeerLock ==
  /\ host.pc = "locking"
  /\ pMutex = Free
  /\ pMutex' = Host
  /\ peerConnections' = [peerConnections EXCEPT ![PeerOf[host.conn]] = Nil]
  /\ host' = [host EXCEPT !.pc = "removing", !.topics = joinedTopics]
  /\ UNCHANGED <<tMutex, ctxDone, topicSubscriptions, joinedTopics,
                 mySubscriptions, topics, app, rx, network, created, closed, told>>

(* hasPeer and removePeer of one joined topic. *)
RemovePeerFromTopic(t) ==
  /\ host.pc = "removing"
  /\ t \in host.topics
  /\ tMutex[t] = Free
  /\ removePeer(t, PeerOf[host.conn])
  /\ host' = [host EXCEPT !.topics = @ \ {t}]
  /\ UNCHANGED <<locks, ctxDone, maps, topicDone, subscriptions, background,
                 wakeup, app, rx, network, created, closed, told>>

(* Mutant of RemovePeerFinish: the peer stays in topicSubscriptions. *)
RemovePeerFinishKeep ==
  /\ host.pc = "removing"
  /\ host.topics = {}
  /\ pMutex' = Free
  /\ connState' = [connState EXCEPT ![host.conn] = "removed"]
  /\ host' = [host EXCEPT !.pc = "idle", !.conn = Nil]
  /\ UNCHANGED <<tMutex, ctxDone, maps, topics, app, rx, inbox, sent, created,
                 closed, told>>

RemovePeerFinish ==
  /\ host.pc = "removing"
  /\ host.topics = {}
  /\ topicSubscriptions' =
       [t \in Topics |-> topicSubscriptions[t] \ {PeerOf[host.conn]}]
  /\ pMutex' = Free
  /\ connState' = [connState EXCEPT ![host.conn] = "removed"]
  /\ host' = [host EXCEPT !.pc = "idle", !.conn = Nil]
  /\ UNCHANGED <<tMutex, ctxDone, peerConnections, joinedTopics,
                 mySubscriptions, topics, app, rx, inbox, sent, created, closed,
                 told>>

-----------------------------------------------------------------------------
(* The receive loop of a connection *)

Receive(c) ==
  /\ rx[c].pc = "receiving"
  /\ inbox[c] # <<>>
  /\ inbox' = [inbox EXCEPT ![c] = Tail(@)]
  /\ LET rpc == Head(inbox[c]) IN
     rx' = [rx EXCEPT ![c] =
       [pc |-> IF rpc.kind = "data" THEN "reading" ELSE "handling",
        subscribe |-> rpc.kind = "subscribe", todo |-> rpc.topics]]
  /\ UNCHANGED <<locks, ctxDone, maps, topics, app, host, connState, sent,
                 created, closed, told>>

ReceiveError(c) ==
  /\ rx[c].pc = "receiving"
  /\ ctxDone \/ connState[c] \in {"down", "removed"}
  /\ rx' = [rx EXCEPT ![c].pc = "gone"]
  /\ UNCHANGED <<locks, ctxDone, maps, topics, app, host, network, created,
                 closed, told>>

(* handleIncomingRPC of a data RPC: the map is read with no mutex held. *)
ReadJoinedTopics(c) ==
  /\ rx[c].pc = "reading"
  /\ rx' = [rx EXCEPT ![c] = [pc |-> "receiving", subscribe |-> FALSE, todo |-> {}]]
  /\ UNCHANGED <<locks, ctxDone, maps, topics, app, host, network, created,
                 closed, told>>

HandleSubscriptions(c) ==
  /\ rx[c].pc = "handling"
  /\ pMutex = Free
  /\ pMutex' = c
  /\ rx' = [rx EXCEPT ![c].pc = "applying"]
  /\ UNCHANGED <<tMutex, ctxDone, maps, topics, app, host, network, created,
                 closed, told>>

(* One SubOpts: when it changes the map, a joined topic is told, which      *)
(* takes the topic's mutex as well.                                         *)
ApplySubOpts(c, t) ==
  LET p == PeerOf[c]
      subscribe == rx[c].subscribe
      change == subscribe # (p \in topicSubscriptions[t])
  IN
  /\ rx[c].pc = "applying"
  /\ t \in rx[c].todo
  /\ rx' = [rx EXCEPT ![c].todo = @ \ {t}]
  /\ topicSubscriptions' = [topicSubscriptions EXCEPT ![t] =
                              IF subscribe THEN @ \cup {p} ELSE @ \ {p}]
  /\ IF change /\ t \in joinedTopics
     THEN /\ tMutex[t] = Free
          /\ IF subscribe THEN addPeer(t, p) ELSE removePeer(t, p)
     ELSE UNCHANGED peers
  /\ UNCHANGED <<locks, ctxDone, peerConnections, joinedTopics, mySubscriptions,
                 topicDone, subscriptions, background, wakeup, app, host,
                 network, created, closed, told>>

FinishSubscriptions(c) ==
  /\ rx[c].pc = "applying"
  /\ rx[c].todo = {}
  /\ pMutex' = Free
  /\ rx' = [rx EXCEPT ![c] = [pc |-> "receiving", subscribe |-> FALSE, todo |-> {}]]
  /\ UNCHANGED <<tMutex, ctxDone, maps, topics, app, host, network, created,
                 closed, told>>

-----------------------------------------------------------------------------
(* The environment: what peers send, and connections that end. *)

PeerSends(c, rpc) ==
  /\ connState[c] = "up"
  /\ rpc \in RPC
  /\ sent[c] < MaxRPCs
  /\ inbox' = [inbox EXCEPT ![c] = Append(@, rpc)]
  /\ sent' = [sent EXCEPT ![c] = @ + 1]
  /\ UNCHANGED <<locks, ctxDone, maps, topics, app, host, rx, connState,
                 created, closed, told>>

ConnectionEnds(c) ==
  /\ connState[c] = "up"
  /\ connState' = [connState EXCEPT ![c] = "down"]
  /\ UNCHANGED <<locks, ctxDone, maps, topics, app, host, rx, inbox, sent,
                 created, closed, told>>

-----------------------------------------------------------------------------
AppBegins(a) ==
  \/ \E t \in Topics : JoinLock(a, t) \/ CloseTopic(a, t)
  \/ \E t \in Topics, s \in Subs : SubscribeCheck(a, t, s) \/ Unsubscribe(a, t, s)
  \/ ClosePubSub(a)

AppContinues(a) ==
  \/ JoinTopic(a)
  \/ SubscribeLock(a) \/ SubscribeAnnounce(a)
  \/ RemoveLock(a) \/ RemoveAnnounce(a)
  \/ CloseTopicLock(a) \/ CloseTopicRouter(a) \/ CloseTopicWait(a)
  \/ \E s \in Subs : CloseTopicSub(a, s)
  \/ ClosePubSubCopy(a) \/ ClosePubSubWait(a)
  \/ \E t \in Topics : ClosePubSubTopic(a, t)

BackgroundStep(t) ==
  BackgroundCall(t) \/ BackgroundWait(t) \/ BackgroundEnd(t) \/ BackgroundDeliver(t)

HostContinues ==
  \/ RegisterPeer \/ HelloSnapshot \/ HelloSend
  \/ RemovePeerLock \/ RemovePeerFinish
  \/ \E t \in Topics : RemovePeerFromTopic(t)

ReceiveLoop(c) ==
  \/ Receive(c) \/ ReceiveError(c) \/ ReadJoinedTopics(c)
  \/ HandleSubscriptions(c) \/ FinishSubscriptions(c)
  \/ \E t \in Topics : ApplySubOpts(c, t)

Next ==
  \/ \E a \in Apps : AppBegins(a) \/ AppContinues(a)
  \/ \E t \in Topics : BackgroundStep(t) \/ BackgroundReceive(t) \/ RunAfterFunc(t)
  \/ \E c \in Conns : AddPeer(c) \/ RemovePeer(c) \/ ReceiveLoop(c) \/ ConnectionEnds(c)
  \/ \E c \in Conns, rpc \in RPC : PeerSends(c, rpc)
  \/ HostContinues

Spec == Init /\ [][Next]_vars

(* Goroutines that can run are scheduled, and sync.Mutex starves nobody.    *)
(* The application need not call, and the network owes nothing.             *)
Fairness ==
  /\ \A a \in Apps : SF_vars(AppContinues(a))
  /\ \A t \in Topics : SF_vars(BackgroundStep(t)) /\ WF_vars(RunAfterFunc(t))
  /\ \A c \in Conns : SF_vars(ReceiveLoop(c)) /\ WF_vars(RemovePeer(c))
  /\ SF_vars(HostContinues)

FairSpec == Spec /\ Fairness

-----------------------------------------------------------------------------
(* What the code promises *)

(* Between critical sections a joined topic knows exactly the peers that    *)
(* PubSub records as its subscribers, however joins, announcements and      *)
(* disconnections interleave.                                               *)
PeersMatchSubscribers ==
  pMutex = Free =>
    \A t \in joinedTopics :
      {p \in Peers : peers[t][p] # Absent} = topicSubscriptions[t]

(* A topic never holds on to the connection of a former session: the sender *)
(* given to the router is the registered connection, or nil.                *)
SenderNeverStale ==
  pMutex = Free =>
    \A t \in Topics, p \in Peers : peers[t][p] \in {Absent, Nil, peerConnections[p]}

(* No subscription of ours is missed by a registered peer: it is in the     *)
(* hello packet or announced after it.                                      *)
Greeted(c) ==
  c \in Registered /\ ~(host.conn = c /\ host.pc \in {"greeting", "sending"})
SubscriptionsAnnounced ==
  \A c \in Conns : Greeted(c) =>
    \A t \in mySubscriptions : told[c][t] = "subscribed"

(* PubSub's record of our subscriptions agrees with the topic's own, also   *)
(* when a subscription is added to a topic that Close has emptied.          *)
MySubscriptionsExact ==
  \A t \in Topics : tMutex[t] = Free =>
    (t \in mySubscriptions <=> subscriptions[t] # {})

(* When PubSub.Close returns every topic that was ever joined is closed: a  *)
(* Join that races with it is either seen by its copy or refused.           *)
CloseClosesTopics ==
  (\E a \in Apps : app[a].pc = "returned") => joinedTopics \subseteq closed

-----------------------------------------------------------------------------
(* What the repository says and the code does not do *)

(* No two goroutines hold one mutex each and wait for the other's.          *)
NoLockCycle ==
  ~ \E a \in Apps, t \in Topics :
      /\ tMutex[t] = a
      /\ app[a].pc \in {"announcing", "withdrawing"}
      /\ \/ pMutex = Host /\ t \in host.topics
         \/ \E c \in Conns :
              /\ pMutex = c /\ rx[c].todo = {t}
              /\ rx[c].subscribe # (PeerOf[c] \in topicSubscriptions[t])
              /\ t \in joinedTopics

(* A topic that has been closed has no subscription left open. *)
ClosedTopicIsEmpty == \A t \in closed : subscriptions[t] = {}

(* A topic's peers are connected peers that can be sent to. *)
PeersConnected ==
  \A t \in joinedTopics, p \in Peers : peers[t][p] # Nil

(* A peer that was removed is in none of the data structures until it       *)
(* connects again.                                                          *)
RemovedPeerForgotten ==
  \A p \in Peers :
    (/\ \E c \in Conns : PeerOf[c] = p /\ connState[c] = "removed"
     /\ \A c \in Conns : PeerOf[c] = p => connState[c] \in {"new", "removed"})
      => \A t \in Topics : p \notin topicSubscriptions[t]

(* What a greeted peer was last told about a topic is true. *)
AnnouncementsCurrent ==
  pMutex = Free =>
    \A c \in Conns : Greeted(c) =>
      \A t \in Topics : told[c][t] = "subscribed" => t \in mySubscriptions

(* The maps of PubSub are read and written with p.mutex held. *)
MapsGuarded ==
  ~ \E a \in Apps, c \in Conns : At(a, "joining") /\ rx[c].pc = "reading"

(* Topic.Close returns. *)
TopicCloseReturns ==
  \A a \in Apps : (app[a].op = "closeTopic") ~> (app[a].op # "closeTopic")
=============================================================================
