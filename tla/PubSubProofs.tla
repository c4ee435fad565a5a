------------------------------ MODULE PubSubProofs ------------------------------
(***************************************************************************)
(* PubSub and its topics agree with each other and with what peers were    *)
(* told, for any peers, topics, connections and goroutines.  The argument  *)
(* is about the two kinds of mutexes: who holds one is where its program   *)
(* counter says, and what the holder has left half done is what keeps the  *)
(* agreement from holding at that moment.                                  *)
(***************************************************************************)
EXTENDS PubSub, TLAPS

-----------------------------------------------------------------------------
(* The frames of the application's calls *)

(* A goroutine inside a method of a topic has that topic, and one that      *)
(* subscribes has its new Subscription.                                     *)
OfTopic == {"joining", "subscribing", "announcing", "removing", "withdrawing",
            "locking", "closingSubs", "waiting"}

FrameOK(f) ==
  /\ f \in Frame
  /\ f.pc \in OfTopic => f.topic \in Topics
  /\ f.pc \in {"subscribing", "announcing"} => f.sub \in Subs

AppInv ==
  /\ app \in [Apps -> Frame]
  /\ \A a \in Apps : FrameOK(app[a])
  /\ joinedTopics \subseteq Topics
  /\ subscriptions \in [Topics -> SUBSET Subs]

LEMMA AppInit == Init => AppInv
BY DEF Init, AppInv, FrameOK, Frame, Idle, Ops, AppPCs, OfTopic

(* A step of a goroutine replaces its own frame. *)
LEMMA ReplaceFrame ==
  ASSUME AppInv, NEW a \in Apps, NEW f, FrameOK(f), app' = [app EXCEPT ![a] = f],
         joinedTopics' \subseteq Topics, subscriptions' \in [Topics -> SUBSET Subs]
  PROVE  AppInv'
BY DEF AppInv, FrameOK

LEMMA AppBeginsFrame ==
  ASSUME AppInv, NEW a \in Apps, AppBegins(a)
  PROVE  AppInv'
<1> USE DEF FrameOK, Frame, Idle, Ops, AppPCs, OfTopic
<1>1. ASSUME NEW op \in Ops, NEW pc \in AppPCs \ {"subscribing", "announcing"},
             NEW t \in Topics \cup {Nil}, NEW s \in Subs \cup {Nil},
             pc \in OfTopic => t \in Topics, Begin(a, op, pc, t, s),
             UNCHANGED <<joinedTopics, subscriptions>>
      PROVE  AppInv'
  <2>1. FrameOK([Idle EXCEPT !.op = op, !.pc = pc, !.topic = t, !.sub = s])
    BY <1>1
  <2> QED BY <1>1, <2>1, ReplaceFrame DEF Begin, AppInv
<1>2. ASSUME NEW t \in Topics, JoinLock(a, t) PROVE AppInv'
  BY <1>1, <1>2 DEF JoinLock, maps, topics
<1>3. ASSUME NEW t \in Topics, CloseTopic(a, t) PROVE AppInv'
  BY <1>1, <1>3 DEF CloseTopic, maps, topics
<1>5. ASSUME NEW t \in Topics, NEW s \in Subs, Unsubscribe(a, t, s) PROVE AppInv'
  BY <1>1, <1>5 DEF Unsubscribe, maps, topics
<1>6. CASE ClosePubSub(a)
  BY <1>1, <1>6 DEF ClosePubSub, maps, topics
<1>4. ASSUME NEW t \in Topics, NEW s \in Subs, SubscribeCheck(a, t, s) PROVE AppInv'
  <2>1. FrameOK([Idle EXCEPT !.op = "subscribe", !.pc = "subscribing", !.topic = t, !.sub = s])
    OBVIOUS
  <2> QED BY <1>4, <2>1, ReplaceFrame DEF SubscribeCheck, Begin, AppInv, maps, topics
<1> QED BY <1>2, <1>3, <1>4, <1>5, <1>6 DEF AppBegins

(* Goto and Return, and the steps that fill the list of what is left to do. *)
LEMMA GotoFrame ==
  ASSUME AppInv, NEW a \in Apps,
         NEW pc \in AppPCs, pc \in OfTopic => app[a].topic \in Topics,
         pc \in {"subscribing", "announcing"} => app[a].sub \in Subs, Goto(a, pc),
         joinedTopics' \subseteq Topics, subscriptions' \in [Topics -> SUBSET Subs]
  PROVE  AppInv'
<1> DEFINE f == [app[a] EXCEPT !.pc = pc]
<1>1. app[a] \in Frame
  BY DEF AppInv
<1>2. f \in Frame /\ f.pc = pc /\ f.topic = app[a].topic /\ f.sub = app[a].sub
  BY <1>1 DEF Frame
<1>3. FrameOK(f)
  BY <1>2 DEF FrameOK
<1>4. app' = [app EXCEPT ![a] = f]
  BY DEF Goto
<1> QED BY <1>3, <1>4, ReplaceFrame

LEMMA ReturnFrame ==
  ASSUME AppInv, NEW a \in Apps, Return(a),
         joinedTopics' \subseteq Topics, subscriptions' \in [Topics -> SUBSET Subs]
  PROVE  AppInv'
<1>1. FrameOK(Idle)
  BY DEF FrameOK, Idle, Frame, Ops, AppPCs, OfTopic
<1> QED BY <1>1, ReplaceFrame DEF Return

LEMMA AppContinuesFrame ==
  ASSUME AppInv, NEW a \in Apps, AppContinues(a)
  PROVE  AppInv'
<1> DEFINE t == app[a].topic
<1>1. /\ app[a] \in Frame /\ FrameOK(app[a])
      /\ joinedTopics \subseteq Topics /\ subscriptions \in [Topics -> SUBSET Subs]
  BY DEF AppInv
<1>2. app[a].pc \in OfTopic => t \in Topics
  BY <1>1 DEF FrameOK
<1>3. CASE JoinTopic(a)
  <2>1. joinedTopics' \subseteq Topics /\ UNCHANGED subscriptions /\ Return(a)
    BY <1>1, <1>2, <1>3 DEF JoinTopic, At, OfTopic
  <2> QED BY <1>1, <2>1, ReturnFrame
<1>4. CASE SubscribeLock(a)
  <2>1. app[a].pc = "subscribing" /\ t \in Topics /\ app[a].sub \in Subs
    BY <1>1, <1>2, <1>4 DEF SubscribeLock, At, OfTopic, FrameOK
  <2>2. /\ joinedTopics' = joinedTopics /\ subscriptions' \in [Topics -> SUBSET Subs]
        /\ Goto(a, "announcing") \/ Return(a)
    BY <1>1, <1>4, <2>1 DEF SubscribeLock, maps
  <2> QED BY <1>1, <2>1, <2>2, GotoFrame, ReturnFrame DEF AppPCs
<1>5. CASE SubscribeAnnounce(a)
  <2>1. app[a].pc = "announcing" /\ t \in Topics /\ app[a].sub \in Subs
    BY <1>1, <1>2, <1>5 DEF SubscribeAnnounce, At, OfTopic, FrameOK
  <2>2. /\ joinedTopics' = joinedTopics /\ subscriptions' \in [Topics -> SUBSET Subs]
        /\ Return(a)
    BY <1>1, <1>5, <2>1 DEF SubscribeAnnounce
  <2> QED BY <1>1, <2>2, ReturnFrame
<1>6. CASE RemoveLock(a) \/ RemoveAnnounce(a)
  <2>1. t \in Topics
    BY <1>2, <1>6 DEF RemoveLock, RemoveAnnounce, At, OfTopic
  <2>2. /\ joinedTopics' = joinedTopics /\ subscriptions' \in [Topics -> SUBSET Subs]
        /\ \/ Goto(a, "withdrawing") \/ Goto(a, "closingSubs") \/ Return(a)
    BY <1>1, <1>6, <2>1 DEF RemoveLock, RemoveAnnounce, AfterRemove, maps, topics
  <2> QED BY <1>1, <2>1, <2>2, GotoFrame, ReturnFrame DEF AppPCs
<1>7. CASE CloseTopicRouter(a) \/ CloseTopicWait(a) \/ ClosePubSubWait(a)
  <2>1. /\ UNCHANGED <<joinedTopics, subscriptions>>
        /\ \/ app[a].pc \in OfTopic /\ Goto(a, "waiting")
           \/ Goto(a, "closingTopics") \/ Goto(a, "returned") \/ Return(a)
    BY <1>7 DEF CloseTopicRouter, CloseTopicWait, ClosePubSubWait, At, OfTopic, maps, topics
  <2> QED BY <1>1, <1>2, <2>1, GotoFrame, ReturnFrame DEF AppPCs, OfTopic
<1>8. ASSUME NEW f, app' = [app EXCEPT ![a] = f], f \in Frame,
             f.pc \in OfTopic => f.topic \in Topics, f.pc \notin {"subscribing", "announcing"},
             UNCHANGED <<joinedTopics, subscriptions>>
      PROVE  AppInv'
  BY <1>1, <1>8, ReplaceFrame DEF FrameOK
<1>9. CASE CloseTopicLock(a)
  <2>1. t \in Topics
    BY <1>2, <1>9 DEF CloseTopicLock, At, OfTopic
  <2> DEFINE f == [app[a] EXCEPT !.pc = "closingSubs", !.subs = subscriptions[t]]
  <2>2. app' = [app EXCEPT ![a] = f] /\ UNCHANGED <<joinedTopics, subscriptions>>
    BY <1>9 DEF CloseTopicLock, maps
  <2>3. f \in Frame /\ f.topic \in Topics /\ f.pc = "closingSubs"
    BY <1>1, <2>1 DEF Frame, AppPCs
  <2> QED BY <1>8, <2>2, <2>3
<1>10. ASSUME NEW s \in Subs, CloseTopicSub(a, s) PROVE AppInv'
  <2> DEFINE f == [app[a] EXCEPT !.pc = "removing", !.sub = s, !.subs = @ \ {s}]
  <2>1. t \in Topics
    BY <1>2, <1>10 DEF CloseTopicSub, At, OfTopic
  <2>2. app' = [app EXCEPT ![a] = f] /\ UNCHANGED <<joinedTopics, subscriptions>>
    BY <1>10 DEF CloseTopicSub, maps, topics
  <2>3. f \in Frame /\ f.topic \in Topics /\ f.pc = "removing"
    BY <1>1, <2>1 DEF Frame, AppPCs
  <2> QED BY <1>8, <2>2, <2>3
<1>11. CASE ClosePubSubCopy(a)
  <2> DEFINE f == [app[a] EXCEPT !.pc = "closingTopics", !.topics = joinedTopics]
  <2>1. app' = [app EXCEPT ![a] = f] /\ UNCHANGED <<joinedTopics, subscriptions>>
    BY <1>11 DEF ClosePubSubCopy, maps, topics
  <2>2. f \in Frame /\ f.pc = "closingTopics"
    BY <1>1 DEF Frame, AppPCs
  <2> QED BY <1>8, <2>1, <2>2 DEF OfTopic
<1>12. ASSUME NEW u \in Topics, ClosePubSubTopic(a, u) PROVE AppInv'
  <2> DEFINE f == [app[a] EXCEPT !.pc = "locking", !.topic = u, !.topics = @ \ {u}]
  <2>1. app' = [app EXCEPT ![a] = f] /\ UNCHANGED <<joinedTopics, subscriptions>>
    BY <1>12 DEF ClosePubSubTopic, maps, topics
  <2>2. f \in Frame /\ f.pc = "locking" /\ f.topic = u
    BY <1>1 DEF Frame, AppPCs
  <2> QED BY <1>8, <2>1, <2>2
<1> QED
  BY <1>3, <1>4, <1>5, <1>6, <1>7, <1>9, <1>10, <1>11, <1>12 DEF AppContinues

(* The other goroutines leave the frames alone, and every topic's mutex.    *)
OthersStep ==
  \/ \E t \in Topics : BackgroundStep(t) \/ BackgroundReceive(t) \/ RunAfterFunc(t)
  \/ \E c \in Conns : AddPeer(c) \/ RemovePeer(c) \/ ReceiveLoop(c) \/ ConnectionEnds(c)
  \/ \E c \in Conns, rpc \in RPC : PeerSends(c, rpc)
  \/ HostContinues

LEMMA OthersFrame ==
  OthersStep => UNCHANGED <<app, tMutex, subscriptions, joinedTopics, mySubscriptions,
                            created, closed, topicDone, ctxDone>>
<1> USE DEF locks, maps, topics, network
<1>1. ASSUME NEW t \in Topics, BackgroundStep(t) \/ BackgroundReceive(t) \/ RunAfterFunc(t)
      PROVE  UNCHANGED <<app, tMutex, subscriptions, joinedTopics, mySubscriptions,
                         created, closed, topicDone, ctxDone>>
  BY <1>1
  DEF BackgroundStep, BackgroundCall, BackgroundWait, BackgroundEnd, BackgroundDeliver,
      BackgroundReceive, RunAfterFunc
<1>2. ASSUME NEW c \in Conns, AddPeer(c) \/ RemovePeer(c) \/ ReceiveLoop(c) \/ ConnectionEnds(c)
      PROVE  UNCHANGED <<app, tMutex, subscriptions, joinedTopics, mySubscriptions,
                         created, closed, topicDone, ctxDone>>
  BY <1>2
  DEF AddPeer, RemovePeer, ReceiveLoop, Receive, ReceiveError, ReadJoinedTopics,
      HandleSubscriptions, FinishSubscriptions, ApplySubOpts, ConnectionEnds
<1>3. ASSUME NEW c \in Conns, NEW rpc \in RPC, PeerSends(c, rpc)
      PROVE  UNCHANGED <<app, tMutex, subscriptions, joinedTopics, mySubscriptions,
                         created, closed, topicDone, ctxDone>>
  BY <1>3 DEF PeerSends
<1>4. CASE HostContinues
  BY <1>4
  DEF HostContinues, RegisterPeer, HelloSnapshot, HelloSend, RemovePeerLock, RemovePeerFinish,
      RemovePeerFromTopic
<1> QED BY <1>1, <1>2, <1>3, <1>4 DEF OthersStep

LEMMA AppStep == AppInv /\ [Next]_vars => AppInv'
<1> SUFFICES ASSUME AppInv, [Next]_vars PROVE AppInv'
  OBVIOUS
<1>1. CASE UNCHANGED vars
  BY <1>1 DEF vars, maps, topics, AppInv
<1>2. CASE \E a \in Apps : AppBegins(a) \/ AppContinues(a)
  BY <1>2, AppBeginsFrame, AppContinuesFrame
<1>3. CASE OthersStep
  BY <1>3, OthersFrame DEF AppInv
<1> QED BY <1>1, <1>2, <1>3 DEF Next, OthersStep

-----------------------------------------------------------------------------
(* PubSub's record of our subscriptions *)

(* Where a goroutine holds the mutex of its topic. *)
Holding == {"announcing", "withdrawing"}

TopicMutexInv ==
  /\ tMutex \in [Topics -> Apps \cup {Free}]
  /\ \A t \in Topics : tMutex[t] # Free =>
       app[tMutex[t]].pc \in Holding /\ app[tMutex[t]].topic = t
  /\ \A a \in Apps : app[a].pc \in Holding => tMutex[app[a].topic] = a

(* removeSubscription has found nothing left when it withdraws.             *)
NothingLeft == \A a \in Apps : app[a].pc = "withdrawing" => subscriptions[app[a].topic] = {}

ExactInv == AppInv /\ TopicMutexInv /\ NothingLeft /\ MySubscriptionsExact

(* The steps without a topic's mutex. *)
TopicQuiet ==
  /\ UNCHANGED <<tMutex, subscriptions, mySubscriptions>>
  /\ \A b \in Apps : app'[b] = app[b] \/ {app[b].pc, app'[b].pc} \cap Holding = {}

LEMMA AppQuiet ==
  ASSUME AppInv, NEW a \in Apps, AppBegins(a) \/ AppContinues(a)
  PROVE  \/ TopicQuiet
         \/ SubscribeLock(a) \/ SubscribeAnnounce(a) \/ RemoveLock(a) \/ RemoveAnnounce(a)
<1> USE DEF locks, maps, topics
<1>1. /\ app \in [Apps -> Frame] /\ app[a] \in Frame
  BY DEF AppInv
<1>2. ASSUME NEW op, NEW pc, NEW t, NEW s, Begin(a, op, pc, t, s), pc \notin Holding,
             UNCHANGED <<tMutex, subscriptions, mySubscriptions>>
      PROVE  TopicQuiet
  BY <1>1, <1>2 DEF Begin, TopicQuiet, Idle, Holding
<1>3. ASSUME AppBegins(a) PROVE TopicQuiet
  BY <1>2, <1>3
  DEF AppBegins, JoinLock, CloseTopic, SubscribeCheck, Unsubscribe, ClosePubSub, Holding
<1>4. ASSUME NEW f, app[a].pc \notin Holding, app' = [app EXCEPT ![a] = f], f.pc \notin Holding,
             UNCHANGED <<tMutex, subscriptions, mySubscriptions>>
      PROVE  TopicQuiet
  BY <1>1, <1>4 DEF TopicQuiet
<1>5. ASSUME NEW pc, app[a].pc \notin Holding, Goto(a, pc), pc \notin Holding,
             UNCHANGED <<tMutex, subscriptions, mySubscriptions>>
      PROVE  TopicQuiet
  <2>1. [app[a] EXCEPT !.pc = pc].pc = pc
    BY <1>1 DEF Frame
  <2> QED BY <1>4, <1>5, <2>1 DEF Goto
<1>6. ASSUME app[a].pc \notin Holding, Return(a), UNCHANGED <<tMutex, subscriptions, mySubscriptions>>
      PROVE  TopicQuiet
  BY <1>4, <1>6 DEF Return, Idle, Holding
<1>7. ASSUME JoinTopic(a) \/ CloseTopicRouter(a) \/ CloseTopicWait(a) \/ ClosePubSubWait(a)
      PROVE  TopicQuiet
  BY <1>5, <1>6, <1>7 DEF JoinTopic, CloseTopicRouter, CloseTopicWait, ClosePubSubWait, At, Holding
<1>8. ASSUME NEW s, CloseTopicSub(a, s) PROVE TopicQuiet
  <2>1. app' = [app EXCEPT ![a] = [app[a] EXCEPT !.pc = "removing", !.sub = s, !.subs = @ \ {s}]]
    BY <1>8 DEF CloseTopicSub
  <2>2. [app[a] EXCEPT !.pc = "removing", !.sub = s, !.subs = @ \ {s}].pc = "removing"
    BY <1>1 DEF Frame
  <2> QED BY <1>4, <1>8, <2>1, <2>2 DEF CloseTopicSub, At, Holding
<1>9. ASSUME CloseTopicLock(a) PROVE TopicQuiet
  <2> DEFINE f == [app[a] EXCEPT !.pc = "closingSubs", !.subs = subscriptions[app[a].topic]]
  <2>1. app' = [app EXCEPT ![a] = f] /\ f.pc = "closingSubs"
    BY <1>1, <1>9 DEF CloseTopicLock, Frame
  <2> QED BY <1>4, <1>9, <2>1 DEF CloseTopicLock, At, Holding
<1>10. ASSUME ClosePubSubCopy(a) PROVE TopicQuiet
  <2> DEFINE f == [app[a] EXCEPT !.pc = "closingTopics", !.topics = joinedTopics]
  <2>1. app' = [app EXCEPT ![a] = f] /\ f.pc = "closingTopics"
    BY <1>1, <1>10 DEF ClosePubSubCopy, Frame
  <2> QED BY <1>4, <1>10, <2>1 DEF ClosePubSubCopy, At, Holding
<1>11. ASSUME NEW u, ClosePubSubTopic(a, u) PROVE TopicQuiet
  <2> DEFINE f == [app[a] EXCEPT !.pc = "locking", !.topic = u, !.topics = @ \ {u}]
  <2>1. app' = [app EXCEPT ![a] = f] /\ f.pc = "locking"
    BY <1>1, <1>11 DEF ClosePubSubTopic, Frame
  <2> QED BY <1>4, <1>11, <2>1 DEF ClosePubSubTopic, At, Holding
<1> QED BY <1>3, <1>7, <1>8, <1>9, <1>10, <1>11 DEF AppContinues

LEMMA ExactInit == Init => ExactInv
<1> SUFFICES ASSUME Init PROVE TopicMutexInv /\ NothingLeft /\ MySubscriptionsExact
  BY AppInit DEF ExactInv
<1> QED
  BY DEF Init, TopicMutexInv, NothingLeft, MySubscriptionsExact, Idle, Holding

LEMMA ExactStep == ExactInv /\ [Next]_vars => ExactInv'
<1> SUFFICES ASSUME ExactInv, [Next]_vars
             PROVE  TopicMutexInv' /\ NothingLeft' /\ MySubscriptionsExact'
  BY AppStep DEF ExactInv
<1> USE DEF ExactInv
<1>1. CASE TopicQuiet
  <2>1. TopicMutexInv'
    BY <1>1, ThreadsAssumption DEF TopicQuiet, TopicMutexInv
  <2>2. NothingLeft'
    BY <1>1 DEF TopicQuiet, NothingLeft, Holding
  <2> QED BY <1>1, <2>1, <2>2 DEF TopicQuiet, MySubscriptionsExact
<1>2. /\ app \in [Apps -> Frame] /\ subscriptions \in [Topics -> SUBSET Subs]
      /\ \A a \in Apps : app[a].pc \in OfTopic => app[a].topic \in Topics
  BY DEF AppInv, FrameOK
(* The step of a, which changes no other frame, about topic t. *)
<1>3. ASSUME NEW a \in Apps, NEW t \in Topics, app[a].topic = t,
             \A b \in Apps \ {a} : app'[b] = app[b],
             \A u \in Topics \ {t} :
               /\ tMutex'[u] = tMutex[u] /\ subscriptions'[u] = subscriptions[u]
               /\ u \in mySubscriptions' <=> u \in mySubscriptions,
             tMutex' \in [Topics -> Apps \cup {Free}],
             tMutex[t] \in {a, Free},
             \/ tMutex'[t] = a /\ app'[a].topic = t /\ app'[a].pc = "announcing"
             \/ tMutex'[t] = a /\ app'[a].topic = t /\ app'[a].pc = "withdrawing" /\ subscriptions'[t] = {}
             \/ /\ tMutex'[t] = Free /\ app'[a].pc \notin Holding
                /\ t \in mySubscriptions' <=> subscriptions'[t] # {}
      PROVE  TopicMutexInv' /\ NothingLeft' /\ MySubscriptionsExact'
  <2>1. \A b \in Apps \ {a} : app[b].pc \in Holding => app[b].topic \in Topics \ {t}
    BY <1>2, <1>3, ThreadsAssumption DEF TopicMutexInv, Holding, OfTopic
  <2>2. TopicMutexInv'
    BY <1>3, <2>1, ThreadsAssumption DEF TopicMutexInv, Holding
  <2>3. NothingLeft'
    BY <1>3, <2>1 DEF NothingLeft, Holding
  <2>4. MySubscriptionsExact'
    BY <1>3, ThreadsAssumption DEF MySubscriptionsExact
  <2> QED BY <2>2, <2>3, <2>4
<1>4. ASSUME NEW a \in Apps, SubscribeLock(a) \/ SubscribeAnnounce(a)
      PROVE  TopicMutexInv' /\ NothingLeft' /\ MySubscriptionsExact'
  <2> DEFINE t == app[a].topic
  <2>1. /\ t \in Topics /\ app[a] \in Frame
        /\ \/ SubscribeLock(a) /\ tMutex[t] = Free
           \/ SubscribeAnnounce(a) /\ tMutex[t] = a
    BY <1>2, <1>4 DEF SubscribeLock, SubscribeAnnounce, At, OfTopic, Holding, TopicMutexInv
  <2>2. \/ Goto(a, "announcing") /\ tMutex' = [tMutex EXCEPT ![t] = a]
        \/ /\ Return(a)
           /\ tMutex' = [tMutex EXCEPT ![t] = Free]
           /\ t \in mySubscriptions' <=> subscriptions'[t] # {}
    <3>1. CASE SubscribeLock(a) /\ tMutex[t] = Free /\ subscriptions[t] # {}
      <4>1. tMutex' = [tMutex EXCEPT ![t] = Free] /\ Return(a)
        BY <3>1 DEF SubscribeLock, TopicMutexInv
      <4>2. t \in mySubscriptions' /\ subscriptions'[t] # {}
        BY <1>2, <2>1, <3>1 DEF SubscribeLock, maps, MySubscriptionsExact
      <4> QED BY <4>1, <4>2
    <3>2. CASE SubscribeLock(a) /\ subscriptions[t] = {}
      BY <3>2 DEF SubscribeLock
    <3>3. CASE SubscribeAnnounce(a)
      <4>1. t \in mySubscriptions' /\ subscriptions'[t] # {}
        BY <1>2, <2>1, <3>3 DEF SubscribeAnnounce, handleTopicEvent
      <4> QED BY <3>3, <4>1 DEF SubscribeAnnounce
    <3> QED BY <2>1, <3>1, <3>2, <3>3
  <2>3. \A u \in Topics \ {t} :
          /\ subscriptions'[u] = subscriptions[u]
          /\ u \in mySubscriptions' <=> u \in mySubscriptions
    BY <1>2, <2>1 DEF SubscribeLock, SubscribeAnnounce, handleTopicEvent, maps, topics
  <2>4. /\ \A b \in Apps \ {a} : app'[b] = app[b]
        /\ Goto(a, "announcing") => app'[a].pc = "announcing" /\ app'[a].topic = t
        /\ Return(a) => app'[a].pc = "idle"
    BY <1>2, <2>1, <2>2 DEF Goto, Return, Idle, Frame
  <2>5. tMutex \in [Topics -> Apps \cup {Free}]
    BY DEF TopicMutexInv
  <2> QED BY <1>3, <2>1, <2>2, <2>3, <2>4, <2>5 DEF Holding
<1>5. ASSUME NEW a \in Apps, RemoveLock(a) \/ RemoveAnnounce(a)
      PROVE  TopicMutexInv' /\ NothingLeft' /\ MySubscriptionsExact'
  <2> DEFINE t == app[a].topic
  <2>1. /\ t \in Topics /\ app[a] \in Frame
        /\ \/ RemoveLock(a) /\ tMutex[t] = Free
           \/ RemoveAnnounce(a) /\ tMutex[t] = a /\ subscriptions[t] = {}
    BY <1>2, <1>5
    DEF RemoveLock, RemoveAnnounce, At, OfTopic, Holding, TopicMutexInv, NothingLeft
  <2>2. \/ Goto(a, "withdrawing") /\ tMutex' = [tMutex EXCEPT ![t] = a] /\ subscriptions'[t] = {}
        \/ /\ Goto(a, "closingSubs") \/ Return(a)
           /\ tMutex' = [tMutex EXCEPT ![t] = Free]
           /\ t \in mySubscriptions' <=> subscriptions'[t] # {}
    BY <1>2, <2>1
    DEF RemoveLock, RemoveAnnounce, AfterRemove, handleTopicEvent, maps, topics, TopicMutexInv,
        MySubscriptionsExact
  <2>3. \A u \in Topics \ {t} :
          /\ subscriptions'[u] = subscriptions[u]
          /\ u \in mySubscriptions' <=> u \in mySubscriptions
    BY <1>2, <2>1 DEF RemoveLock, RemoveAnnounce, handleTopicEvent, maps, topics
  <2>4. /\ \A b \in Apps \ {a} : app'[b] = app[b]
        /\ \A pc \in AppPCs : Goto(a, pc) => app'[a].pc = pc /\ app'[a].topic = t
        /\ Return(a) => app'[a].pc = "idle"
    BY <1>2, <2>1, <2>2 DEF Goto, Return, Idle, Frame
  <2>5. tMutex \in [Topics -> Apps \cup {Free}]
    BY DEF TopicMutexInv
  <2> QED BY <1>3, <2>1, <2>2, <2>3, <2>4, <2>5 DEF AppPCs, Holding
<1>6. CASE OthersStep \/ UNCHANGED vars
  BY <1>1, <1>6, OthersFrame DEF TopicQuiet, vars, locks, maps, topics
<1> QED BY <1>1, <1>4, <1>5, <1>6, AppQuiet DEF Next, OthersStep

(* PubSub has a topic among our subscriptions exactly when the topic has a  *)
(* Subscription, whenever nobody is between the two: for any goroutines     *)
(* that subscribe, unsubscribe and close at the same time.                  *)
THEOREM SubscriptionsExact == Spec => []MySubscriptionsExact
<1>1. ExactInv => MySubscriptionsExact
  BY DEF ExactInv
<1> QED BY <1>1, ExactInit, ExactStep, PTL DEF Spec

-----------------------------------------------------------------------------
(* PubSub's peers and those of the topics *)

mapVars == <<pMutex, peerConnections, topicSubscriptions, joinedTopics, peers, host, rx, connState,
            inbox>>

LoopPCs == {"none", "receiving", "handling", "applying", "reading", "gone"}
LoopFrame == [pc : LoopPCs, subscribe : BOOLEAN, todo : SUBSET Topics]

MapTypes ==
  /\ pMutex \in Apps \cup Conns \cup {Host, Free}
  /\ peerConnections \in [Peers -> Conns \cup {Nil}]
  /\ topicSubscriptions \in [Topics -> SUBSET Peers]
  /\ peers \in [Topics -> [Peers -> Conns \cup {Nil, Absent}]]
  /\ host = [pc |-> host.pc, conn |-> host.conn, topics |-> host.topics]
  /\ host.pc # "idle" => host.conn \in Conns
  /\ rx \in [Conns -> LoopFrame]
  /\ inbox \in [Conns -> Seq(RPC)]
  /\ connState \in [Conns -> {"new", "up", "down", "removed"}]

(* Who holds p.mutex from one step to the next. *)
MutexInv ==
  /\ pMutex = Host <=> host.pc = "removing"
  /\ \A c \in Conns : pMutex = c <=> rx[c].pc = "applying"
  /\ \A a \in Apps : pMutex = a <=> app[a].pc = "joining"

(* A peer has one session at a time: its connection is in the map from its  *)
(* registration until its removal begins.                                   *)
SessionInv ==
  /\ \A c \in Conns : connState[c] = "new" => rx[c].pc = "none"
  /\ \A p \in Peers : peerConnections[p] # Nil =>
       PeerOf[peerConnections[p]] = p /\ connState[peerConnections[p]] \in {"up", "down"}
  /\ host.pc \in {"registering", "removing"} => peerConnections[PeerOf[host.conn]] = Nil
  /\ host.pc = "registering" => connState[host.conn] \in {"up", "down"}

(* handleRemovePeer has taken the peer p out of topic t but not yet out of  *)
(* topicSubscriptions, or has still to take it out.                         *)
Removed(t, p) == host.pc = "removing" /\ t \notin host.topics /\ p = PeerOf[host.conn]
Leaving(t, p) == host.pc = "removing" /\ t \in host.topics /\ p = PeerOf[host.conn]

Matching ==
  /\ \A t \in joinedTopics, p \in Peers :
       peers[t][p] # Absent <=> p \in topicSubscriptions[t] /\ ~Removed(t, p)
  /\ \A t \in Topics \ joinedTopics, p \in Peers : peers[t][p] = Absent

Fresh ==
  \A t \in Topics, p \in Peers :
    peers[t][p] \in {Absent, Nil, peerConnections[p]} \/ Leaving(t, p)

MapInv == MapTypes /\ MutexInv /\ SessionInv /\ Matching /\ Fresh

LEMMA MapInit == Init => MapInv
<1> SUFFICES ASSUME Init PROVE MapInv
  OBVIOUS
<1> USE ThreadsAssumption, ValuesAssumption DEF Init
<1>1. MapTypes
  BY DEF MapTypes, LoopFrame, LoopPCs
<1>2. MutexInv
  BY DEF MutexInv, Idle
<1>3. SessionInv
  BY DEF SessionInv
<1>4. Matching /\ Fresh
  BY DEF Matching, Fresh
<1> QED BY <1>1, <1>2, <1>3, <1>4 DEF MapInv

(* Among the application's steps those of Join alone are about the maps.    *)
LEMMA AppMaps ==
  ASSUME AppInv, NEW a \in Apps, AppBegins(a) \/ AppContinues(a)
  PROVE  \/ /\ UNCHANGED mapVars
            /\ \A b \in Apps : app'[b].pc = "joining" <=> app[b].pc = "joining"
         \/ \E t \in Topics : JoinLock(a, t)
         \/ JoinTopic(a)
<1> DEFINE Aside == /\ UNCHANGED mapVars
                    /\ \A b \in Apps : app'[b].pc = "joining" <=> app[b].pc = "joining"
<1> USE DEF locks, maps, topics, network, mapVars
<1>1. /\ app \in [Apps -> Frame] /\ app[a] \in Frame
  BY DEF AppInv
<1>2. ASSUME NEW f, app[a].pc # "joining", app' = [app EXCEPT ![a] = f], f.pc # "joining",
             UNCHANGED mapVars
      PROVE  Aside
  BY <1>1, <1>2
<1> HIDE DEF Aside
<1>3. ASSUME NEW op, NEW pc, NEW t, NEW s, Begin(a, op, pc, t, s), pc # "joining",
             UNCHANGED mapVars
      PROVE  Aside
  <2>1. app' = [app EXCEPT ![a] = [Idle EXCEPT !.op = op, !.pc = pc, !.topic = t, !.sub = s]]
    BY <1>3 DEF Begin
  <2>2. /\ app[a].pc # "joining"
        /\ [Idle EXCEPT !.op = op, !.pc = pc, !.topic = t, !.sub = s].pc # "joining"
    BY <1>3 DEF Begin, Idle
  <2> QED BY <1>2, <1>3, <2>1, <2>2
<1>4. AppBegins(a) => Aside \/ \E t \in Topics : JoinLock(a, t)
  <2>1. ASSUME NEW t \in Topics, CloseTopic(a, t) PROVE Aside
    BY <1>3, <2>1 DEF CloseTopic
  <2>2. ASSUME NEW t \in Topics, NEW s \in Subs, SubscribeCheck(a, t, s) PROVE Aside
    BY <1>3, <2>2 DEF SubscribeCheck
  <2>3. ASSUME NEW t \in Topics, NEW s \in Subs, Unsubscribe(a, t, s) PROVE Aside
    BY <1>3, <2>3 DEF Unsubscribe
  <2>4. ASSUME ClosePubSub(a) PROVE Aside
    BY <1>3, <2>4 DEF ClosePubSub
  <2> QED BY <2>1, <2>2, <2>3, <2>4 DEF AppBegins
<1>5. ASSUME NEW pc, app[a].pc # "joining", Goto(a, pc), pc # "joining", UNCHANGED mapVars
      PROVE  Aside
  <2>1. [app[a] EXCEPT !.pc = pc].pc = pc
    BY <1>1 DEF Frame
  <2> QED BY <1>2, <1>5, <2>1 DEF Goto
<1>6. ASSUME app[a].pc # "joining", Return(a), UNCHANGED mapVars PROVE Aside
  <2>1. Idle.pc # "joining"
    BY DEF Idle
  <2> QED BY <1>2, <1>6, <2>1 DEF Return
<1>7. ASSUME SubscribeLock(a) \/ SubscribeAnnounce(a) \/ RemoveLock(a) \/ RemoveAnnounce(a)
      PROVE  Aside
  BY <1>5, <1>6, <1>7
  DEF SubscribeLock, SubscribeAnnounce, RemoveLock, RemoveAnnounce, AfterRemove, At
<1>8. ASSUME CloseTopicRouter(a) \/ CloseTopicWait(a) \/ ClosePubSubWait(a) PROVE Aside
  BY <1>5, <1>6, <1>8 DEF CloseTopicRouter, CloseTopicWait, ClosePubSubWait, At
<1>9. ASSUME NEW s, CloseTopicSub(a, s) PROVE Aside
  <2> DEFINE f == [app[a] EXCEPT !.pc = "removing", !.sub = s, !.subs = @ \ {s}]
  <2>1. app' = [app EXCEPT ![a] = f] /\ f.pc = "removing"
    BY <1>1, <1>9 DEF CloseTopicSub, Frame
  <2> QED BY <1>2, <1>9, <2>1 DEF CloseTopicSub, At
<1>10. ASSUME CloseTopicLock(a) PROVE Aside
  <2> DEFINE f == [app[a] EXCEPT !.pc = "closingSubs", !.subs = subscriptions[app[a].topic]]
  <2>1. app' = [app EXCEPT ![a] = f] /\ f.pc = "closingSubs"
    BY <1>1, <1>10 DEF CloseTopicLock, Frame
  <2> QED BY <1>2, <1>10, <2>1 DEF CloseTopicLock, At
<1>11. ASSUME ClosePubSubCopy(a) PROVE Aside
  <2> DEFINE f == [app[a] EXCEPT !.pc = "closingTopics", !.topics = joinedTopics]
  <2>1. app' = [app EXCEPT ![a] = f] /\ f.pc = "closingTopics"
    BY <1>1, <1>11 DEF ClosePubSubCopy, Frame
  <2> QED BY <1>2, <1>11, <2>1 DEF ClosePubSubCopy, At
<1>12. ASSUME NEW u, ClosePubSubTopic(a, u) PROVE Aside
  <2> DEFINE f == [app[a] EXCEPT !.pc = "locking", !.topic = u, !.topics = @ \ {u}]
  <2>1. app' = [app EXCEPT ![a] = f] /\ f.pc = "locking"
    BY <1>1, <1>12 DEF ClosePubSubTopic, Frame
  <2> QED BY <1>2, <1>12, <2>1 DEF ClosePubSubTopic, At
<1> QED
  BY <1>4, <1>7, <1>8, <1>9, <1>10, <1>11, <1>12 DEF AppContinues, Aside

(* Join takes the mutex in one step; the next gives the new topic the peers *)
(* that subscribe to it, and lets the mutex go.                             *)
LEMMA JoinKeeps ==
  ASSUME AppInv, MapInv, NEW a \in Apps, JoinTopic(a) \/ \E t \in Topics : JoinLock(a, t)
  PROVE  MapInv'
<1> USE DEF locks, maps, topics, network
<1>1. /\ app \in [Apps -> Frame] /\ app[a] \in Frame
      /\ app[a].pc = "joining" => app[a].topic \in Topics
      /\ joinedTopics \subseteq Topics
  BY DEF AppInv, FrameOK, OfTopic
<1>2. MapTypes /\ MutexInv /\ SessionInv /\ Matching /\ Fresh
  BY DEF MapInv
<1>3. /\ UNCHANGED <<peerConnections, topicSubscriptions, host, rx, connState, inbox>>
      /\ pMutex' \in {a, Free}
  BY DEF JoinTopic, JoinLock
<1>4. CASE \E t \in Topics : JoinLock(a, t)
  <2>1. /\ UNCHANGED <<peers, joinedTopics>> /\ pMutex = Free /\ pMutex' = a
        /\ \A b \in Apps \ {a} : app'[b] = app[b]
        /\ app'[a].pc = "joining"
    BY <1>1, <1>4 DEF JoinLock, Begin, Idle
  <2>2. MapTypes'
    BY <1>2, <1>3, <2>1 DEF MapTypes
  <2>3. MutexInv'
    BY <1>2, <1>3, <2>1, ThreadsAssumption DEF MutexInv
  <2>4. SessionInv' /\ Matching' /\ Fresh'
    BY <1>2, <1>3, <2>1 DEF SessionInv, Matching, Fresh, Removed, Leaving
  <2> QED BY <2>2, <2>3, <2>4 DEF MapInv
<1>5. CASE JoinTopic(a)
  <2> DEFINE t == app[a].topic
  <2>1. /\ app[a].pc = "joining" /\ t \in Topics /\ pMutex = a /\ pMutex' = Free
        /\ joinedTopics' = joinedTopics \cup {t}
        /\ peers' = [peers EXCEPT ![t] = [p \in Peers |->
                       IF p \in topicSubscriptions[t] THEN peerConnections[p] ELSE Absent]]
        /\ app' = [app EXCEPT ![a] = Idle]
    BY <1>1, <1>2, <1>5 DEF JoinTopic, At, Return, MutexInv
  <2>2. (\A b \in Apps \ {a} : app'[b] = app[b]) /\ app'[a].pc # "joining"
    BY <1>1, <2>1 DEF Idle
  <2>3. MapTypes'
    BY <1>2, <1>3, <2>1 DEF MapTypes
  <2>4. MutexInv' /\ host.pc # "removing"
    BY <1>2, <1>3, <2>1, <2>2, ThreadsAssumption DEF MutexInv
  <2>5. /\ \A p \in Peers : peers'[t][p] = IF p \in topicSubscriptions[t] THEN peerConnections[p]
                                                                          ELSE Absent
        /\ \A u \in Topics \ {t} : peers'[u] = peers[u]
    BY <1>2, <2>1 DEF MapTypes
  <2>6. SessionInv'
    BY <1>2, <1>3 DEF SessionInv
  <2>7. Matching'
    BY <1>1, <1>2, <1>3, <2>1, <2>4, <2>5, ValuesAssumption DEF Matching, Removed, MapTypes
  <2>8. Fresh'
    BY <1>2, <1>3, <2>4, <2>5 DEF Fresh, Leaving
  <2> QED BY <2>3, <2>4, <2>6, <2>7, <2>8 DEF MapInv
<1> QED BY <1>4, <1>5

(* A receive loop takes the mutex to apply announcements, and lets it go.   *)
LoopStep(c, f) ==
  /\ f \in LoopFrame
  /\ rx[c].pc # "none" /\ rx' = [rx EXCEPT ![c] = f]
  /\ \/ f.pc # "applying" /\ rx[c].pc # "applying" /\ pMutex' = pMutex
     \/ f.pc = "applying" /\ rx[c].pc = "applying" /\ pMutex' = pMutex
     \/ f.pc = "applying" /\ rx[c].pc # "applying" /\ pMutex = Free /\ pMutex' = c
     \/ f.pc # "applying" /\ rx[c].pc = "applying" /\ pMutex' = Free

LEMMA LoopStepKeeps ==
  ASSUME MapTypes, MutexInv, SessionInv, NEW c \in Conns, NEW f, LoopStep(c, f),
         UNCHANGED <<app, peerConnections, host, connState>>
  PROVE  /\ rx' \in [Conns -> LoopFrame]
         /\ pMutex' \in Apps \cup Conns \cup {Host, Free}
         /\ MutexInv' /\ SessionInv'
<1>1. rx'[c] = f /\ \A d \in Conns \ {c} : rx'[d] = rx[d]
  BY DEF MapTypes, LoopStep
<1>2. rx' \in [Conns -> LoopFrame] /\ pMutex' \in Apps \cup Conns \cup {Host, Free}
  BY DEF MapTypes, LoopStep
<1>3. MutexInv'
  BY <1>1, ThreadsAssumption DEF MapTypes, LoopStep, MutexInv
<1>4. SessionInv'
  BY <1>1 DEF LoopStep, SessionInv
<1> QED BY <1>2, <1>3, <1>4

LEMMA ReceiveKeeps ==
  ASSUME AppInv, MapInv, NEW c \in Conns, ReceiveLoop(c)
  PROVE  MapInv'
<1> USE DEF locks, maps, topics, network
<1>1. MapTypes /\ MutexInv /\ SessionInv /\ Matching /\ Fresh
  BY DEF MapInv
<1>2. UNCHANGED <<app, peerConnections, joinedTopics, host, connState>>
  BY DEF ReceiveLoop, Receive, ReceiveError, ReadJoinedTopics, HandleSubscriptions,
         FinishSubscriptions, ApplySubOpts
<1>3. /\ rx[c] \in LoopFrame
      /\ rx[c].pc = "applying" => pMutex = c
      /\ inbox \in [Conns -> Seq(RPC)]
  BY <1>1 DEF MapTypes, MutexInv
<1>4. ASSUME NEW f, LoopStep(c, f), UNCHANGED <<topicSubscriptions, peers, inbox>>
      PROVE  MapInv'
  <2>1. rx' \in [Conns -> LoopFrame] /\ pMutex' \in Apps \cup Conns \cup {Host, Free}
        /\ MutexInv' /\ SessionInv'
    BY <1>1, <1>2, <1>4, LoopStepKeeps
  <2>2. MapTypes'
    BY <1>1, <1>2, <1>4, <2>1 DEF MapTypes
  <2>3. Matching' /\ Fresh'
    BY <1>1, <1>2, <1>4 DEF Matching, Fresh, Removed, Leaving
  <2> QED BY <2>1, <2>2, <2>3 DEF MapInv
<1>5. CASE Receive(c)
  <2> DEFINE rpc == Head(inbox[c])
             f == [pc |-> IF rpc.kind = "data" THEN "reading" ELSE "handling",
                   subscribe |-> rpc.kind = "subscribe", todo |-> rpc.topics]
  <2>1. rpc \in RPC /\ inbox' \in [Conns -> Seq(RPC)]
    BY <1>3, <1>5 DEF Receive
  <2>2. f \in LoopFrame
    BY <2>1 DEF LoopFrame, LoopPCs, RPC
  <2>3. LoopStep(c, f)
    BY <1>5, <2>2 DEF Receive, LoopStep
  <2>4. rx' \in [Conns -> LoopFrame] /\ pMutex' \in Apps \cup Conns \cup {Host, Free}
        /\ MutexInv' /\ SessionInv'
    BY <1>1, <1>2, <2>3, LoopStepKeeps
  <2>5. MapTypes'
    BY <1>1, <1>2, <1>5, <2>1, <2>4 DEF MapTypes, Receive
  <2>6. Matching' /\ Fresh'
    BY <1>1, <1>2, <1>5 DEF Matching, Fresh, Removed, Leaving, Receive
  <2> QED BY <2>4, <2>5, <2>6 DEF MapInv
<1>6. ASSUME NEW pc \in LoopPCs, rx' = [rx EXCEPT ![c].pc = pc], rx[c].pc \notin {"none", "applying"},
             \/ pc # "applying" /\ pMutex' = pMutex
             \/ pc = "applying" /\ pMutex = Free /\ pMutex' = c
      PROVE  LoopStep(c, [rx[c] EXCEPT !.pc = pc])
  <2> DEFINE f == [rx[c] EXCEPT !.pc = pc]
  <2>1. f \in LoopFrame /\ f.pc = pc
    BY <1>3 DEF LoopFrame
  <2>2. rx' = [rx EXCEPT ![c] = f]
    BY <1>6
  <2> HIDE DEF f
  <2>3. LoopStep(c, f)
    BY <1>6, <2>1, <2>2 DEF LoopStep
  <2> QED BY <2>3 DEF f
<1>7. CASE ReceiveError(c)
  <2>1. LoopStep(c, [rx[c] EXCEPT !.pc = "gone"])
    BY <1>6, <1>7 DEF ReceiveError, LoopPCs
  <2> QED BY <1>4, <1>7, <2>1 DEF ReceiveError
<1>8. CASE HandleSubscriptions(c)
  <2>1. LoopStep(c, [rx[c] EXCEPT !.pc = "applying"])
    BY <1>6, <1>8 DEF HandleSubscriptions, LoopPCs
  <2> QED BY <1>4, <1>8, <2>1 DEF HandleSubscriptions
<1>9. CASE ReadJoinedTopics(c) \/ FinishSubscriptions(c)
  <2> DEFINE f == [pc |-> "receiving", subscribe |-> FALSE, todo |-> {}]
  <2>1. f \in LoopFrame
    BY DEF LoopFrame, LoopPCs
  <2>2. LoopStep(c, f)
    BY <1>9, <2>1 DEF LoopStep, ReadJoinedTopics, FinishSubscriptions
  <2> QED BY <1>4, <1>9, <2>2 DEF ReadJoinedTopics, FinishSubscriptions
<1>10. ASSUME NEW t \in Topics, ApplySubOpts(c, t) PROVE MapInv'
  <2> DEFINE p == PeerOf[c]
             f == [rx[c] EXCEPT !.todo = @ \ {t}]
  <2>1. f \in LoopFrame /\ f.pc = rx[c].pc /\ rx[c].pc = "applying" /\ rx[c].subscribe \in BOOLEAN
    <3>1. rx[c].pc = "applying"
      BY <1>10 DEF ApplySubOpts
    <3> QED BY <1>3, <3>1 DEF LoopFrame
  <2>2. LoopStep(c, f)
    BY <1>10, <2>1 DEF LoopStep, ApplySubOpts
  <2>3. rx' \in [Conns -> LoopFrame] /\ pMutex' \in Apps \cup Conns \cup {Host, Free}
        /\ MutexInv' /\ SessionInv'
    BY <1>1, <1>2, <2>2, LoopStepKeeps
  <2>4. p \in Peers /\ host.pc # "removing" /\ peerConnections[p] \in Conns \cup {Nil}
    BY <1>1, <1>3, <2>1, ThreadsAssumption DEF MutexInv, MapTypes
  <2>5. /\ topicSubscriptions' = [topicSubscriptions EXCEPT ![t] =
                                    IF rx[c].subscribe THEN @ \cup {p} ELSE @ \ {p}]
        /\ inbox' = inbox
        /\ \/ /\ peers' = peers
              /\ t \notin joinedTopics \/ rx[c].subscribe = (p \in topicSubscriptions[t])
           \/ /\ peers' = [peers EXCEPT ![t][p] = IF rx[c].subscribe THEN peerConnections[p] ELSE Absent]
              /\ t \in joinedTopics
    BY <1>10 DEF ApplySubOpts, addPeer, removePeer
  <2>6. /\ topicSubscriptions' \in [Topics -> SUBSET Peers]
        /\ \A u \in Topics \ {t} : topicSubscriptions'[u] = topicSubscriptions[u]
        /\ \A q \in Peers : q \in topicSubscriptions'[t] <=>
             IF q = p THEN rx[c].subscribe ELSE q \in topicSubscriptions[t]
    BY <1>1, <2>1, <2>4, <2>5 DEF MapTypes
  <2>7. /\ peers' \in [Topics -> [Peers -> Conns \cup {Nil, Absent}]]
        /\ \A u \in Topics, q \in Peers : u # t \/ q # p => peers'[u][q] = peers[u][q]
        /\ \/ /\ peers'[t][p] = peers[t][p]
              /\ t \notin joinedTopics \/ rx[c].subscribe = (p \in topicSubscriptions[t])
           \/ /\ peers'[t][p] = IF rx[c].subscribe THEN peerConnections[p] ELSE Absent
              /\ t \in joinedTopics
    <3>1. CASE /\ peers' = peers
               /\ t \notin joinedTopics \/ rx[c].subscribe = (p \in topicSubscriptions[t])
      BY <1>1, <3>1 DEF MapTypes
    <3>2. CASE /\ peers' = [peers EXCEPT ![t][p] = IF rx[c].subscribe THEN peerConnections[p] ELSE Absent]
               /\ t \in joinedTopics
      <4>1. peers \in [Topics -> [Peers -> Conns \cup {Nil, Absent}]]
        BY <1>1 DEF MapTypes
      <4> QED BY <2>4, <3>2, <4>1
    <3> QED BY <2>5, <3>1, <3>2
  <2>8. MapTypes'
    BY <1>1, <1>2, <2>3, <2>5, <2>6, <2>7 DEF MapTypes
  <2>9. peerConnections[p] # Absent
    BY <2>4, ValuesAssumption
  <2>10. Matching'
    <3>1. ASSUME NEW u \in joinedTopics', NEW q \in Peers
          PROVE  peers'[u][q] # Absent <=> q \in topicSubscriptions'[u]
      <4>1. u \in Topics /\ u \in joinedTopics /\ (peers[u][q] # Absent <=> q \in topicSubscriptions[u])
        BY <1>1, <1>2, <3>1, <2>4 DEF AppInv, Matching, Removed
      <4>2. CASE u = t /\ q = p
        BY <4>1, <4>2, <2>1, <2>4, <2>6, <2>7, <2>9
      <4>3. CASE u # t
        BY <3>1, <4>1, <4>3, <2>4, <2>6, <2>7
      <4>4. CASE u = t /\ q # p
        BY <3>1, <4>1, <4>4, <2>4, <2>6, <2>7
      <4> QED BY <4>2, <4>3, <4>4
    <3>2. ASSUME NEW u \in Topics \ joinedTopics', NEW q \in Peers
          PROVE  peers'[u][q] = Absent
      BY <1>1, <1>2, <2>7 DEF Matching
    <3> QED BY <1>2, <2>4, <3>1, <3>2 DEF Matching, Removed
  <2>11. Fresh'
    BY <1>1, <1>2, <2>4, <2>7 DEF Fresh, Leaving
  <2> QED BY <2>3, <2>8, <2>10, <2>11 DEF MapInv
<1> QED BY <1>5, <1>7, <1>8, <1>9, <1>10 DEF ReceiveLoop

LEMMA HostKeeps ==
  ASSUME AppInv, MapInv,
         HostContinues \/ \E c \in Conns : AddPeer(c) \/ RemovePeer(c) \/ ConnectionEnds(c)
  PROVE  MapInv'
<1> USE DEF locks, maps, topics, network
<1>1. MapTypes /\ MutexInv /\ SessionInv /\ Matching /\ Fresh
  BY DEF MapInv
<1>2. UNCHANGED <<app, joinedTopics, inbox>>
  BY DEF HostContinues, RegisterPeer, HelloSnapshot, HelloSend, RemovePeerLock, RemovePeerFinish,
         RemovePeerFromTopic, AddPeer, RemovePeer, ConnectionEnds
<1>3. /\ host = [pc |-> host.pc, conn |-> host.conn, topics |-> host.topics]
      /\ host.pc # "idle" => host.conn \in Conns /\ PeerOf[host.conn] \in Peers
      /\ joinedTopics \subseteq Topics
  BY <1>1, ThreadsAssumption DEF MapTypes, AppInv
<1>4. ASSUME NEW c \in Conns, AddPeer(c) PROVE MapInv'
  <2>1. /\ host.pc = "idle" /\ connState[c] = "new" /\ connState' = [connState EXCEPT ![c] = "up"]
        /\ host' = [host EXCEPT !.pc = "registering", !.conn = c]
        /\ rx' = [rx EXCEPT ![c].pc = "receiving"]
        /\ \A d \in Conns : PeerOf[d] = PeerOf[c] => connState[d] \in {"new", "removed"}
        /\ UNCHANGED <<pMutex, peerConnections, topicSubscriptions, peers>>
    BY <1>4 DEF AddPeer
  <2>2. host' = [pc |-> "registering", conn |-> c, topics |-> host.topics]
    BY <1>3, <2>1
  <2>3. /\ rx' \in [Conns -> LoopFrame] /\ rx'[c].pc = "receiving"
        /\ \A d \in Conns \ {c} : rx'[d] = rx[d]
    BY <1>1, <2>1 DEF MapTypes, LoopFrame, LoopPCs
  <2>4. MapTypes'
    BY <1>1, <1>2, <2>1, <2>2, <2>3 DEF MapTypes
  <2>5. MutexInv'
    BY <1>1, <1>2, <2>1, <2>2, <2>3 DEF MutexInv, SessionInv
  <2>6. peerConnections[PeerOf[c]] = Nil
    <3> DEFINE d == peerConnections[PeerOf[c]]
    <3>1. PeerOf[c] \in Peers /\ d \in Conns \cup {Nil}
      BY <1>1, ThreadsAssumption DEF MapTypes
    <3>2. d # Nil => PeerOf[d] = PeerOf[c] /\ connState[d] \in {"up", "down"}
      BY <1>1, <3>1 DEF SessionInv
    <3> QED BY <2>1, <3>1, <3>2
  <2>7. SessionInv'
    BY <1>1, <2>1, <2>2, <2>3, <2>6 DEF SessionInv, MapTypes
  <2>8. Matching' /\ Fresh'
    BY <1>1, <1>2, <2>1, <2>2 DEF Matching, Fresh, Removed, Leaving
  <2> QED BY <2>4, <2>5, <2>7, <2>8 DEF MapInv
<1>5. CASE RegisterPeer
  <2> DEFINE p == PeerOf[host.conn]
  <2>1. /\ host.pc = "registering" /\ pMutex = Free
        /\ peerConnections' = [peerConnections EXCEPT ![p] = host.conn]
        /\ host' = [host EXCEPT !.pc = "greeting"]
        /\ UNCHANGED <<pMutex, topicSubscriptions, peers, rx, connState>>
    BY <1>5 DEF RegisterPeer
  <2>2. host' = [pc |-> "greeting", conn |-> host.conn, topics |-> host.topics]
    BY <1>3, <2>1
  <2>3. /\ host.conn \in Conns /\ p \in Peers /\ peerConnections[p] = Nil
        /\ connState[host.conn] \in {"up", "down"}
    BY <1>1, <1>3, <2>1 DEF SessionInv
  <2>4. peerConnections'[p] = host.conn /\ \A q \in Peers \ {p} : peerConnections'[q] = peerConnections[q]
    BY <1>1, <2>1, <2>3 DEF MapTypes
  <2>5. MapTypes'
    BY <1>1, <1>2, <2>1, <2>2, <2>3 DEF MapTypes
  <2>6. MutexInv'
    BY <1>1, <1>2, <2>1, <2>2 DEF MutexInv
  <2>7. SessionInv'
    BY <1>1, <2>1, <2>2, <2>3, <2>4 DEF SessionInv
  <2>8. Matching' /\ Fresh'
    BY <1>1, <1>2, <2>1, <2>2, <2>3, <2>4 DEF Matching, Fresh, Removed, Leaving
  <2> QED BY <2>5, <2>6, <2>7, <2>8 DEF MapInv
<1>6. ASSUME NEW pc, pc \notin {"registering", "removing"}, host.pc \notin {"registering", "removing"},
             host' = [pc |-> pc, conn |-> host'.conn, topics |-> host'.topics],
             pc # "idle" => host'.conn \in Conns,
             UNCHANGED <<pMutex, peerConnections, topicSubscriptions, peers, rx, connState>>
      PROVE  MapInv'
  <2>1. MapTypes'
    BY <1>1, <1>2, <1>6 DEF MapTypes
  <2>2. MutexInv' /\ SessionInv' /\ Matching' /\ Fresh'
    BY <1>1, <1>2, <1>6 DEF MutexInv, SessionInv, Matching, Fresh, Removed, Leaving
  <2> QED BY <2>1, <2>2 DEF MapInv
<1>7. CASE HelloSnapshot
  <2>1. host' = [host EXCEPT !.pc = "sending", !.topics = mySubscriptions] /\ host.pc = "greeting"
    BY <1>7 DEF HelloSnapshot
  <2>2. host' = [pc |-> "sending", conn |-> host.conn, topics |-> mySubscriptions]
    BY <1>3, <2>1
  <2> QED BY <1>3, <1>6, <1>7, <2>1, <2>2 DEF HelloSnapshot
<1>8. CASE HelloSend
  BY <1>6, <1>8 DEF HelloSend
<1>9. ASSUME NEW c \in Conns, RemovePeer(c) PROVE MapInv'
  <2>1. host' = [host EXCEPT !.pc = "locking", !.conn = c] /\ host.pc = "idle"
    BY <1>9 DEF RemovePeer
  <2>2. host' = [pc |-> "locking", conn |-> c, topics |-> host.topics]
    BY <1>3, <2>1
  <2> QED BY <1>6, <1>9, <2>1, <2>2 DEF RemovePeer
<1>10. CASE RemovePeerLock
  <2> DEFINE p == PeerOf[host.conn]
  <2>1. /\ host.pc = "locking" /\ pMutex = Free /\ pMutex' = Host
        /\ peerConnections' = [peerConnections EXCEPT ![p] = Nil]
        /\ host' = [host EXCEPT !.pc = "removing", !.topics = joinedTopics]
        /\ UNCHANGED <<topicSubscriptions, peers, rx, connState>>
    BY <1>10 DEF RemovePeerLock
  <2>2. host' = [pc |-> "removing", conn |-> host.conn, topics |-> joinedTopics]
    BY <1>3, <2>1
  <2>3. /\ host.conn \in Conns /\ p \in Peers
        /\ peerConnections'[p] = Nil /\ \A q \in Peers \ {p} : peerConnections'[q] = peerConnections[q]
    BY <1>1, <1>3, <2>1 DEF MapTypes
  <2>4. MapTypes'
    BY <1>1, <1>2, <2>1, <2>2, <2>3 DEF MapTypes
  <2>5. MutexInv'
    BY <1>1, <1>2, <2>1, <2>2, ThreadsAssumption DEF MutexInv
  <2>6. SessionInv'
    BY <1>1, <2>1, <2>2, <2>3 DEF SessionInv
  <2>7. Matching'
    BY <1>1, <1>2, <2>1, <2>2 DEF Matching, Removed
  <2>8. Fresh'
    BY <1>1, <1>2, <2>1, <2>2, <2>3 DEF Matching, Fresh, Leaving
  <2> QED BY <2>4, <2>5, <2>6, <2>7, <2>8 DEF MapInv
<1>11. ASSUME NEW t \in Topics, RemovePeerFromTopic(t) PROVE MapInv'
  <2> DEFINE p == PeerOf[host.conn]
  <2>1. /\ host.pc = "removing" /\ t \in host.topics
        /\ peers' = [peers EXCEPT ![t][p] = Absent]
        /\ host' = [host EXCEPT !.topics = @ \ {t}]
        /\ UNCHANGED <<pMutex, peerConnections, topicSubscriptions, rx, connState>>
    BY <1>11 DEF RemovePeerFromTopic, removePeer
  <2>2. host' = [pc |-> "removing", conn |-> host.conn, topics |-> host.topics \ {t}]
    BY <1>3, <2>1
  <2>3. host.conn \in Conns /\ p \in Peers
    BY <1>3, <2>1
  <2>4. /\ peers' \in [Topics -> [Peers -> Conns \cup {Nil, Absent}]]
        /\ peers'[t][p] = Absent
        /\ \A u \in Topics, q \in Peers : u # t \/ q # p => peers'[u][q] = peers[u][q]
    BY <1>1, <2>1, <2>3 DEF MapTypes
  <2>5. MapTypes'
    BY <1>1, <1>2, <2>1, <2>2, <2>3, <2>4 DEF MapTypes
  <2>6. MutexInv' /\ SessionInv'
    BY <1>1, <1>2, <2>1, <2>2 DEF MutexInv, SessionInv
  <2>7. Matching'
    BY <1>1, <1>2, <1>3, <2>1, <2>2, <2>4 DEF Matching, Removed
  <2>8. Fresh'
    BY <1>1, <2>1, <2>2, <2>4 DEF Fresh, Leaving
  <2> QED BY <2>5, <2>6, <2>7, <2>8 DEF MapInv
<1>12. CASE RemovePeerFinish
  <2> DEFINE p == PeerOf[host.conn]
  <2>1. /\ host.pc = "removing" /\ host.topics = {} /\ pMutex' = Free
        /\ topicSubscriptions' = [t \in Topics |-> topicSubscriptions[t] \ {p}]
        /\ connState' = [connState EXCEPT ![host.conn] = "removed"]
        /\ host' = [host EXCEPT !.pc = "idle", !.conn = Nil]
        /\ UNCHANGED <<peerConnections, peers, rx>>
    BY <1>12 DEF RemovePeerFinish
  <2>2. host' = [pc |-> "idle", conn |-> Nil, topics |-> {}]
    BY <1>3, <2>1
  <2>3. host.conn \in Conns /\ p \in Peers /\ pMutex = Host /\ peerConnections[p] = Nil
    BY <1>1, <1>3, <2>1 DEF MutexInv, SessionInv
  <2>4. MapTypes'
    BY <1>1, <1>2, <2>1, <2>2, <2>3 DEF MapTypes
  <2>5. MutexInv'
    BY <1>1, <1>2, <2>1, <2>2, <2>3, ThreadsAssumption DEF MutexInv
  <2>6. SessionInv'
    BY <1>1, <2>1, <2>2, <2>3 DEF SessionInv, MapTypes
  <2>7. Matching'
    BY <1>1, <1>2, <1>3, <2>1, <2>2, <2>3 DEF Matching, Removed
  <2>8. Fresh'
    BY <1>1, <2>1, <2>2 DEF Fresh, Leaving
  <2> QED BY <2>4, <2>5, <2>6, <2>7, <2>8 DEF MapInv
<1>13. ASSUME NEW c \in Conns, ConnectionEnds(c) PROVE MapInv'
  <2>1. /\ connState[c] = "up" /\ connState' = [connState EXCEPT ![c] = "down"]
        /\ UNCHANGED <<pMutex, peerConnections, topicSubscriptions, peers, host, rx>>
    BY <1>13 DEF ConnectionEnds
  <2>2. MapTypes' /\ MutexInv'
    BY <1>1, <1>2, <2>1 DEF MapTypes, MutexInv
  <2>3. SessionInv'
    BY <1>1, <2>1 DEF SessionInv, MapTypes
  <2>4. Matching' /\ Fresh'
    BY <1>1, <1>2, <2>1 DEF Matching, Fresh, Removed, Leaving
  <2> QED BY <2>2, <2>3, <2>4 DEF MapInv
<1> QED
  BY <1>4, <1>5, <1>7, <1>8, <1>9, <1>10, <1>11, <1>12, <1>13 DEF HostContinues

LEMMA MapStep == AppInv /\ MapInv /\ [Next]_vars => MapInv'
<1> SUFFICES ASSUME AppInv, MapInv, [Next]_vars PROVE MapInv'
  OBVIOUS
<1>1. ASSUME UNCHANGED mapVars, \A b \in Apps : app'[b].pc = "joining" <=> app[b].pc = "joining"
      PROVE  MapInv'
  <2>1. MapTypes' /\ MutexInv'
    BY <1>1 DEF MapInv, MapTypes, MutexInv, mapVars
  <2>2. SessionInv' /\ Matching' /\ Fresh'
    BY <1>1 DEF MapInv, SessionInv, Matching, Fresh, Removed, Leaving, mapVars
  <2> QED BY <2>1, <2>2 DEF MapInv
<1>2. ASSUME NEW a \in Apps, AppBegins(a) \/ AppContinues(a) PROVE MapInv'
  BY <1>1, <1>2, AppMaps, JoinKeeps
<1>3. ASSUME NEW t \in Topics, BackgroundStep(t) \/ BackgroundReceive(t) \/ RunAfterFunc(t)
      PROVE  MapInv'
  <2>1. UNCHANGED mapVars /\ app' = app
    BY <1>3
    DEF BackgroundStep, BackgroundCall, BackgroundWait, BackgroundEnd, BackgroundDeliver,
        BackgroundReceive, RunAfterFunc, mapVars, locks, maps, network
  <2> QED BY <1>1, <2>1
<1>4. ASSUME NEW c \in Conns, NEW rpc \in RPC, PeerSends(c, rpc) PROVE MapInv'
  <2>1. /\ UNCHANGED <<pMutex, maps, peers, host, rx, connState, app>>
        /\ inbox' = [inbox EXCEPT ![c] = Append(@, rpc)]
    BY <1>4 DEF PeerSends, locks, topics
  <2>2. inbox \in [Conns -> Seq(RPC)]
    BY DEF MapInv, MapTypes
  <2>3. inbox' \in [Conns -> Seq(RPC)]
    BY <2>1, <2>2
  <2>4. MapTypes' /\ MutexInv'
    BY <2>1, <2>3 DEF MapInv, MapTypes, MutexInv, maps
  <2>5. SessionInv' /\ Matching' /\ Fresh'
    BY <2>1 DEF MapInv, SessionInv, Matching, Fresh, Removed, Leaving, maps
  <2> QED BY <2>4, <2>5 DEF MapInv
<1>5. CASE UNCHANGED vars
  BY <1>1, <1>5 DEF vars, mapVars, locks, maps, topics, network
<1> QED
  BY <1>2, <1>3, <1>4, <1>5, ReceiveKeeps, HostKeeps DEF Next

LEMMA MapCorrect == Spec => [](AppInv /\ MapInv)
<1>1. Init => AppInv /\ MapInv
  BY AppInit, MapInit
<1>2. AppInv /\ MapInv /\ [Next]_vars => (AppInv /\ MapInv)'
  BY AppStep, MapStep
<1> QED BY <1>1, <1>2, PTL DEF Spec

(* Between critical sections a topic knows the peers that PubSub has as its *)
(* subscribers, for any peers that come, go and announce, and any joins.    *)
THEOREM TopicsKnowTheirPeers == Spec => []PeersMatchSubscribers
<1>1. AppInv /\ MapInv => PeersMatchSubscribers
  <2> SUFFICES ASSUME AppInv, MapInv, pMutex = Free, NEW t \in joinedTopics
               PROVE  {p \in Peers : peers[t][p] # Absent} = topicSubscriptions[t]
    BY DEF PeersMatchSubscribers
  <2>1. host.pc # "removing"
    BY ThreadsAssumption DEF MapInv, MutexInv
  <2>2. topicSubscriptions[t] \subseteq Peers
    BY DEF MapInv, MapTypes, AppInv
  <2> QED BY <2>1, <2>2 DEF MapInv, Matching, Removed
<1> QED BY <1>1, MapCorrect, PTL

(* The sender that a router holds for a peer is never that of an earlier    *)
(* session: the handlers take turns and the topics are cleaned before the   *)
(* peer may come back.                                                      *)
THEOREM SendersNeverStale == Spec => []SenderNeverStale
<1>1. MapInv => SenderNeverStale
  BY ThreadsAssumption DEF MapInv, MutexInv, Fresh, Leaving, SenderNeverStale
<1> QED BY <1>1, MapCorrect, PTL

-----------------------------------------------------------------------------
(* What peers are told *)

(* While the hello packet of c is under way, what is missing in told is in  *)
(* the packet.                                                              *)
HelloFor(c, pc) == host.conn = c /\ host.pc = pc

ToldInv ==
  /\ mySubscriptions \subseteq Topics
  /\ SubscriptionsAnnounced
  /\ \A c \in Conns : c \in Registered /\ HelloFor(c, "sending") =>
       \A t \in mySubscriptions \ host.topics : told[c][t] = "subscribed"

LEMMA ToldInit == Init => ToldInv
BY DEF Init, ToldInv, SubscriptionsAnnounced, Greeted, Registered

(* An announcement reaches every registered peer, also one that is waiting  *)
(* for its hello packet.                                                    *)
LEMMA EventKeeps ==
  ASSUME ToldInv, NEW t \in Topics, NEW subscribe \in BOOLEAN, handleTopicEvent(t, subscribe),
         UNCHANGED <<peerConnections, host>>
  PROVE  ToldInv'
<1>1. /\ mySubscriptions' = IF subscribe THEN mySubscriptions \cup {t} ELSE mySubscriptions \ {t}
      /\ \A c \in Conns, u \in Topics :
           told'[c][u] = IF c \in Registered /\ u = t
                         THEN IF subscribe THEN "subscribed" ELSE "unsubscribed" ELSE told[c][u]
  BY DEF handleTopicEvent, Tell
<1>2. Registered' = Registered /\ mySubscriptions' \subseteq Topics
  BY <1>1 DEF Registered, ToldInv
<1>3. ASSUME NEW c \in Conns, c \in Registered, NEW u \in mySubscriptions',
             u \in mySubscriptions => told[c][u] = "subscribed"
      PROVE  told'[c][u] = "subscribed"
  <2>1. u \in Topics
    BY <1>2
  <2> QED BY <1>1, <1>3, <2>1
<1>4. SubscriptionsAnnounced'
  <2> SUFFICES ASSUME NEW c \in Conns, Greeted(c)', NEW u \in mySubscriptions'
               PROVE  told'[c][u] = "subscribed"
    BY DEF SubscriptionsAnnounced
  <2>1. c \in Registered /\ Greeted(c)
    BY <1>2 DEF Greeted
  <2> QED BY <1>3, <2>1 DEF ToldInv, SubscriptionsAnnounced
<1>5. ASSUME NEW c \in Conns, c \in Registered', HelloFor(c, "sending")', NEW u \in mySubscriptions' \ host'.topics
      PROVE  told'[c][u] = "subscribed"
  BY <1>2, <1>3, <1>5 DEF ToldInv, HelloFor
<1> QED BY <1>2, <1>4, <1>5 DEF ToldInv

(* Apart from the host's handlers only the two announcements matter.        *)
LEMMA ToldAside ==
  ASSUME AppInv, [Next]_vars
  PROVE  \/ UNCHANGED <<peerConnections, mySubscriptions, host, told>>
         \/ /\ \E t \in Topics, subscribe \in BOOLEAN : handleTopicEvent(t, subscribe)
            /\ UNCHANGED <<peerConnections, host>>
         \/ HostContinues \/ \E c \in Conns : AddPeer(c) \/ RemovePeer(c)
<1> DEFINE Aside == UNCHANGED <<peerConnections, mySubscriptions, host, told>>
<1> USE DEF maps
<1>1. ASSUME NEW a \in Apps, AppBegins(a) PROVE Aside
  BY <1>1 DEF AppBegins, JoinLock, CloseTopic, SubscribeCheck, Unsubscribe, ClosePubSub
<1>2. ASSUME NEW a \in Apps, AppContinues(a), ~SubscribeAnnounce(a), ~RemoveAnnounce(a)
      PROVE  Aside
  BY <1>2
  DEF AppContinues, JoinTopic, SubscribeLock, RemoveLock, CloseTopicLock, CloseTopicRouter,
      CloseTopicWait, CloseTopicSub, ClosePubSubCopy, ClosePubSubWait, ClosePubSubTopic
<1>3. ASSUME NEW a \in Apps, SubscribeAnnounce(a) \/ RemoveAnnounce(a)
      PROVE  /\ \E t \in Topics, subscribe \in BOOLEAN : handleTopicEvent(t, subscribe)
             /\ UNCHANGED <<peerConnections, host>>
  <2>1. app[a].topic \in Topics
    BY <1>3 DEF SubscribeAnnounce, RemoveAnnounce, At, AppInv, FrameOK, OfTopic
  <2> QED BY <1>3, <2>1 DEF SubscribeAnnounce, RemoveAnnounce
<1>4. ASSUME NEW t \in Topics, BackgroundStep(t) \/ BackgroundReceive(t) \/ RunAfterFunc(t)
      PROVE  Aside
  BY <1>4
  DEF BackgroundStep, BackgroundCall, BackgroundWait, BackgroundEnd, BackgroundDeliver,
      BackgroundReceive, RunAfterFunc
<1>5. ASSUME NEW c \in Conns, ReceiveLoop(c) \/ ConnectionEnds(c) PROVE Aside
  BY <1>5
  DEF ReceiveLoop, Receive, ReceiveError, ReadJoinedTopics, HandleSubscriptions,
      FinishSubscriptions, ApplySubOpts, ConnectionEnds
<1>6. ASSUME NEW c \in Conns, NEW rpc \in RPC, PeerSends(c, rpc) PROVE Aside
  BY <1>6 DEF PeerSends
<1>7. CASE UNCHANGED vars
  BY <1>7 DEF vars
<1> QED BY <1>1, <1>2, <1>3, <1>4, <1>5, <1>6, <1>7 DEF Next

LEMMA ToldStep == AppInv /\ MapInv /\ ToldInv /\ [Next]_vars => ToldInv'
<1> SUFFICES ASSUME AppInv, MapInv, ToldInv, [Next]_vars PROVE ToldInv'
  OBVIOUS
<1> USE DEF maps
<1>1. /\ host = [pc |-> host.pc, conn |-> host.conn, topics |-> host.topics]
      /\ host.pc # "idle" => host.conn \in Conns /\ PeerOf[host.conn] \in Peers
      /\ peerConnections \in [Peers -> Conns \cup {Nil}]
  BY ThreadsAssumption DEF MapInv, MapTypes
(* Steps after which a connection that has been greeted had been before.    *)
<1>2. ASSUME UNCHANGED <<mySubscriptions, told>>, Registered' \subseteq Registered,
             \A c \in Conns : /\ ~HelloFor(c, "sending")'
                              /\ HelloFor(c, "greeting") \/ HelloFor(c, "sending") =>
                                   HelloFor(c, "greeting")' \/ c \notin Registered'
      PROVE  ToldInv'
  BY <1>2 DEF ToldInv, SubscriptionsAnnounced, Greeted, HelloFor
<1>3. CASE UNCHANGED <<peerConnections, mySubscriptions, host, told>>
  BY <1>3 DEF ToldInv, SubscriptionsAnnounced, Greeted, Registered, HelloFor
<1>4. ASSUME NEW c \in Conns, AddPeer(c) \/ RemovePeer(c) PROVE ToldInv'
  <2>1. /\ host.pc = "idle" /\ UNCHANGED <<peerConnections, mySubscriptions, told>>
        /\ \E pc \in {"registering", "locking"} : host' = [host EXCEPT !.pc = pc, !.conn = c]
    BY <1>4 DEF AddPeer, RemovePeer
  <2>2. host'.pc \in {"registering", "locking"} /\ Registered' = Registered
    BY <1>1, <2>1 DEF Registered
  <2> QED BY <1>2, <2>1, <2>2 DEF HelloFor
<1>5. CASE RegisterPeer
  <2>1. /\ UNCHANGED <<mySubscriptions, told>>
        /\ host' = [pc |-> "greeting", conn |-> host.conn, topics |-> host.topics]
        /\ peerConnections' = [peerConnections EXCEPT ![PeerOf[host.conn]] = host.conn]
        /\ host.pc = "registering" /\ PeerOf[host.conn] \in Peers
    BY <1>1, <1>5 DEF RegisterPeer
  <2>2. Registered' \subseteq Registered \cup {host.conn}
    BY <1>1, <2>1 DEF Registered
  <2> QED BY <2>1, <2>2 DEF ToldInv, SubscriptionsAnnounced, Greeted, HelloFor
<1>6. CASE HelloSnapshot
  <2>1. /\ UNCHANGED <<mySubscriptions, told, peerConnections>>
        /\ host' = [pc |-> "sending", conn |-> host.conn, topics |-> mySubscriptions]
        /\ host.pc = "greeting"
    BY <1>1, <1>6 DEF HelloSnapshot
  <2> QED BY <2>1 DEF ToldInv, SubscriptionsAnnounced, Greeted, HelloFor, Registered
<1>7. CASE HelloSend
  <2>1. /\ host.pc = "sending" /\ host'.pc = "idle" /\ UNCHANGED <<mySubscriptions, peerConnections>>
        /\ \A c \in Conns, u \in Topics :
             told'[c][u] = IF c = host.conn /\ u \in host.topics THEN "subscribed" ELSE told[c][u]
    BY <1>7 DEF HelloSend, Tell
  <2>2. Registered' = Registered
    BY <2>1 DEF Registered
  <2>3. ASSUME NEW c \in Conns, c \in Registered, NEW u \in mySubscriptions
        PROVE  told'[c][u] = "subscribed"
    <3>1. u \in Topics
      BY DEF ToldInv
    <3>2. CASE c = host.conn
      BY <2>1, <2>3, <3>1, <3>2 DEF ToldInv, HelloFor
    <3>3. CASE c # host.conn
      BY <2>1, <2>3, <3>1, <3>3 DEF ToldInv, SubscriptionsAnnounced, Greeted
    <3> QED BY <3>2, <3>3
  <2> QED BY <2>1, <2>2, <2>3 DEF ToldInv, SubscriptionsAnnounced, Greeted, HelloFor
<1>8. CASE RemovePeerLock \/ RemovePeerFinish \/ \E t \in Topics : RemovePeerFromTopic(t)
  <2>1. /\ UNCHANGED <<mySubscriptions, told>> /\ host.pc \notin {"greeting", "sending"}
        /\ host'.pc \notin {"greeting", "sending"}
    BY <1>1, <1>8 DEF RemovePeerLock, RemovePeerFinish, RemovePeerFromTopic
  <2>2. \/ peerConnections' = peerConnections
        \/ peerConnections' = [peerConnections EXCEPT ![PeerOf[host.conn]] = Nil]
    BY <1>8 DEF RemovePeerLock, RemovePeerFinish, RemovePeerFromTopic
  <2>3. Registered' \subseteq Registered
    BY <1>1, <2>2 DEF Registered
  <2> QED BY <1>2, <2>1, <2>3 DEF HelloFor
<1> QED
  BY <1>3, <1>4, <1>5, <1>6, <1>7, <1>8, ToldAside, EventKeeps DEF HostContinues

(* Every registered peer that has been greeted knows all our subscriptions, *)
(* however subscriptions and connections interleave: what an announcement   *)
(* misses because the peer was not in the map is in its hello packet.       *)
THEOREM PeersAreTold == Spec => []SubscriptionsAnnounced
<1>1. Init => AppInv /\ MapInv /\ ToldInv
  BY AppInit, MapInit, ToldInit
<1>2. AppInv /\ MapInv /\ ToldInv /\ [Next]_vars => (AppInv /\ MapInv /\ ToldInv)'
  BY AppStep, MapStep, ToldStep
<1>3. ToldInv => SubscriptionsAnnounced
  BY DEF ToldInv
<1> QED BY <1>1, <1>2, <1>3, PTL DEF Spec

-----------------------------------------------------------------------------
(* PubSub.Close *)

(* A frame inside Topic.Close or Subscription.Close, and what PubSub.Close  *)
(* has still to close after its copy of the joined topics.                  *)
InTopic == {"locking", "closingSubs", "removing", "withdrawing", "waiting"}

Copied(f) == f.op = "closePubSub" /\ f.pc # "copying"
Todo(f) == f.topics \cup (IF f.pc \in InTopic THEN {f.topic} ELSE {})

OpOK(f) ==
  /\ f.pc \in {"locking", "closingSubs", "waiting"} => f.op \in {"closeTopic", "closePubSub"}
  /\ f.pc \in {"removing", "withdrawing"} => f.op \in {"unsubscribe", "closeTopic", "closePubSub"}
  /\ f.pc \in {"copying", "closingTopics", "returned"} => f.op = "closePubSub"
  /\ f.op = "closePubSub" => f.pc \in {"copying", "closingTopics", "returned"} \cup InTopic
  /\ f.pc = "returned" => f.topics = {}

(* Once the joined topics are copied nobody joins.                          *)
NoJoin == \A a \in Apps : app[a].pc # "joining"

CloseInv ==
  \A a \in Apps :
    /\ OpOK(app[a])
    /\ app[a].op = "closePubSub" => ctxDone
    /\ Copied(app[a]) => NoJoin /\ joinedTopics \subseteq closed \cup Todo(app[a])

LEMMA CloseInit == Init => CloseInv
BY DEF Init, CloseInv, OpOK, Copied, Idle, InTopic

(* A step that replaces a frame by f. *)
LEMMA CloseFrame ==
  ASSUME AppInv, CloseInv, NEW a \in Apps, NEW f, app' = [app EXCEPT ![a] = f],
         OpOK(f), f.op = "closePubSub" => ctxDone',
         ctxDone => ctxDone' /\ f.pc # "joining", closed \subseteq closed',
         joinedTopics' = joinedTopics \/ app[a].pc = "joining",
         Copied(f) => /\ \A b \in Apps : app[b].pc = "joining" => b = a
                      /\ f.pc # "joining" /\ joinedTopics' \subseteq closed' \cup Todo(f)
  PROVE  CloseInv'
<1>1. app'[a] = f /\ \A b \in Apps \ {a} : app'[b] = app[b]
  BY DEF AppInv
<1>2. ASSUME NEW b \in Apps \ {a}
      PROVE  /\ OpOK(app'[b])
             /\ app'[b].op = "closePubSub" => ctxDone'
             /\ Copied(app'[b]) => NoJoin' /\ joinedTopics' \subseteq closed' \cup Todo(app'[b])
  <2>1. app'[b] = app[b] /\ OpOK(app[b]) /\ (app[b].op = "closePubSub" => ctxDone)
    BY <1>1 DEF CloseInv
  <2>2. ASSUME Copied(app[b]) PROVE NoJoin' /\ joinedTopics' \subseteq closed' \cup Todo(app[b])
    <3>1. NoJoin /\ joinedTopics \subseteq closed \cup Todo(app[b]) /\ ctxDone
      BY <2>2 DEF CloseInv, Copied
    <3>2. NoJoin'
      BY <1>1, <3>1 DEF NoJoin
    <3> QED BY <3>1, <3>2 DEF NoJoin
  <2> QED BY <2>1, <2>2
<1>3. Copied(f) => NoJoin'
  BY <1>1 DEF NoJoin
<1>4. /\ OpOK(app'[a])
      /\ app'[a].op = "closePubSub" => ctxDone'
      /\ Copied(app'[a]) => NoJoin' /\ joinedTopics' \subseteq closed' \cup Todo(app'[a])
  BY <1>1, <1>3
<1> QED BY <1>2, <1>4 DEF CloseInv

LEMMA CloseBegins ==
  ASSUME AppInv, CloseInv, NEW a \in Apps, AppBegins(a)
  PROVE  CloseInv'
<1> USE DEF maps
<1>1. ASSUME NEW op, NEW pc, NEW t, NEW s, Begin(a, op, pc, t, s),
             \/ op = "join" /\ pc = "joining" /\ ~ctxDone
             \/ op = "subscribe" /\ pc = "subscribing"
             \/ op = "unsubscribe" /\ pc = "removing"
             \/ op = "closeTopic" /\ pc = "locking"
             \/ op = "closePubSub" /\ pc = "copying" /\ ctxDone',
             ctxDone => ctxDone', UNCHANGED <<joinedTopics, closed>>
      PROVE  CloseInv'
  <2> DEFINE f == [Idle EXCEPT !.op = op, !.pc = pc, !.topic = t, !.sub = s]
  <2>1. app' = [app EXCEPT ![a] = f] /\ f.op = op /\ f.pc = pc
    BY <1>1 DEF Begin, Idle
  <2> HIDE DEF f
  <2>2. OpOK(f) /\ ~Copied(f) /\ (f.op = "closePubSub" => ctxDone') /\ (ctxDone => f.pc # "joining")
    BY <1>1, <2>1 DEF OpOK, Copied, InTopic
  <2> QED BY <1>1, <2>1, <2>2, CloseFrame
<1>2. ASSUME NEW t \in Topics, JoinLock(a, t) PROVE CloseInv'
  <2>1. /\ Begin(a, "join", "joining", t, Nil) /\ ~ctxDone
        /\ UNCHANGED <<ctxDone, joinedTopics, closed>>
    BY <1>2 DEF JoinLock
  <2> QED BY <1>1, <2>1
<1>3. ASSUME NEW t \in Topics, CloseTopic(a, t) PROVE CloseInv'
  <2>1. Begin(a, "closeTopic", "locking", t, Nil) /\ UNCHANGED <<ctxDone, joinedTopics, closed>>
    BY <1>3 DEF CloseTopic
  <2> QED BY <1>1, <2>1
<1>4. ASSUME NEW t \in Topics, NEW s \in Subs, SubscribeCheck(a, t, s) PROVE CloseInv'
  <2>1. Begin(a, "subscribe", "subscribing", t, s) /\ UNCHANGED <<ctxDone, joinedTopics, closed>>
    BY <1>4 DEF SubscribeCheck
  <2> QED BY <1>1, <2>1
<1>5. ASSUME NEW t \in Topics, NEW s \in Subs, Unsubscribe(a, t, s) PROVE CloseInv'
  <2>1. Begin(a, "unsubscribe", "removing", t, s) /\ UNCHANGED <<ctxDone, joinedTopics, closed>>
    BY <1>5 DEF Unsubscribe
  <2> QED BY <1>1, <2>1
<1>6. CASE ClosePubSub(a)
  <2>1. Begin(a, "closePubSub", "copying", Nil, Nil) /\ ctxDone' /\ UNCHANGED <<joinedTopics, closed>>
    BY <1>6 DEF ClosePubSub
  <2> QED BY <1>1, <2>1
<1> QED BY <1>2, <1>3, <1>4, <1>5, <1>6 DEF AppBegins

LEMMA CloseContinues ==
  ASSUME AppInv, MapInv, CloseInv, NEW a \in Apps, AppContinues(a)
  PROVE  CloseInv'
<1> USE DEF maps
<1> DEFINE g == app[a]
<1>1. /\ g \in Frame /\ joinedTopics \subseteq Topics
      /\ OpOK(g)
      /\ g.op = "closePubSub" => ctxDone
      /\ Copied(g) => NoJoin /\ joinedTopics \subseteq closed \cup Todo(g)
  BY DEF AppInv, CloseInv
(* A step that goes on with the same method and with as much left to do.    *)
<1>2. ASSUME NEW f, app' = [app EXCEPT ![a] = f], f.op = g.op, f.pc \notin {"joining", "copying"},
             OpOK(f), ctxDone' = ctxDone, closed \subseteq closed', joinedTopics' = joinedTopics,
             Copied(f) => Copied(g) /\ closed \cup Todo(g) \subseteq closed' \cup Todo(f)
      PROVE  CloseInv'
  <2>1. Copied(f) => (\A b \in Apps : app[b].pc = "joining" => b = a)
                     /\ joinedTopics' \subseteq closed' \cup Todo(f)
    BY <1>1, <1>2 DEF NoJoin
  <2> QED BY <1>1, <1>2, <2>1, CloseFrame
<1>3. ASSUME Return(a), ctxDone' = ctxDone, closed \subseteq closed',
             joinedTopics' = joinedTopics \/ g.pc = "joining"
      PROVE  CloseInv'
  <2>1. /\ OpOK(Idle) /\ ~Copied(Idle) /\ Idle.op # "closePubSub" /\ Idle.pc # "joining"
    BY DEF OpOK, Copied, Idle, InTopic
  <2> QED BY <1>3, <2>1, CloseFrame DEF Return
<1>4. ASSUME NEW pc, Goto(a, pc), pc # "joining", g.pc \notin {"joining", "copying", "returned"},
             pc # "copying", OpOK([g EXCEPT !.pc = pc]), ctxDone' = ctxDone,
             joinedTopics' = joinedTopics, closed \subseteq closed',
             g.op = "closePubSub" /\ g.pc \in InTopic /\ pc \notin InTopic => g.topic \in closed'
      PROVE  CloseInv'
  <2> DEFINE f == [g EXCEPT !.pc = pc]
  <2>1. /\ app' = [app EXCEPT ![a] = f] /\ OpOK(f)
        /\ f.op = g.op /\ f.pc = pc /\ f.topic = g.topic /\ f.topics = g.topics
    BY <1>1, <1>4 DEF Goto, Frame
  <2> HIDE DEF f
  <2>2. Copied(f) => Copied(g) /\ closed \cup Todo(g) \subseteq closed' \cup Todo(f)
    BY <1>4, <2>1 DEF Copied, Todo
  <2> QED BY <1>2, <1>4, <2>1, <2>2
(* Within Topic.Close and Subscription.Close. *)
<1>5. ASSUME NEW pc \in {"closingSubs", "waiting", "withdrawing"}, Goto(a, pc), g.pc \in InTopic,
             g.op = "unsubscribe" => pc = "withdrawing",
             UNCHANGED <<ctxDone, joinedTopics, closed>>
      PROVE  CloseInv'
  <2> DEFINE f == [g EXCEPT !.pc = pc]
  <2>1. f.op = g.op /\ f.pc = pc
    BY <1>1 DEF Frame
  <2> HIDE DEF f
  <2>2. OpOK(f)
    BY <1>1, <1>5, <2>1 DEF OpOK, InTopic
  <2> QED BY <1>4, <1>5, <2>2 DEF f, InTopic
<1>6. CASE JoinTopic(a) \/ SubscribeAnnounce(a)
  BY <1>3, <1>6 DEF JoinTopic, SubscribeAnnounce, At
<1>7. CASE SubscribeLock(a)
  <2>1. /\ g.pc = "subscribing" /\ UNCHANGED <<ctxDone, joinedTopics, closed>>
        /\ Goto(a, "announcing") \/ Return(a)
    BY <1>7 DEF SubscribeLock, At
  <2> DEFINE f == [g EXCEPT !.pc = "announcing"]
  <2>2. f.op = g.op /\ f.pc = "announcing" /\ g.op # "closePubSub"
    BY <1>1, <2>1 DEF Frame, OpOK, InTopic
  <2> HIDE DEF f
  <2>3. OpOK(f)
    BY <2>2 DEF OpOK
  <2> QED BY <1>3, <1>4, <2>1, <2>2, <2>3 DEF f
<1>8. CASE RemoveLock(a) \/ RemoveAnnounce(a)
  <2>1. /\ g.pc \in {"removing", "withdrawing"} /\ UNCHANGED <<ctxDone, joinedTopics, closed>>
        /\ \/ Goto(a, "withdrawing") \/ Return(a)
           \/ Goto(a, "closingSubs") /\ g.op # "unsubscribe"
    BY <1>8 DEF RemoveLock, RemoveAnnounce, AfterRemove, At
  <2> QED BY <1>3, <1>5, <2>1 DEF InTopic
<1>9. CASE CloseTopicRouter(a)
  <2>1. /\ g.pc = "closingSubs" /\ Goto(a, "waiting") /\ UNCHANGED <<ctxDone, joinedTopics, closed>>
    BY <1>9 DEF CloseTopicRouter, At
  <2> QED BY <1>1, <1>5, <2>1 DEF InTopic, OpOK
<1>10. CASE CloseTopicWait(a)
  <2>1. /\ g.pc = "waiting" /\ closed' = closed \cup {g.topic} /\ UNCHANGED <<ctxDone, joinedTopics>>
        /\ \/ g.op = "closeTopic" /\ Return(a)
           \/ g.op # "closeTopic" /\ Goto(a, "closingTopics")
    BY <1>10 DEF CloseTopicWait, At
  <2> DEFINE f == [g EXCEPT !.pc = "closingTopics"]
  <2>2. f.op = g.op /\ f.pc = "closingTopics"
    BY <1>1 DEF Frame
  <2> HIDE DEF f
  <2>3. g.op # "closeTopic" => OpOK(f)
    BY <1>1, <2>1, <2>2 DEF OpOK
  <2>4. CASE Return(a)
    BY <1>3, <2>1, <2>4
  <2>5. CASE g.op # "closeTopic" /\ Goto(a, "closingTopics")
    BY <1>4, <2>1, <2>3, <2>5 DEF f
  <2> QED BY <2>1, <2>4, <2>5
<1>11. CASE ClosePubSubWait(a)
  <2>1. /\ g.pc = "closingTopics" /\ g.topics = {} /\ Goto(a, "returned")
        /\ UNCHANGED <<ctxDone, joinedTopics, closed>>
    BY <1>11 DEF ClosePubSubWait, At
  <2> DEFINE f == [g EXCEPT !.pc = "returned"]
  <2>2. f.op = g.op /\ f.pc = "returned" /\ f.topics = g.topics
    BY <1>1 DEF Frame
  <2> HIDE DEF f
  <2>3. OpOK(f)
    BY <1>1, <2>1, <2>2 DEF OpOK
  <2> QED BY <1>4, <2>1, <2>3 DEF f, InTopic
<1>12. CASE CloseTopicLock(a)
  <2> DEFINE f == [g EXCEPT !.pc = "closingSubs", !.subs = subscriptions[g.topic]]
  <2>1. /\ app' = [app EXCEPT ![a] = f] /\ g.pc = "locking" /\ UNCHANGED <<ctxDone, joinedTopics, closed>>
    BY <1>12 DEF CloseTopicLock, At
  <2>2. f.op = g.op /\ f.pc = "closingSubs" /\ f.topic = g.topic /\ f.topics = g.topics
    BY <1>1 DEF Frame
  <2> HIDE DEF f
  <2>3. OpOK(f) /\ (Copied(f) => Copied(g)) /\ Todo(f) = Todo(g)
    BY <1>1, <2>1, <2>2 DEF OpOK, Copied, Todo, InTopic
  <2> QED BY <1>2, <2>1, <2>2, <2>3
<1>13. ASSUME NEW s \in Subs, CloseTopicSub(a, s) PROVE CloseInv'
  <2> DEFINE f == [g EXCEPT !.pc = "removing", !.sub = s, !.subs = @ \ {s}]
  <2>1. /\ app' = [app EXCEPT ![a] = f] /\ g.pc = "closingSubs"
        /\ UNCHANGED <<ctxDone, joinedTopics, closed>>
    BY <1>13 DEF CloseTopicSub, At
  <2>2. f.op = g.op /\ f.pc = "removing" /\ f.topic = g.topic /\ f.topics = g.topics
    BY <1>1 DEF Frame
  <2> HIDE DEF f
  <2>3. OpOK(f) /\ (Copied(f) => Copied(g)) /\ Todo(f) = Todo(g)
    BY <1>1, <2>1, <2>2 DEF OpOK, Copied, Todo, InTopic
  <2> QED BY <1>2, <2>1, <2>2, <2>3
<1>14. ASSUME NEW u \in Topics, ClosePubSubTopic(a, u) PROVE CloseInv'
  <2> DEFINE f == [g EXCEPT !.pc = "locking", !.topic = u, !.topics = @ \ {u}]
  <2>1. /\ app' = [app EXCEPT ![a] = f] /\ g.pc = "closingTopics" /\ u \in g.topics
        /\ UNCHANGED <<ctxDone, joinedTopics, closed>>
    BY <1>14 DEF ClosePubSubTopic, At
  <2>2. f.op = g.op /\ f.pc = "locking" /\ f.topic = u /\ f.topics = g.topics \ {u}
    BY <1>1 DEF Frame
  <2> HIDE DEF f
  <2>3. OpOK(f) /\ (Copied(f) => Copied(g)) /\ Todo(f) = Todo(g)
    BY <1>1, <2>1, <2>2 DEF OpOK, Copied, Todo, InTopic
  <2> QED BY <1>2, <2>1, <2>2, <2>3
(* The copy is made while nobody joins, and what is joined is all in it.    *)
<1>15. CASE ClosePubSubCopy(a)
  <2> DEFINE f == [g EXCEPT !.pc = "closingTopics", !.topics = joinedTopics]
  <2>1. /\ app' = [app EXCEPT ![a] = f] /\ g.pc = "copying" /\ pMutex = Free
        /\ UNCHANGED <<ctxDone, joinedTopics, closed>>
    BY <1>15 DEF ClosePubSubCopy, At
  <2>2. f.op = g.op /\ f.pc = "closingTopics" /\ f.topics = joinedTopics
    BY <1>1 DEF Frame
  <2> HIDE DEF f
  <2>3. \A b \in Apps : app[b].pc # "joining"
    BY <2>1, ThreadsAssumption DEF MapInv, MutexInv
  <2>4. OpOK(f) /\ g.op = "closePubSub" /\ joinedTopics' \subseteq closed' \cup Todo(f)
    BY <1>1, <2>1, <2>2 DEF OpOK, Todo
  <2> QED BY <1>1, <2>1, <2>2, <2>3, <2>4, CloseFrame
<1> QED
  BY <1>6, <1>7, <1>8, <1>9, <1>10, <1>11, <1>12, <1>13, <1>14, <1>15 DEF AppContinues

LEMMA CloseStep == AppInv /\ MapInv /\ CloseInv /\ [Next]_vars => CloseInv'
<1> SUFFICES ASSUME AppInv, MapInv, CloseInv, [Next]_vars PROVE CloseInv'
  OBVIOUS
<1>1. CASE UNCHANGED <<app, joinedTopics, closed, ctxDone>>
  BY <1>1 DEF CloseInv, NoJoin
<1>2. CASE OthersStep \/ UNCHANGED vars
  BY <1>1, <1>2, OthersFrame DEF vars, maps
<1> QED BY <1>2, CloseBegins, CloseContinues DEF Next, OthersStep

(* When PubSub.Close returns every topic that was ever joined is closed,    *)
(* whoever joins, subscribes and closes meanwhile: after the copy of the    *)
(* joined topics nobody can join another.                                   *)
THEOREM CloseLeavesNoTopic == Spec => []CloseClosesTopics
<1>1. Init => AppInv /\ MapInv /\ CloseInv
  BY AppInit, MapInit, CloseInit
<1>2. AppInv /\ MapInv /\ CloseInv /\ [Next]_vars => (AppInv /\ MapInv /\ CloseInv)'
  BY AppStep, MapStep, CloseStep
<1>3. CloseInv => CloseClosesTopics
  BY DEF CloseInv, CloseClosesTopics, OpOK, Copied, Todo, InTopic
<1> QED BY <1>1, <1>2, <1>3, PTL DEF Spec
=============================================================================
