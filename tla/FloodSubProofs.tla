----------------------------- MODULE FloodSubProofs -----------------------------
(***************************************************************************)
(* Safety of FloodSub for any network, topology, time to live and set of   *)
(* messages: types, the time cache, the flood without holes, and the       *)
(* implementation of Broadcast while no entry of the cache has expired.    *)
(***************************************************************************)
EXTENDS FloodSub, SequenceTheorems, FiniteSetTheorems, TLAPS

(* ----------------------------- Sequences ------------------------------ *)

(* Appending to a queue behind what has been taken from it, and taking its  *)
(* oldest element.                                                          *)
LEMMA ConcatAppend ==
  ASSUME NEW S, NEW s \in Seq(S), NEW t \in Seq(S), NEW e \in S
  PROVE  s \o Append(t, e) = Append(s \o t, e)
<1>1. <<e>> \in Seq(S) /\ s \o t \in Seq(S)
  BY ConcatProperties
<1>2. Append(s \o t, e) = (s \o t) \o <<e>> /\ Append(t, e) = t \o <<e>>
  BY <1>1, AppendIsConcat
<1> QED BY <1>1, <1>2, ConcatAssociative

LEMMA ConcatMove ==
  ASSUME NEW S, NEW s \in Seq(S), NEW t \in Seq(S), t # <<>>
  PROVE  Append(s, Head(t)) \o Tail(t) = s \o t
<1>1. Head(t) \in S /\ Tail(t) \in Seq(S) /\ <<Head(t)>> \in Seq(S) /\ Head(t) = t[1]
  BY HeadTailProperties
<1>2. <<Head(t)>> \o Tail(t) = t
  <2>1. Len(t) \in Nat /\ 1 \in 1 .. Len(t) /\ Len(t) \in 1 .. Len(t)
    BY EmptySeq, LenProperties
  <2>2. SubSeq(t, 1, Len(t)) = <<t[1]>> \o SubSeq(t, 1 + 1, Len(t))
    BY <2>1, SubSeqRecursiveFirst
  <2> QED BY <1>1, <2>2, SubSeqFull, TailIsSubSeq
<1> QED BY <1>1, <1>2, AppendIsConcat, ConcatAssociative

(* ------------------------------- Types -------------------------------- *)

(* Initially every variable has its type. *)
LEMMA TypeInit == Init => TypeOK
<1> SUFFICES ASSUME Init PROVE TypeOK
  OBVIOUS
<1>1. peerSendFuncs \in [Nodes -> SUBSET Nodes]
  BY NetworkAssumption DEF Init
<1>2. <<>> \in Seq(Messages) /\ now \in Nat
  BY DEF Init
<1> QED
  BY <1>1, <1>2 DEF Init, TypeOK, Times

(* A table by node and message keeps its type when one value is replaced.   *)
LEMMA TableUpdate ==
  ASSUME NEW S, NEW f \in [Nodes -> [Messages -> S]],
         NEW n \in Nodes, NEW m \in Messages, NEW v \in S
  PROVE  [f EXCEPT ![n][m] = v] \in [Nodes -> [Messages -> S]]
  OBVIOUS

(* What handleMessages does with a message that is not in the cache.        *)
LEMMA HandleNew ==
  ASSUME NEW n \in Nodes, NEW m \in Messages, NEW before,
         handleMessages(n, m, before), ~Has(n, m), TypeOK
  PROVE  /\ entries' = [entries EXCEPT ![n][m] = now + TTL]
         /\ receivedMessages' = [receivedMessages EXCEPT ![n] = Append(@, m)]
         /\ lastAccepted' = [lastAccepted EXCEPT ![n][m] = now]
         /\ forwardedTo' = [forwardedTo EXCEPT ![n][m] = @ \cup peerSendFuncs[n]]
         /\ inFlight' = [p \in Nodes |-> [before[p] EXCEPT ![m] =
                           IF p \in peerSendFuncs[n] THEN @ + 1 ELSE @]]
<1>1. entries[n][m] = Never
  BY DEF Has
<1>2. entries' = [entries EXCEPT ![n][m] = now + TTL]
  BY <1>1 DEF handleMessages, Add
<1> QED
  BY <1>2 DEF handleMessages

(* handleMessages preserves the types of what it changes. *)
LEMMA HandleType ==
  ASSUME TypeOK, NEW n \in Nodes, NEW m \in Messages,
         NEW before \in [Nodes -> [Messages -> Nat]],
         handleMessages(n, m, before)
  PROVE  /\ entries' \in [Nodes -> [Messages -> Times]]
         /\ receivedMessages' \in [Nodes -> Seq(Messages)]
         /\ inFlight' \in [Nodes -> [Messages -> Nat]]
         /\ lastAccepted' \in [Nodes -> [Messages -> Times]]
         /\ forwardedTo' \in [Nodes -> [Messages -> SUBSET Nodes]]
<1>1. ASSUME Has(n, m)
      PROVE  /\ inFlight' = before
             /\ UNCHANGED <<entries, receivedMessages, lastAccepted, forwardedTo>>
  BY <1>1 DEF handleMessages
<1>2. ASSUME ~Has(n, m)
      PROVE  /\ entries' \in [Nodes -> [Messages -> Times]]
             /\ receivedMessages' \in [Nodes -> Seq(Messages)]
             /\ inFlight' \in [Nodes -> [Messages -> Nat]]
             /\ lastAccepted' \in [Nodes -> [Messages -> Times]]
             /\ forwardedTo' \in [Nodes -> [Messages -> SUBSET Nodes]]
  <2>1. now \in Times /\ now + TTL \in Times
    BY TimeAssumption DEF TypeOK, Times
  <2>2. /\ entries \in [Nodes -> [Messages -> Times]]
        /\ lastAccepted \in [Nodes -> [Messages -> Times]]
        /\ forwardedTo \in [Nodes -> [Messages -> SUBSET Nodes]]
        /\ receivedMessages \in [Nodes -> Seq(Messages)]
        /\ peerSendFuncs[n] \in SUBSET Nodes
    BY DEF TypeOK
  <2>3. /\ entries' = [entries EXCEPT ![n][m] = now + TTL]
        /\ receivedMessages' = [receivedMessages EXCEPT ![n] = Append(@, m)]
        /\ lastAccepted' = [lastAccepted EXCEPT ![n][m] = now]
        /\ forwardedTo' = [forwardedTo EXCEPT ![n][m] = @ \cup peerSendFuncs[n]]
        /\ inFlight' = [p \in Nodes |-> [before[p] EXCEPT ![m] =
                          IF p \in peerSendFuncs[n] THEN @ + 1 ELSE @]]
    BY <1>2, HandleNew
  <2>4. entries' \in [Nodes -> [Messages -> Times]]
    BY <2>1, <2>2, <2>3
  <2>5. receivedMessages' \in [Nodes -> Seq(Messages)]
    BY <2>2, <2>3
  <2>6. lastAccepted' \in [Nodes -> [Messages -> Times]]
    BY <2>1, <2>2, <2>3
  <2>7. forwardedTo' \in [Nodes -> [Messages -> SUBSET Nodes]]
    BY <2>2, <2>3
  <2>8. inFlight' \in [Nodes -> [Messages -> Nat]]
    BY <2>3
  <2> QED
    BY <2>4, <2>5, <2>6, <2>7, <2>8
<1> QED
  BY <1>1, <1>2 DEF TypeOK

(* Every step preserves the types. *)
LEMMA TypeStep == TypeOK /\ [Next]_vars => TypeOK'
<1> SUFFICES ASSUME TypeOK, [Next]_vars PROVE TypeOK'
  OBVIOUS
<1>1. ASSUME NEW n \in Nodes, NEW m \in Messages, Publish(n, m) PROVE TypeOK'
  <2>1. inFlight \in [Nodes -> [Messages -> Nat]] /\ handleMessages(n, m, inFlight)
    BY <1>1 DEF Publish, TypeOK
  <2> QED
    BY <1>1, <2>1, HandleType DEF Publish, TypeOK
<1>2. ASSUME NEW n \in Nodes, NEW m \in Messages, HandleIncomingRPC(n, m) PROVE TypeOK'
  <2> DEFINE before == [inFlight EXCEPT ![n][m] = @ - 1]
  <2>1. before \in [Nodes -> [Messages -> Nat]] /\ handleMessages(n, m, before)
    BY <1>2 DEF HandleIncomingRPC, TypeOK
  <2> QED
    BY <1>2, <2>1, HandleType DEF HandleIncomingRPC, TypeOK
<1>3. ASSUME NEW n \in Nodes, NEW m \in Messages, Lose(n, m) PROVE TypeOK'
  BY <1>3 DEF Lose, TypeOK
<1>4. ASSUME NEW n \in Nodes, TakeNext(n) PROVE TypeOK'
  <2>1. /\ Append(handed[n], Head(receivedMessages[n])) \in Seq(Messages)
        /\ Tail(receivedMessages[n]) \in Seq(Messages)
    BY <1>4 DEF TakeNext, TypeOK
  <2> QED
    BY <1>4, <2>1 DEF TakeNext, TypeOK
<1>5. ASSUME NEW n \in Nodes, Close(n) PROVE TypeOK'
  BY <1>5 DEF Close, TypeOK
<1>6. ASSUME NEW n \in Nodes, NEW at \in 0 .. now, Sweep(n, at) PROVE TypeOK'
  <2> DEFINE swept == [k \in Messages |->
                IF entries[n][k] # Never /\ entries[n][k] < at THEN Never ELSE entries[n][k]]
  <2>1. Never \in Times
    BY DEF Times
  <2>2. swept \in [Messages -> Times]
    BY <2>1 DEF TypeOK
  <2>3. entries' = [entries EXCEPT ![n] = swept]
    BY <1>6 DEF Sweep
  <2>4. entries' \in [Nodes -> [Messages -> Times]]
    BY <2>2, <2>3 DEF TypeOK
  <2> QED
    BY <1>6, <2>4 DEF Sweep, TypeOK
<1>7. ASSUME NEW n \in Nodes, NEW p \in Nodes, AddPeer(n, p) \/ RemovePeer(n, p)
      PROVE TypeOK'
  <2>1. CASE AddPeer(n, p)
    BY <2>1 DEF AddPeer, TypeOK
  <2>2. CASE RemovePeer(n, p)
    BY <2>2 DEF RemovePeer, TypeOK
  <2> QED
    BY <1>7, <2>1, <2>2
<1>8. CASE Tick
  BY <1>8 DEF Tick, TypeOK
<1>9. CASE UNCHANGED vars
  BY <1>9 DEF vars, TypeOK
<1> QED
  BY <1>1, <1>2, <1>3, <1>4, <1>5, <1>6, <1>7, <1>8, <1>9 DEF Next

(* Every variable keeps its type: in particular a handler never takes a     *)
(* datagram that is not there.                                              *)
THEOREM TypeCorrect == Spec => []TypeOK
  BY TypeInit, TypeStep, PTL DEF Spec

(* --------------------------- The time cache --------------------------- *)

(* A router that takes a message for new: what changes, on whichever path   *)
(* the message came.                                                        *)
LEMMA NewMessage ==
  ASSUME TypeOK, NEW n \in Nodes, NEW m \in Messages, ~Has(n, m),
         Publish(n, m) \/ HandleIncomingRPC(n, m)
  PROVE  /\ entries' = [entries EXCEPT ![n][m] = now + TTL]
         /\ receivedMessages' = [receivedMessages EXCEPT ![n] = Append(@, m)]
         /\ lastAccepted' = [lastAccepted EXCEPT ![n][m] = now]
         /\ forwardedTo' = [forwardedTo EXCEPT ![n][m] = @ \cup peerSendFuncs[n]]
         /\ \A p \in peerSendFuncs[n] : inFlight'[p][m] > 0
         /\ \A p \in Nodes, k \in Messages :
              inFlight[p][k] > 0 => inFlight'[p][k] > 0 \/ (p = n /\ k = m)
         /\ UNCHANGED <<peerSendFuncs, now, lost, handed>>
<1> DEFINE forwarded(before) ==
             [p \in Nodes |-> [before[p] EXCEPT ![m] =
                IF p \in peerSendFuncs[n] THEN @ + 1 ELSE @]]
<1>1. /\ inFlight \in [Nodes -> [Messages -> Nat]]
      /\ peerSendFuncs[n] \in SUBSET Nodes
  BY DEF TypeOK
<1>2. CASE Publish(n, m)
  <2>1. handleMessages(n, m, inFlight) /\ UNCHANGED <<peerSendFuncs, now, lost, handed>>
    BY <1>2 DEF Publish
  <2>2. /\ entries' = [entries EXCEPT ![n][m] = now + TTL]
        /\ receivedMessages' = [receivedMessages EXCEPT ![n] = Append(@, m)]
        /\ lastAccepted' = [lastAccepted EXCEPT ![n][m] = now]
        /\ forwardedTo' = [forwardedTo EXCEPT ![n][m] = @ \cup peerSendFuncs[n]]
        /\ inFlight' = forwarded(inFlight)
    BY <2>1, HandleNew
  <2> QED
    BY <1>1, <2>1, <2>2
<1>3. CASE HandleIncomingRPC(n, m)
  <2> DEFINE before == [inFlight EXCEPT ![n][m] = @ - 1]
  <2>1. /\ handleMessages(n, m, before)
        /\ UNCHANGED <<peerSendFuncs, now, lost, handed>>
        /\ inFlight[n][m] > 0
    BY <1>3 DEF HandleIncomingRPC
  <2> HIDE DEF before
  <2>2. /\ entries' = [entries EXCEPT ![n][m] = now + TTL]
        /\ receivedMessages' = [receivedMessages EXCEPT ![n] = Append(@, m)]
        /\ lastAccepted' = [lastAccepted EXCEPT ![n][m] = now]
        /\ forwardedTo' = [forwardedTo EXCEPT ![n][m] = @ \cup peerSendFuncs[n]]
        /\ inFlight' = forwarded(before)
    BY <2>1, HandleNew
  <2>3. /\ before \in [Nodes -> [Messages -> Nat]]
        /\ \A p \in Nodes, k \in Messages :
             inFlight[p][k] > 0 => before[p][k] > 0 \/ (p = n /\ k = m)
    BY <1>1, <2>1 DEF before
  <2> QED
    BY <1>1, <2>1, <2>2, <2>3
<1> QED
  BY <1>2, <1>3

(* A duplicate only leaves the network. *)
LEMMA Duplicate ==
  ASSUME TypeOK, NEW n \in Nodes, NEW m \in Messages, Has(n, m),
         Publish(n, m) \/ HandleIncomingRPC(n, m)
  PROVE  /\ UNCHANGED <<entries, receivedMessages, lastAccepted, forwardedTo,
                        peerSendFuncs, now, lost, handed>>
         /\ \A p \in Nodes, k \in Messages :
              inFlight[p][k] > 0 => inFlight'[p][k] > 0 \/ (p = n /\ k = m)
<1>1. CASE Publish(n, m)
  BY <1>1 DEF Publish, handleMessages
<1>2. CASE HandleIncomingRPC(n, m)
  BY <1>2 DEF HandleIncomingRPC, handleMessages, TypeOK
<1> QED
  BY <1>1, <1>2

(* An entry was made when its message was last taken for new and expires    *)
(* TTL later, and an entry that has not expired is there.                   *)
CacheInv ==
  /\ \A n \in Nodes, m \in Messages :
       Has(n, m) => /\ m \in Accepted(n)
                    /\ entries[n][m] = lastAccepted[n][m] + TTL
  /\ RememberedForTTL

(* The cache starts empty and nothing has been accepted. *)
LEMMA CacheInit == Init => CacheInv
  BY DEF Init, CacheInv, RememberedForTTL, Has, Accepted

(* Every step keeps the expiration times right.                             *)
LEMMA CacheStep == TypeOK /\ CacheInv /\ [Next]_vars => CacheInv'
<1> SUFFICES ASSUME TypeOK, CacheInv, [Next]_vars,
                    NEW n \in Nodes, NEW m \in Messages
             PROVE  /\ Has(n, m)' => /\ m \in Accepted(n)'
                                     /\ entries'[n][m] = lastAccepted'[n][m] + TTL
                    /\ m \in Accepted(n)' /\ now' <= lastAccepted'[n][m] + TTL
                         => Has(n, m)'
  BY DEF CacheInv, RememberedForTTL
<1> DEFINE Goal == /\ Has(n, m)' => /\ m \in Accepted(n)'
                                    /\ entries'[n][m] = lastAccepted'[n][m] + TTL
                   /\ m \in Accepted(n)' /\ now' <= lastAccepted'[n][m] + TTL
                        => Has(n, m)'
<1>1. /\ Has(n, m) => m \in Accepted(n) /\ entries[n][m] = lastAccepted[n][m] + TTL
      /\ m \in Accepted(n) /\ now <= lastAccepted[n][m] + TTL => Has(n, m)
  BY DEF CacheInv, RememberedForTTL
<1>2. /\ entries \in [Nodes -> [Messages -> Times]]
      /\ lastAccepted \in [Nodes -> [Messages -> Times]]
      /\ now \in Nat /\ now # Never /\ now + TTL \in Nat /\ now + TTL # Never
  BY TimeAssumption DEF TypeOK
<1>3. ASSUME UNCHANGED <<entries, lastAccepted, now>> PROVE Goal
  BY <1>1, <1>3 DEF Has, Accepted
<1>4. ASSUME NEW k \in Nodes, NEW l \in Messages,
             Publish(k, l) \/ HandleIncomingRPC(k, l)
      PROVE  Goal
  <2>1. CASE Has(k, l)
    BY <1>3, <1>4, <2>1, Duplicate
  <2>2. ASSUME ~Has(k, l) PROVE Goal
    <3>1. /\ entries' = [entries EXCEPT ![k][l] = now + TTL]
          /\ lastAccepted' = [lastAccepted EXCEPT ![k][l] = now]
          /\ now' = now
      BY <1>4, <2>2, NewMessage
    <3> QED
      BY <1>1, <1>2, <3>1 DEF Has, Accepted
  <2> QED
    BY <2>1, <2>2
<1>5. ASSUME NEW k \in Nodes, NEW at \in 0 .. now, Sweep(k, at) PROVE Goal
  <2>1. /\ UNCHANGED <<lastAccepted, now>>
        /\ entries'[n][m] = IF n = k /\ entries[n][m] # Never /\ entries[n][m] < at
                            THEN Never ELSE entries[n][m]
    BY <1>2, <1>5 DEF Sweep
  <2>2. at \in Nat /\ at <= now
    BY <1>2
  <2> QED
    BY <1>1, <1>2, <2>1, <2>2, TimeAssumption DEF Has, Accepted, Times
<1>6. CASE Tick
  <2>1. now' = now + 1 /\ UNCHANGED <<entries, lastAccepted>>
    BY <1>6 DEF Tick
  <2> QED
    BY <1>1, <1>2, <2>1, TimeAssumption DEF Has, Accepted, Times
<1>7. ASSUME NEW k \in Nodes, NEW l \in Messages, Lose(k, l) PROVE Goal
  BY <1>3, <1>7 DEF Lose
<1>8. ASSUME NEW k \in Nodes, TakeNext(k) \/ Close(k) PROVE Goal
  BY <1>3, <1>8 DEF TakeNext, Close
<1>9. ASSUME NEW k \in Nodes, NEW l \in Nodes, AddPeer(k, l) \/ RemovePeer(k, l)
      PROVE  Goal
  BY <1>3, <1>9 DEF AddPeer, RemovePeer
<1>10. CASE UNCHANGED vars
  BY <1>3, <1>10 DEF vars
<1> QED
  BY <1>4, <1>5, <1>6, <1>7, <1>8, <1>9, <1>10 DEF Next

(* No router forgets a message before its time to live is over, whatever    *)
(* sweeps, duplicates and republications come in between.                   *)
THEOREM CacheRemembers == Spec => []RememberedForTTL
<1>1. CacheInv => RememberedForTTL
  BY DEF CacheInv
<1> QED
  BY <1>1, TypeInit, TypeStep, CacheInit, CacheStep, PTL DEF Spec

(* A message is taken for new only when the cache does not have it. *)
LEMMA AcceptStep ==
  ASSUME TypeOK, [Next]_vars, NEW n \in Nodes, NEW m \in Messages,
         lastAccepted'[n][m] # lastAccepted[n][m]
  PROVE  /\ Publish(n, m) \/ HandleIncomingRPC(n, m)
         /\ ~Has(n, m)
         /\ lastAccepted'[n][m] = now
<1>1. lastAccepted \in [Nodes -> [Messages -> Times]]
  BY DEF TypeOK
<1>2. PICK k \in Nodes, l \in Messages : Publish(k, l) \/ HandleIncomingRPC(k, l)
  BY DEF Next, vars, Lose, TakeNext, Close, Sweep, AddPeer, RemovePeer, Tick
<1>3. ~Has(k, l)
  BY <1>2, Duplicate
<1>4. lastAccepted' = [lastAccepted EXCEPT ![k][l] = now]
  BY <1>2, <1>3, NewMessage
<1>5. n = k /\ m = l /\ lastAccepted'[n][m] = now
  BY <1>1, <1>4
<1> QED
  BY <1>2, <1>3, <1>5

(* No node takes a message as new a second time within TTL.                 *)
THEOREM NoEarlyDuplicate == Spec => NoDuplicateWithinTTL
<1> DEFINE Late == \A n \in Nodes, m \in Messages :
             (/\ m \in Accepted(n)
              /\ lastAccepted'[n][m] # lastAccepted[n][m])
                => lastAccepted'[n][m] > lastAccepted[n][m] + TTL
<1>1. TypeOK /\ CacheInv /\ [Next]_vars => [Late]_vars
  <2> SUFFICES ASSUME TypeOK, CacheInv, [Next]_vars, NEW n \in Nodes, NEW m \in Messages,
                      m \in Accepted(n), lastAccepted'[n][m] # lastAccepted[n][m]
               PROVE  lastAccepted'[n][m] > lastAccepted[n][m] + TTL
    OBVIOUS
  <2>1. ~Has(n, m) /\ lastAccepted'[n][m] = now
    BY AcceptStep
  <2>2. ~(now <= lastAccepted[n][m] + TTL)
    BY <2>1 DEF CacheInv, RememberedForTTL
  <2>3. now \in Nat /\ lastAccepted[n][m] \in Nat /\ TTL \in Nat
    BY TimeAssumption DEF TypeOK, Accepted, Times
  <2> QED
    BY <2>1, <2>2, <2>3
<1> QED
  BY <1>1, TypeInit, TypeStep, CacheInit, CacheStep, PTL
     DEF Spec, NoDuplicateWithinTTL

(* ---------------------------- The flood ------------------------------- *)

(* A message once accepted stays so. *)
LEMMA AcceptedGrows ==
  ASSUME TypeOK, [Next]_vars, NEW n \in Nodes
  PROVE  Accepted(n) \subseteq Accepted(n)'
<1> SUFFICES ASSUME NEW m \in Messages, lastAccepted[n][m] # Never
             PROVE  lastAccepted'[n][m] # Never
  BY DEF Accepted
<1>1. CASE lastAccepted'[n][m] = lastAccepted[n][m]
  BY <1>1
<1>2. CASE lastAccepted'[n][m] # lastAccepted[n][m]
  BY <1>2, AcceptStep, TimeAssumption DEF TypeOK
<1> QED
  BY <1>1, <1>2

(* The router that handles a message has accepted it afterwards, if not     *)
(* before.                                                                  *)
LEMMA AcceptedByHandler ==
  ASSUME TypeOK, CacheInv, NEW n \in Nodes, NEW m \in Messages,
         Publish(n, m) \/ HandleIncomingRPC(n, m)
  PROVE  m \in Accepted(n)'
<1>1. CASE Has(n, m)
  <2>1. m \in Accepted(n) /\ lastAccepted' = lastAccepted
    BY <1>1, Duplicate DEF CacheInv
  <2> QED
    BY <2>1 DEF Accepted
<1>2. CASE ~Has(n, m)
  <2>1. lastAccepted' = [lastAccepted EXCEPT ![n][m] = now]
    BY <1>2, NewMessage
  <2> QED
    BY <2>1, TimeAssumption DEF TypeOK, Accepted
<1> QED
  BY <1>1, <1>2

(* Initially nothing has been forwarded. *)
LEMMA HoleInit == Init => NoHole
  BY DEF Init, NoHole

(* A copy that leaves the network was handled or lost, and a copy is made   *)
(* for whoever is added to forwardedTo.                                     *)
LEMMA HoleStep == TypeOK /\ CacheInv /\ NoHole /\ [Next]_vars => NoHole'
<1> SUFFICES ASSUME TypeOK, CacheInv, NoHole, [Next]_vars,
                    NEW n \in Nodes, NEW p \in Nodes, NEW m \in Messages,
                    p \in forwardedTo'[n][m]
             PROVE  m \in Accepted(p)' \/ inFlight'[p][m] > 0 \/ m \in lost'[p]
  BY DEF NoHole
<1> DEFINE Reached == m \in Accepted(p)' \/ inFlight'[p][m] > 0 \/ m \in lost'[p]
<1>1. Accepted(p) \subseteq Accepted(p)'
  BY AcceptedGrows
<1>2. p \in forwardedTo[n][m] =>
        m \in Accepted(p) \/ inFlight[p][m] > 0 \/ m \in lost[p]
  BY DEF NoHole
<1>3. ASSUME UNCHANGED <<forwardedTo, inFlight, lost>> PROVE Reached
  BY <1>1, <1>2, <1>3
<1>4. ASSUME NEW k \in Nodes, NEW l \in Messages,
             Publish(k, l) \/ HandleIncomingRPC(k, l)
      PROVE  Reached
  <2>1. l \in Accepted(k)'
    BY <1>4, AcceptedByHandler
  <2>2. CASE Has(k, l)
    <3>1. /\ UNCHANGED <<forwardedTo, lost>>
          /\ inFlight[p][m] > 0 => inFlight'[p][m] > 0 \/ (p = k /\ m = l)
      BY <1>4, <2>2, Duplicate
    <3> QED
      BY <1>1, <1>2, <2>1, <3>1
  <2>3. CASE ~Has(k, l)
    <3>1. /\ forwardedTo' = [forwardedTo EXCEPT ![k][l] = @ \cup peerSendFuncs[k]]
          /\ \A q \in peerSendFuncs[k] : inFlight'[q][l] > 0
          /\ inFlight[p][m] > 0 => inFlight'[p][m] > 0 \/ (p = k /\ m = l)
          /\ lost' = lost
      BY <1>4, <2>3, NewMessage
    <3>2. p \in forwardedTo[n][m] \/ (m = l /\ p \in peerSendFuncs[k])
      BY <3>1 DEF TypeOK
    <3> QED
      BY <1>1, <1>2, <2>1, <3>1, <3>2
  <2> QED
    BY <2>2, <2>3
<1>5. ASSUME NEW k \in Nodes, NEW l \in Messages, Lose(k, l) PROVE Reached
  <2>1. /\ forwardedTo' = forwardedTo
        /\ lost' = [lost EXCEPT ![k] = @ \cup {l}]
        /\ inFlight' = [inFlight EXCEPT ![k][l] = @ - 1]
    BY <1>5 DEF Lose
  <2> QED
    BY <1>1, <1>2, <2>1 DEF TypeOK
<1>6. ASSUME NEW k \in Nodes, TakeNext(k) \/ Close(k) PROVE Reached
  BY <1>3, <1>6 DEF TakeNext, Close
<1>7. ASSUME NEW k \in Nodes, NEW at \in 0 .. now, Sweep(k, at) PROVE Reached
  BY <1>3, <1>7 DEF Sweep
<1>8. ASSUME NEW k \in Nodes, NEW l \in Nodes, AddPeer(k, l) \/ RemovePeer(k, l)
      PROVE  Reached
  BY <1>3, <1>8 DEF AddPeer, RemovePeer
<1>9. CASE Tick \/ UNCHANGED vars
  BY <1>3, <1>9 DEF Tick, vars
<1> QED
  BY <1>4, <1>5, <1>6, <1>7, <1>8, <1>9 DEF Next

(* Whoever a router copied a message for has it, will get it, or the        *)
(* network lost it.                                                         *)
THEOREM FloodHasNoHole == Spec => []NoHole
  BY TypeInit, TypeStep, CacheInit, CacheStep, HoleInit, HoleStep, PTL DEF Spec

(* Without churn a router copies what it accepts for all its neighbours.    *)
ForwardedToAll ==
  /\ peerSendFuncs = Neighbours
  /\ \A n \in Nodes, m \in Messages :
       m \in Accepted(n) => Neighbours[n] \subseteq forwardedTo[n][m]

(* Every step of a network without churn forwards to all neighbours. *)
LEMMA ForwardStep ==
  ASSUME ~Dynamic
  PROVE  TypeOK /\ ForwardedToAll /\ [Next]_vars => ForwardedToAll'
<1> SUFFICES ASSUME TypeOK, ForwardedToAll, [Next]_vars PROVE ForwardedToAll'
  OBVIOUS
<1>1. peerSendFuncs' = peerSendFuncs
  BY DEF Next, vars, Publish, HandleIncomingRPC, Lose, TakeNext, Close, Sweep,
         AddPeer, RemovePeer, Tick
<1>2. ASSUME NEW k \in Nodes, NEW l \in Messages,
             Publish(k, l) \/ HandleIncomingRPC(k, l), ~Has(k, l),
             NEW n \in Nodes, NEW m \in Messages, m \in Accepted(n)'
      PROVE  Neighbours[n] \subseteq forwardedTo'[n][m]
  <2>1. /\ forwardedTo' = [forwardedTo EXCEPT ![k][l] = @ \cup peerSendFuncs[k]]
        /\ lastAccepted' = [lastAccepted EXCEPT ![k][l] = now]
    BY <1>2, NewMessage
  <2>2. CASE n = k /\ m = l
    BY <2>1, <2>2 DEF TypeOK, ForwardedToAll
  <2>3. CASE ~(n = k /\ m = l)
    <3>1. /\ forwardedTo'[n][m] = forwardedTo[n][m]
          /\ lastAccepted'[n][m] = lastAccepted[n][m]
      BY <2>1, <2>3 DEF TypeOK
    <3> QED
      BY <1>2, <3>1 DEF Accepted, ForwardedToAll
  <2> QED
    BY <2>2, <2>3
<1>3. CASE UNCHANGED <<lastAccepted, forwardedTo>>
  BY <1>1, <1>3 DEF Accepted, ForwardedToAll
<1>4. ASSUME NEW k \in Nodes, NEW l \in Messages,
             Publish(k, l) \/ HandleIncomingRPC(k, l)
      PROVE  ForwardedToAll'
  <2>1. CASE Has(k, l)
    BY <1>3, <1>4, <2>1, Duplicate
  <2>2. CASE ~Has(k, l)
    BY <1>1, <1>2, <1>4, <2>2 DEF ForwardedToAll
  <2> QED
    BY <2>1, <2>2
<1> QED
  BY <1>3, <1>4 DEF Next, vars, Lose, TakeNext, Close, Sweep, AddPeer,
                    RemovePeer, Tick

(* Without churn, whatever the topology, neighbours have the same messages  *)
(* once nothing is on its way, except for what the network lost.            *)
THEOREM NeighboursAgree ==
  ASSUME ~Dynamic
  PROVE  Spec => []Agreement
<1>1. Init => ForwardedToAll
  BY DEF Init, ForwardedToAll, Accepted
<1>2. TypeOK /\ NoHole /\ ForwardedToAll => Agreement
  <2> SUFFICES ASSUME NoHole, ForwardedToAll,
                      \A n \in Nodes, m \in Messages : inFlight[n][m] = 0,
                      NEW n \in Nodes, NEW p \in Nodes, p \in Neighbours[n],
                      NEW m \in Messages, m \in Accepted(n)
               PROVE  m \in Accepted(p) \/ m \in lost[p]
    BY DEF Agreement, Accepted
  <2>1. p \in forwardedTo[n][m]
    BY DEF ForwardedToAll
  <2>2. m \in Accepted(p) \/ inFlight[p][m] > 0 \/ m \in lost[p]
    BY <2>1 DEF NoHole
  <2> QED
    BY <2>2
<1>3. TypeOK /\ ForwardedToAll /\ [Next]_vars => ForwardedToAll'
  BY ForwardStep
<1> QED
  BY <1>1, <1>2, <1>3, TypeInit, TypeStep, CacheInit, CacheStep, HoleInit,
     HoleStep, PTL DEF Spec

(* ------------------------ Implementing Broadcast ---------------------- *)

(* What a node's application got, followed by what is buffered for it. *)
Seen(n) == handed[n] \o receivedMessages[n]

(* Until the first time to live is over, no node sees a message twice.      *)
SeenOnce ==
  /\ now <= MaxTime
  /\ \A n \in Nodes :
       /\ \A i \in 1 .. Len(Seen(n)) : Seen(n)[i] \in Accepted(n)
       /\ \A i, j \in 1 .. Len(Seen(n)) : Seen(n)[i] = Seen(n)[j] => i = j

(* Initially nothing has been seen. *)
LEMMA SeenInit == Init => SeenOnce
<1> SUFFICES ASSUME Init PROVE SeenOnce
  OBVIOUS
<1>1. now <= MaxTime
  BY TimeAssumption DEF Init
<1>2. ASSUME NEW n \in Nodes PROVE Len(Seen(n)) = 0
  BY DEF Init, Seen
<1> QED
  BY <1>1, <1>2 DEF SeenOnce

(* Each step of the handlers that changes what a node has seen appends a    *)
(* message that the node had not accepted; Next moves one along.            *)
LEMMA SeenStep ==
  ASSUME MaxTime <= TTL
  PROVE  TypeOK /\ CacheInv /\ SeenOnce /\ [Next]_vars => SeenOnce'
<1> SUFFICES ASSUME TypeOK, CacheInv, SeenOnce, [Next]_vars PROVE SeenOnce'
  OBVIOUS
<1> USE DEF SeenOnce
<1>1. ASSUME NEW n \in Nodes
      PROVE  handed[n] \in Seq(Messages) /\ receivedMessages[n] \in Seq(Messages)
  BY DEF TypeOK
<1>2. ASSUME NEW n \in Nodes PROVE Accepted(n) \subseteq Accepted(n)'
  BY AcceptedGrows
<1>3. now' <= MaxTime
  <2>1. now' = now \/ Tick
    BY DEF Next, vars, Publish, HandleIncomingRPC, Lose, TakeNext, Close, Sweep,
           AddPeer, RemovePeer
  <2>2. CASE Tick
    BY <2>2, TimeAssumption DEF TypeOK, Tick
  <2> QED
    BY <2>1, <2>2
<1>4. ASSUME \A n \in Nodes : Seen(n)' = Seen(n) PROVE SeenOnce'
  BY <1>2, <1>3, <1>4
<1>5. ASSUME UNCHANGED <<handed, receivedMessages>> PROVE SeenOnce'
  BY <1>4, <1>5 DEF Seen
<1>6. ASSUME NEW k \in Nodes, NEW m \in Messages,
             Publish(k, m) \/ HandleIncomingRPC(k, m), ~Has(k, m)
      PROVE  SeenOnce'
  <2>1. /\ receivedMessages' = [receivedMessages EXCEPT ![k] = Append(@, m)]
        /\ handed' = handed
    BY <1>6, NewMessage
  <2>2. m \notin Accepted(k)
    <3> SUFFICES ASSUME m \in Accepted(k) PROVE FALSE
      OBVIOUS
    <3>1. ~(now <= lastAccepted[k][m] + TTL)
      BY <1>6 DEF CacheInv, RememberedForTTL
    <3>2. lastAccepted[k][m] \in Nat /\ now \in Nat
      BY DEF TypeOK, Accepted, Times
    <3> QED
      BY <3>1, <3>2, TimeAssumption
  <2>3. m \in Accepted(k)'
    BY <1>6, AcceptedByHandler
  <2>4. ASSUME NEW n \in Nodes, n # k PROVE Seen(n)' = Seen(n)
    BY <2>1, <2>4 DEF Seen, TypeOK
  <2>5. Seen(k)' = Append(Seen(k), m)
    <3> DEFINE taken == handed[k]
               buffered == receivedMessages[k]
    <3>1. Seen(k)' = taken \o Append(buffered, m) /\ Seen(k) = taken \o buffered
      BY <2>1 DEF Seen, TypeOK
    <3>2. taken \in Seq(Messages) /\ buffered \in Seq(Messages)
      BY <1>1
    <3> HIDE DEF taken, buffered
    <3>3. taken \o Append(buffered, m) = Append(taken \o buffered, m)
      BY <3>2, ConcatAppend, SMT
    <3> QED
      BY <3>1, <3>3
  <2>6. Seen(k) \in Seq(Messages)
    BY <1>1, ConcatProperties DEF Seen
  <2>7. /\ Len(Seen(k)') = Len(Seen(k)) + 1 /\ Len(Seen(k)) \in Nat
        /\ \A i \in 1 .. Len(Seen(k)) : Seen(k)'[i] = Seen(k)[i]
        /\ Seen(k)'[Len(Seen(k)) + 1] = m
    BY <2>5, <2>6, AppendProperties
  <2>8. /\ \A i \in 1 .. Len(Seen(k)') : Seen(k)'[i] \in Accepted(k)'
        /\ \A i, j \in 1 .. Len(Seen(k)') : Seen(k)'[i] = Seen(k)'[j] => i = j
    <3>1. ASSUME NEW i \in 1 .. Len(Seen(k)')
          PROVE  \/ i \in 1 .. Len(Seen(k)) /\ Seen(k)'[i] = Seen(k)[i]
                                            /\ Seen(k)'[i] \in Accepted(k)
                 \/ i = Len(Seen(k)) + 1 /\ Seen(k)'[i] = m
      BY <2>7
    <3> QED
      BY <1>2, <2>2, <2>3, <3>1
  <2> QED
    BY <1>2, <1>3, <2>4, <2>8
<1>7. ASSUME NEW k \in Nodes, NEW m \in Messages,
             Publish(k, m) \/ HandleIncomingRPC(k, m)
      PROVE  SeenOnce'
  BY <1>5, <1>6, <1>7, Duplicate
<1>8. ASSUME NEW k \in Nodes, TakeNext(k) PROVE SeenOnce'
  <2>1. /\ receivedMessages[k] # <<>>
        /\ handed' = [handed EXCEPT ![k] = Append(@, Head(receivedMessages[k]))]
        /\ receivedMessages' = [receivedMessages EXCEPT ![k] = Tail(@)]
    BY <1>8 DEF TakeNext
  <2>2. Seen(k)' = Seen(k)
    <3>1. Seen(k)' = Append(handed[k], Head(receivedMessages[k])) \o Tail(receivedMessages[k])
      BY <2>1 DEF Seen, TypeOK
    <3>2. handed[k] \in Seq(Messages) /\ receivedMessages[k] \in Seq(Messages)
      BY <1>1
    <3>3. Append(handed[k], Head(receivedMessages[k])) \o Tail(receivedMessages[k])
            = handed[k] \o receivedMessages[k]
      BY <2>1, <3>2, ConcatMove, Zenon
    <3> QED
      BY <3>1, <3>3 DEF Seen
  <2>3. ASSUME NEW n \in Nodes, n # k PROVE Seen(n)' = Seen(n)
    BY <2>1, <2>3 DEF Seen, TypeOK
  <2> QED
    BY <1>4, <2>2, <2>3
<1> QED
  BY <1>5, <1>7, <1>8 DEF Next, vars, Lose, Close, Sweep, AddPeer, RemovePeer, Tick

(* A step of the network is a step of the broadcast or changes nothing      *)
(* there.                                                                   *)
LEMMA BroadcastStep ==
  TypeOK /\ CacheInv /\ SeenOnce /\ [Next]_vars => [Topic!Next]_(Topic!vars)
<1> SUFFICES ASSUME TypeOK, CacheInv, SeenOnce, [Next]_vars
             PROVE  [Topic!Next]_(Topic!vars)
  OBVIOUS
<1>1. ASSUME UNCHANGED <<lastAccepted, handed>> PROVE UNCHANGED Topic!vars
  <2>1. Published' = Published
    BY <1>1 DEF Published, Accepted
  <2> QED
    BY <1>1, <2>1 DEF Topic!vars
<1>2. ASSUME NEW k \in Nodes, NEW m \in Messages,
             Publish(k, m) \/ HandleIncomingRPC(k, m), ~Has(k, m)
      PROVE  Topic!Publish(m)
  <2>1. lastAccepted' = [lastAccepted EXCEPT ![k][m] = now] /\ handed' = handed
    BY <1>2, NewMessage
  <2>2. now # Never
    BY TimeAssumption DEF TypeOK
  <2>3. Accepted(k)' = Accepted(k) \cup {m}
    BY <2>1, <2>2 DEF Accepted, TypeOK
  <2>4. ASSUME NEW n \in Nodes, n # k PROVE Accepted(n)' = Accepted(n)
    BY <2>1, <2>4 DEF Accepted, TypeOK
  <2>5. Published' = Published \cup {m}
    BY <2>3, <2>4 DEF Published
  <2> QED
    BY <2>1, <2>5 DEF Topic!Publish
<1>3. ASSUME NEW k \in Nodes, TakeNext(k)
      PROVE  \E m \in Messages : Topic!Deliver(k, m)
  <2> DEFINE taken == handed[k]
             buffered == receivedMessages[k]
             m == Head(buffered)
  <2>1. /\ buffered # <<>>
        /\ handed' = [handed EXCEPT ![k] = Append(@, m)]
        /\ UNCHANGED lastAccepted
    BY <1>3 DEF TakeNext
  <2>2. taken \in Seq(Messages) /\ buffered \in Seq(Messages)
    BY DEF TypeOK
  <2>3. Len(taken) \in Nat /\ Len(buffered) \in Nat \ {0} /\ m = buffered[1] /\ m \in Messages
    <3> HIDE DEF buffered
    <3> QED
      BY <2>1, <2>2, HeadTailProperties, EmptySeq, LenProperties
  <2>4. /\ Len(Seen(k)) = Len(taken) + Len(buffered)
        /\ \A i \in 1 .. Len(taken) : Seen(k)[i] = taken[i]
        /\ Seen(k)[Len(taken) + 1] = m
    <3>1. Seen(k) = taken \o buffered
      BY DEF Seen
    <3> HIDE DEF taken, buffered
    <3> QED
      BY <2>2, <2>3, <3>1, ConcatProperties
  <2> HIDE DEF taken, buffered, m
  <2> DEFINE next == Len(taken) + 1
  <2>5. next \in 1 .. Len(Seen(k)) /\ Seen(k)[next] = m /\ m \in Accepted(k)
    <3>1. next \in 1 .. Len(Seen(k))
      BY <2>3, <2>4
    <3> QED
      BY <2>4, <3>1 DEF SeenOnce
  <2>6. ASSUME NEW i \in DOMAIN taken PROVE taken[i] # m
    <3>1. i \in 1 .. Len(taken) /\ i \in 1 .. Len(Seen(k)) /\ i # next
      BY <2>2, <2>3, <2>4, LenProperties
    <3>2. Seen(k)[i] = taken[i] /\ Seen(k)[i] # Seen(k)[next]
      BY <2>4, <2>5, <3>1 DEF SeenOnce
    <3> QED
      BY <2>5, <3>2
  <2>7. ~Topic!Has(k, m)
    BY <2>6 DEF Topic!Has, taken
  <2>8. Published' = Published /\ m \in Published
    BY <2>1, <2>5 DEF Published, Accepted
  <2> QED
    BY <2>1, <2>3, <2>7, <2>8 DEF Topic!Deliver
<1>4. ASSUME NEW k \in Nodes, NEW m \in Messages,
             Publish(k, m) \/ HandleIncomingRPC(k, m)
      PROVE  [Topic!Next]_(Topic!vars)
  <2>1. CASE Has(k, m)
    BY <1>1, <1>4, <2>1, Duplicate
  <2>2. CASE ~Has(k, m)
    BY <1>2, <1>4, <2>2 DEF Topic!Next
  <2> QED
    BY <2>1, <2>2
<1>5. ASSUME NEW k \in Nodes, TakeNext(k) PROVE [Topic!Next]_(Topic!vars)
  BY <1>3, <1>5 DEF Topic!Next
<1> QED
  BY <1>1, <1>4, <1>5 DEF Next, vars, Lose, Close, Sweep, AddPeer, RemovePeer, Tick

(* While no message is older than its time to live, the routers implement   *)
(* the abstract broadcast whatever the network, the peers and Close do: a   *)
(* node hands a message out at most once, and only after it was published.  *)
THEOREM FloodImplementsBroadcast ==
  ASSUME MaxTime <= TTL
  PROVE  Spec => ImplementsBroadcast
<1>1. Init => Topic!Init
  BY DEF Init, Topic!Init, Published, Accepted
<1>2. TypeOK /\ CacheInv /\ SeenOnce /\ [Next]_vars => SeenOnce'
  BY SeenStep
<1> QED
  BY <1>1, <1>2, TypeInit, TypeStep, CacheInit, CacheStep, SeenInit,
     BroadcastStep, PTL DEF Spec, ImplementsBroadcast, Topic!Spec

=============================================================================
