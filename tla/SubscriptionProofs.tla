-------------------------- MODULE SubscriptionProofs --------------------------
(***************************************************************************)
(* Theorems about Subscription.tla for any number of readers, messages and *)
(* calls: its state is well typed, messages are delivered exactly once and *)
(* in order, none is stranded beside a sleeping reader, and every step is  *)
(* a step of FifoQueue or leaves the queue as it is.  All but the first    *)
(* two rest on LockInv, the coherence of the mutex and the notify list.    *)
(***************************************************************************)
EXTENDS Subscription, SequenceTheorems, FiniteSetTheorems, TLAPS

(* Appending to a queue behind what has been taken from it, and taking its  *)
(* oldest element.                                                          *)
LEMMA ConcatAppend ==
  ASSUME NEW S, NEW s \in Seq(S), NEW t \in Seq(S), NEW e \in S
  PROVE  s \o Append(t, e) = Append(s \o t, e)
<1>1. <<e>> \in Seq(S) /\ s \o t \in Seq(S)
  BY ConcatProperties
<1>2. Append(s \o t, e) = (s \o t) \o <<e>> /\ Append(t, e) = t \o <<e>>
  BY <1>1, AppendIsConcat
<1> QED BY <1>1, <1>2, ConcatAssociative

LEMMA ConcatMove ==
  ASSUME NEW S, NEW s \in Seq(S), NEW t \in Seq(S), t # <<>>
  PROVE  Append(s, Head(t)) \o Tail(t) = s \o t
<1>1. Head(t) \in S /\ Tail(t) \in Seq(S) /\ <<Head(t)>> \in Seq(S) /\ Head(t) = t[1]
  BY HeadTailProperties
<1>2. <<Head(t)>> \o Tail(t) = t
  <2>1. Len(t) \in Nat /\ 1 \in 1 .. Len(t) /\ Len(t) \in 1 .. Len(t)
    BY EmptySeq, LenProperties
  <2>2. SubSeq(t, 1, Len(t)) = <<t[1]>> \o SubSeq(t, 1 + 1, Len(t))
    BY <2>1, SubSeqRecursiveFirst
  <2> QED BY <1>1, <2>2, SubSeqFull, TailIsSubSeq
<1> QED BY <1>1, <1>2, AppendIsConcat, ConcatAssociative

(* Init establishes the types. *)
LEMMA TypeInit == Init => TypeOK
<1> SUFFICES ASSUME Init PROVE TypeOK
  OBVIOUS
<1>1. disturbed \in BOOLEAN
  BY Zenon DEF Init
<1> QED
  BY <1>1 DEF Init, TypeOK, PCs

(* Every step preserves the types. *)
LEMMA TypeStep == TypeOK /\ [Next]_vars => TypeOK'
<1> SUFFICES ASSUME TypeOK, [Next]_vars PROVE TypeOK'
  OBVIOUS
<1> USE DEF TypeOK, PCs
<1>1. CASE UNCHANGED vars
  BY <1>1 DEF vars
<1>2. ASSUME NEW m \in Messages, put(m) PROVE TypeOK'
  <2>1. CASE notifyList = <<>>
    BY <1>2, <2>1 DEF put, Signal
  <2>2. CASE notifyList # <<>>
    <3>1. Head(notifyList) \in Readers /\ Tail(notifyList) \in Seq(Readers)
      BY <2>2, HeadTailProperties
    <3>2. /\ pc' = [pc EXCEPT ![Head(notifyList)] = "woken"]
          /\ notifyList' = Tail(notifyList)
      BY <1>2, <2>2 DEF put, Signal
    <3>3. pc' \in [Readers -> PCs] /\ notifyList' \in Seq(Readers)
      BY <3>1, <3>2
    <3>4. receivedMessages' \in Seq(Messages) /\ accepted' \in Seq(Messages)
      BY <1>2 DEF put
    <3> QED
      BY <1>2, <3>3, <3>4 DEF put
  <2> QED
    BY <2>1, <2>2
<1>3. ASSUME NEW r \in Readers, Call(r) PROVE TypeOK'
  BY <1>3 DEF Call
<1>4. ASSUME NEW r \in Readers, Cancel(r) PROVE TypeOK'
  BY <1>4 DEF Cancel, StartBroadcast
<1>5. ASSUME NEW r \in Readers, NextStep(r) PROVE TypeOK'
  <2>1. CASE TakeBuffered(r)
    BY <2>1 DEF TakeBuffered, Pop, Return
  <2>2. CASE FindEmpty(r)
    BY <2>2 DEF FindEmpty
  <2>3. CASE RegisterAfterFunc(r)
    BY <2>3 DEF RegisterAfterFunc, StartBroadcast
  <2>4. CASE Wait(r)
    BY <2>4 DEF Wait
  <2>5. CASE Relock(r)
    BY <2>5 DEF Relock
  <2>6. CASE ReturnError(r)
    BY <2>6 DEF ReturnError, Return
  <2>7. CASE ContinueLoop(r)
    BY <2>7 DEF ContinueLoop
  <2>8. CASE TakeAfterWait(r)
    BY <2>8 DEF TakeAfterWait, Pop, Return
  <2> QED
    BY <1>5, <2>1, <2>2, <2>3, <2>4, <2>5, <2>6, <2>7, <2>8 DEF NextStep
<1>6. CASE RunAfterFunc
  BY <1>6 DEF RunAfterFunc, Broadcast
<1>7. CASE CloseCancel
  BY <1>7 DEF CloseCancel
<1>8. CASE CloseBroadcast
  BY <1>8 DEF CloseBroadcast, Broadcast
<1> QED
  BY <1>1, <1>2, <1>3, <1>4, <1>5, <1>6, <1>7, <1>8 DEF Next

(* The state stays within its types. *)
THEOREM TypeCorrect == Spec => []TypeOK
  BY TypeInit, TypeStep, PTL DEF Spec

-----------------------------------------------------------------------------
(* The mutex and the condition variable *)

(* The mutex has one holder, and it is the reader between Lock and Unlock. *)
MutexOwner == \A r \in Readers : mutex = r <=> pc[r] \in HoldingPCs

(* Exactly the goroutines inside Wait are on the notify list, once each.   *)
WaitersListed ==
  /\ \A r \in Readers : pc[r] = "waiting" <=> \E i \in DOMAIN notifyList : notifyList[i] = r
  /\ \A i, j \in DOMAIN notifyList : notifyList[i] = notifyList[j] => i = j

(* The notify list is as it was, or lost some of its head: what is true of  *)
(* its members stays true, and a reader wakes exactly when it leaves it.    *)
LEMMA WakeHead ==
  ASSUME TypeOK, WaitersListed, notifyList # <<>>,
         pc' = [pc EXCEPT ![Head(notifyList)] = "woken"],
         notifyList' = Tail(notifyList)
  PROVE  WaitersListed' /\ pc[Head(notifyList)] = "waiting"
<1> USE DEF TypeOK, WaitersListed
<1> DEFINE h == Head(notifyList)
<1>1. /\ h \in Readers
      /\ notifyList' \in Seq(Readers)
      /\ Len(notifyList') = Len(notifyList) - 1
      /\ \A i \in 1 .. Len(notifyList') : notifyList'[i] = notifyList[i + 1]
      /\ Len(notifyList) \in Nat \ {0}
  BY HeadTailProperties, EmptySeq
<1>2. h = notifyList[1] /\ 1 \in DOMAIN notifyList
  BY <1>1
<1>3. pc[h] = "waiting"
  BY <1>1, <1>2
<1>4. ASSUME NEW r \in Readers
      PROVE  pc'[r] = "waiting" <=> \E i \in DOMAIN notifyList' : notifyList'[i] = r
  <2>1. CASE r = h
    <3>1. pc'[r] = "woken"
      BY <2>1, <1>1
    <3>2. ASSUME NEW i \in DOMAIN notifyList', notifyList'[i] = r PROVE FALSE
      <4>1. i \in 1 .. Len(notifyList') /\ i + 1 \in DOMAIN notifyList
        BY <1>1, <3>2
      <4>2. notifyList[i + 1] = notifyList[1]
        BY <4>1, <1>1, <1>2, <2>1, <3>2
      <4> QED
        BY <4>1, <4>2, <1>2
    <3> QED
      BY <3>1, <3>2
  <2>2. CASE r # h
    <3>1. pc'[r] = pc[r]
      BY <2>2, <1>1
    <3>2. (\E i \in DOMAIN notifyList : notifyList[i] = r)
            => \E i \in DOMAIN notifyList' : notifyList'[i] = r
      <4> SUFFICES ASSUME NEW i \in DOMAIN notifyList, notifyList[i] = r
                   PROVE  \E j \in DOMAIN notifyList' : notifyList'[j] = r
        OBVIOUS
      <4>1. i # 1 /\ i \in 1 .. Len(notifyList)
        BY <2>2, <1>2
      <4>2. i - 1 \in DOMAIN notifyList' /\ notifyList'[i - 1] = r
        BY <4>1, <1>1
      <4> QED
        BY <4>2
    <3>3. (\E i \in DOMAIN notifyList' : notifyList'[i] = r)
            => \E i \in DOMAIN notifyList : notifyList[i] = r
      <4> SUFFICES ASSUME NEW i \in DOMAIN notifyList', notifyList'[i] = r
                   PROVE  \E j \in DOMAIN notifyList : notifyList[j] = r
        OBVIOUS
      <4>1. i + 1 \in DOMAIN notifyList /\ notifyList[i + 1] = r
        BY <1>1
      <4> QED
        BY <4>1
    <3> QED
      BY <3>1, <3>2, <3>3
  <2> QED
    BY <2>1, <2>2
<1>5. ASSUME NEW i \in DOMAIN notifyList', NEW j \in DOMAIN notifyList',
             notifyList'[i] = notifyList'[j]
      PROVE  i = j
  <2>1. /\ i \in 1 .. Len(notifyList') /\ j \in 1 .. Len(notifyList')
        /\ i + 1 \in DOMAIN notifyList /\ j + 1 \in DOMAIN notifyList
    BY <1>1
  <2>2. notifyList[i + 1] = notifyList[j + 1]
    BY <1>1, <1>5, <2>1
  <2>3. i + 1 = j + 1
    BY <2>1, <2>2
  <2> QED
    BY <2>1, <2>3
<1> QED
  BY <1>3, <1>4, <1>5

(* Broadcast wakes every reader on the list and no other. *)
LEMMA WakeAll ==
  ASSUME TypeOK, WaitersListed, Broadcast
  PROVE  WaitersListed'
  BY DEF TypeOK, WaitersListed, Broadcast, PCs

(* A reader that joins the list was not on it. *)
LEMMA JoinList ==
  ASSUME TypeOK, WaitersListed, NEW r \in Readers, pc[r] # "waiting",
         pc' = [pc EXCEPT ![r] = "waiting"],
         notifyList' = Append(notifyList, r)
  PROVE  WaitersListed'
<1> USE DEF TypeOK, WaitersListed
<1> DEFINE n == Len(notifyList)
<1>1. /\ n \in Nat
      /\ DOMAIN notifyList = 1 .. n
      /\ DOMAIN notifyList' = 1 .. n + 1
      /\ \A i \in 1 .. n : notifyList'[i] = notifyList[i]
      /\ notifyList'[n + 1] = r
  BY AppendProperties, LenProperties
<1>2. ASSUME NEW s \in Readers
      PROVE  pc'[s] = "waiting" <=> \E i \in DOMAIN notifyList' : notifyList'[i] = s
  <2>1. CASE s = r
    <3>1. pc'[s] = "waiting"
      BY <2>1
    <3>2. n + 1 \in DOMAIN notifyList' /\ notifyList'[n + 1] = s
      BY <2>1, <1>1
    <3> QED
      BY <3>1, <3>2
  <2>2. CASE s # r
    <3>1. pc'[s] = pc[s]
      BY <2>2
    <3>2. (\E i \in 1 .. n : notifyList[i] = s)
            <=> (\E i \in 1 .. n + 1 : notifyList'[i] = s)
      BY <2>2, <1>1
    <3> QED
      BY <3>1, <3>2, <1>1
  <2> QED
    BY <2>1, <2>2
<1>3. ASSUME NEW i \in DOMAIN notifyList', NEW j \in DOMAIN notifyList',
             notifyList'[i] = notifyList'[j]
      PROVE  i = j
  <2>1. ASSUME NEW k \in 1 .. n PROVE notifyList[k] # r
    BY <1>1
  <2> QED
    BY <1>1, <1>3, <2>1
<1> QED
  BY <1>2, <1>3

(* The holder recorded in the mutex and the positions of the readers agree, *)
(* and the notify list is the set of waiting readers.                       *)
LockInv == TypeOK /\ MutexOwner /\ WaitersListed

(* Init establishes the lock invariant. *)
LEMMA LockInit == Init => LockInv
<1> SUFFICES ASSUME Init PROVE MutexOwner /\ WaitersListed
  BY TypeInit DEF LockInv
<1> QED
  BY ReadersAssumption DEF Init, MutexOwner, WaitersListed, HoldingPCs

(* Every step preserves the lock invariant. *)
LEMMA LockStep == LockInv /\ [Next]_vars => LockInv'
<1> SUFFICES ASSUME LockInv, [Next]_vars PROVE MutexOwner' /\ WaitersListed'
  BY TypeStep DEF LockInv
<1>0. TypeOK /\ MutexOwner /\ WaitersListed
  BY DEF LockInv
<1>1. CASE UNCHANGED vars
  BY <1>0, <1>1 DEF vars, MutexOwner, WaitersListed
<1>2. ASSUME NEW m \in Messages, put(m) PROVE MutexOwner' /\ WaitersListed'
  <2>1. CASE notifyList = <<>>
    <3>1. UNCHANGED <<mutex, pc, notifyList>>
      BY <1>2, <2>1 DEF put, Signal
    <3> QED
      BY <3>1, <1>0 DEF MutexOwner, WaitersListed
  <2>2. CASE notifyList # <<>>
    <3>1. /\ mutex' = mutex
          /\ pc' = [pc EXCEPT ![Head(notifyList)] = "woken"]
          /\ notifyList' = Tail(notifyList)
      BY <1>2, <2>2 DEF put, Signal
    <3>2. WaitersListed' /\ pc[Head(notifyList)] = "waiting"
      BY <3>1, <2>2, <1>0, WakeHead
    <3>3. MutexOwner'
      BY <3>1, <3>2, <1>0 DEF MutexOwner, HoldingPCs, TypeOK
    <3> QED
      BY <3>2, <3>3
  <2> QED
    BY <2>1, <2>2
<1>3. ASSUME NEW r \in Readers, Call(r) PROVE MutexOwner' /\ WaitersListed'
  BY <1>0, <1>3 DEF Call, MutexOwner, WaitersListed, HoldingPCs, TypeOK
<1>4. ASSUME NEW r \in Readers, Cancel(r) PROVE MutexOwner' /\ WaitersListed'
  BY <1>0, <1>4 DEF Cancel, MutexOwner, WaitersListed
<1>5. ASSUME NEW r \in Readers, NextStep(r) PROVE MutexOwner' /\ WaitersListed'
  <2> USE <1>0, ReadersAssumption DEF MutexOwner, HoldingPCs, TypeOK
  <2>1. CASE TakeBuffered(r)
    BY <2>1 DEF TakeBuffered, Return, WaitersListed
  <2>2. CASE FindEmpty(r)
    BY <2>2 DEF FindEmpty, WaitersListed
  <2>3. CASE RegisterAfterFunc(r)
    BY <2>3 DEF RegisterAfterFunc, WaitersListed
  <2>4. CASE Wait(r)
    <3>1. WaitersListed'
      BY <2>4, JoinList DEF Wait
    <3>2. MutexOwner'
      BY <2>4 DEF Wait
    <3> QED
      BY <3>1, <3>2
  <2>5. CASE Relock(r)
    BY <2>5 DEF Relock, WaitersListed
  <2>6. CASE ReturnError(r)
    BY <2>6 DEF ReturnError, Return, WaitersListed
  <2>7. CASE ContinueLoop(r)
    BY <2>7 DEF ContinueLoop, WaitersListed
  <2>8. CASE TakeAfterWait(r)
    BY <2>8 DEF TakeAfterWait, Return, WaitersListed
  <2> QED
    BY <1>5, <2>1, <2>2, <2>3, <2>4, <2>5, <2>6, <2>7, <2>8 DEF NextStep
<1>6. CASE RunAfterFunc
  BY <1>0, <1>6, WakeAll DEF RunAfterFunc, Broadcast, MutexOwner, HoldingPCs, TypeOK
<1>7. CASE CloseCancel
  BY <1>0, <1>7 DEF CloseCancel, MutexOwner, WaitersListed
<1>8. CASE CloseBroadcast
  BY <1>0, <1>8, WakeAll DEF CloseBroadcast, Broadcast, MutexOwner, HoldingPCs, TypeOK
<1> QED
  BY <1>1, <1>2, <1>3, <1>4, <1>5, <1>6, <1>7, <1>8 DEF Next

-----------------------------------------------------------------------------
(* Exactly-once delivery in order *)

(* Taking the oldest buffered message preserves the delivery history. *)
LEMMA PopFifo ==
  ASSUME TypeOK, FifoExactlyOnce, receivedMessages # <<>>, Pop, accepted' = accepted
  PROVE  FifoExactlyOnce'
  BY ConcatMove DEF TypeOK, FifoExactlyOnce, Pop

(* Every step preserves the delivery history. *)
LEMMA FifoStep == TypeOK /\ FifoExactlyOnce /\ [Next]_vars => FifoExactlyOnce'
<1> SUFFICES ASSUME TypeOK, FifoExactlyOnce, [Next]_vars PROVE FifoExactlyOnce'
  OBVIOUS
<1>1. ASSUME NEW m \in Messages, put(m) PROVE FifoExactlyOnce'
  <2>1. /\ accepted' = Append(accepted, m)
        /\ delivered' \o receivedMessages' = delivered \o Append(receivedMessages, m)
    BY <1>1 DEF put
  <2>2. delivered \o Append(receivedMessages, m) = Append(delivered \o receivedMessages, m)
    BY <1>1, ConcatAppend, SMT DEF TypeOK
  <2> QED
    BY <2>1, <2>2 DEF FifoExactlyOnce
<1>2. ASSUME NEW r \in Readers, NextStep(r) PROVE FifoExactlyOnce'
  <2>1. CASE TakeBuffered(r) \/ TakeAfterWait(r)
    BY <2>1, PopFifo DEF TakeBuffered, TakeAfterWait
  <2>2. CASE \/ FindEmpty(r) \/ RegisterAfterFunc(r) \/ Wait(r)
             \/ Relock(r) \/ ReturnError(r) \/ ContinueLoop(r)
    BY <2>2 DEF FindEmpty, RegisterAfterFunc, Wait, Relock, ReturnError,
                ContinueLoop, FifoExactlyOnce
  <2> QED
    BY <1>2, <2>1, <2>2 DEF NextStep
<1>3. CASE \/ UNCHANGED vars \/ RunAfterFunc \/ CloseCancel \/ CloseBroadcast
           \/ \E r \in Readers : Call(r) \/ Cancel(r)
  BY <1>3 DEF vars, RunAfterFunc, CloseCancel, CloseBroadcast, Call, Cancel,
              FifoExactlyOnce
<1> QED
  BY <1>1, <1>2, <1>3 DEF Next

(* What Next returned, followed by what is buffered, is what put was given: *)
(* no message is lost, duplicated or reordered by errors and cancellations. *)
THEOREM DeliveryCorrect == Spec => []FifoExactlyOnce
<1>1. Init => FifoExactlyOnce
  BY DEF Init, FifoExactlyOnce
<1> QED
  BY <1>1, TypeInit, TypeStep, FifoStep, PTL DEF Spec

-----------------------------------------------------------------------------
(* No message is stranded *)

(* As long as nothing was disturbed no call returns an error.               *)
Undisturbed == ~disturbed => closing = "open" /\ \A r \in Readers : ~ctxDone[r]

StrandInv == LockInv /\ Undisturbed /\ NoStrandedMessage

(* The size of the set of readers on their way, from one state to another:  *)
(* what a bigger set, one more reader and one reader less do to it.         *)
LEMMA OnTheirWaySize ==
  LET before == Cardinality(OnTheirWay)
      after  == Cardinality(OnTheirWay')
  IN  /\ before \in Nat /\ after \in Nat
      /\ OnTheirWay \subseteq OnTheirWay' => before <= after
      /\ \A r : r \notin OnTheirWay /\ OnTheirWay \cup {r} = OnTheirWay' => after = before + 1
      /\ \A r : OnTheirWay \ {r} = OnTheirWay' => after >= before - 1
<1>1. PICK S \in SUBSET Readers : S = OnTheirWay
  BY DEF OnTheirWay
<1>2. PICK T \in SUBSET Readers : T = OnTheirWay'
  BY DEF OnTheirWay
<1>3. /\ IsFiniteSet(S) /\ IsFiniteSet(T)
      /\ Cardinality(S) \in Nat /\ Cardinality(T) \in Nat
  BY ReadersAssumption, FS_Subset, FS_CardinalityType
<1>4. S \subseteq T => Cardinality(S) <= Cardinality(T)
  BY <1>3, FS_Subset
<1>5. ASSUME NEW r, r \notin S, S \cup {r} = T PROVE Cardinality(T) = Cardinality(S) + 1
  BY <1>3, <1>5, FS_AddElement
<1>6. ASSUME NEW r, S \ {r} = T PROVE Cardinality(T) >= Cardinality(S) - 1
  <2>1. Cardinality(T) = IF r \in S THEN Cardinality(S) - 1 ELSE Cardinality(S)
    BY <1>3, <1>6, FS_RemoveElement
  <2> QED BY <1>3, <2>1
<1> QED BY <1>1, <1>2, <1>3, <1>4, <1>5, <1>6

LEMMA StrandInit == Init => StrandInv
<1> SUFFICES ASSUME Init PROVE Undisturbed /\ NoStrandedMessage
  BY LockInit DEF StrandInv
<1>1. Undisturbed
  BY DEF Init, Undisturbed
<1>2. notifyList = <<>>
  BY DEF Init
<1> QED BY <1>1, <1>2 DEF NoStrandedMessage

LEMMA UndisturbedStep == TypeOK /\ Undisturbed /\ [Next]_vars => Undisturbed'
<1> SUFFICES ASSUME TypeOK, Undisturbed, [Next]_vars, ~disturbed'
             PROVE  closing' = "open" /\ \A r \in Readers : ~ctxDone'[r]
  BY DEF Undisturbed
<1>1. CASE UNCHANGED <<closing, ctxDone, disturbed>>
  BY <1>1 DEF Undisturbed
<1>2. ASSUME NEW r \in Readers, Call(r)
      PROVE  closing' = "open" /\ \A s \in Readers : ~ctxDone'[s]
  <2>1. /\ closing' = closing /\ disturbed' = disturbed
        /\ ctxDone' = [ctxDone EXCEPT ![r] = FALSE]
    BY <1>2 DEF Call
  <2>2. \A s \in Readers : ctxDone'[s] = IF s = r THEN FALSE ELSE ctxDone[s]
    BY <2>1 DEF TypeOK
  <2> QED BY <2>1, <2>2 DEF Undisturbed
<1>3. ASSUME NEW r \in Readers, NextStep(r) PROVE UNCHANGED <<closing, ctxDone, disturbed>>
  BY <1>3
  DEF NextStep, TakeBuffered, FindEmpty, RegisterAfterFunc, Wait, Relock, ReturnError,
      ContinueLoop, TakeAfterWait
<1>4. ASSUME CloseBroadcast PROVE FALSE
  BY <1>4 DEF CloseBroadcast, Undisturbed
<1> QED
  BY <1>1, <1>2, <1>3, <1>4 DEF Next, vars, put, Cancel, RunAfterFunc, CloseCancel

(* Each step that buffers a message or takes a reader off its way makes up  *)
(* for it: a signal, or the message that the reader takes.                  *)
LEMMA StrandStep == StrandInv /\ [Next]_vars => NoStrandedMessage'
<1> SUFFICES ASSUME StrandInv, [Next]_vars, ~disturbed', notifyList' # <<>>
             PROVE  Len(receivedMessages') <= Cardinality(OnTheirWay')
  BY DEF NoStrandedMessage
<1> DEFINE before == Cardinality(OnTheirWay)
           after  == Cardinality(OnTheirWay')
<1>1. /\ TypeOK /\ WaitersListed
      /\ Len(receivedMessages) \in Nat /\ before \in Nat /\ after \in Nat
      /\ ~disturbed /\ notifyList # <<>> => Len(receivedMessages) <= before
  BY OnTheirWaySize DEF StrandInv, LockInv, TypeOK, NoStrandedMessage
<1>2. OnTheirWay \subseteq OnTheirWay' => before <= after
  BY OnTheirWaySize
<1>3. \A r : OnTheirWay \ {r} = OnTheirWay' => after >= before - 1
  BY OnTheirWaySize
<1> HIDE DEF before, after
<1>4. CASE /\ UNCHANGED <<receivedMessages, notifyList, disturbed>>
           /\ OnTheirWay \subseteq OnTheirWay'
  BY <1>1, <1>2, <1>4 DEF after
<1>5. ASSUME NEW m \in Messages, put(m)
      PROVE  Len(receivedMessages') <= Cardinality(OnTheirWay')
  <2>1. /\ receivedMessages' = Append(receivedMessages, m) /\ disturbed' = disturbed
        /\ notifyList # <<>>
        /\ pc' = [pc EXCEPT ![Head(notifyList)] = "woken"]
        /\ notifyList' = Tail(notifyList)
    BY <1>5 DEF put, Signal
  <2>2. pc[Head(notifyList)] = "waiting" /\ Head(notifyList) \in Readers
    BY <1>1, <2>1, WakeHead, HeadTailProperties DEF TypeOK
  <2>3. /\ Head(notifyList) \notin OnTheirWay
        /\ OnTheirWay \cup {Head(notifyList)} = OnTheirWay'
    BY <1>1, <2>1, <2>2 DEF OnTheirWay, TypeOK
  <2>4. after = before + 1
    BY <2>3, OnTheirWaySize DEF before, after
  <2>5. Len(receivedMessages') = Len(receivedMessages) + 1
    BY <1>1, <2>1 DEF TypeOK
  <2> QED BY <1>1, <2>1, <2>4, <2>5 DEF after
<1>6. ASSUME NEW r \in Readers, NextStep(r)
      PROVE  Len(receivedMessages') <= Cardinality(OnTheirWay')
  <2>1. CASE TakeBuffered(r) \/ TakeAfterWait(r)
    <3>1. /\ receivedMessages # <<>> /\ receivedMessages' = Tail(receivedMessages)
          /\ pc' = [pc EXCEPT ![r] = "idle"]
          /\ UNCHANGED <<notifyList, disturbed>>
      BY <2>1 DEF TakeBuffered, TakeAfterWait, Pop, Return
    <3>2. OnTheirWay \ {r} = OnTheirWay'
      BY <1>1, <3>1 DEF OnTheirWay, TypeOK
    <3>3. Len(receivedMessages') = Len(receivedMessages) - 1
      BY <1>1, <3>1, HeadTailProperties DEF TypeOK
    <3>4. after >= before - 1
      BY <1>3, <3>2
    <3>5. Len(receivedMessages) <= before
      BY <1>1, <3>1
    <3>6. Len(receivedMessages') <= after
      BY <1>1, <3>3, <3>4, <3>5
    <3> QED BY <3>6 DEF after
  <2>2. CASE FindEmpty(r) \/ RegisterAfterFunc(r) \/ Relock(r) \/ ContinueLoop(r)
    <3>1. /\ UNCHANGED <<receivedMessages, notifyList, disturbed>>
          /\ \/ pc[r] = "locking" /\ pc' = [pc EXCEPT ![r] = "empty"]
             \/ \E new \in {"selecting", "looping"} : pc' = [pc EXCEPT ![r] = new]
      BY <2>2 DEF FindEmpty, RegisterAfterFunc, Relock, ContinueLoop
    <3>2. OnTheirWay \subseteq OnTheirWay'
      BY <1>1, <3>1 DEF OnTheirWay, TypeOK
    <3> QED BY <1>4, <3>1, <3>2
  <2>3. CASE Wait(r)
    <3>1. Len(receivedMessages') = 0
      BY <2>3 DEF Wait
    <3> QED BY <1>1, <3>1 DEF after
  <2>4. CASE ReturnError(r)
    BY <2>4 DEF ReturnError, StrandInv, Undisturbed
  <2> QED BY <1>6, <2>1, <2>2, <2>3, <2>4 DEF NextStep
<1>7. ASSUME NEW r \in Readers, Call(r) PROVE OnTheirWay \subseteq OnTheirWay'
  BY <1>1, <1>7 DEF Call, OnTheirWay, TypeOK
<1> QED
  BY <1>4, <1>5, <1>6, <1>7
  DEF Next, vars, Call, Cancel, RunAfterFunc, CloseCancel, CloseBroadcast, Broadcast,
      OnTheirWay

(* While nothing is cancelled or closed no message lies in the buffer with  *)
(* a reader asleep, unless others are on their way to it: the wakeups of    *)
(* put suffice, for any number of readers and messages.                     *)
THEOREM NothingStranded == Spec => []NoStrandedMessage
<1>1. StrandInv /\ [Next]_vars => StrandInv'
  BY LockStep, UndisturbedStep, StrandStep DEF StrandInv, LockInv
<1>2. StrandInv => NoStrandedMessage
  BY DEF StrandInv
<1> QED BY <1>1, <1>2, StrandInit, PTL DEF Spec

-----------------------------------------------------------------------------
(* The buffer implements the abstract queue *)

(* Waking leaves the set of calls in progress as it is. *)
LEMMA WakeKeepsCalls ==
  ASSUME LockInv, Signal \/ Broadcast
  PROVE  {r \in Readers : pc'[r] # "idle"} = {r \in Readers : pc[r] # "idle"}
<1> USE DEF LockInv, TypeOK
<1>1. CASE Signal /\ notifyList = <<>>
  BY <1>1 DEF Signal
<1>2. CASE Signal /\ notifyList # <<>>
  <2>1. /\ pc' = [pc EXCEPT ![Head(notifyList)] = "woken"]
        /\ notifyList' = Tail(notifyList)
    BY <1>2 DEF Signal
  <2>2. pc[Head(notifyList)] = "waiting" /\ Head(notifyList) \in Readers
    BY <1>2, <2>1, WakeHead, HeadTailProperties
  <2> QED
    BY <2>1, <2>2
<1>3. CASE Broadcast
  BY <1>3 DEF Broadcast
<1> QED
  BY <1>1, <1>2, <1>3

(* A step of the buffer is a step of the queue or leaves it as it is. *)
LEMMA QueueStep == LockInv /\ [Next]_vars => [Queue!Next]_(Queue!vars)
<1> SUFFICES ASSUME LockInv, [Next]_vars PROVE [Queue!Next]_(Queue!vars)
  OBVIOUS
<1> USE DEF LockInv, TypeOK
<1>1. CASE UNCHANGED vars
  BY <1>1 DEF vars, Queue!vars
<1>2. ASSUME NEW m \in Messages, put(m) PROVE Queue!Accept(m)
  <2>1. {r \in Readers : pc'[r] # "idle"} = {r \in Readers : pc[r] # "idle"}
    BY <1>2, WakeKeepsCalls DEF put
  <2> QED
    BY <1>2, <2>1 DEF put, Queue!Accept
<1>3. ASSUME NEW r \in Readers, Call(r) PROVE Queue!Call(r)
  BY <1>3 DEF Call, Queue!Call
<1>4. ASSUME NEW r \in Readers, Cancel(r) PROVE Queue!Cancel(r)
  BY <1>4 DEF Cancel, Queue!Cancel
<1>5. ASSUME NEW r \in Readers, NextStep(r)
      PROVE  Queue!Take(r) \/ Queue!Fail(r) \/ UNCHANGED Queue!vars
  <2>1. CASE TakeBuffered(r)
    BY <2>1 DEF TakeBuffered, Pop, Return, Queue!Take
  <2>2. CASE FindEmpty(r)
    BY <2>2 DEF FindEmpty, Queue!vars
  <2>3. CASE RegisterAfterFunc(r)
    BY <2>3 DEF RegisterAfterFunc, Queue!vars
  <2>4. CASE Wait(r)
    BY <2>4 DEF Wait, Queue!vars
  <2>5. CASE Relock(r)
    BY <2>5 DEF Relock, Queue!vars
  <2>6. CASE ReturnError(r)
    BY <2>6 DEF ReturnError, Return, Queue!Fail
  <2>7. CASE ContinueLoop(r)
    BY <2>7 DEF ContinueLoop, Queue!vars
  <2>8. CASE TakeAfterWait(r)
    BY <2>8 DEF TakeAfterWait, Pop, Return, Queue!Take
  <2> QED
    BY <1>5, <2>1, <2>2, <2>3, <2>4, <2>5, <2>6, <2>7, <2>8 DEF NextStep
<1>6. CASE RunAfterFunc
  <2>1. {r \in Readers : pc'[r] # "idle"} = {r \in Readers : pc[r] # "idle"}
    BY <1>6, WakeKeepsCalls DEF RunAfterFunc
  <2> QED
    BY <1>6, <2>1 DEF RunAfterFunc, Queue!vars
<1>7. ASSUME CloseCancel PROVE Queue!Shut
  <2>1. (closing' # "open") = TRUE
    BY <1>7 DEF CloseCancel
  <2>2. UNCHANGED <<receivedMessages, delivered, pc, ctxDone>>
    BY <1>7 DEF CloseCancel
  <2>3. /\ {r \in Readers : pc'[r] # "idle"} = {r \in Readers : pc[r] # "idle"}
        /\ {r \in Readers : ctxDone'[r]} = {r \in Readers : ctxDone[r]}
    BY <2>2
  <2> QED
    BY <2>1, <2>2, <2>3, Zenon DEF Queue!Shut
<1>8. CASE CloseBroadcast
  <2>1. {r \in Readers : pc'[r] # "idle"} = {r \in Readers : pc[r] # "idle"}
    BY <1>8, WakeKeepsCalls DEF CloseBroadcast
  <2> QED
    BY <1>8, <2>1 DEF CloseBroadcast, Queue!vars
<1> QED
  BY <1>1, <1>2, <1>3, <1>4, <1>5, <1>6, <1>7, <1>8 DEF Next, Queue!Next

(* Seen from its callers the buffer is a first-in first-out queue whose     *)
(* calls fail only when cancelled or closed.                                *)
THEOREM ImplementsFifoQueue == Spec => ImplementsQueue
<1>1. Init => Queue!Init
  BY DEF Init, Queue!Init
<1> QED
  BY <1>1, LockInit, LockStep, QueueStep, PTL
     DEF Spec, ImplementsQueue, Queue!Spec
=============================================================================
