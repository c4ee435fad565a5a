------------------------------ MODULE EcRouterProofs ------------------------------
(***************************************************************************)
(* Safety of EcRouter for any network, topology, messages, code rate and   *)
(* multipliers, with losses and with peers that come and go.               *)
(***************************************************************************)
EXTENDS EcRouter, SequenceTheorems, FiniteSetTheorems, WellFoundedInduction, TLAPS

(* ------------------------------ Sequences ----------------------------- *)

(* Appending to a queue behind what has been taken from it, and taking its  *)
(* oldest element.                                                          *)
LEMMA ConcatAppend ==
  ASSUME NEW S, NEW s \in Seq(S), NEW t \in Seq(S), NEW e \in S
  PROVE  s \o Append(t, e) = Append(s \o t, e)
<1>1. <<e>> \in Seq(S) /\ s \o t \in Seq(S)
  BY ConcatProperties
<1>2. Append(s \o t, e) = (s \o t) \o <<e>> /\ Append(t, e) = t \o <<e>>
  BY <1>1, AppendIsConcat
<1> QED BY <1>1, <1>2, ConcatAssociative

LEMMA ConcatMove ==
  ASSUME NEW S, NEW s \in Seq(S), NEW t \in Seq(S), t # <<>>
  PROVE  Append(s, Head(t)) \o Tail(t) = s \o t
<1>1. Head(t) \in S /\ Tail(t) \in Seq(S) /\ <<Head(t)>> \in Seq(S) /\ Head(t) = t[1]
  BY HeadTailProperties
<1>2. <<Head(t)>> \o Tail(t) = t
  <2>1. Len(t) \in Nat /\ 1 \in 1 .. Len(t) /\ Len(t) \in 1 .. Len(t)
    BY EmptySeq, LenProperties
  <2>2. SubSeq(t, 1, Len(t)) = <<t[1]>> \o SubSeq(t, 1 + 1, Len(t))
    BY <2>1, SubSeqRecursiveFirst
  <2> QED BY <1>1, <2>2, SubSeqFull, TailIsSubSeq
<1> QED BY <1>1, <1>2, AppendIsConcat, ConcatAssociative

(* Of a concatenation, what is listed in either part is listed.             *)
LEMMA ListedConcat ==
  ASSUME NEW S, NEW s \in Seq(S), NEW t \in Seq(S), NEW x
  PROVE  Listed(s \o t, x) <=> Listed(s, x) \/ Listed(t, x)
<1>1. /\ Len(s) \in Nat /\ Len(t) \in Nat
      /\ DOMAIN s = 1 .. Len(s) /\ DOMAIN t = 1 .. Len(t)
      /\ DOMAIN (s \o t) = 1 .. Len(s) + Len(t)
      /\ \A i \in 1 .. Len(s) + Len(t) :
           (s \o t)[i] = IF i <= Len(s) THEN s[i] ELSE t[i - Len(s)]
  OBVIOUS
<1>2. ASSUME Listed(s \o t, x) PROVE Listed(s, x) \/ Listed(t, x)
  <2>1. PICK i \in 1 .. Len(s) + Len(t) : (s \o t)[i] = x
    BY <1>1, <1>2 DEF Listed
  <2>2. CASE i <= Len(s)
    BY <1>1, <2>1, <2>2 DEF Listed
  <2>3. CASE i > Len(s)
    <3>1. i - Len(s) \in DOMAIN t /\ t[i - Len(s)] = x
      BY <1>1, <2>1, <2>3
    <3> QED BY <3>1 DEF Listed
  <2> QED BY <2>1, <2>2, <2>3, <1>1
<1>3. ASSUME Listed(s, x) PROVE Listed(s \o t, x)
  BY <1>1, <1>3 DEF Listed
<1>4. ASSUME Listed(t, x) PROVE Listed(s \o t, x)
  <2>1. PICK i \in 1 .. Len(t) : t[i] = x
    BY <1>1, <1>4 DEF Listed
  <2>2. /\ i + Len(s) \in DOMAIN (s \o t)
        /\ ~ (i + Len(s) <= Len(s))
        /\ (i + Len(s)) - Len(s) = i
    BY <1>1, <2>1
  <2>3. (s \o t)[i + Len(s)] = x
    BY <1>1, <2>1, <2>2
  <2> QED BY <2>2, <2>3 DEF Listed
<1> QED BY <1>2, <1>3, <1>4

(* What is listed once an element has been appended.                        *)
LEMMA ListedAppend ==
  ASSUME NEW S, NEW q \in Seq(S), NEW e \in S, NEW x
  PROVE  Listed(Append(q, e), x) <=> Listed(q, x) \/ x = e
<1>1. /\ Len(q) \in Nat /\ DOMAIN q = 1 .. Len(q)
      /\ DOMAIN Append(q, e) = 1 .. Len(q) + 1
      /\ Append(q, e)[Len(q) + 1] = e
      /\ \A i \in 1 .. Len(q) : Append(q, e)[i] = q[i]
  OBVIOUS
<1> QED BY <1>1 DEF Listed

NoDuplicates(q) == \A i, j \in DOMAIN q : q[i] = q[j] => i = j

(* Nothing of P stands twice in a sequence.                                 *)
Once(q, P) == \A i, j \in DOMAIN q : q[i] = q[j] /\ q[i] \in P => i = j

(* Appending keeps that, for an element that is not listed or not of P.     *)
LEMMA OnceAppend ==
  ASSUME NEW S, NEW q \in Seq(S), NEW e \in S, NEW P, NEW Q \in SUBSET P,
         Once(q, P), e \in Q => ~Listed(q, e)
  PROVE  Once(Append(q, e), Q)
<1>1. /\ Len(q) \in Nat /\ DOMAIN q = 1 .. Len(q)
      /\ DOMAIN Append(q, e) = 1 .. Len(q) + 1
      /\ Append(q, e)[Len(q) + 1] = e
      /\ \A i \in 1 .. Len(q) : Append(q, e)[i] = q[i]
  OBVIOUS
<1> QED BY <1>1 DEF Listed, Once

(* A part of a sequence without duplicates has none.                        *)
LEMMA NoDuplicatesPart ==
  ASSUME NEW S, NEW s \in Seq(S), NEW t \in Seq(S), NoDuplicates(s \o t)
  PROVE  NoDuplicates(s)
<1>1. /\ Len(s) \in Nat /\ Len(t) \in Nat /\ DOMAIN s = 1 .. Len(s)
      /\ DOMAIN (s \o t) = 1 .. Len(s) + Len(t)
      /\ \A i \in 1 .. Len(s) : (s \o t)[i] = s[i]
  OBVIOUS
<1> QED BY <1>1 DEF NoDuplicates

(* A non-empty set of numbers has a least one.                              *)
LEMMA LeastNumber ==
  ASSUME NEW T \in SUBSET Nat, T # {}
  PROVE  \E i \in T : \A j \in T : i <= j
<1> DEFINE below == {0 .. i : i \in T}
<1>1. /\ below \subseteq FiniteSubsetsOf(Nat)
      /\ below # {}
  <2>1. ASSUME NEW i \in T PROVE 0 .. i \in FiniteSubsetsOf(Nat)
    <3>1. i \in Int /\ 0 \in Int /\ 0 .. i \in SUBSET Nat
      OBVIOUS
    <3>2. IsFiniteSet(0 .. i)
      BY ONLY <3>1, FS_Interval
    <3> QED BY <3>1, <3>2 DEF FiniteSubsetsOf
  <2> QED BY <2>1
<1>2. PICK least \in below :
        \A b \in below : ~ (<<b, least>> \in StrictSubsetOrdering(Nat))
  BY <1>1, FS_StrictSubsetOrderingWellFounded, WFMin
<1>3. PICK i \in T : least = 0 .. i
  OBVIOUS
<1>4. ASSUME NEW j \in T, j < i PROVE FALSE
  <2>1. 0 .. j \subseteq 0 .. i /\ i \in 0 .. i /\ i \notin 0 .. j
    BY <1>4
  <2>2. 0 .. j \in SUBSET Nat /\ 0 .. i \in SUBSET Nat /\ 0 .. j # 0 .. i
    BY <2>1
  <2>3. <<0 .. j, least>> \in StrictSubsetOrdering(Nat)
    BY <1>3, <2>1, <2>2 DEF StrictSubsetOrdering
  <2> QED BY <1>2, <2>3
<1> QED BY <1>4

(* ------------------------------ The encoder --------------------------- *)

LEMMA ChunksAreNumbers ==
  /\ DataChunks \in Nat \ {0} /\ MinEmitCount \in Nat \ {0}
  /\ TotalChunks \in Nat \ {0}
  /\ Chunks \subseteq Nat
<1>1. DataChunks * ParityNum \in Nat
  BY EncoderAssumption
<1>2. ASSUME NEW p \in Nat PROVE p \div ParityDen \in Nat
  BY EncoderAssumption
<1>3. ParityChunks \in Nat
  BY <1>1, <1>2 DEF ParityChunks
<1> QED BY <1>3, EncoderAssumption DEF TotalChunks, Chunks

InOrder(e) ==
  \A i, j \in DOMAIN e.chunkOrder :
    (/\ i < j /\ e.emitCounts[e.chunkOrder[j]] > 0
     /\ \A k \in 1 .. i : e.chunkOrder[k] # e.chunkOrder[j])
      => e.emitCounts[e.chunkOrder[i]] >= MinEmitCount

(* What the encoder's methods keep of each entry: only chunks that are      *)
(* stored stand in the order and have been emitted.                         *)
EntryInv(e) ==
  /\ e \in Entry
  /\ \A i \in DOMAIN e.chunkOrder : e.chunkOrder[i] \in e.chunks
  /\ \A c \in Chunks \ e.chunks : e.emitCounts[c] = 0
  /\ e.chunks # {} => e.chunkOrder # <<>>
  /\ InOrder(e)

LEMMA NoEntryInv == EntryInv(NoEntry)
BY DEF NoEntry, EntryInv, Entry, InOrder

LEMMA GenerateKeeps ==
  ASSUME NEW e, EntryInv(e)
  PROVE  /\ EntryInv(GenerateThenAddChunks(e))
         /\ GenerateThenAddChunks(e).chunks = Chunks /\ Chunks # {}
<1> DEFINE new == [i \in 1 .. TotalChunks |-> i - 1]
           g == GenerateThenAddChunks(e)
<1>1. TotalChunks \in Nat \ {0} /\ new \in Seq(Chunks) /\ e.chunkOrder \in Seq(Chunks)
  BY ChunksAreNumbers DEF Chunks, EntryInv, Entry
<1>2. e.chunkOrder \o new \in Seq(Chunks) /\ Len(e.chunkOrder \o new) > 0
  <2> HIDE DEF new
  <2>1. /\ e.chunkOrder \o new \in Seq(Chunks)
        /\ Len(e.chunkOrder \o new) = Len(e.chunkOrder) + Len(new)
        /\ Len(e.chunkOrder) \in Nat
    BY <1>1
  <2>2. Len(new) = TotalChunks
    BY <1>1 DEF new
  <2> QED BY <1>1, <2>1, <2>2
<1> DEFINE q == e.chunkOrder \o new
<1>7. g = [chunks |-> Chunks, chunkOrder |-> q, emitCounts |-> [c \in Chunks |-> 0]]
  BY DEF GenerateThenAddChunks
<1> HIDE DEF new, g
<1>8. q \in Seq(Chunks) /\ q # <<>>
  BY <1>2
<1> HIDE DEF q
<1>3. /\ g.chunks = Chunks /\ g.chunkOrder \in Seq(Chunks) /\ g.chunkOrder # <<>>
      /\ g.emitCounts = [c \in Chunks |-> 0] /\ g \in Entry
  <2>1. [c \in Chunks |-> 0] \in [Chunks -> Nat]
    OBVIOUS
  <2> QED BY <1>7, <1>8, <2>1 DEF Entry
<1>4. InOrder(g)
  <2>1. \A j \in DOMAIN g.chunkOrder : g.emitCounts[g.chunkOrder[j]] = 0
    BY <1>3
  <2> QED BY <2>1 DEF InOrder
<1>5. \A i \in DOMAIN g.chunkOrder : g.chunkOrder[i] \in g.chunks
  BY <1>3
<1>6. Chunks # {}
  BY ChunksAreNumbers DEF Chunks
<1> QED BY <1>3, <1>4, <1>5, <1>6 DEF EntryInv, g

LEMMA AddKeeps ==
  ASSUME NEW e, NEW c, EntryInv(e), Acceptable(e, c)
  PROVE  /\ EntryInv(VerifyThenAddChunk(e, c))
         /\ VerifyThenAddChunk(e, c).chunks = e.chunks \cup {c}
<1> DEFINE a == VerifyThenAddChunk(e, c)
           o == e.chunkOrder
<1>1. /\ c \in Chunks /\ c \notin e.chunks /\ e.chunks \subseteq Chunks
      /\ o \in Seq(Chunks) /\ e.emitCounts \in [Chunks -> Nat]
      /\ e = [chunks |-> e.chunks, chunkOrder |-> o, emitCounts |-> e.emitCounts]
  BY DEF Acceptable, EntryInv, Entry
<1>2. /\ a \in Entry /\ a.chunks = e.chunks \cup {c}
      /\ a.chunkOrder = Append(o, c) /\ a.emitCounts = e.emitCounts
  <2>1. Append(o, c) \in Seq(Chunks) /\ e.chunks \cup {c} \in SUBSET Chunks
    BY <1>1
  <2>2. e \in Entry
    BY DEF EntryInv
  <2> QED BY <2>1, <2>2 DEF VerifyThenAddChunk, Entry
<1>3. a \in Entry /\ a.chunks = e.chunks \cup {c} /\ a.chunkOrder # <<>>
  BY <1>1, <1>2 DEF Entry
<1>4. /\ Len(o) \in Nat /\ DOMAIN o = 1 .. Len(o)
      /\ DOMAIN a.chunkOrder = 1 .. Len(o) + 1
      /\ a.chunkOrder[Len(o) + 1] = c
      /\ \A i \in 1 .. Len(o) : a.chunkOrder[i] = o[i]
      /\ a.emitCounts = e.emitCounts
  BY <1>1, <1>2
<1>5. \A i \in DOMAIN a.chunkOrder : a.chunkOrder[i] \in a.chunks
  BY <1>3, <1>4 DEF EntryInv
<1>6. InOrder(a)
  <2> SUFFICES ASSUME NEW i \in DOMAIN a.chunkOrder, NEW j \in DOMAIN a.chunkOrder,
                      i < j, a.emitCounts[a.chunkOrder[j]] > 0,
                      \A k \in 1 .. i : a.chunkOrder[k] # a.chunkOrder[j]
               PROVE  a.emitCounts[a.chunkOrder[i]] >= MinEmitCount
    BY DEF InOrder
  <2>1. e.emitCounts[c] = 0
    BY <1>1 DEF EntryInv
  <2>2. i \in DOMAIN o /\ j \in DOMAIN o /\ 1 .. i \subseteq 1 .. Len(o)
    BY <1>4, <2>1
  <2>3. \A k \in 1 .. i : o[k] # o[j]
    BY <1>4, <2>2
  <2> QED BY <1>4, <2>2, <2>3 DEF EntryInv, InOrder
<1> QED BY <1>1, <1>3, <1>4, <1>5, <1>6 DEF EntryInv

(* The chunk that EmitChunk emits, if one is due: the first place in the    *)
(* order that is due.                                                       *)
LEMMA EmittedChunk ==
  ASSUME NEW e, EntryInv(e), e.chunks # {}
  PROVE  /\ Emitted(e) \in e.chunks
         /\ Due(e) # {} =>
              \E i \in Due(e) : e.chunkOrder[i] = Emitted(e) /\ \A j \in Due(e) : i <= j
<1> DEFINE o == e.chunkOrder
           first == CHOOSE i \in Due(e) : \A j \in Due(e) : i <= j
<1>1. o \in Seq(Chunks) /\ o # <<>> /\ Len(o) \in Nat /\ DOMAIN o = 1 .. Len(o)
  BY DEF EntryInv, Entry
<1>2. Due(e) \subseteq DOMAIN o
  BY DEF Due
<1>3. CASE Due(e) = {}
  BY <1>1, <1>3 DEF Emitted, EntryInv
<1>4. CASE Due(e) # {}
  <2>1. \E i \in Due(e) : \A j \in Due(e) : i <= j
    BY <1>1, <1>2, <1>4, LeastNumber
  <2>2. first \in Due(e) /\ \A j \in Due(e) : first <= j
    BY <2>1
  <2>3. Emitted(e) = o[first]
    BY <1>4 DEF Emitted
  <2> HIDE DEF first
  <2> QED BY <1>2, <2>2, <2>3 DEF EntryInv
<1> QED BY <1>3, <1>4

LEMMA EmitKeeps ==
  ASSUME NEW e, EntryInv(e), e.chunks # {}
  PROVE  /\ EntryInv(EmitChunk(e)) /\ EmitChunk(e).chunks = e.chunks
         /\ Emitted(e) \in Chunks
<1> DEFINE a == EmitChunk(e)
           o == e.chunkOrder
           x == Emitted(e)
<1>1. /\ e.chunks \subseteq Chunks /\ o \in Seq(Chunks) /\ e.emitCounts \in [Chunks -> Nat]
      /\ e = [chunks |-> e.chunks, chunkOrder |-> o, emitCounts |-> e.emitCounts]
      /\ DOMAIN o = 1 .. Len(o) /\ Len(o) \in Nat
      /\ MinEmitCount \in Nat
  BY ChunksAreNumbers DEF EntryInv, Entry
<1>2. x \in e.chunks /\ x \in Chunks
  BY <1>1, EmittedChunk
<1>3. CASE Due(e) = {}
  BY <1>2, <1>3 DEF EmitChunk
<1>4. CASE Due(e) # {}
  <2>1. PICK f \in Due(e) : o[f] = x /\ \A j \in Due(e) : f <= j
    BY <1>4, EmittedChunk
  <2>2. a = [e EXCEPT !.emitCounts[x] = @ + 1]
    BY <1>4 DEF EmitChunk
  <2> HIDE DEF x
  <2>3. a = [chunks |-> e.chunks, chunkOrder |-> o,
             emitCounts |-> [e.emitCounts EXCEPT ![x] = @ + 1]]
    BY <1>1, <2>2
  <2>4. /\ a.chunks = e.chunks /\ a.chunkOrder = o
        /\ a.emitCounts = [e.emitCounts EXCEPT ![x] = @ + 1] /\ a \in Entry
    BY <1>1, <1>2, <2>3 DEF Entry
  <2>5. /\ a.emitCounts[x] = e.emitCounts[x] + 1
        /\ \A c \in Chunks \ {x} : a.emitCounts[c] = e.emitCounts[c]
    BY <1>1, <1>2, <2>4
  <2>6. InOrder(a)
    <3> SUFFICES ASSUME NEW i \in DOMAIN o, NEW j \in DOMAIN o,
                        i < j, a.emitCounts[o[j]] > 0, \A k \in 1 .. i : o[k] # o[j]
                 PROVE  a.emitCounts[o[i]] >= MinEmitCount
      BY <2>4 DEF InOrder
    <3>1. /\ o[i] \in Chunks /\ o[j] \in Chunks /\ o[i] # o[j]
          /\ e.emitCounts[o[i]] \in Nat /\ a.emitCounts[o[i]] >= e.emitCounts[o[i]]
      BY <1>1, <1>2, <2>5
    <3>4. a.emitCounts[o[i]] \in Nat
      BY <2>4, <3>1 DEF Entry
    <3>2. CASE o[j] = x
      <4>1. f \in 1 .. Len(o) /\ i \in 1 .. Len(o)
        BY <1>1, <2>1 DEF Due
      <4>3. ~ (f <= i)
        <5> SUFFICES ASSUME f <= i PROVE FALSE
          OBVIOUS
        <5>1. f \in 1 .. i
          BY <4>1
        <5> QED BY <2>1, <3>2, <5>1
      <4>2. i \notin Due(e)
        BY <2>1, <4>3
      <4>4. ~ (e.emitCounts[o[i]] < MinEmitCount)
        BY <4>2 DEF Due
      <4> QED BY <1>1, <3>1, <4>4, <3>4
    <3>3. CASE o[j] # x
      <4>1. e.emitCounts[o[i]] >= MinEmitCount
        <5>1. e.emitCounts[o[j]] > 0
          BY <3>1, <3>3, <2>5
        <5> QED BY <5>1, <1>1 DEF EntryInv, InOrder
      <4> QED BY <1>1, <3>1, <4>1, <3>4
    <3> QED BY <3>2, <3>3
  <2>7. \A c \in Chunks \ a.chunks : a.emitCounts[c] = 0
    BY <1>2, <2>4, <2>5 DEF EntryInv
  <2>8. EntryInv(a) /\ a.chunks = e.chunks
    BY <2>4, <2>6, <2>7 DEF EntryInv
  <2> QED BY <1>2, <2>8 DEF x
<1> QED BY <1>3, <1>4

(* ------------------------------ The network --------------------------- *)

(* A goroutine that sends works on a message the encoder stores something   *)
(* of; Publish has stored all of it.                                        *)
Working ==
  /\ \A n \in Nodes : publisher[n].pc # "idle" =>
       entry[n][publisher[n].msg].chunks = Chunks
  /\ \A n, p \in Nodes : handler[n][p].busy =>
       entry[n][handler[n][p].msg].chunks # {}

Entries == \A n \in Nodes, m \in Messages : EntryInv(entry[n][m])

IInv == TypeOK /\ Entries /\ Working

Growing == \A n \in Nodes, m \in Messages : entry[n][m].chunks \subseteq entry'[n][m].chunks

LEMMA BusyHandler ==
  ASSUME NEW h \in Handlers, h.busy
  PROVE  /\ h \in [busy : {TRUE}, msg : Messages, sends : Nat, notify : BOOLEAN]
         /\ h.msg \in Messages /\ h.sends \in Nat
BY DEF Handlers

LEMMA BusyPublisher ==
  ASSUME NEW b \in Publishers, b.pc # "idle"
  PROVE  b.msg \in Messages
BY DEF Publishers

Replaced(n, m, e) ==
  /\ entry' = [entry EXCEPT ![n][m] = e]
  /\ EntryInv(e) /\ entry[n][m].chunks \subseteq e.chunks

(* One entry is replaced by a greater one.                                  *)
LEMMA EntryUpdate ==
  ASSUME TypeOK, Entries, NEW n \in Nodes, NEW m \in Messages, NEW e,
         Replaced(n, m, e)
  PROVE  /\ entry' \in [Nodes -> [Messages -> Entry]] /\ Entries' /\ Growing
         /\ entry'[n][m] = e
         /\ \A k \in Nodes, l \in Messages : k # n \/ l # m => entry'[k][l] = entry[k][l]
<1>1. /\ entry \in [Nodes -> [Messages -> Entry]] /\ e \in Entry /\ EntryInv(e)
      /\ entry' = [entry EXCEPT ![n][m] = e]
      /\ entry[n][m].chunks \subseteq e.chunks
  BY DEF TypeOK, EntryInv, Replaced
<1>2. /\ entry' \in [Nodes -> [Messages -> Entry]] /\ entry'[n][m] = e
      /\ \A k \in Nodes, l \in Messages : k # n \/ l # m => entry'[k][l] = entry[k][l]
  BY <1>1
<1>3. ASSUME NEW k \in Nodes, NEW l \in Messages
      PROVE  EntryInv(entry'[k][l]) /\ entry[k][l].chunks \subseteq entry'[k][l].chunks
  BY <1>1, <1>2 DEF Entries
<1>4. Entries'
  BY <1>3 DEF Entries
<1> QED BY <1>2, <1>3, <1>4 DEF Growing

(* A goroutine emits a chunk and sends it.                                  *)
LEMMA EmitAndSend ==
  ASSUME TypeOK, Entries, NEW n \in Nodes, NEW q \in Nodes, NEW m \in Messages,
         entry[n][m].chunks # {},
         entry' = [entry EXCEPT ![n][m] = EmitChunk(@)],
         inFlight' = inFlight \cup
           {[from |-> n, to |-> q, msg |-> m, chunk |-> Emitted(entry[n][m])]}
  PROVE  /\ entry' \in [Nodes -> [Messages -> Entry]] /\ Entries' /\ Growing
         /\ \A k \in Nodes, l \in Messages : entry'[k][l].chunks = entry[k][l].chunks
         /\ inFlight' \subseteq Datagrams
<1>0. PICK e : e = EmitChunk(entry[n][m])
  OBVIOUS
<1>1. /\ EntryInv(e) /\ e.chunks = entry[n][m].chunks
      /\ Emitted(entry[n][m]) \in Chunks
  BY <1>0, EmitKeeps DEF Entries
<1>2. entry' = [entry EXCEPT ![n][m] = e]
  BY <1>0 DEF TypeOK
<1>3. Replaced(n, m, e)
  BY <1>1, <1>2 DEF Replaced
<1>4. /\ entry' \in [Nodes -> [Messages -> Entry]] /\ Entries' /\ Growing
      /\ entry'[n][m] = e
      /\ \A k \in Nodes, l \in Messages : k # n \/ l # m => entry'[k][l] = entry[k][l]
  BY <1>3, EntryUpdate
<1>5. inFlight' \subseteq Datagrams
  BY <1>1 DEF Datagrams, TypeOK
<1>6. \A k \in Nodes, l \in Messages : entry'[k][l].chunks = entry[k][l].chunks
  BY <1>1, <1>4
<1> QED BY <1>4, <1>5, <1>6

LEMMA TypeInit == Init => IInv
<1> SUFFICES ASSUME Init PROVE IInv
  OBVIOUS
<1>1. NoEntry \in Entry
  BY NoEntryInv DEF EntryInv
<1>2. TypeOK
  BY <1>1, RouterAssumption
  DEF Init, TypeOK, NoHandler, NoPublisher, Handlers, Publishers
<1>3. Entries
  BY NoEntryInv DEF Init, Entries
<1>4. Working
  BY DEF Init, Working, NoHandler, NoPublisher
<1> QED BY <1>2, <1>3, <1>4 DEF IInv

(* What is stored stays stored, and goroutines that work on the messages    *)
(* they worked on keep what they need.                                      *)
LEMMA WorkingKept ==
  ASSUME IInv, Growing, entry' \in [Nodes -> [Messages -> Entry]],
         \A n \in Nodes : publisher'[n].pc # "idle" =>
           \/ publisher[n].pc # "idle" /\ publisher'[n].msg = publisher[n].msg
           \/ /\ publisher'[n].msg \in Messages
              /\ entry'[n][publisher'[n].msg].chunks = Chunks,
         \A n, p \in Nodes : handler'[n][p].busy =>
           \/ handler[n][p].busy /\ handler'[n][p].msg = handler[n][p].msg
           \/ /\ handler'[n][p].msg \in Messages
              /\ entry'[n][handler'[n][p].msg].chunks # {}
  PROVE  Working'
<1>1. \A n \in Nodes, m \in Messages : entry'[n][m].chunks \subseteq Chunks
  BY DEF Entry
<1>2. ASSUME NEW n \in Nodes, publisher'[n].pc # "idle"
      PROVE  entry'[n][publisher'[n].msg].chunks = Chunks
  <2>1. CASE publisher[n].pc # "idle" /\ publisher'[n].msg = publisher[n].msg
    <3>1. publisher[n].msg \in Messages /\ entry[n][publisher[n].msg].chunks = Chunks
      BY <2>1, BusyPublisher DEF IInv, TypeOK, Working
    <3>2. /\ entry'[n][publisher[n].msg].chunks \subseteq Chunks
          /\ Chunks \subseteq entry'[n][publisher[n].msg].chunks
      BY <1>1, <3>1 DEF Growing
    <3>3. entry'[n][publisher[n].msg].chunks = Chunks
      BY <3>2
    <3> QED BY <2>1, <3>3
  <2> QED BY <1>2, <2>1
<1>3. ASSUME NEW n \in Nodes, NEW p \in Nodes, handler'[n][p].busy
      PROVE  entry'[n][handler'[n][p].msg].chunks # {}
  <2>1. CASE handler[n][p].busy /\ handler'[n][p].msg = handler[n][p].msg
    <3>2. handler[n][p] \in Handlers
      BY DEF IInv, TypeOK
    <3>3. handler[n][p].msg \in Messages
      BY <2>1, <3>2, BusyHandler, Zenon
    <3>1. /\ handler[n][p].msg \in Messages
          /\ entry[n][handler[n][p].msg].chunks # {}
      BY <2>1, <3>3 DEF IInv, Working
    <3> QED BY <2>1, <3>1 DEF Growing
  <2> QED BY <1>3, <2>1
<1> QED BY <1>2, <1>3 DEF Working

(* Publish has generated the chunks of m at n, alone or during a handler's  *)
(* critical section.                                                        *)
Started(n, m) ==
  /\ publisher[n].pc = "idle"
  /\ publishes[m] < MaxPublishes
  /\ publishes' = [publishes EXCEPT ![m] = @ + 1]
  /\ publisher' = [publisher EXCEPT ![n] = [pc |-> "queueing", msg |-> m]]
  /\ UNCHANGED <<received, notified, handed>>

LEMMA GenerateStep ==
  ASSUME IInv, NEW n \in Nodes, NEW m \in Messages, PublishGenerate(n, m)
  PROVE  IInv' /\ Growing
<1>1. PICK e : e = GenerateThenAddChunks(entry[n][m])
  OBVIOUS
<1>2. /\ entry[n][m].chunks \subseteq Chunks /\ EntryInv(e) /\ e.chunks = Chunks
      /\ Chunks # {}
  BY <1>1, GenerateKeeps DEF IInv, Entries, TypeOK, Entry
<1>3. Replaced(n, m, e)
  BY <1>1, <1>2 DEF PublishGenerate, IInv, TypeOK, Replaced
<1>4. /\ entry' \in [Nodes -> [Messages -> Entry]] /\ Entries' /\ Growing
      /\ entry'[n][m] = e
  BY <1>3, EntryUpdate DEF IInv
<1>5. /\ publisher' = [publisher EXCEPT ![n] = [pc |-> "queueing", msg |-> m]]
      /\ publisher' \in [Nodes -> Publishers]
      /\ publishes' \in [Messages -> Nat]
      /\ UNCHANGED <<peers, received, notified, handler, inFlight, handed>>
  BY DEF PublishGenerate, IInv, TypeOK, Publishers
<1>6. TypeOK'
  BY <1>4, <1>5 DEF IInv, TypeOK
<1>7. Working'
  <2>1. \A k \in Nodes : publisher'[k].pc # "idle" =>
           \/ publisher[k].pc # "idle" /\ publisher'[k].msg = publisher[k].msg
           \/ /\ publisher'[k].msg \in Messages
              /\ entry'[k][publisher'[k].msg].chunks = Chunks
    BY <1>2, <1>4, <1>5 DEF IInv, TypeOK
  <2> QED BY <1>4, <1>5, <2>1, WorkingKept
<1> QED BY <1>4, <1>6, <1>7 DEF IInv

LEMMA QueueStep ==
  ASSUME IInv, NEW n \in Nodes, PublishQueue(n)
  PROVE  IInv' /\ Growing
<1> DEFINE m == publisher[n].msg
<1>1. /\ publisher[n].pc = "queueing" /\ publisher[n] \in Publishers /\ m \in Messages
  BY BusyPublisher DEF PublishQueue, IInv, TypeOK
<1>2. PICK q \in Shuffles(peers[n]) :
        publisher' = [publisher EXCEPT ![n] =
          IF q = <<>> \/ PublishMultiplier = 0 THEN NoPublisher
          ELSE [pc |-> "sending", msg |-> m,
                sends |-> TotalChunks * PublishMultiplier, to |-> q]]
  BY DEF PublishQueue
<1>3. q \in Seq(Nodes)
  <2>1. peers[n] \in SUBSET Nodes /\ IsFiniteSet(peers[n])
    BY RouterAssumption, FS_Subset DEF IInv, TypeOK
  <2>2. Cardinality(peers[n]) \in Nat
    BY <2>1, FS_CardinalityType
  <2>3. q \in [1 .. Cardinality(peers[n]) -> peers[n]]
    BY DEF Shuffles
  <2> QED BY <2>1, <2>2, <2>3
<1>4. ASSUME ~(q = <<>> \/ PublishMultiplier = 0)
      PROVE  [pc |-> "sending", msg |-> m, sends |-> TotalChunks * PublishMultiplier,
              to |-> q] \in Publishers
  <2>1. TotalChunks * PublishMultiplier \in Nat \ {0}
    BY <1>4, ChunksAreNumbers, RouterAssumption
  <2> HIDE DEF m
  <2> QED BY <1>1, <1>3, <1>4, <2>1 DEF Publishers
<1> DEFINE b == IF q = <<>> \/ PublishMultiplier = 0 THEN NoPublisher
                ELSE [pc |-> "sending", msg |-> m,
                      sends |-> TotalChunks * PublishMultiplier, to |-> q]
<1>5. b \in Publishers /\ (b.pc # "idle" => b.msg = m)
  BY <1>4 DEF NoPublisher, Publishers
<1>6. publisher' = [publisher EXCEPT ![n] = b]
  BY <1>2
<1> HIDE DEF b
<1>7. /\ publisher' \in [Nodes -> Publishers]
      /\ received' \in [Nodes -> Seq(Messages)]
      /\ UNCHANGED <<peers, entry, notified, handler, inFlight, publishes, handed>>
  BY <1>1, <1>5, <1>6 DEF PublishQueue, IInv, TypeOK
<1>8. TypeOK' /\ Entries' /\ Growing
  BY <1>7 DEF IInv, TypeOK, Entries, Growing
<1>9. Working'
  <2>1. \A k \in Nodes : publisher'[k].pc # "idle" =>
          publisher[k].pc # "idle" /\ publisher'[k].msg = publisher[k].msg
    BY <1>1, <1>5, <1>6 DEF IInv, TypeOK
  <2>2. \A k, p \in Nodes : handler'[k][p].busy =>
          handler[k][p].busy /\ handler'[k][p].msg = handler[k][p].msg
    BY <1>7
  <2>3. entry' \in [Nodes -> [Messages -> Entry]]
    BY <1>8 DEF TypeOK
  <2> QED BY <1>8, <2>1, <2>2, <2>3, WorkingKept
<1> QED BY <1>8, <1>9 DEF IInv

LEMMA PublishSendStep ==
  ASSUME IInv, NEW n \in Nodes, PublishSend(n)
  PROVE  /\ IInv' /\ Growing
         /\ \A k \in Nodes, l \in Messages : entry'[k][l].chunks = entry[k][l].chunks
         /\ \A k \in Nodes : publisher'[k] = publisher[k] \/ publisher'[k].pc # "queueing"
         /\ \A k \in Nodes : publisher'[k].pc # "idle" =>
              publisher[k].pc # "idle" /\ publisher'[k].msg = publisher[k].msg
         /\ \A d \in inFlight' \ inFlight :
              publisher[d.from].pc # "idle" /\ publisher[d.from].msg = d.msg
<1> DEFINE pub == publisher[n]
           m == pub.msg
           q == Head(pub.to)
<1>1. /\ pub \in [pc : {"sending"}, msg : Messages, sends : Nat \ {0},
                   to : Seq(Nodes) \ {<<>>}]
      /\ m \in Messages
  BY DEF PublishSend, IInv, TypeOK, Publishers
<1>2. q \in Nodes /\ Append(Tail(pub.to), q) \in Seq(Nodes) \ {<<>>}
  <2>1. pub.to \in Seq(Nodes) /\ pub.to # <<>>
    BY <1>1
  <2> QED BY <2>1
<1>3. entry[n][m].chunks # {}
  <2>1. Chunks # {}
    BY ChunksAreNumbers DEF Chunks
  <2>2. pub.pc # "idle"
    BY <1>1
  <2> QED BY <2>1, <2>2 DEF IInv, Working
<1>4. /\ entry' = [entry EXCEPT ![n][m] = EmitChunk(@)]
      /\ inFlight' = inFlight \cup
           {[from |-> n, to |-> q, msg |-> m, chunk |-> Emitted(entry[n][m])]}
      /\ UNCHANGED <<peers, received, notified, handler, publishes, handed>>
  BY DEF PublishSend
<1> DEFINE b == IF pub.sends = 1 THEN NoPublisher
                ELSE [pub EXCEPT !.sends = @ - 1, !.to = Append(Tail(@), Head(@))]
<1>5. publisher' = [publisher EXCEPT ![n] = b]
  BY DEF PublishSend
<1>6. /\ b \in Publishers /\ b.pc # "queueing" /\ (b.pc # "idle" => b.msg = m)
      /\ pub.pc # "idle"
  <2>1. pub.sends # 1 => pub.sends - 1 \in Nat \ {0}
    BY <1>1
  <2> QED BY <1>1, <1>2, <2>1 DEF NoPublisher, Publishers
<1>7. PICK p \in Nodes, msg \in Messages : p = q /\ msg = m
  BY <1>1, <1>2
<1>8. /\ entry' \in [Nodes -> [Messages -> Entry]] /\ Entries' /\ Growing
      /\ \A k \in Nodes, l \in Messages : entry'[k][l].chunks = entry[k][l].chunks
      /\ inFlight' \subseteq Datagrams
  <2>1. /\ entry[n][msg].chunks # {}
        /\ entry' = [entry EXCEPT ![n][msg] = EmitChunk(@)]
        /\ inFlight' = inFlight \cup
             {[from |-> n, to |-> p, msg |-> msg, chunk |-> Emitted(entry[n][msg])]}
    BY <1>3, <1>4, <1>7
  <2> QED BY <2>1, EmitAndSend DEF IInv
<1>9. \A d \in inFlight' \ inFlight : d.from = n /\ d.msg = m
  BY <1>4
<1> HIDE DEF b, m, q
<1>10. /\ publisher' \in [Nodes -> Publishers]
       /\ \A k \in Nodes : publisher'[k] = publisher[k] \/ publisher'[k].pc # "queueing"
       /\ \A k \in Nodes : publisher'[k].pc # "idle" =>
            publisher[k].pc # "idle" /\ publisher'[k].msg = publisher[k].msg
  BY <1>5, <1>6 DEF IInv, TypeOK, m
<1>11. TypeOK'
  BY <1>4, <1>8, <1>10 DEF IInv, TypeOK
<1>12. Working'
  BY <1>4, <1>8, <1>10, WorkingKept
<1> QED BY <1>6, <1>8, <1>9, <1>10, <1>11, <1>12 DEF IInv, m

LEMMA UselessStep ==
  ASSUME IInv, NEW d \in inFlight, HandleUseless(d) \/ Lose(d)
  PROVE  IInv' /\ Growing
BY DEF HandleUseless, Lose, IInv, TypeOK, Entries, Working, Growing

LEMMA UsefulStep ==
  ASSUME IInv, NEW d \in inFlight, HandleUseful(d)
  PROVE  /\ IInv' /\ Growing
         /\ d.to \in Nodes /\ d.from \in Nodes /\ d.msg \in Messages
         /\ \A k \in Nodes, l \in Messages :
              k # d.to \/ l # d.msg => entry'[k][l] = entry[k][l]
         /\ entry[d.to][d.msg].chunks # Chunks
         /\ entry'[d.to][d.msg].chunks # {}
         /\ handler[d.to][d.from] = NoHandler
         /\ handler' = [handler EXCEPT ![d.to][d.from] =
              [busy |-> TRUE, msg |-> d.msg, sends |-> ForwardMultiplier,
               notify |-> Reconstructible(entry'[d.to][d.msg])]]
<1>1. PICK n \in Nodes, p \in Nodes, m \in Messages, c \in Chunks :
        d = [from |-> p, to |-> n, msg |-> m, chunk |-> c]
  BY DEF IInv, TypeOK, Datagrams
<1>2. PICK e : e = VerifyThenAddChunk(entry[n][m], c)
  OBVIOUS
<1>3. /\ handler[n][p] = NoHandler /\ Acceptable(entry[n][m], c)
      /\ inFlight' = inFlight \ {d}
      /\ entry' = [entry EXCEPT ![n][m] = e]
      /\ handler' = [handler EXCEPT ![n][p] =
           [busy |-> TRUE, msg |-> m, sends |-> ForwardMultiplier,
            notify |-> Reconstructible(e)]]
      /\ UNCHANGED <<peers, received, notified, publisher, publishes, handed>>
  BY <1>1, <1>2 DEF HandleUseful
<1>4. EntryInv(e) /\ e.chunks = entry[n][m].chunks \cup {c}
  BY <1>2, <1>3, AddKeeps DEF IInv, Entries
<1>5. Replaced(n, m, e)
  BY <1>3, <1>4 DEF Replaced
<1>6. /\ entry' \in [Nodes -> [Messages -> Entry]] /\ Entries' /\ Growing
      /\ entry'[n][m] = e
      /\ \A k \in Nodes, l \in Messages : k # n \/ l # m => entry'[k][l] = entry[k][l]
  BY <1>5, EntryUpdate DEF IInv
<1> DEFINE h == [busy |-> TRUE, msg |-> m, sends |-> ForwardMultiplier,
                 notify |-> Reconstructible(e)]
<1>7. h \in Handlers /\ h.msg = m
  <2>1. Reconstructible(e) \in BOOLEAN
    BY DEF Reconstructible
  <2> QED BY <2>1, RouterAssumption DEF Handlers
<1>8. handler' = [handler EXCEPT ![n][p] = h]
  BY <1>3
<1> HIDE DEF h
<1>9. /\ handler' \in [Nodes -> [Nodes -> Handlers]]
      /\ \A k, l \in Nodes : k # n \/ l # p => handler'[k][l] = handler[k][l]
      /\ handler'[n][p].msg = m
  BY <1>7, <1>8 DEF IInv, TypeOK
<1>10. TypeOK'
  BY <1>3, <1>6, <1>9 DEF IInv, TypeOK
<1>11. Working'
  <2>1. \A k, l \in Nodes : handler'[k][l].busy =>
          \/ handler[k][l].busy /\ handler'[k][l].msg = handler[k][l].msg
          \/ /\ handler'[k][l].msg \in Messages
             /\ entry'[k][handler'[k][l].msg].chunks # {}
    BY <1>4, <1>6, <1>9
  <2>2. \A k \in Nodes : publisher'[k].pc # "idle" =>
          publisher[k].pc # "idle" /\ publisher'[k].msg = publisher[k].msg
    BY <1>3
  <2> QED BY <1>6, <2>1, <2>2, WorkingKept
<1>12. entry[n][m].chunks # Chunks
  BY <1>3 DEF Acceptable
<1> QED BY <1>1, <1>3, <1>4, <1>6, <1>10, <1>11, <1>12 DEF IInv

(* The same, with chunks of the message generated meanwhile.                *)
LEMMA UsefulWhilePublishingStep ==
  ASSUME IInv, NEW d \in inFlight, HandleUsefulWhilePublishing(d)
  PROVE  /\ IInv' /\ Growing
         /\ d.to \in Nodes /\ d.from \in Nodes /\ d.msg \in Messages
         /\ \A k \in Nodes, l \in Messages :
              k # d.to \/ l # d.msg => entry'[k][l] = entry[k][l]
         /\ entry[d.to][d.msg].chunks # Chunks
         /\ handler[d.to][d.from] = NoHandler
         /\ handler' = [handler EXCEPT ![d.to][d.from] =
              [busy |-> TRUE, msg |-> d.msg, sends |-> ForwardMultiplier,
               notify |-> TRUE]]
         /\ Started(d.to, d.msg)
<1>1. PICK n \in Nodes, p \in Nodes, m \in Messages, c \in Chunks :
        d = [from |-> p, to |-> n, msg |-> m, chunk |-> c]
  BY DEF IInv, TypeOK, Datagrams
<1>2. PICK a : a = VerifyThenAddChunk(entry[n][m], c)
  OBVIOUS
<1>3. PICK e : e = GenerateThenAddChunks(a)
  OBVIOUS
<1>4. /\ handler[n][p] = NoHandler /\ Acceptable(entry[n][m], c)
      /\ inFlight' = inFlight \ {d}
      /\ entry' = [entry EXCEPT ![n][m] = e]
      /\ handler' = [handler EXCEPT ![n][p] =
           [busy |-> TRUE, msg |-> m, sends |-> ForwardMultiplier, notify |-> TRUE]]
      /\ publisher[n].pc = "idle" /\ publishes[m] < MaxPublishes
      /\ publishes' = [publishes EXCEPT ![m] = @ + 1]
      /\ publisher' = [publisher EXCEPT ![n] = [pc |-> "queueing", msg |-> m]]
      /\ UNCHANGED <<peers, received, notified, handed>>
  BY <1>1, <1>2, <1>3 DEF HandleUsefulWhilePublishing
<1>5. EntryInv(a)
  BY <1>2, <1>4, AddKeeps DEF IInv, Entries
<1>6. /\ EntryInv(e) /\ e.chunks = Chunks /\ Chunks # {}
      /\ entry[n][m].chunks \subseteq Chunks
  BY <1>3, <1>5, GenerateKeeps DEF IInv, TypeOK, Entry
<1>7. Replaced(n, m, e)
  BY <1>4, <1>6 DEF Replaced
<1>8. /\ entry' \in [Nodes -> [Messages -> Entry]] /\ Entries' /\ Growing
      /\ entry'[n][m] = e
      /\ \A k \in Nodes, l \in Messages : k # n \/ l # m => entry'[k][l] = entry[k][l]
  BY <1>7, EntryUpdate DEF IInv
<1> DEFINE h == [busy |-> TRUE, msg |-> m, sends |-> ForwardMultiplier, notify |-> TRUE]
<1>9. h \in Handlers /\ h.msg = m
  BY RouterAssumption DEF Handlers
<1>10. handler' = [handler EXCEPT ![n][p] = h]
  BY <1>4
<1> HIDE DEF h
<1>11. /\ handler' \in [Nodes -> [Nodes -> Handlers]]
       /\ \A k, l \in Nodes : k # n \/ l # p => handler'[k][l] = handler[k][l]
       /\ handler'[n][p].msg = m
  BY <1>9, <1>10 DEF IInv, TypeOK
<1>12. publisher' \in [Nodes -> Publishers] /\ publishes' \in [Messages -> Nat]
  BY <1>4 DEF IInv, TypeOK, Publishers
<1>13. TypeOK'
  BY <1>4, <1>8, <1>11, <1>12 DEF IInv, TypeOK
<1>14. Working'
  <2>1. \A k, l \in Nodes : handler'[k][l].busy =>
          \/ handler[k][l].busy /\ handler'[k][l].msg = handler[k][l].msg
          \/ /\ handler'[k][l].msg \in Messages
             /\ entry'[k][handler'[k][l].msg].chunks # {}
    BY <1>6, <1>8, <1>11
  <2>2. \A k \in Nodes : publisher'[k].pc # "idle" =>
           \/ publisher[k].pc # "idle" /\ publisher'[k].msg = publisher[k].msg
           \/ /\ publisher'[k].msg \in Messages
              /\ entry'[k][publisher'[k].msg].chunks = Chunks
    BY <1>4, <1>6, <1>8 DEF IInv, TypeOK
  <2> QED BY <1>8, <2>1, <2>2, WorkingKept
<1>15. entry[n][m].chunks # Chunks
  BY <1>4 DEF Acceptable
<1>16. Started(n, m)
  BY <1>4 DEF Started
<1> QED BY <1>1, <1>4, <1>8, <1>13, <1>14, <1>15, <1>16 DEF IInv

(* What the steps of a handler that is at work change.                      *)
LEMMA SendChunkStep ==
  ASSUME IInv, NEW n \in Nodes, NEW p \in Nodes, SendChunk(n, p)
  PROVE  /\ IInv' /\ Growing
         /\ \A k \in Nodes, l \in Messages : entry'[k][l].chunks = entry[k][l].chunks
         /\ \A k, l \in Nodes :
              /\ handler'[k][l].busy <=> handler[k][l].busy
              /\ handler[k][l].busy =>
                   /\ handler'[k][l].msg = handler[k][l].msg
                   /\ handler'[k][l].notify <=> handler[k][l].notify
         /\ \A d \in inFlight' \ inFlight :
              handler[n][p].busy /\ handler[n][p].msg = d.msg
<1> DEFINE h == handler[n][p]
           m == h.msg
<1>1. /\ h \in [busy : {TRUE}, msg : Messages, sends : Nat, notify : BOOLEAN]
      /\ m \in Messages /\ h.sends \in Nat /\ h.sends > 0 /\ h.busy
  <2>1. h \in Handlers /\ h.busy /\ h.sends > 0
    BY DEF SendChunk, IInv, TypeOK
  <2> HIDE DEF h
  <2> QED BY <2>1, BusyHandler
<1>2. entry[n][m].chunks # {}
  BY <1>1 DEF IInv, Working
<1>3. /\ handler' = [handler EXCEPT ![n][p].sends = @ - 1]
      /\ UNCHANGED <<peers, received, notified, publisher, publishes, handed>>
  BY DEF SendChunk
<1> DEFINE g == [h EXCEPT !.sends = @ - 1]
<1>4. handler' = [handler EXCEPT ![n][p] = g]
  BY <1>3
<1>5. /\ g \in Handlers /\ g.busy /\ g.msg = h.msg /\ (g.notify <=> h.notify)
  <2>1. h.sends - 1 \in Nat
    <3> HIDE DEF h
    <3> QED BY <1>1
  <2>2. g \in [busy : {TRUE}, msg : Messages, sends : Nat, notify : BOOLEAN]
    BY <1>1, <2>1
  <2>3. g.msg = h.msg /\ g.notify = h.notify
    BY <1>1
  <2> HIDE DEF g
  <2>4. g \in Handlers /\ g.busy
    BY <2>2 DEF Handlers
  <2> QED BY <2>3, <2>4
<1> HIDE DEF g
<1>6. /\ handler' \in [Nodes -> [Nodes -> Handlers]]
      /\ \A k, l \in Nodes :
           /\ handler'[k][l].busy <=> handler[k][l].busy
           /\ handler[k][l].busy =>
                /\ handler'[k][l].msg = handler[k][l].msg
                /\ handler'[k][l].notify <=> handler[k][l].notify
  <2>1. /\ handler' \in [Nodes -> [Nodes -> Handlers]] /\ handler'[n][p] = g
        /\ \A k, l \in Nodes : k # n \/ l # p => handler'[k][l] = handler[k][l]
    BY <1>4, <1>5 DEF IInv, TypeOK
  <2>2. ASSUME NEW k \in Nodes, NEW l \in Nodes
        PROVE  /\ handler'[k][l].busy <=> handler[k][l].busy
               /\ handler[k][l].busy =>
                   /\ handler'[k][l].msg = handler[k][l].msg
                   /\ handler'[k][l].notify <=> handler[k][l].notify
    <3>1. CASE k = n /\ l = p
      BY <1>1, <1>5, <2>1, <3>1
    <3>2. CASE k # n \/ l # p
      <4>1. handler'[k][l] = handler[k][l]
        BY <2>1, <3>2
      <4> QED BY <4>1
    <3> QED BY <3>1, <3>2
  <2> QED BY <2>1, <2>2
<1>7. /\ entry' \in [Nodes -> [Messages -> Entry]] /\ Entries' /\ Growing
      /\ \A k \in Nodes, l \in Messages : entry'[k][l].chunks = entry[k][l].chunks
      /\ inFlight' \subseteq Datagrams
      /\ \A d \in inFlight' \ inFlight : d.msg = m
  <2>1. CASE UNCHANGED <<entry, inFlight>>
    BY <2>1 DEF IInv, TypeOK, Entries, Growing
  <2>2. CASE \E q \in peers[n] \ {p} :
               /\ entry' = [entry EXCEPT ![n][m] = EmitChunk(@)]
               /\ inFlight' = inFlight \cup
                    {[from |-> n, to |-> q, msg |-> m, chunk |-> Emitted(entry[n][m])]}
    <3>1. PICK q \in Nodes :
             /\ entry' = [entry EXCEPT ![n][m] = EmitChunk(@)]
             /\ inFlight' = inFlight \cup
                  {[from |-> n, to |-> q, msg |-> m, chunk |-> Emitted(entry[n][m])]}
      BY <2>2 DEF IInv, TypeOK
    <3>2. PICK msg \in Messages : msg = m
      BY <1>1
    <3>3. /\ entry[n][msg].chunks # {}
          /\ entry' = [entry EXCEPT ![n][msg] = EmitChunk(@)]
          /\ inFlight' = inFlight \cup
               {[from |-> n, to |-> q, msg |-> msg, chunk |-> Emitted(entry[n][msg])]}
      BY <1>2, <3>1, <3>2
    <3>4. /\ entry' \in [Nodes -> [Messages -> Entry]] /\ Entries' /\ Growing
          /\ \A k \in Nodes, l \in Messages : entry'[k][l].chunks = entry[k][l].chunks
          /\ inFlight' \subseteq Datagrams
      BY <3>3, EmitAndSend DEF IInv
    <3>5. \A d \in inFlight' \ inFlight : d.msg = m
      BY <3>1
    <3> QED BY <3>4, <3>5
  <2> QED BY <2>1, <2>2 DEF SendChunk
<1>8. TypeOK'
  BY <1>3, <1>6, <1>7 DEF IInv, TypeOK
<1>9. Working'
  <2>1. \A k \in Nodes : publisher'[k].pc # "idle" =>
          publisher[k].pc # "idle" /\ publisher'[k].msg = publisher[k].msg
    BY <1>3
  <2> QED BY <1>6, <1>7, <2>1, WorkingKept
<1> QED BY <1>1, <1>6, <1>7, <1>8, <1>9 DEF IInv

LEMMA HandlerEndStep ==
  ASSUME IInv, NEW n \in Nodes, NEW p \in Nodes, Notify(n, p) \/ HandleReturn(n, p)
  PROVE  /\ IInv' /\ Growing
         /\ handler[n][p].msg \in Messages
         /\ ~handler'[n][p].busy
         /\ \A k, l \in Nodes : k # n \/ l # p => handler'[k][l] = handler[k][l]
<1>1. handler[n][p] \in Handlers /\ handler[n][p].busy
  BY DEF Notify, HandleReturn, IInv, TypeOK
<1>2. handler[n][p].msg \in Messages
  BY <1>1, BusyHandler, Zenon
<1>3. /\ handler' = [handler EXCEPT ![n][p] = NoHandler]
      /\ UNCHANGED <<peers, entry, publisher, inFlight, publishes, handed>>
  BY DEF Notify, HandleReturn
<1>4. /\ notified' \in [Nodes -> SUBSET Messages] /\ received' \in [Nodes -> Seq(Messages)]
  <2>1. CASE UNCHANGED <<notified, received>>
    BY <2>1 DEF IInv, TypeOK
  <2>2. CASE /\ notified' = [notified EXCEPT ![n] = @ \cup {handler[n][p].msg}]
             /\ received' = [received EXCEPT ![n] = Append(@, handler[n][p].msg)]
    BY <1>2, <2>2 DEF IInv, TypeOK
  <2> QED BY <2>1, <2>2 DEF Notify, HandleReturn
<1>5. NoHandler \in Handlers /\ ~NoHandler.busy
  BY DEF Handlers, NoHandler
<1>6. /\ handler' \in [Nodes -> [Nodes -> Handlers]]
      /\ handler'[n][p] = NoHandler
      /\ \A k, l \in Nodes : k # n \/ l # p => handler'[k][l] = handler[k][l]
  BY <1>3, <1>5 DEF IInv, TypeOK
<1>7. TypeOK' /\ Entries' /\ Growing
  BY <1>3, <1>4, <1>6 DEF IInv, TypeOK, Entries, Growing
<1>8. ~handler'[n][p].busy
  BY <1>5, <1>6
<1>9. Working'
  <2>1. ASSUME NEW k \in Nodes, NEW l \in Nodes, handler'[k][l].busy
        PROVE  handler[k][l].busy /\ handler'[k][l].msg = handler[k][l].msg
    <3>1. k # n \/ l # p
      BY <1>8, <2>1
    <3>2. handler'[k][l] = handler[k][l]
      BY <1>6, <3>1
    <3> QED BY <2>1, <3>2
  <2>2. \A k \in Nodes : publisher'[k].pc # "idle" =>
          publisher[k].pc # "idle" /\ publisher'[k].msg = publisher[k].msg
    BY <1>3
  <2>3. entry' \in [Nodes -> [Messages -> Entry]]
    BY <1>7 DEF TypeOK
  <2> QED BY <1>7, <2>1, <2>2, <2>3, WorkingKept
<1> QED BY <1>2, <1>6, <1>7, <1>8, <1>9 DEF IInv

LEMMA TakeStep ==
  ASSUME IInv, NEW n \in Nodes, TakeNext(n)
  PROVE  IInv' /\ Growing
<1>1. /\ received' \in [Nodes -> Seq(Messages)] /\ handed' \in [Nodes -> Seq(Messages)]
      /\ UNCHANGED <<peers, entry, notified, handler, publisher, inFlight, publishes>>
  <2>1. received[n] \in Seq(Messages) /\ received[n] # <<>>
    BY DEF TakeNext, IInv, TypeOK
  <2>2. Head(received[n]) \in Messages /\ Tail(received[n]) \in Seq(Messages)
    BY <2>1
  <2> QED BY <2>2 DEF TakeNext, IInv, TypeOK
<1> QED BY <1>1 DEF IInv, TypeOK, Entries, Working, Growing

LEMMA PeersStep ==
  ASSUME IInv, NEW n \in Nodes, NEW p \in Nodes, AddPeer(n, p) \/ RemovePeer(n, p)
  PROVE  IInv' /\ Growing
<1>1. /\ peers' \in [Nodes -> SUBSET Nodes]
      /\ UNCHANGED <<entry, received, notified, handler, publisher, inFlight,
                     publishes, handed>>
  <2>1. peers \in [Nodes -> SUBSET Nodes]
    BY DEF IInv, TypeOK
  <2>2. CASE AddPeer(n, p)
    BY <2>1, <2>2 DEF AddPeer
  <2>3. CASE RemovePeer(n, p)
    BY <2>1, <2>3 DEF RemovePeer
  <2> QED BY <2>2, <2>3
<1> QED BY <1>1 DEF IInv, TypeOK, Entries, Working, Growing

LEMMA TypeStep == IInv /\ [Next]_vars => IInv' /\ Growing
<1> SUFFICES ASSUME IInv, [Next]_vars PROVE IInv' /\ Growing
  OBVIOUS
<1>1. CASE UNCHANGED vars
  BY <1>1 DEF vars, IInv, TypeOK, Entries, Working, Growing
<1>2. ASSUME NEW n \in Nodes, NEW m \in Messages, PublishGenerate(n, m)
      PROVE  IInv' /\ Growing
  BY <1>2, GenerateStep
<1>3. ASSUME NEW n \in Nodes, PublisherStep(n) PROVE IInv' /\ Growing
  BY <1>3, QueueStep, PublishSendStep DEF PublisherStep
<1>4. ASSUME NEW n \in Nodes, TakeNext(n) PROVE IInv' /\ Growing
  BY <1>4, TakeStep
<1>5. ASSUME NEW d \in inFlight, HandleUseless(d) \/ HandleUseful(d) \/ Lose(d)
      PROVE  IInv' /\ Growing
  BY <1>5, UselessStep, UsefulStep
<1>6. ASSUME NEW n \in Nodes, NEW p \in Nodes, HandlerStep(n, p)
      PROVE  IInv' /\ Growing
  BY <1>6, SendChunkStep, HandlerEndStep DEF HandlerStep
<1>7. ASSUME NEW n \in Nodes, NEW p \in Nodes, AddPeer(n, p) \/ RemovePeer(n, p)
      PROVE  IInv' /\ Growing
  BY <1>7, PeersStep
<1>8. ASSUME NEW d \in inFlight, HandleUsefulWhilePublishing(d)
      PROVE  IInv' /\ Growing
  BY <1>8, UsefulWhilePublishingStep
<1> QED BY <1>1, <1>2, <1>3, <1>4, <1>5, <1>6, <1>7, <1>8 DEF Next

(* Every variable of the routers stays in its set: in particular a sending  *)
(* publisher always has a peer left in its shuffled list.                   *)
THEOREM TypeCorrect == Spec => []TypeOK
<1>1. IInv => TypeOK
  BY DEF IInv
<1> QED BY <1>1, TypeInit, TypeStep, PTL DEF Spec

(* EmitChunk emits a chunk MinEmitCount times before a later one, whatever  *)
(* chunks arrive, are published and are forwarded in between.               *)
THEOREM EmissionOrder == Spec => []EmittedInOrder
<1>1. IInv => EmittedInOrder
  <2> SUFFICES ASSUME IInv, NEW n \in Nodes, NEW m \in Messages
               PROVE  InOrder(entry[n][m])
    BY DEF EmittedInOrder, InOrder
  <2> QED BY DEF IInv, Entries, EntryInv
<1> QED BY <1>1, TypeInit, TypeStep, PTL DEF Spec

(* ------------------------------ Delivery ------------------------------ *)

(* What a node has handed to its application or is about to.                *)
Pending(n) == handed[n] \o received[n]

(* A goroutine at node n will append m to received or find it notified.     *)
Coming(n, m) ==
  \/ publisher[n].pc = "queueing" /\ publisher[n].msg = m
  \/ \E p \in Nodes : handler[n][p].busy /\ handler[n][p].msg = m /\ handler[n][p].notify

HandlerOn(n, m) == \E p \in Nodes : handler[n][p].busy /\ handler[n][p].msg = m
PublisherOn(n, m) == publisher[n].pc # "idle" /\ publisher[n].msg = m

LEMMA PendingType ==
  ASSUME TypeOK, NEW n \in Nodes
  PROVE  /\ Pending(n) \in Seq(Messages)
         /\ \A m : Delivered(n, m) <=> Listed(Pending(n), m)
<1>1. handed[n] \in Seq(Messages) /\ received[n] \in Seq(Messages)
  BY DEF TypeOK
<1>2. Pending(n) \in Seq(Messages)
  BY <1>1 DEF Pending
<1>3. ASSUME NEW m PROVE Delivered(n, m) <=> Listed(Pending(n), m)
  BY <1>1, ListedConcat DEF Delivered, Pending
<1> QED BY <1>2, <1>3

(* What a step does to what is pending.                                     *)
Enlists(n, m) ==
  /\ Pending(n)' = Append(Pending(n), m)
  /\ \A k \in Nodes \ {n} : Pending(k)' = Pending(k)

LEMMA PendingAppend ==
  ASSUME TypeOK, NEW n \in Nodes, NEW m \in Messages, handed' = handed,
         received' = [received EXCEPT ![n] = Append(@, m)]
  PROVE  Enlists(n, m)
<1>1. handed[n] \in Seq(Messages) /\ received[n] \in Seq(Messages)
  BY DEF TypeOK
<1>2. received'[n] = Append(received[n], m)
  BY DEF TypeOK
<1>3. handed[n] \o Append(received[n], m) = Append(handed[n] \o received[n], m)
  <2> DEFINE taken == handed[n]
             buffered == received[n]
  <2>1. taken \in Seq(Messages) /\ buffered \in Seq(Messages)
    BY <1>1
  <2> HIDE DEF taken, buffered
  <2>2. taken \o Append(buffered, m) = Append(taken \o buffered, m)
    BY <2>1, ConcatAppend, SMT
  <2> QED BY <2>2 DEF taken, buffered
<1>4. \A k \in Nodes \ {n} : Pending(k)' = Pending(k)
  BY DEF TypeOK, Pending
<1> QED BY <1>2, <1>3, <1>4 DEF Enlists, Pending

LEMMA PendingTake ==
  ASSUME TypeOK, NEW n \in Nodes, TakeNext(n)
  PROVE  \A k \in Nodes : Pending(k)' = Pending(k)
<1>1. handed[n] \in Seq(Messages) /\ received[n] \in Seq(Messages) /\ received[n] # <<>>
  BY DEF TypeOK, TakeNext
<1>2. /\ handed'[n] = Append(handed[n], Head(received[n]))
      /\ received'[n] = Tail(received[n])
  BY DEF TypeOK, TakeNext
<1>3. Append(handed[n], Head(received[n])) \o Tail(received[n]) = handed[n] \o received[n]
  BY <1>1, ConcatMove
<1>4. \A k \in Nodes \ {n} : Pending(k)' = Pending(k)
  BY DEF TypeOK, Pending, TakeNext
<1> QED BY <1>2, <1>3, <1>4 DEF Pending

(* What one step does to the handlers, the stored chunks, the network, the  *)
(* publishers and what is pending, and why.                                 *)
Frame ==
  /\ \A k, l \in Nodes : handler'[k][l].busy =>
       \/ handler[k][l].busy /\ handler'[k][l].msg = handler[k][l].msg
       \/ \E d \in inFlight : /\ d.msg = handler'[k][l].msg
                             /\ entry[k][d.msg].chunks # Chunks
  /\ \A k \in Nodes, m \in Messages :
       \/ entry'[k][m].chunks = entry[k][m].chunks
       \/ Started(k, m)
       \/ \E d \in inFlight : d.msg = m
  /\ \A d \in inFlight' : \/ d \in inFlight
                          \/ \E k \in Nodes : HandlerOn(k, d.msg) \/ PublisherOn(k, d.msg)
  /\ \A k \in Nodes : publisher'[k].pc # "idle" =>
       \/ /\ publisher[k].pc # "idle" /\ publisher'[k].msg = publisher[k].msg
          /\ publisher'[k].pc = "queueing" => publisher[k].pc = "queueing"
       \/ \E m \in Messages : Started(k, m) /\ publisher'[k].msg = m
  /\ \A k \in Nodes, m \in Messages : m \in notified[k] => m \in notified'[k]
  /\ \A k \in Nodes, m \in Messages : m \in notified'[k] /\ m \notin notified[k] =>
       HandlerOn(k, m) /\ Enlists(k, m)
  /\ \A k \in Nodes :
       \/ Pending(k)' = Pending(k)
       \/ \E m \in Messages :
            /\ Pending(k)' = Append(Pending(k), m)
            /\ \/ /\ publisher[k].pc = "queueing" /\ publisher[k].msg = m
                  /\ publisher'[k].pc # "queueing"
               \/ HandlerOn(k, m) /\ m \notin notified[k] /\ m \in notified'[k]

LEMMA FrameStep == IInv /\ [Next]_vars => Frame
<1> SUFFICES ASSUME IInv, [Next]_vars PROVE Frame
  OBVIOUS
<1> TypeOK
  BY DEF IInv
<1>1. CASE UNCHANGED vars
  BY <1>1 DEF vars, Frame, Pending
<1>2. ASSUME NEW n \in Nodes, NEW m \in Messages, PublishGenerate(n, m) PROVE Frame
  <2>1. /\ UNCHANGED <<received, notified, handler, inFlight, handed>>
        /\ publisher' = [publisher EXCEPT ![n] = [pc |-> "queueing", msg |-> m]]
        /\ entry' = [entry EXCEPT ![n][m] = GenerateThenAddChunks(@)]
        /\ Started(n, m)
    BY <1>2 DEF PublishGenerate, Started
  <2>2. \A k \in Nodes, l \in Messages :
          entry'[k][l].chunks = entry[k][l].chunks \/ Started(k, l)
    BY <1>2, <2>1 DEF TypeOK
  <2>3. \A k \in Nodes : publisher'[k].pc # "idle" =>
          \/ publisher'[k] = publisher[k]
          \/ \E l \in Messages : Started(k, l) /\ publisher'[k].msg = l
    BY <1>2, <2>1 DEF TypeOK
  <2> QED BY <2>1, <2>2, <2>3 DEF Frame, Pending
<1>3. ASSUME NEW n \in Nodes, PublishQueue(n) PROVE Frame
  <2>1. /\ UNCHANGED <<entry, notified, handler, inFlight, handed>>
        /\ received' = [received EXCEPT ![n] = Append(@, publisher[n].msg)]
        /\ publisher[n].pc = "queueing"
    BY <1>3 DEF PublishQueue
  <2>2. \E b : /\ publisher' = [publisher EXCEPT ![n] = b]
               /\ b.pc # "queueing" /\ (b.pc # "idle" => b.msg = publisher[n].msg)
    <3>1. PICK q :
            publisher' = [publisher EXCEPT ![n] =
              IF q = <<>> \/ PublishMultiplier = 0 THEN NoPublisher
              ELSE [pc |-> "sending", msg |-> publisher[n].msg,
                    sends |-> TotalChunks * PublishMultiplier, to |-> q]]
      BY <1>3 DEF PublishQueue
    <3> DEFINE b == IF q = <<>> \/ PublishMultiplier = 0 THEN NoPublisher
                    ELSE [pc |-> "sending", msg |-> publisher[n].msg,
                          sends |-> TotalChunks * PublishMultiplier, to |-> q]
    <3>2. b.pc # "queueing" /\ (b.pc # "idle" => b.msg = publisher[n].msg)
      BY DEF NoPublisher
    <3>3. publisher' = [publisher EXCEPT ![n] = b]
      BY <3>1
    <3> HIDE DEF b
    <3> QED BY <3>2, <3>3
  <2>3. \A k \in Nodes :
          \/ publisher'[k] = publisher[k] /\ k # n
          \/ /\ k = n /\ publisher'[k].pc # "queueing"
             /\ publisher'[k].pc # "idle" => publisher'[k].msg = publisher[k].msg
    BY <2>2 DEF TypeOK
  <2>4. PICK m \in Messages : m = publisher[n].msg
    BY <2>1, BusyPublisher DEF TypeOK
  <2>5. Enlists(n, m)
    BY <2>1, <2>4, PendingAppend
  <2> QED BY <2>1, <2>3, <2>4, <2>5 DEF Frame, Enlists
<1>4. ASSUME NEW n \in Nodes, PublishSend(n) PROVE Frame
  <2>1. UNCHANGED <<received, notified, handler, handed>>
    BY <1>4 DEF PublishSend
  <2>2. /\ \A k \in Nodes, l \in Messages : entry'[k][l].chunks = entry[k][l].chunks
        /\ \A k \in Nodes : publisher'[k] = publisher[k] \/ publisher'[k].pc # "queueing"
        /\ \A k \in Nodes : publisher'[k].pc # "idle" =>
             publisher[k].pc # "idle" /\ publisher'[k].msg = publisher[k].msg
        /\ \A d \in inFlight' \ inFlight :
             publisher[d.from].pc # "idle" /\ publisher[d.from].msg = d.msg
        /\ inFlight' \subseteq Datagrams
    BY <1>4, PublishSendStep DEF IInv, TypeOK
  <2>3. \A d \in inFlight' : d \in inFlight \/ \E k \in Nodes : PublisherOn(k, d.msg)
    BY <2>2 DEF PublisherOn, Datagrams
  <2> QED BY <2>1, <2>2, <2>3 DEF Frame, Pending
<1>5. ASSUME NEW n \in Nodes, TakeNext(n) PROVE Frame
  BY <1>5, PendingTake DEF Frame, TakeNext
<1>6. ASSUME NEW d \in inFlight, HandleUseless(d) \/ Lose(d) PROVE Frame
  BY <1>6 DEF HandleUseless, Lose, Frame, Pending
<1>7. ASSUME NEW d \in inFlight, HandleUseful(d) PROVE Frame
  <2>1. /\ inFlight' = inFlight \ {d}
        /\ UNCHANGED <<received, notified, publisher, handed>>
    BY <1>7 DEF HandleUseful
  <2>2. /\ d.to \in Nodes /\ d.from \in Nodes /\ d.msg \in Messages
        /\ \A k \in Nodes, l \in Messages :
             k # d.to \/ l # d.msg => entry'[k][l] = entry[k][l]
        /\ entry[d.to][d.msg].chunks # Chunks
        /\ handler' = [handler EXCEPT ![d.to][d.from] =
             [busy |-> TRUE, msg |-> d.msg, sends |-> ForwardMultiplier,
              notify |-> Reconstructible(entry'[d.to][d.msg])]]
    BY <1>7, UsefulStep
  <2>3. \A k, l \in Nodes :
          \/ handler'[k][l] = handler[k][l]
          \/ k = d.to /\ handler'[k][l].msg = d.msg
    BY <2>2 DEF TypeOK
  <2>4. \A k \in Nodes, l \in Messages :
          entry'[k][l].chunks = entry[k][l].chunks \/ l = d.msg
    BY <2>2
  <2> QED BY <2>1, <2>2, <2>3, <2>4 DEF Frame, Pending
<1>8. ASSUME NEW n \in Nodes, NEW p \in Nodes, SendChunk(n, p) PROVE Frame
  <2>1. UNCHANGED <<received, notified, publisher, handed>>
    BY <1>8 DEF SendChunk
  <2>2. /\ \A k \in Nodes, l \in Messages : entry'[k][l].chunks = entry[k][l].chunks
        /\ \A k, l \in Nodes :
              /\ handler'[k][l].busy <=> handler[k][l].busy
              /\ handler[k][l].busy => handler'[k][l].msg = handler[k][l].msg
        /\ \A d \in inFlight' \ inFlight : HandlerOn(n, d.msg)
    BY <1>8, SendChunkStep DEF HandlerOn
  <2> QED BY <2>1, <2>2 DEF Frame, Pending
<1>9. ASSUME NEW n \in Nodes, NEW p \in Nodes, Notify(n, p) \/ HandleReturn(n, p)
      PROVE  Frame
  <2>1. /\ UNCHANGED <<entry, publisher, inFlight, handed>>
        /\ handler[n][p].busy
    BY <1>9 DEF Notify, HandleReturn
  <2>2. PICK m \in Messages : m = handler[n][p].msg
    BY <1>9, HandlerEndStep
  <2>3. \A k, l \in Nodes : handler'[k][l].busy =>
          handler[k][l].busy /\ handler'[k][l].msg = handler[k][l].msg
    <3>1. /\ ~handler'[n][p].busy
          /\ \A k, l \in Nodes : k # n \/ l # p => handler'[k][l] = handler[k][l]
      BY <1>9, HandlerEndStep
    <3>2. ASSUME NEW k \in Nodes, NEW l \in Nodes, handler'[k][l].busy
          PROVE  handler'[k][l] = handler[k][l]
      <4>1. k # n \/ l # p
        BY <3>1, <3>2
      <4> QED BY <3>1, <4>1
    <3>3. ASSUME NEW k \in Nodes, NEW l \in Nodes, handler'[k][l].busy
          PROVE  handler[k][l].busy /\ handler'[k][l].msg = handler[k][l].msg
      <4>1. handler'[k][l] = handler[k][l]
        BY <3>2, <3>3
      <4> QED BY <3>3, <4>1
    <3> QED BY <3>3
  <2>4. CASE UNCHANGED <<notified, received>>
    BY <2>1, <2>3, <2>4 DEF Frame, Pending
  <2>5. CASE /\ m \notin notified[n]
             /\ notified' = [notified EXCEPT ![n] = @ \cup {m}]
             /\ received' = [received EXCEPT ![n] = Append(@, m)]
    <3>1. Enlists(n, m)
      BY <2>1, <2>5, PendingAppend
    <3>2. HandlerOn(n, m)
      BY <2>1, <2>2 DEF HandlerOn
    <3>3. \A k \in Nodes : notified'[k] = IF k = n THEN notified[n] \cup {m} ELSE notified[k]
      BY <2>5 DEF TypeOK
    <3> QED BY <2>1, <2>3, <2>5, <3>1, <3>2, <3>3 DEF Frame, Enlists
  <2> QED BY <1>9, <2>2, <2>4, <2>5 DEF Notify, HandleReturn
<1>10. ASSUME NEW n \in Nodes, NEW p \in Nodes, AddPeer(n, p) \/ RemovePeer(n, p)
       PROVE  Frame
  BY <1>10 DEF AddPeer, RemovePeer, Frame, Pending
<1>11. ASSUME NEW d \in inFlight, HandleUsefulWhilePublishing(d) PROVE Frame
  <2>1. /\ inFlight' = inFlight \ {d}
        /\ UNCHANGED <<received, notified, handed>>
    BY <1>11 DEF HandleUsefulWhilePublishing
  <2>2. /\ d.to \in Nodes /\ d.from \in Nodes /\ d.msg \in Messages
        /\ \A k \in Nodes, l \in Messages :
             k # d.to \/ l # d.msg => entry'[k][l] = entry[k][l]
        /\ entry[d.to][d.msg].chunks # Chunks
        /\ handler' = [handler EXCEPT ![d.to][d.from] =
             [busy |-> TRUE, msg |-> d.msg, sends |-> ForwardMultiplier,
              notify |-> TRUE]]
        /\ Started(d.to, d.msg)
    BY <1>11, UsefulWhilePublishingStep
  <2>3. \A k, l \in Nodes :
          \/ handler'[k][l] = handler[k][l]
          \/ k = d.to /\ handler'[k][l].msg = d.msg
    BY <2>2 DEF TypeOK
  <2>4. \A k \in Nodes, l \in Messages :
          entry'[k][l].chunks = entry[k][l].chunks \/ l = d.msg
    BY <2>2
  <2>5. \A k \in Nodes : publisher'[k].pc # "idle" =>
          \/ publisher'[k] = publisher[k]
          \/ \E l \in Messages : Started(k, l) /\ publisher'[k].msg = l
    BY <2>2 DEF Started, TypeOK
  <2> QED BY <2>1, <2>2, <2>3, <2>4, <2>5 DEF Frame, Pending
<1> QED
  BY <1>1, <1>2, <1>3, <1>4, <1>5, <1>6, <1>7, <1>8, <1>9, <1>10, <1>11
  DEF Next, HandlerStep, PublisherStep

(* What is pending stays pending.                                           *)
LEMMA PendingGrows ==
  ASSUME TypeOK, Frame, NEW n \in Nodes, NEW m, Listed(Pending(n), m)
  PROVE  Listed(Pending(n)', m)
<1>1. CASE Pending(n)' = Pending(n)
  BY <1>1
<1>2. ASSUME NEW e \in Messages, Pending(n)' = Append(Pending(n), e)
      PROVE  Listed(Pending(n)', m)
  <2>1. PICK q \in Seq(Messages) : q = Pending(n)
    BY PendingType
  <2>2. Listed(Append(q, e), m)
    BY <2>1, ListedAppend
  <2> QED BY <1>2, <2>1, <2>2
<1> QED BY <1>1, <1>2 DEF Frame

Promised ==
  /\ \A n \in Nodes, m \in Messages : m \in notified[n] => Listed(Pending(n), m)
  /\ \A n \in Nodes, m \in Messages :
       Reconstructible(entry[n][m]) => Listed(Pending(n), m) \/ Coming(n, m)

LEMMA PromisedInit == Init => Promised
<1> SUFFICES ASSUME Init, NEW n \in Nodes, NEW m \in Messages
             PROVE  m \notin notified[n] /\ ~Reconstructible(entry[n][m])
  BY DEF Promised
<1>1. entry[n][m].chunks = {}
  BY DEF Init, NoEntry
<1>2. Cardinality({}) = 0
  BY FS_EmptySet
<1>3. ~(0 >= DataChunks)
  BY EncoderAssumption
<1> QED BY <1>1, <1>2, <1>3 DEF Init, Reconstructible

(* A message becomes reconstructible only by a step that leaves a goroutine *)
(* at work on it.                                                           *)
LEMMA BecomesReconstructible ==
  ASSUME IInv, [Next]_vars, NEW n \in Nodes, NEW m \in Messages,
         Reconstructible(entry'[n][m])
  PROVE  Reconstructible(entry[n][m]) \/ Coming(n, m)'
<1>1. CASE entry'[n][m].chunks = entry[n][m].chunks
  BY <1>1 DEF Reconstructible
<1>2. ASSUME NEW k \in Nodes, NEW l \in Messages, PublishGenerate(k, l)
      PROVE  Reconstructible(entry[n][m]) \/ Coming(n, m)'
  <2>1. /\ entry' = [entry EXCEPT ![k][l] = GenerateThenAddChunks(@)]
        /\ publisher' = [publisher EXCEPT ![k] = [pc |-> "queueing", msg |-> l]]
    BY <1>2 DEF PublishGenerate
  <2>2. CASE k = n /\ l = m
    BY <2>1, <2>2 DEF Coming, IInv, TypeOK
  <2>3. CASE k # n \/ l # m
    <3>1. entry'[n][m] = entry[n][m]
      BY <2>1, <2>3 DEF IInv, TypeOK
    <3> QED BY <1>1, <3>1
  <2> QED BY <2>2, <2>3
<1>3. ASSUME NEW d \in inFlight, HandleUseful(d)
      PROVE  Reconstructible(entry[n][m]) \/ Coming(n, m)'
  <2>1. /\ d.to \in Nodes /\ d.from \in Nodes /\ d.msg \in Messages
        /\ \A k \in Nodes, l \in Messages :
             k # d.to \/ l # d.msg => entry'[k][l] = entry[k][l]
        /\ handler' = [handler EXCEPT ![d.to][d.from] =
             [busy |-> TRUE, msg |-> d.msg, sends |-> ForwardMultiplier,
              notify |-> Reconstructible(entry'[d.to][d.msg])]]
    BY <1>3, UsefulStep
  <2>2. CASE d.to = n /\ d.msg = m
    <3>1. handler'[n][d.from] = [busy |-> TRUE, msg |-> m, sends |-> ForwardMultiplier,
                                 notify |-> Reconstructible(entry'[n][m])]
      BY <2>1, <2>2 DEF IInv, TypeOK
    <3>2. /\ handler'[n][d.from].busy /\ handler'[n][d.from].msg = m
          /\ handler'[n][d.from].notify
      BY <3>1
    <3> QED BY <2>1, <3>2 DEF Coming
  <2>3. CASE d.to # n \/ d.msg # m
    BY <1>1, <2>1, <2>3
  <2> QED BY <2>2, <2>3
<1>4. CASE UNCHANGED entry
  BY <1>1, <1>4
<1>5. ASSUME NEW k \in Nodes, PublisherStep(k)
      PROVE  entry'[n][m].chunks = entry[n][m].chunks
  BY <1>5, PublishSendStep DEF PublisherStep, PublishQueue
<1>6. ASSUME NEW k \in Nodes, NEW p \in Nodes, SendChunk(k, p)
      PROVE  entry'[n][m].chunks = entry[n][m].chunks
  BY <1>6, SendChunkStep
<1>7. ASSUME NEW d \in inFlight, HandleUsefulWhilePublishing(d)
      PROVE  Reconstructible(entry[n][m]) \/ Coming(n, m)'
  <2>1. /\ d.to \in Nodes /\ d.msg \in Messages
        /\ \A k \in Nodes, l \in Messages :
             k # d.to \/ l # d.msg => entry'[k][l] = entry[k][l]
        /\ publisher' = [publisher EXCEPT ![d.to] = [pc |-> "queueing", msg |-> d.msg]]
    BY <1>7, UsefulWhilePublishingStep DEF Started
  <2>2. CASE d.to = n /\ d.msg = m
    BY <2>1, <2>2 DEF Coming, IInv, TypeOK
  <2>3. CASE d.to # n \/ d.msg # m
    BY <1>1, <2>1, <2>3
  <2> QED BY <2>2, <2>3
<1> QED
  BY <1>1, <1>2, <1>3, <1>4, <1>5, <1>6, <1>7
  DEF Next, vars, HandlerStep, TakeNext, HandleUseless, Lose, Notify, HandleReturn,
      AddPeer, RemovePeer

(* A goroutine that is to deliver a message does not end before.            *)
LEMMA ComingOrPending ==
  ASSUME IInv, Promised, [Next]_vars, NEW n \in Nodes, NEW m \in Messages, Coming(n, m)
  PROVE  Coming(n, m)' \/ Listed(Pending(n)', m)
<1>0. Frame
  BY FrameStep
<1>1. CASE UNCHANGED <<handler, publisher>>
  BY <1>1 DEF Coming
<1>2. ASSUME NEW k \in Nodes, NEW l \in Messages, PublishGenerate(k, l)
      PROVE  Coming(n, m)'
  <2>1. /\ handler' = handler /\ publisher[k].pc = "idle"
        /\ \A j \in Nodes \ {k} : publisher'[j] = publisher[j]
    BY <1>2 DEF PublishGenerate, IInv, TypeOK
  <2>2. publisher[n].pc = "queueing" => publisher'[n] = publisher[n]
    BY <2>1
  <2> QED BY <2>1, <2>2 DEF Coming
<1>3. ASSUME NEW k \in Nodes, PublishQueue(k)
      PROVE  Coming(n, m)' \/ Listed(Pending(n)', m)
  <2>1. /\ handler' = handler /\ handed' = handed
        /\ publisher[k].pc = "queueing"
        /\ \A j \in Nodes \ {k} : publisher'[j] = publisher[j]
        /\ received' = [received EXCEPT ![k] = Append(@, publisher[k].msg)]
    BY <1>3 DEF PublishQueue, IInv, TypeOK
  <2>2. CASE publisher[n].pc = "queueing" /\ publisher[n].msg = m /\ k = n
    <3>1. Pending(n)' = Append(Pending(n), m)
      BY <2>1, <2>2, PendingAppend DEF IInv, Enlists
    <3>2. Pending(n) \in Seq(Messages)
      BY PendingType DEF IInv
    <3>3. PICK q \in Seq(Messages) : q = Pending(n)
      BY <3>2
    <3>4. Listed(Append(q, m), m)
      BY ListedAppend
    <3> QED BY <3>1, <3>3, <3>4
  <2> QED BY <2>1, <2>2 DEF Coming
<1>4. ASSUME NEW k \in Nodes, PublishSend(k) PROVE Coming(n, m)'
  <2>1. /\ handler' = handler /\ publisher[k].pc = "sending"
        /\ \A j \in Nodes \ {k} : publisher'[j] = publisher[j]
    BY <1>4 DEF PublishSend, IInv, TypeOK
  <2>2. publisher[n].pc = "queueing" => publisher'[n] = publisher[n]
    BY <2>1
  <2> QED BY <2>1, <2>2 DEF Coming
<1>5. ASSUME NEW d \in inFlight, HandleUseful(d) PROVE Coming(n, m)'
  <2>1. /\ publisher' = publisher
        /\ handler[d.to][d.from] = NoHandler
        /\ handler' = [handler EXCEPT ![d.to][d.from] =
             [busy |-> TRUE, msg |-> d.msg, sends |-> ForwardMultiplier,
              notify |-> Reconstructible(entry'[d.to][d.msg])]]
    BY <1>5, UsefulStep DEF HandleUseful
  <2>2. \A j, p \in Nodes : handler'[j][p] = handler[j][p] \/ ~handler[j][p].busy
    BY <2>1 DEF NoHandler, IInv, TypeOK
  <2> QED BY <2>1, <2>2 DEF Coming
<1>6. ASSUME NEW k \in Nodes, NEW p \in Nodes, SendChunk(k, p) PROVE Coming(n, m)'
  <2>1. publisher' = publisher
    BY <1>6 DEF SendChunk
  <2>2. \A j, l \in Nodes :
          /\ handler'[j][l].busy <=> handler[j][l].busy
          /\ handler[j][l].busy =>
               /\ handler'[j][l].msg = handler[j][l].msg
               /\ handler'[j][l].notify <=> handler[j][l].notify
    BY <1>6, SendChunkStep
  <2> QED BY <2>1, <2>2 DEF Coming
<1>7. ASSUME NEW k \in Nodes, NEW p \in Nodes, Notify(k, p) \/ HandleReturn(k, p)
      PROVE  Coming(n, m)' \/ Listed(Pending(n)', m)
  <2>1. /\ publisher' = publisher /\ handed' = handed
        /\ \A j, l \in Nodes : j # k \/ l # p => handler'[j][l] = handler[j][l]
    BY <1>7, HandlerEndStep DEF Notify, HandleReturn
  <2>2. CASE k = n /\ handler[k][p].msg = m /\ handler[k][p].notify
    <3>1. /\ m \in notified[n] => Listed(Pending(n), m)
          /\ TypeOK
      BY DEF Promised, IInv
    <3>2. CASE m \in notified[n]
      BY <1>0, <3>1, <3>2, PendingGrows
    <3>3. CASE m \notin notified[n]
      <4>1. received' = [received EXCEPT ![n] = Append(@, m)]
        BY <1>7, <2>2, <3>3 DEF Notify, HandleReturn
      <4>2. Pending(n)' = Append(Pending(n), m)
        BY <2>1, <3>1, <4>1, PendingAppend DEF Enlists
      <4>3. PICK q \in Seq(Messages) : q = Pending(n)
        BY <3>1, PendingType
      <4>4. Listed(Append(q, m), m)
        BY ListedAppend
      <4> QED BY <4>2, <4>3, <4>4
    <3> QED BY <3>2, <3>3
  <2>3. CASE ~(k = n /\ handler[k][p].msg = m /\ handler[k][p].notify)
    <3>1. ASSUME NEW l \in Nodes, handler[n][l].msg = m, handler[n][l].notify
          PROVE  handler'[n][l] = handler[n][l]
      BY <2>1, <2>3, <3>1
    <3> QED BY <2>1, <3>1 DEF Coming
  <2> QED BY <2>2, <2>3
<1>8. ASSUME NEW d \in inFlight, HandleUsefulWhilePublishing(d) PROVE Coming(n, m)'
  <2>1. /\ handler[d.to][d.from] = NoHandler
        /\ handler' = [handler EXCEPT ![d.to][d.from] =
             [busy |-> TRUE, msg |-> d.msg, sends |-> ForwardMultiplier,
              notify |-> TRUE]]
        /\ publisher[d.to].pc = "idle"
        /\ publisher' = [publisher EXCEPT ![d.to] = [pc |-> "queueing", msg |-> d.msg]]
    BY <1>8, UsefulWhilePublishingStep DEF Started
  <2>2. \A j, p \in Nodes : handler'[j][p] = handler[j][p] \/ ~handler[j][p].busy
    BY <2>1 DEF NoHandler, IInv, TypeOK
  <2>3. publisher[n].pc = "queueing" => publisher'[n] = publisher[n]
    BY <2>1 DEF IInv, TypeOK
  <2> QED BY <2>2, <2>3 DEF Coming
<1> QED
  BY <1>1, <1>2, <1>3, <1>4, <1>5, <1>6, <1>7, <1>8
  DEF Next, vars, HandlerStep, PublisherStep, TakeNext, HandleUseless, Lose,
      AddPeer, RemovePeer

LEMMA PromisedStep == IInv /\ Promised /\ [Next]_vars => Promised'
<1> SUFFICES ASSUME IInv, Promised, [Next]_vars, NEW n \in Nodes, NEW m \in Messages
             PROVE  /\ m \in notified'[n] => Listed(Pending(n)', m)
                    /\ Reconstructible(entry'[n][m]) =>
                         Listed(Pending(n)', m) \/ Coming(n, m)'
  BY DEF Promised
<1>1. Frame /\ TypeOK
  BY FrameStep DEF IInv
<1>2. Listed(Pending(n), m) => Listed(Pending(n)', m)
  BY <1>1, PendingGrows
<1>3. ASSUME m \in notified'[n], m \notin notified[n] PROVE Listed(Pending(n)', m)
  <2>1. Pending(n)' = Append(Pending(n), m)
    BY <1>1, <1>3 DEF Frame, Enlists
  <2>2. PICK q \in Seq(Messages) : q = Pending(n)
    BY <1>1, PendingType
  <2>3. Listed(Append(q, m), m)
    BY ListedAppend
  <2> QED BY <2>1, <2>2, <2>3
<1>4. m \in notified[n] => Listed(Pending(n), m)
  BY DEF Promised
<1>5. Reconstructible(entry'[n][m]) => Reconstructible(entry[n][m]) \/ Coming(n, m)'
  BY BecomesReconstructible
<1>6. Reconstructible(entry[n][m]) => Listed(Pending(n), m) \/ Coming(n, m)
  BY DEF Promised
<1>7. Coming(n, m) => Coming(n, m)' \/ Listed(Pending(n)', m)
  BY ComingOrPending
<1> QED BY <1>2, <1>3, <1>4, <1>5, <1>6, <1>7

(* However the handlers of a node interleave, with each other and with      *)
(* Publish, a message whose chunks suffice is delivered or about to be.     *)
THEOREM ReconstructionNotMissed == Spec => []NoMissedReconstruction
<1>1. IInv /\ Promised => NoMissedReconstruction
  <2> SUFFICES ASSUME IInv, Promised, NEW n \in Nodes, NEW m \in Messages,
                      Reconstructible(entry[n][m])
               PROVE  Delivered(n, m) \/ AtWork(n, m)
    BY DEF NoMissedReconstruction
  <2>1. Delivered(n, m) <=> Listed(Pending(n), m)
    BY PendingType DEF IInv
  <2> QED BY <2>1 DEF Promised, Coming, AtWork
<1> QED BY <1>1, TypeInit, TypeStep, PromisedInit, PromisedStep, PTL DEF Spec

(* ------------------------------ Counted ------------------------------- *)

Queueing(m) == {n \in Nodes : publisher[n].pc = "queueing" /\ publisher[n].msg = m}
NotifiedAt(m) == {n \in Nodes : m \in notified[n]}

(* Every publication and every notification stands for one delivery, which  *)
(* a publisher that is about to queue has still to make.                    *)
Accounted(m) ==
  /\ IsFiniteSet(Deliveries(m))
  /\ Cardinality(Deliveries(m)) + Cardinality(Queueing(m)) <=
       publishes[m] + Cardinality(NotifiedAt(m))

LEMMA AccountedInit == Init => \A m \in Messages : Accounted(m)
<1> SUFFICES ASSUME Init, NEW m \in Messages PROVE Accounted(m)
  OBVIOUS
<1>1. Deliveries(m) = {} /\ Queueing(m) = {} /\ NotifiedAt(m) = {}
  BY DEF Init, Deliveries, Queueing, NotifiedAt, NoPublisher
<1>2. IsFiniteSet({}) /\ Cardinality({}) = 0 /\ publishes[m] = 0
  BY FS_EmptySet DEF Init
<1> QED BY <1>1, <1>2 DEF Accounted

(* What is appended at one node is the only new delivery, and only one of   *)
(* the message appended.                                                    *)
LEMMA DeliveriesAppend ==
  ASSUME TypeOK, NEW n \in Nodes, NEW l \in Messages, NEW m \in Messages, Enlists(n, l)
  PROVE  IF l = m THEN \E d : Deliveries(m)' \subseteq Deliveries(m) \cup {d}
                  ELSE Deliveries(m)' \subseteq Deliveries(m)
<1> DEFINE At(k) == {j \in DOMAIN Pending(k) : Pending(k)[j] = m}
           d == <<n, Len(Pending(n)) + 1>>
<1>1. /\ Deliveries(m) = UNION {{<<k, i>> : i \in At(k)} : k \in Nodes}
      /\ Deliveries(m)' = UNION {{<<k, i>> : i \in At(k)'} : k \in Nodes}
  BY DEF Deliveries, Pending
<1>2. ASSUME NEW k \in Nodes \ {n} PROVE At(k)' = At(k)
  BY DEF Enlists
<1>3. PICK q \in Seq(Messages) : q = Pending(n)
  BY PendingType
<1>4. /\ Append(q, l)[Len(q) + 1] = l
      /\ \A j \in DOMAIN Append(q, l) : j # Len(q) + 1 =>
           j \in DOMAIN q /\ Append(q, l)[j] = q[j]
  BY <1>3
<1>5. \A j \in At(n)' : j \in At(n) \/ (j = Len(q) + 1 /\ l = m)
  BY <1>3, <1>4 DEF Enlists
<1> HIDE DEF At
<1>6. \A x \in Deliveries(m)' : x \in Deliveries(m) \/ (x = d /\ l = m)
  BY <1>1, <1>2, <1>3, <1>5
<1> QED BY <1>6

(* One publisher more or less.                                              *)
LEMMA QueueingStarted ==
  ASSUME TypeOK, NEW n \in Nodes, NEW l \in Messages, NEW m \in Messages, Started(n, l)
  PROVE  IF l = m THEN Queueing(m)' = Queueing(m) \cup {n} /\ n \notin Queueing(m)
                  ELSE Queueing(m)' = Queueing(m)
BY DEF Started, Queueing, TypeOK

LEMMA NodesAreFinite ==
  \A m : /\ IsFiniteSet(Queueing(m)) /\ Cardinality(Queueing(m)) \in Nat
         /\ IsFiniteSet(NotifiedAt(m)) /\ Cardinality(NotifiedAt(m)) \in Nat
<1>1. \A m : Queueing(m) \subseteq Nodes /\ NotifiedAt(m) \subseteq Nodes
  BY DEF Queueing, NotifiedAt
<1> QED BY <1>1, RouterAssumption, FS_Subset, FS_CardinalityType

(* A delivery more, of a message that is queued or newly notified.          *)
LEMMA OneDelivery ==
  ASSUME NEW S, NEW T, IsFiniteSet(S), \E d : T \subseteq S \cup {d}
  PROVE  /\ IsFiniteSet(T) /\ Cardinality(S) \in Nat /\ Cardinality(T) \in Nat
         /\ Cardinality(T) <= Cardinality(S) + 1
<1>1. PICK d : T \subseteq S \cup {d}
  OBVIOUS
<1>2. /\ IsFiniteSet(S \cup {d}) /\ Cardinality(S) \in Nat
      /\ Cardinality(S \cup {d}) \in Nat
      /\ Cardinality(S \cup {d}) <= Cardinality(S) + 1
  <2>1. /\ IsFiniteSet(S \cup {d}) /\ Cardinality(S) \in Nat
        /\ Cardinality(S \cup {d}) =
             IF d \in S THEN Cardinality(S) ELSE Cardinality(S) + 1
    BY FS_AddElement, FS_CardinalityType
  <2> QED BY <2>1
<1>3. IsFiniteSet(T) /\ Cardinality(T) \in Nat /\ Cardinality(T) <= Cardinality(S \cup {d})
  BY <1>1, <1>2, FS_Subset, FS_CardinalityType
<1> QED BY <1>2, <1>3

LEMMA NoDelivery ==
  ASSUME NEW S, NEW T, IsFiniteSet(S), T \subseteq S
  PROVE  /\ IsFiniteSet(T) /\ Cardinality(S) \in Nat /\ Cardinality(T) \in Nat
         /\ Cardinality(T) <= Cardinality(S)
BY FS_Subset, FS_CardinalityType

LEMMA AccountedStep ==
  ASSUME IInv, [Next]_vars, NEW m \in Messages, Accounted(m)
  PROVE  Accounted(m)'
<1> TypeOK /\ IsFiniteSet(Deliveries(m))
  BY DEF IInv, Accounted
<1>0. /\ publishes[m] \in Nat
      /\ Cardinality(Queueing(m)) \in Nat /\ Cardinality(NotifiedAt(m)) \in Nat
      /\ IsFiniteSet(Queueing(m)) /\ IsFiniteSet(NotifiedAt(m))
  BY NodesAreFinite DEF TypeOK
<1>1. ASSUME UNCHANGED publishes, Queueing(m)' = Queueing(m), NotifiedAt(m)' = NotifiedAt(m),
             Deliveries(m)' \subseteq Deliveries(m)
      PROVE  Accounted(m)'
  <2>1. /\ IsFiniteSet(Deliveries(m)') /\ Cardinality(Deliveries(m)) \in Nat
        /\ Cardinality(Deliveries(m)') \in Nat
        /\ Cardinality(Deliveries(m)') <= Cardinality(Deliveries(m))
    BY <1>1, NoDelivery
  <2> QED BY <1>0, <1>1, <2>1 DEF Accounted
<1>2. ASSUME NEW n \in Nodes, NEW l \in Messages, Started(n, l)
      PROVE  Accounted(m)'
  <2>1. /\ Deliveries(m)' = Deliveries(m) /\ NotifiedAt(m)' = NotifiedAt(m)
        /\ publishes' = [publishes EXCEPT ![l] = @ + 1]
    BY <1>2 DEF Started, Deliveries, NotifiedAt
  <2>2. CASE l = m
    <3>1. Queueing(m)' = Queueing(m) \cup {n} /\ n \notin Queueing(m)
      BY <1>2, <2>2, QueueingStarted
    <3>2. Cardinality(Queueing(m)') = Cardinality(Queueing(m)) + 1
      BY <1>0, <3>1, FS_AddElement
    <3>3. publishes'[m] = publishes[m] + 1
      BY <2>1, <2>2 DEF TypeOK
    <3>4. Cardinality(Deliveries(m)) \in Nat
      BY FS_CardinalityType
    <3> QED BY <1>0, <2>1, <3>2, <3>3, <3>4 DEF Accounted
  <2>3. CASE l # m
    <3>1. Queueing(m)' = Queueing(m) /\ publishes'[m] = publishes[m]
      BY <1>2, <2>1, <2>3, QueueingStarted DEF TypeOK
    <3> QED BY <2>1, <3>1 DEF Accounted
  <2> QED BY <2>2, <2>3
<1>3. ASSUME NEW n \in Nodes, PublishQueue(n) PROVE Accounted(m)'
  <2>1. /\ UNCHANGED <<notified, publishes, handed>>
        /\ received' = [received EXCEPT ![n] = Append(@, publisher[n].msg)]
        /\ publisher[n].pc = "queueing"
    BY <1>3 DEF PublishQueue
  <2>2. PICK l \in Messages : l = publisher[n].msg
    BY <2>1, BusyPublisher DEF TypeOK
  <2>3. NotifiedAt(m)' = NotifiedAt(m)
    BY <2>1 DEF NotifiedAt
  <2>4. /\ publisher'[n].pc # "queueing"
        /\ \A k \in Nodes \ {n} : publisher'[k] = publisher[k]
    BY <1>3 DEF PublishQueue, NoPublisher, TypeOK
  <2>5. Enlists(n, l)
    BY <2>1, <2>2, PendingAppend
  <2>6. CASE l = m
    <3>1. Queueing(m)' = Queueing(m) \ {n} /\ n \in Queueing(m)
      BY <2>1, <2>2, <2>4, <2>6 DEF Queueing
    <3>2. Cardinality(Queueing(m)') = Cardinality(Queueing(m)) - 1
      BY <1>0, <3>1, FS_RemoveElement
    <3>3. \E d : Deliveries(m)' \subseteq Deliveries(m) \cup {d}
      BY <2>5, <2>6, DeliveriesAppend
    <3>4. /\ IsFiniteSet(Deliveries(m)') /\ Cardinality(Deliveries(m)) \in Nat
          /\ Cardinality(Deliveries(m)') \in Nat
          /\ Cardinality(Deliveries(m)') <= Cardinality(Deliveries(m)) + 1
      BY <3>3, OneDelivery
    <3> QED BY <1>0, <2>1, <2>3, <3>2, <3>4 DEF Accounted
  <2>7. CASE l # m
    <3>1. Queueing(m)' = Queueing(m)
      BY <2>1, <2>2, <2>4, <2>7 DEF Queueing
    <3>2. Deliveries(m)' \subseteq Deliveries(m)
      BY <2>5, <2>7, DeliveriesAppend
    <3> QED BY <1>1, <2>1, <2>3, <3>1, <3>2
  <2> QED BY <2>6, <2>7
<1>4. ASSUME NEW n \in Nodes, PublishSend(n) PROVE Accounted(m)'
  <2>1. UNCHANGED <<received, notified, publishes, handed>>
    BY <1>4 DEF PublishSend
  <2>2. /\ publisher[n].pc = "sending" /\ publisher'[n].pc # "queueing"
        /\ \A k \in Nodes \ {n} : publisher'[k] = publisher[k]
    <3>1. publisher[n].pc = "sending"
      BY <1>4 DEF PublishSend
    <3>2. \A k \in Nodes : publisher'[k] = publisher[k] \/ publisher'[k].pc # "queueing"
      BY <1>4, PublishSendStep
    <3>3. \A k \in Nodes \ {n} : publisher'[k] = publisher[k]
      BY <1>4 DEF PublishSend, TypeOK
    <3> QED BY <3>1, <3>2, <3>3
  <2>3. Queueing(m)' = Queueing(m) /\ NotifiedAt(m)' = NotifiedAt(m)
    BY <2>1, <2>2 DEF Queueing, NotifiedAt
  <2>4. Deliveries(m)' = Deliveries(m)
    BY <2>1 DEF Deliveries
  <2> QED BY <1>1, <2>1, <2>3, <2>4
<1>5. ASSUME NEW n \in Nodes, TakeNext(n) PROVE Accounted(m)'
  <2>1. UNCHANGED <<notified, publisher, publishes>>
    BY <1>5 DEF TakeNext
  <2>2. \A k \in Nodes : Pending(k)' = Pending(k)
    BY <1>5, PendingTake
  <2>3. Deliveries(m)' = Deliveries(m)
    <3> DEFINE At(k) == {j \in DOMAIN Pending(k) : Pending(k)[j] = m}
               Of(k) == {<<k, i>> : i \in At(k)}
    <3>1. /\ Deliveries(m) = UNION {Of(k) : k \in Nodes}
          /\ Deliveries(m)' = UNION {Of(k)' : k \in Nodes}
      BY DEF Deliveries, Pending
    <3>2. \A k \in Nodes : At(k)' = At(k)
      BY <2>2
    <3> HIDE DEF At
    <3>3. \A k \in Nodes : Of(k)' = Of(k)
      BY <3>2
    <3> HIDE DEF Of
    <3>4. \A x : x \in Deliveries(m)' <=> x \in Deliveries(m)
      BY <3>1, <3>3
    <3> QED BY <3>4
  <2>4. Queueing(m)' = Queueing(m) /\ NotifiedAt(m)' = NotifiedAt(m)
    BY <2>1 DEF Queueing, NotifiedAt
  <2> QED BY <1>1, <2>1, <2>3, <2>4
<1>6. ASSUME NEW n \in Nodes, NEW p \in Nodes, Notify(n, p) PROVE Accounted(m)'
  <2>1. UNCHANGED <<publisher, publishes, handed>> /\ handler[n][p].busy
    BY <1>6 DEF Notify
  <2>2. PICK l \in Messages : l = handler[n][p].msg
    BY <1>6, HandlerEndStep
  <2>3. Queueing(m)' = Queueing(m)
    BY <2>1 DEF Queueing
  <2>4. CASE l \in notified[n]
    <3>1. UNCHANGED <<notified, received>>
      BY <1>6, <2>2, <2>4 DEF Notify
    <3> QED BY <1>1, <2>1, <2>3, <3>1 DEF Deliveries, NotifiedAt
  <2>5. CASE l \notin notified[n]
    <3>1. /\ notified' = [notified EXCEPT ![n] = @ \cup {l}]
          /\ received' = [received EXCEPT ![n] = Append(@, l)]
      BY <1>6, <2>2, <2>5 DEF Notify
    <3>2. Enlists(n, l)
      BY <2>1, <3>1, PendingAppend
    <3>3. CASE l = m
      <4>1. NotifiedAt(m)' = NotifiedAt(m) \cup {n} /\ n \notin NotifiedAt(m)
        BY <2>5, <3>1, <3>3 DEF NotifiedAt, TypeOK
      <4>2. Cardinality(NotifiedAt(m)') = Cardinality(NotifiedAt(m)) + 1
        BY <1>0, <4>1, FS_AddElement
      <4>3. \E d : Deliveries(m)' \subseteq Deliveries(m) \cup {d}
        BY <3>2, <3>3, DeliveriesAppend
      <4>4. /\ IsFiniteSet(Deliveries(m)') /\ Cardinality(Deliveries(m)) \in Nat
            /\ Cardinality(Deliveries(m)') \in Nat
            /\ Cardinality(Deliveries(m)') <= Cardinality(Deliveries(m)) + 1
        BY <4>3, OneDelivery
      <4> QED BY <1>0, <2>1, <2>3, <4>2, <4>4 DEF Accounted
    <3>4. CASE l # m
      <4>1. NotifiedAt(m)' = NotifiedAt(m)
        BY <3>1, <3>4 DEF NotifiedAt, TypeOK
      <4>2. Deliveries(m)' \subseteq Deliveries(m)
        BY <3>2, <3>4, DeliveriesAppend
      <4> QED BY <1>1, <2>1, <2>3, <4>1, <4>2
    <3> QED BY <3>3, <3>4
  <2> QED BY <2>4, <2>5
<1>7. CASE UNCHANGED <<received, notified, publisher, publishes, handed>>
  BY <1>1, <1>7 DEF Deliveries, Queueing, NotifiedAt
<1>8. ASSUME NEW n \in Nodes, NEW l \in Messages, PublishGenerate(n, l)
      PROVE  Started(n, l)
  BY <1>8 DEF PublishGenerate, Started
<1>9. ASSUME NEW d \in inFlight, HandleUsefulWhilePublishing(d)
      PROVE  d.to \in Nodes /\ d.msg \in Messages /\ Started(d.to, d.msg)
  BY <1>9, UsefulWhilePublishingStep
<1> QED
  BY <1>2, <1>3, <1>4, <1>5, <1>6, <1>7, <1>8, <1>9
  DEF Next, vars, HandlerStep, PublisherStep, HandleUseless, HandleUseful, Lose,
      SendChunk, HandleReturn, AddPeer, RemovePeer

(* However often a message is published and by whomever, it is delivered no *)
(* more often than it was published and nodes were notified of it, each     *)
(* node once.                                                               *)
THEOREM EveryDeliveryAccounted == Spec => []DeliveriesAccounted
<1> DEFINE Account == \A m \in Messages : Accounted(m)
<1>1. TypeOK /\ Account => DeliveriesAccounted
  <2> SUFFICES ASSUME TypeOK, Account, NEW m \in Messages
               PROVE  Cardinality(Deliveries(m)) <= publishes[m] + Cardinality(NotifiedAt(m))
    BY DEF DeliveriesAccounted, NotifiedAt
  <2>1. /\ Cardinality(Deliveries(m)) \in Nat /\ publishes[m] \in Nat
        /\ Cardinality(Queueing(m)) \in Nat /\ Cardinality(NotifiedAt(m)) \in Nat
    BY NodesAreFinite, FS_CardinalityType DEF Accounted, TypeOK
  <2> QED BY <2>1 DEF Accounted
<1>2. IInv /\ Account /\ [Next]_vars => Account'
  BY AccountedStep
<1>3. Init => Account
  BY AccountedInit
<1>4. IInv => TypeOK
  BY DEF IInv
<1> QED BY <1>1, <1>2, <1>3, <1>4, TypeInit, TypeStep, PTL DEF Spec

(* ------------------------------ Delivered once ------------------------ *)

(* Node n stores all of m and no handler of its works on it: none will.     *)
Quiet(n, m) == entry[n][m].chunks = Chunks /\ ~HandlerOn(n, m)

Unpublished ==
  \A m \in Messages : publishes[m] = 0 =>
    /\ \A n \in Nodes : /\ entry[n][m].chunks = {}
                       /\ ~Listed(Pending(n), m) /\ m \notin notified[n]
                       /\ ~HandlerOn(n, m) /\ ~PublisherOn(n, m)
    /\ \A d \in inFlight : d.msg # m

(* The messages that have been published once, or not yet.                  *)
PublishedOnce == {m \in Messages : publishes[m] <= 1}

(* Whoever publishes such a message never forwards it, and where it came    *)
(* from the network it is notified before it is pending.                    *)
PublishedQuiet ==
  \A n \in Nodes, m \in PublishedOnce :
    /\ publisher[n].pc = "queueing" /\ publisher[n].msg = m =>
         Quiet(n, m) /\ m \notin notified[n] /\ ~Listed(Pending(n), m)
    /\ Listed(Pending(n), m) => m \in notified[n] \/ Quiet(n, m)

PendingOnce == \A n \in Nodes : Once(Pending(n), PublishedOnce)

Bounded == \A m \in Messages : publishes[m] <= MaxPublishes

Single == Unpublished /\ PublishedQuiet /\ PendingOnce /\ Bounded

LEMMA SingleInit == Init => Single
<1> SUFFICES ASSUME Init PROVE Single
  OBVIOUS
<1>1. \A n \in Nodes : Pending(n) = <<>>
  BY DEF Init, Pending
<1>2. \A m : ~Listed(<<>>, m)
  BY DEF Listed
<1>3. \A P : Once(<<>>, P)
  BY DEF Once
<1>4. \A n \in Nodes, m \in Messages : ~HandlerOn(n, m) /\ ~PublisherOn(n, m)
  BY DEF Init, HandlerOn, PublisherOn, NoHandler, NoPublisher
<1>5. Unpublished
  BY <1>1, <1>2, <1>4 DEF Init, Unpublished, NoEntry
<1>6. PublishedQuiet
  BY <1>1, <1>2 DEF Init, PublishedQuiet, PublishedOnce, NoPublisher
<1>7. Bounded
  BY RouterAssumption DEF Init, Bounded
<1> QED BY <1>1, <1>3, <1>5, <1>6, <1>7 DEF Single, PendingOnce

LEMMA QuietKept ==
  ASSUME IInv', Growing, Frame, NEW n \in Nodes, NEW m \in Messages, Quiet(n, m)
  PROVE  Quiet(n, m)'
<1>1. entry'[n][m].chunks = Chunks
  <2>1. entry'[n][m].chunks \subseteq Chunks
    BY DEF IInv, TypeOK, Entry
  <2> QED BY <2>1 DEF Quiet, Growing
<1>2. ~HandlerOn(n, m)'
  BY DEF Frame, Quiet, HandlerOn
<1> QED BY <1>1, <1>2 DEF Quiet

(* Counting the publications of a message.                                  *)
LEMMA PublishesStep ==
  ASSUME IInv, [Next]_vars, NEW m \in Messages
  PROVE  /\ publishes'[m] = 0 =>
              publishes[m] = 0 /\ \A n \in Nodes : ~Started(n, m)
         /\ publishes'[m] \in {publishes[m], publishes[m] + 1}
         /\ publishes[m] <= MaxPublishes => publishes'[m] <= MaxPublishes
         /\ publishes'[m] <= 1 =>
              \A n \in Nodes : Started(n, m) => publishes[m] = 0
<1>1. publishes[m] \in Nat /\ TypeOK
  BY DEF IInv, TypeOK
<1>2. ASSUME NEW n \in Nodes, Started(n, m) PROVE publishes'[m] # 0
  BY <1>1, <1>2 DEF Started, TypeOK
<1>3. /\ publishes'[m] \in {publishes[m], publishes[m] + 1}
      /\ publishes[m] <= MaxPublishes => publishes'[m] <= MaxPublishes
  <2>1. ASSUME NEW n \in Nodes, NEW l \in Messages, Started(n, l)
        PROVE  /\ publishes'[m] \in {publishes[m], publishes[m] + 1}
               /\ publishes[m] <= MaxPublishes => publishes'[m] <= MaxPublishes
    <3>1. CASE l = m
      BY <1>1, <2>1, <3>1, RouterAssumption DEF Started, TypeOK
    <3>2. CASE l # m
      BY <1>1, <2>1, <3>2 DEF Started, TypeOK
    <3> QED BY <3>1, <3>2
  <2>2. CASE publishes' = publishes
    BY <2>2
  <2>3. ASSUME NEW n \in Nodes, NEW l \in Messages, PublishGenerate(n, l)
        PROVE  Started(n, l)
    BY <2>3 DEF PublishGenerate, Started
  <2>4. ASSUME NEW d \in inFlight, HandleUsefulWhilePublishing(d)
        PROVE  d.to \in Nodes /\ d.msg \in Messages /\ Started(d.to, d.msg)
    BY <2>4, UsefulWhilePublishingStep
  <2> QED
    BY <2>1, <2>2, <2>3, <2>4
    DEF Next, vars, HandlerStep, PublisherStep, PublishQueue, PublishSend, TakeNext,
        HandleUseless, HandleUseful, Lose, SendChunk, Notify, HandleReturn,
        AddPeer, RemovePeer
<1>4. ASSUME publishes'[m] <= 1, NEW n \in Nodes, Started(n, m)
      PROVE  publishes[m] = 0
  <2>1. publishes'[m] = publishes[m] + 1
    BY <1>4 DEF Started, IInv, TypeOK
  <2> QED BY <1>1, <1>4, <2>1
<1> QED BY <1>1, <1>2, <1>3, <1>4

LEMMA UnpublishedStep == IInv /\ Single /\ [Next]_vars => Unpublished'
<1> SUFFICES ASSUME IInv, Single, [Next]_vars, NEW m \in Messages, publishes'[m] = 0
             PROVE  /\ \A n \in Nodes :
                         /\ entry'[n][m].chunks = {}
                         /\ ~Listed(Pending(n)', m) /\ m \notin notified'[n]
                         /\ ~HandlerOn(n, m)' /\ ~PublisherOn(n, m)'
                    /\ \A d \in inFlight' : d.msg # m
  BY DEF Unpublished
<1>1. Frame /\ TypeOK
  BY FrameStep DEF IInv
<1>2. publishes[m] = 0 /\ \A n \in Nodes : ~Started(n, m)
  BY PublishesStep
<1>3. /\ \A n \in Nodes : /\ entry[n][m].chunks = {}
                         /\ ~Listed(Pending(n), m) /\ m \notin notified[n]
                         /\ ~HandlerOn(n, m) /\ ~PublisherOn(n, m)
      /\ \A d \in inFlight : d.msg # m
  BY <1>2 DEF Single, Unpublished
<1>4. \A d \in inFlight' : d.msg # m
  BY <1>1, <1>3 DEF Frame
<1> SUFFICES ASSUME NEW n \in Nodes
             PROVE  /\ entry'[n][m].chunks = {}
                    /\ ~Listed(Pending(n)', m) /\ m \notin notified'[n]
                    /\ ~HandlerOn(n, m)' /\ ~PublisherOn(n, m)'
  BY <1>4
<1>5. entry'[n][m].chunks = {}
  BY <1>1, <1>2, <1>3 DEF Frame
<1>6. m \notin notified'[n]
  BY <1>1, <1>3 DEF Frame
<1>7. ~HandlerOn(n, m)'
  <2>1. ASSUME NEW l \in Nodes, handler'[n][l].busy, handler'[n][l].msg = m
        PROVE  HandlerOn(n, m)
    BY <1>1, <1>3, <2>1 DEF Frame, HandlerOn
  <2> QED BY <1>3, <2>1 DEF HandlerOn
<1>8. ~PublisherOn(n, m)'
  BY <1>1, <1>2, <1>3 DEF Frame, PublisherOn
<1>9. ~Listed(Pending(n)', m)
  <2>1. CASE Pending(n)' = Pending(n)
    BY <1>3, <2>1
  <2>2. ASSUME NEW e \in Messages, Pending(n)' = Append(Pending(n), e),
               (publisher[n].pc = "queueing" /\ publisher[n].msg = e) \/ HandlerOn(n, e)
        PROVE  ~Listed(Pending(n)', m)
    <3>1. e # m
      BY <1>3, <2>2 DEF PublisherOn
    <3>2. PICK q \in Seq(Messages) : q = Pending(n)
      BY <1>1, PendingType
    <3>3. ~Listed(Append(q, e), m)
      BY <1>3, <3>1, <3>2, ListedAppend
    <3> QED BY <2>2, <3>2, <3>3
  <2> QED BY <1>1, <2>1, <2>2 DEF Frame
<1> QED BY <1>5, <1>6, <1>7, <1>8, <1>9

(* What a step appends to what is pending is either notified or published   *)
(* here, and was not pending before if it is published once.                *)
LEMMA AppendedOnce ==
  ASSUME IInv, Single, Frame, NEW n \in Nodes, Pending(n)' # Pending(n)
  PROVE  \E m \in Messages :
           /\ Pending(n)' = Append(Pending(n), m)
           /\ m \in PublishedOnce =>
                ~Listed(Pending(n), m) /\ (m \in notified'[n] \/ Quiet(n, m))
<1>1. PICK m \in Messages :
        /\ Pending(n)' = Append(Pending(n), m)
        /\ \/ /\ publisher[n].pc = "queueing" /\ publisher[n].msg = m
              /\ publisher'[n].pc # "queueing"
           \/ HandlerOn(n, m) /\ m \notin notified[n] /\ m \in notified'[n]
  BY DEF Frame
<1>2. CASE publisher[n].pc = "queueing" /\ publisher[n].msg = m
                                        /\ publisher'[n].pc # "queueing"
  BY <1>1, <1>2 DEF Single, PublishedQuiet
<1>3. CASE HandlerOn(n, m) /\ m \notin notified[n] /\ m \in notified'[n]
  BY <1>1, <1>3 DEF Single, PublishedQuiet, Quiet
<1> QED BY <1>1, <1>2, <1>3

LEMMA SingleStep == IInv /\ Single /\ [Next]_vars => Single'
<1> SUFFICES ASSUME IInv, Single, [Next]_vars PROVE Single'
  OBVIOUS
<1>1. Frame /\ IInv' /\ Growing /\ TypeOK
  BY FrameStep, TypeStep DEF IInv
<1>2. Unpublished'
  BY UnpublishedStep
<1>0. PublishedOnce' \subseteq PublishedOnce /\ Bounded'
  <2>1. ASSUME NEW m \in Messages
        PROVE  /\ publishes'[m] <= 1 => publishes[m] <= 1
               /\ publishes'[m] <= MaxPublishes
    <3>1. publishes[m] \in Nat /\ publishes[m] <= MaxPublishes
      BY <1>1 DEF TypeOK, Single, Bounded
    <3>2. /\ publishes'[m] \in {publishes[m], publishes[m] + 1}
          /\ publishes[m] <= MaxPublishes => publishes'[m] <= MaxPublishes
      BY PublishesStep
    <3> QED BY <3>1, <3>2
  <2> QED BY <2>1 DEF PublishedOnce, Bounded
<1>3. ASSUME NEW n \in Nodes, NEW m \in PublishedOnce',
             publisher'[n].pc = "queueing", publisher'[n].msg = m
      PROVE  Quiet(n, m)' /\ m \notin notified'[n] /\ ~Listed(Pending(n)', m)
  <2>0. m \in PublishedOnce /\ m \in Messages /\ publishes'[m] <= 1
    BY <1>0 DEF PublishedOnce
  <2>1. CASE publisher[n].pc = "queueing" /\ publisher[n].msg = m
    <3>1. Quiet(n, m) /\ m \notin notified[n] /\ ~Listed(Pending(n), m)
      BY <2>0, <2>1 DEF Single, PublishedQuiet
    <3>2. Quiet(n, m)'
      BY <1>1, <2>0, <3>1, QuietKept
    <3>3. m \notin notified'[n]
      BY <1>1, <2>0, <3>1 DEF Frame, Quiet
    <3>4. ~Listed(Pending(n)', m)
      <4>1. CASE Pending(n)' = Pending(n)
        BY <3>1, <4>1
      <4>2. CASE Pending(n)' # Pending(n)
        <5>1. PICK e \in Messages : /\ Pending(n)' = Append(Pending(n), e)
                                    /\ HandlerOn(n, e)
          BY <1>1, <1>3, <4>2 DEF Frame
        <5>2. PICK q \in Seq(Messages) : q = Pending(n)
          BY <1>1, PendingType
        <5>3. e # m
          BY <3>1, <5>1 DEF Quiet
        <5>4. ~Listed(Append(q, e), m)
          BY <3>1, <5>2, <5>3, ListedAppend
        <5> QED BY <5>1, <5>2, <5>4
      <4> QED BY <4>1, <4>2
    <3> QED BY <3>2, <3>3, <3>4
  <2>2. CASE Started(n, m)
    <3>1. publishes[m] = 0
      BY <2>0, <2>2, PublishesStep
    <3>2. /\ ~Listed(Pending(n), m) /\ m \notin notified[n] /\ ~HandlerOn(n, m)
          /\ \A d \in inFlight : d.msg # m
      BY <2>0, <3>1 DEF Single, Unpublished
    <3>3. UNCHANGED <<received, notified, handed>>
      BY <2>2 DEF Started
    <3>4. entry'[n][m].chunks = Chunks
      BY <1>1, <1>3 DEF IInv, Working
    <3>5. ~HandlerOn(n, m)'
      BY <1>1, <3>2 DEF Frame, HandlerOn
    <3> QED BY <3>2, <3>3, <3>4, <3>5 DEF Quiet, Pending
  <2>3. \/ publisher[n].pc = "queueing" /\ publisher[n].msg = m
        \/ Started(n, m)
    BY <1>1, <1>3 DEF Frame
  <2> QED BY <2>1, <2>2, <2>3
<1>4. ASSUME NEW n \in Nodes, NEW m \in PublishedOnce', Listed(Pending(n)', m)
      PROVE  m \in notified'[n] \/ Quiet(n, m)'
  <2>0. m \in PublishedOnce /\ m \in Messages
    BY <1>0 DEF PublishedOnce
  <2>1. CASE Listed(Pending(n), m)
    <3>1. m \in notified[n] \/ Quiet(n, m)
      BY <2>0, <2>1 DEF Single, PublishedQuiet
    <3> QED BY <1>1, <2>0, <3>1, QuietKept DEF Frame
  <2>2. CASE ~Listed(Pending(n), m)
    <3>1. Pending(n)' # Pending(n)
      BY <1>4, <2>2
    <3>2. PICK e \in Messages :
            /\ Pending(n)' = Append(Pending(n), e)
            /\ e \in PublishedOnce => Quiet(n, e) \/ e \in notified'[n]
      BY <1>1, <3>1, AppendedOnce
    <3>3. PICK q \in Seq(Messages) : q = Pending(n)
      BY <1>1, PendingType
    <3>4. e = m
      BY <1>4, <2>2, <3>2, <3>3, ListedAppend
    <3> QED BY <1>1, <2>0, <3>2, <3>4, QuietKept
  <2> QED BY <2>1, <2>2
<1>5. ASSUME NEW n \in Nodes PROVE Once(Pending(n)', PublishedOnce')
  <2>1. Once(Pending(n), PublishedOnce)
    BY DEF Single, PendingOnce
  <2>2. CASE Pending(n)' = Pending(n)
    BY <1>0, <2>1, <2>2 DEF Once
  <2>3. CASE Pending(n)' # Pending(n)
    <3>1. PICK e \in Messages :
            /\ Pending(n)' = Append(Pending(n), e)
            /\ e \in PublishedOnce => ~Listed(Pending(n), e)
      BY <1>1, <2>3, AppendedOnce
    <3>2. PICK q \in Seq(Messages) : q = Pending(n)
      BY <1>1, PendingType
    <3>3. PICK P : P = PublishedOnce
      OBVIOUS
    <3>4. PICK Q : Q = PublishedOnce'
      OBVIOUS
    <3>5. Q \in SUBSET P /\ (e \in Q => ~Listed(q, e))
      BY <1>0, <3>1, <3>2, <3>3, <3>4
    <3>6. Once(Append(q, e), Q)
      BY <2>1, <3>2, <3>3, <3>5, OnceAppend
    <3> QED BY <3>1, <3>2, <3>4, <3>6
  <2> QED BY <2>2, <2>3
<1>6. PublishedQuiet'
  BY <1>3, <1>4 DEF PublishedQuiet
<1>7. PendingOnce'
  BY <1>5 DEF PendingOnce
<1> QED BY <1>0, <1>2, <1>6, <1>7 DEF Single

(* Only what is published is pending.                                       *)
LEMMA PendingIsPublished ==
  ASSUME IInv, Single, NEW n \in Nodes, NEW i \in DOMAIN Pending(n)
  PROVE  Pending(n)[i] \in Messages /\ publishes[Pending(n)[i]] > 0
<1>1. PICK q \in Seq(Messages) : q = Pending(n)
  BY PendingType DEF IInv
<1>2. q[i] \in Messages /\ Listed(Pending(n), q[i])
  BY <1>1 DEF Listed
<1>3. publishes[q[i]] # 0 /\ publishes[q[i]] \in Nat
  BY <1>2 DEF Single, Unpublished, IInv, TypeOK
<1> QED BY <1>1, <1>2, <1>3

(* Published at most once each, no message is pending twice.                *)
LEMMA NothingTwice ==
  ASSUME MaxPublishes <= 1, IInv, Single, NEW n \in Nodes
  PROVE  NoDuplicates(Pending(n))
<1>1. Messages = PublishedOnce
  <2>1. ASSUME NEW m \in Messages PROVE publishes[m] <= 1
    BY RouterAssumption DEF Single, Bounded, IInv, TypeOK
  <2> QED BY <2>1 DEF PublishedOnce
<1> QED BY <1>1, PendingIsPublished DEF Single, PendingOnce, Once, NoDuplicates

(* A message published once is delivered once at a node, however many       *)
(* handlers complete it at the same time, and however often other messages  *)
(* are published; one that is not published is not delivered.               *)
THEOREM PublishedOnceDeliveredOnce == Spec => []DeliveredOnce
<1>1. IInv /\ Single => DeliveredOnce
  <2> SUFFICES ASSUME IInv, Single, NEW n \in Nodes,
                      NEW i \in DOMAIN Pending(n), NEW j \in DOMAIN Pending(n)
               PROVE  /\ publishes[Pending(n)[i]] > 0
                      /\ Pending(n)[i] = Pending(n)[j]
                           /\ publishes[Pending(n)[i]] = 1 => i = j
    BY DEF DeliveredOnce, Pending
  <2>1. Pending(n)[i] \in Messages /\ publishes[Pending(n)[i]] > 0
    BY PendingIsPublished
  <2>2. publishes[Pending(n)[i]] = 1 => Pending(n)[i] \in PublishedOnce
    BY <2>1 DEF PublishedOnce
  <2> QED BY <2>1, <2>2 DEF Single, PendingOnce, Once
<1> QED BY <1>1, SingleStep, TypeInit, TypeStep, SingleInit, PTL DEF Spec

(* Published at most once each, no message is handed out twice.             *)
THEOREM DeliveredAtMostOnce ==
  ASSUME MaxPublishes <= 1
  PROVE  Spec => []NoDuplicateDelivery
<1>1. IInv /\ Single => NoDuplicateDelivery
  <2> SUFFICES ASSUME IInv, Single, NEW n \in Nodes PROVE NoDuplicates(handed[n])
    BY DEF NoDuplicateDelivery, NoDuplicates
  <2>1. handed[n] \in Seq(Messages) /\ received[n] \in Seq(Messages)
    BY DEF IInv, TypeOK
  <2>2. NoDuplicates(handed[n] \o received[n])
    BY NothingTwice DEF Pending
  <2> QED BY <2>1, <2>2, NoDuplicatesPart
<1> QED BY <1>1, SingleStep, TypeInit, TypeStep, SingleInit, PTL DEF Spec

(* The head of a queue that follows a sequence without duplicates is new.   *)
LEMMA HeadIsNew ==
  ASSUME NEW S, NEW s \in Seq(S), NEW t \in Seq(S), t # <<>>, NoDuplicates(s \o t)
  PROVE  Head(t) \in S /\ ~Listed(s, Head(t)) /\ Listed(s \o t, Head(t))
<1>1. /\ Len(s) \in Nat /\ Len(t) \in Nat \ {0} /\ Head(t) = t[1] /\ Head(t) \in S
      /\ DOMAIN s = 1 .. Len(s) /\ DOMAIN (s \o t) = 1 .. Len(s) + Len(t)
      /\ \A i \in 1 .. Len(s) : (s \o t)[i] = s[i]
      /\ \A i \in 1 .. Len(s) + Len(t) :
           (s \o t)[i] = IF i <= Len(s) THEN s[i] ELSE t[i - Len(s)]
  BY EmptySeq, LenProperties, HeadTailProperties
<1> DEFINE next == Len(s) + 1
<1>2. next \in DOMAIN (s \o t) /\ (s \o t)[next] = Head(t)
  <2>1. next \in 1 .. Len(s) + Len(t) /\ ~(next <= Len(s)) /\ next - Len(s) = 1
    BY <1>1
  <2> QED BY <1>1, <2>1
<1>3. ASSUME NEW i \in DOMAIN s, s[i] = Head(t) PROVE FALSE
  <2>1. i \in DOMAIN (s \o t) /\ (s \o t)[i] = (s \o t)[next] /\ i # next
    BY <1>1, <1>2, <1>3
  <2> QED BY <1>2, <2>1 DEF NoDuplicates
<1> QED BY <1>1, <1>2, <1>3 DEF Listed

LEMMA BroadcastStep ==
  ASSUME MaxPublishes <= 1
  PROVE  IInv /\ Single /\ [Next]_vars => [Topic!Next]_(Topic!vars)
<1> SUFFICES ASSUME IInv, Single, [Next]_vars PROVE [Topic!Next]_(Topic!vars)
  OBVIOUS
<1> TypeOK
  BY DEF IInv
<1>1. CASE UNCHANGED <<publishes, handed>>
  BY <1>1 DEF Topic!vars
<1>2. ASSUME NEW n \in Nodes, NEW m \in Messages, Started(n, m)
      PROVE  Topic!Publish(m)
  <2>1. publishes' = [publishes EXCEPT ![m] = @ + 1] /\ handed' = handed
    BY <1>2 DEF Started
  <2>2. \A l \in Messages : publishes'[l] > 0 <=> publishes[l] > 0 \/ l = m
    BY <2>1 DEF TypeOK
  <2>3. {l \in Messages : publishes'[l] > 0} = {l \in Messages : publishes[l] > 0} \cup {m}
    BY <2>2
  <2> QED BY <2>1, <2>3 DEF Topic!Publish
<1>3. ASSUME NEW n \in Nodes, TakeNext(n)
      PROVE  \E m \in Messages : Topic!Deliver(n, m)
  <2> DEFINE taken == handed[n]
             buffered == received[n]
             m == Head(buffered)
  <2>1. /\ buffered # <<>>
        /\ handed' = [handed EXCEPT ![n] = Append(@, m)]
        /\ publishes' = publishes
    BY <1>3 DEF TakeNext
  <2>2. taken \in Seq(Messages) /\ buffered \in Seq(Messages)
    BY DEF TypeOK
  <2>3. NoDuplicates(taken \o buffered)
    BY NothingTwice DEF Pending
  <2> HIDE DEF taken, buffered
  <2>4. m \in Messages /\ ~Listed(taken, m) /\ Listed(taken \o buffered, m)
    BY <2>1, <2>2, <2>3, HeadIsNew
  <2>5. Listed(Pending(n), m)
    BY <2>4 DEF Pending, taken, buffered
  <2> HIDE DEF m
  <2>6. publishes[m] # 0
    BY <2>4, <2>5 DEF Single, Unpublished
  <2>7. publishes[m] > 0
    BY <2>4, <2>6 DEF TypeOK
  <2>8. ~Topic!Has(n, m)
    BY <2>4 DEF Topic!Has, Listed, taken
  <2> QED BY <2>1, <2>4, <2>7, <2>8 DEF Topic!Deliver
<1>4. ASSUME NEW n \in Nodes, NEW m \in Messages, PublishGenerate(n, m)
      PROVE  Started(n, m)
  BY <1>4 DEF PublishGenerate, Started
<1>5. ASSUME NEW d \in inFlight, HandleUsefulWhilePublishing(d)
      PROVE  d.to \in Nodes /\ d.msg \in Messages /\ Started(d.to, d.msg)
  BY <1>5, UsefulWhilePublishingStep
<1> QED
  BY <1>1, <1>2, <1>3, <1>4, <1>5
  DEF Next, vars, HandlerStep, PublisherStep, PublishQueue, PublishSend, HandleUseless,
      HandleUseful, Lose, SendChunk, Notify, HandleReturn, AddPeer, RemovePeer,
      Topic!Next

(* Published at most once each, messages are broadcast: a node hands a      *)
(* message out once, and only after it was published, whatever the network, *)
(* the code rate, the multipliers, the losses and the peers.                *)
THEOREM EcImplementsBroadcast ==
  ASSUME MaxPublishes <= 1
  PROVE  Spec => ImplementsBroadcast
<1>1. Init => Topic!Init
  <2> SUFFICES ASSUME Init PROVE Topic!Init
    OBVIOUS
  <2>1. \A m \in Messages : ~(publishes[m] > 0)
    BY DEF Init
  <2> QED BY <2>1 DEF Init, Topic!Init
<1>2. IInv /\ Single /\ [Next]_vars => [Topic!Next]_(Topic!vars)
  BY BroadcastStep
<1> QED
  BY <1>1, <1>2, SingleStep, TypeInit, TypeStep, SingleInit, PTL
  DEF Spec, ImplementsBroadcast, Topic!Spec
=============================================================================
