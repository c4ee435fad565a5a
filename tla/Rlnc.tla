---------------------------------- MODULE Rlnc ----------------------------------
(***************************************************************************)
(* RLNC encoders (src/ec/encode/rlnc/rlnc.go) of several nodes exchanging  *)
(* the chunks of one message, with the Pedersen verifier                   *)
(* (rlnc/verify/pedersen.go).  The routers call the encoder's methods,     *)
(* each one critical section of the encoder: here any node that stores     *)
(* chunks may emit to any peer at any time, and a chunk may wait for ever, *)
(* which is to be lost.  The random factors are nondeterministic.          *)
(*                                                                         *)
(* The field is the scalar field of the verifier's group.  Commitments are *)
(* written additively as the integers modulo P, which is what a group of   *)
(* prime order P is like.  What cannot be said so is that commitments are  *)
(* hard to forge.  Signatures are reduced to who signed.                   *)
(***************************************************************************)
EXTENDS PrimeField

CONSTANTS
  ByteBits,            \* bits of a byte
  Nodes,
  Publishers,          \* nodes that publish the message
  Links,               \* pairs <<n, p>>: n has p as a peer
  Message,             \* its chunks, each a string of bits
  MessageChunkSize, NetworkChunkSize, ElementsPerChunk, MaxCoefficientBits,
  Generators,          \* PedersenVerifier.generators
  MaxInFlight          \* bound: chunks on their way at the same time

(* FieldMatrix.tla, and what is proved of it.                                *)
INSTANCE FieldMatrixProofs

messageBitsPerElement == (ByteBits * MessageChunkSize) \div ElementsPerChunk
networkBitsPerElement == (ByteBits * NetworkChunkSize) \div ElementsPerChunk

(* What NewRlncEncoder and NewPedersenVerifier check ...                    *)
ASSUME ConfigAssumption ==
  /\ {ByteBits, MessageChunkSize, NetworkChunkSize, ElementsPerChunk} \subseteq Nat \ {0}
  /\ MaxCoefficientBits \in Nat
  /\ (ByteBits * MessageChunkSize) % ElementsPerChunk = 0
  /\ messageBitsPerElement <= BitsPerDataElement
  /\ networkBitsPerElement >= BitsPerElement

(* ... and what they do not: that the bits which fill up the last byte of a *)
(* chunk do not make an element more.                                       *)
ASSUME PaddingAssumption ==
  LET bits == ElementsPerChunk * networkBitsPerElement
  IN  (ByteBits - (bits % ByteBits)) % ByteBits < networkBitsPerElement

ASSUME MessageAssumption ==
  /\ Publishers \subseteq Nodes /\ Links \subseteq Nodes \X Nodes
  /\ Message # <<>>
  /\ Message \in Seq(BitStrings(ByteBits * MessageChunkSize))
  /\ Generators \in [1 .. ElementsPerChunk -> Elements \ {0}]

VARIABLES
  chunks,      \* encoder.chunks of the message
  inFlight,    \* chunks sent and not yet handled
  publishers   \* history: the nodes that have published

vars == <<chunks, inFlight, publishers>>

ChunkCount == Len(Message)
Coefficients == [1 .. ChunkCount -> Elements]
ChunkBits == ByteBits * ((ElementsPerChunk * networkBitsPerElement + ByteBits - 1) \div ByteBits)

(* Extra: the commitments to the message's chunks, and who signed them. *)
Extras == [publisherID : Nodes, commitments : Coefficients]
Chunks == [data : BitStrings(ChunkBits), coeffs : Coefficients, extra : Extras]

TypeOK ==
  /\ chunks \in [Nodes -> Seq(Chunks)]
  /\ inFlight \subseteq [to : Nodes, chunk : Chunks]
  /\ publishers \subseteq Nodes

Init ==
  /\ chunks = [n \in Nodes |-> <<>>]
  /\ inFlight = {}
  /\ publishers = {}

-----------------------------------------------------------------------------
(* PedersenVerifier *)

splitIntoElements(data) == SplitBitsToFieldElements(data, networkBitsPerElement)

commit(values) ==
  Total([i \in 1 .. Len(values) |->
    IF i <= Len(Generators) THEN Mul(values[i], Generators[i]) ELSE Zero])

GenerateExtras(n, datas) ==
  [publisherID |-> n,
   commitments |-> [i \in DOMAIN datas |-> commit(splitIntoElements(datas[i]))]]

CombineExtras(stored) == stored[1].extra

(* Mutant: the data must be committed to by one of the commitments itself.  *)
VerifyUncombined(chunk) ==
  \E i \in DOMAIN chunk.extra.commitments :
    commit(splitIntoElements(chunk.data)) = chunk.extra.commitments[i]

Verify(chunk) ==
  /\ Len(chunk.coeffs) = Len(chunk.extra.commitments)
  /\ commit(splitIntoElements(chunk.data)) =
       Total([i \in DOMAIN chunk.coeffs |->
         Mul(chunk.coeffs[i], chunk.extra.commitments[i])])

-----------------------------------------------------------------------------
(* RlncEncoder *)

(* The chunks of the message as they go to the network. *)
NetworkData ==
  [i \in DOMAIN Message |->
     FieldElementsToBytes(SplitBitsToFieldElements(Message[i], messageBitsPerElement),
                          networkBitsPerElement)]

(* Publishing replaces what has been received by the chunks themselves.     *)
GenerateThenAddChunks(n) ==
  /\ n \in Publishers \ publishers
  /\ chunks' = [chunks EXCEPT ![n] =
       [i \in 1 .. ChunkCount |->
          [data |-> NetworkData[i],
           coeffs |-> [j \in 1 .. ChunkCount |-> IF i = j THEN 1 ELSE 0],
           extra |-> GenerateExtras(n, NetworkData)]]]
  /\ publishers' = publishers \cup {n}
  /\ UNCHANGED inFlight

(* A random combination of the chunks that are stored at the moment.        *)
(* Mutant: the factors are drawn for the first chunk only.                  *)
FactorsOfFirst(stored) ==
  {[i \in DOMAIN stored |-> IF i = 1 THEN a ELSE 0] : a \in RandomMax(MaxCoefficientBits)}

Factors(stored) == [DOMAIN stored -> RandomMax(MaxCoefficientBits)]

Combined(stored, factors) ==
  [data   |-> FieldElementsToBytes(
                Combination(factors, [i \in DOMAIN stored |-> splitIntoElements(stored[i].data)]),
                networkBitsPerElement),
   coeffs |-> Combination(factors, [i \in DOMAIN stored |-> stored[i].coeffs]),
   extra  |-> CombineExtras(stored)]

EmitChunk(n, p) ==
  /\ chunks[n] # <<>>
  /\ Cardinality(inFlight) < MaxInFlight
  /\ \E factors \in Factors(chunks[n]) :
       inFlight' = inFlight \cup {[to |-> p, chunk |-> Combined(chunks[n], factors)]}
  /\ UNCHANGED <<chunks, publishers>>

Coeffs(stored) == [i \in DOMAIN stored |-> stored[i].coeffs]

Acceptable(stored, chunk) ==
  Verify(chunk) /\ IsLinearlyIndependent(Append(Coeffs(stored), chunk.coeffs))

(* Mutant: the chunk takes the place of the last one.                       *)
VerifyThenPutChunk(d) ==
  /\ d \in inFlight
  /\ inFlight' = inFlight \ {d}
  /\ chunks' = [chunks EXCEPT ![d.to] =
       IF ~Acceptable(@, d.chunk) THEN @
       ELSE IF @ = <<>> THEN <<d.chunk>> ELSE [@ EXCEPT ![Len(@)] = d.chunk]]
  /\ UNCHANGED publishers

VerifyThenAddChunk(d) ==
  /\ d \in inFlight
  /\ inFlight' = inFlight \ {d}
  /\ chunks' = [chunks EXCEPT ![d.to] =
       IF Acceptable(@, d.chunk) THEN Append(@, d.chunk) ELSE @]
  /\ UNCHANGED publishers

GetMinChunksForReconstruction(stored) ==
  IF stored = <<>> THEN 0 ELSE Len(stored[1].coeffs)

ReconstructMessage(stored) ==
  LET vectors == RecoverVectors(Coeffs(stored),
                   [i \in DOMAIN stored |-> splitIntoElements(stored[i].data)])
  IN  [i \in DOMAIN vectors |-> FieldElementsToBytes(vectors[i], messageBitsPerElement)]

-----------------------------------------------------------------------------
Next ==
  \/ \E n \in Nodes : GenerateThenAddChunks(n)
  \/ \E link \in Links : EmitChunk(link[1], link[2])
  \/ \E d \in inFlight : VerifyThenAddChunk(d)

Spec == Init /\ [][Next]_vars

-----------------------------------------------------------------------------
(* What the code promises *)

(* All combinations of some vectors, by definition. *)
Span(vectors) ==
  IF vectors = <<>> THEN {[i \in 1 .. ChunkCount |-> 0]}
  ELSE {Combination(f, vectors) : f \in [DOMAIN vectors -> Elements]}

Known(n) == Span(Coeffs(chunks[n]))

(* No combination is zero but the one whose factors are. *)
Independent(vectors) ==
  \A f \in [DOMAIN vectors -> Elements] :
    (\E k \in DOMAIN f : f[k] # Zero)
      => \E j \in 1 .. ChunkCount : Combination(f, vectors)[j] # Zero

(* What a node stores has no redundancy: each chunk multiplies what it can  *)
(* derive, so the number of chunks is the rank that the router takes it for.*)
ChunksIndependent == \A n \in Nodes : Independent(Coeffs(chunks[n]))

(* When the router counts enough chunks, however they were combined on the  *)
(* way, the message comes out as it was published.                          *)
ReconstructionExact ==
  \A n \in Nodes :
    (chunks[n] # <<>> /\ Len(chunks[n]) >= GetMinChunksForReconstruction(chunks[n]))
      => ReconstructMessage(chunks[n]) = Message

(* Verification and elimination refuse a chunk that an encoder made only    *)
(* when it brings nothing that the node could not derive already.           *)
RefusedIsUseless ==
  [][\A d \in inFlight \ inFlight' :
       chunks'[d.to] = chunks[d.to] => d.chunk.coeffs \in Known(d.to)]_vars

(* Nothing a node could derive is forgotten, also when it publishes itself  *)
(* what it has partly received.                                             *)
KnowledgeKept ==
  [][\A n \in Nodes : chunks'[n] # chunks[n] => Known(n) \subseteq Known(n)']_vars

(* A node that knows something new to another one can draw factors that     *)
(* make a chunk the other accepts.                                          *)
HelpPossible ==
  \A n, p \in Nodes :
    (chunks[n] # <<>> /\ ~(Known(n) \subseteq Known(p)))
      => \E factors \in Factors(chunks[n]) :
           Acceptable(chunks[p], Combined(chunks[n], factors))
=============================================================================
