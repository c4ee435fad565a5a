---------------------------------- MODULE RsCode ----------------------------------
(***************************************************************************)
(* The Reed-Solomon code of src/ec/encode/rs/rs.go over a binary field:    *)
(* what the chunks of a message contain, and how a message is decoded from *)
(* some of them.  RsEncoder.tla has the rest of the encoder, the order in  *)
(* which chunks are emitted.  Both shadow/rs and examples/rs-network leave *)
(* the verifier out, and no type of the repository implements it.          *)
(***************************************************************************)
EXTENDS BinaryField

CONSTANTS
  ByteBits,                                              \* bits of a byte
  ParityNum, ParityDen,                                  \* config.ParityRatio, a fraction
  MessageChunkSize, NetworkChunkSize, ElementsPerChunk,  \* config
  PrimitiveElement,                                      \* config
  MaxChunkCount                                          \* bound: the longest message

(* FieldMatrix.tla, and what is proved of it.                                *)
INSTANCE FieldMatrixProofs

messageBitsPerElement == (ByteBits * MessageChunkSize) \div ElementsPerChunk
networkBitsPerElement == (ByteBits * NetworkChunkSize) \div ElementsPerChunk

ASSUME RsConfigAssumption ==
  /\ {ByteBits, MessageChunkSize, NetworkChunkSize, ElementsPerChunk} \subseteq Nat \ {0}
  /\ ParityNum \in Nat \ {0} /\ ParityDen \in Nat \ {0}
  /\ (ByteBits * MessageChunkSize) % ElementsPerChunk = 0
  /\ messageBitsPerElement <= BitsPerDataElement
  /\ networkBitsPerElement >= BitsPerElement
  /\ PrimitiveElement \in Elements

(* At least one parity chunk, whatever the ratio rounds to.  The ratio is   *)
(* an exact fraction here; the code truncates a floating-point product, in  *)
(* the encoder (rs.go:273) and the decoder (rs.go:505) alike, which for     *)
(* some ratios is one less.  Nothing below depends on the number.           *)
parityCount(chunkCount) == Max({1, (chunkCount * ParityNum) \div ParityDen})

-----------------------------------------------------------------------------
(* The generator matrix *)

(* The first powers of a point. *)
Powers(point, n) ==
  LET power[i \in 1 .. n] == IF i = 1 THEN One ELSE Mul(power[i - 1], point)
  IN  power

generateEvaluationPoints(total) == Powers(PrimitiveElement, total)

(* The first rows are made the unit vectors, so that the first chunks carry *)
(* the message itself.  With more chunks than powers of the primitive       *)
(* element the inverse may not exist, and the code panics.                  *)
generateEncodingMatrix(chunkCount) ==
  LET total       == chunkCount + parityCount(chunkCount)
      vandermonde == [i \in 1 .. total |->
                        Powers(generateEvaluationPoints(total)[i], chunkCount)]
  IN  MatrixMultiply(vandermonde, InvertMatrix(SubSeq(vandermonde, 1, chunkCount)))

(* The code computes the matrix anew whenever it encodes or decodes.        *)
EncodingMatrix == [chunkCount \in 1 .. MaxChunkCount |-> generateEncodingMatrix(chunkCount)]

Indices(chunkCount) == 0 .. chunkCount + parityCount(chunkCount) - 1

(* The code relies on "properly chosen evaluation points": different ones.  *)
ASSUME EvaluationPointsAssumption ==
  /\ MaxChunkCount \in Nat
  /\ \A chunkCount \in 1 .. MaxChunkCount :
       IsInjective(generateEvaluationPoints(chunkCount + parityCount(chunkCount)))

-----------------------------------------------------------------------------
(* What an encoder keeps of a message: the number of its data chunks, zero  *)
(* as long as none is stored, and the bytes of each chunk it has.           *)
NoChunks == [chunkCount |-> 0, chunks |-> <<>>]

Chunk(e, i) == [index |-> i, data |-> e.chunks[i], chunkCount |-> e.chunkCount]

ChunkElements(data) == SplitBitsToFieldElements(data, networkBitsPerElement)

(* A message whose length is not a multiple of the chunk size, or zero, is  *)
(* an error.  Parity chunk i is row chunkCount + i of the matrix times the  *)
(* data chunks as they went to the network.                                 *)
GenerateThenAddChunks(message) ==
  LET size       == ByteBits * MessageChunkSize
      chunkCount == Len(message) \div size
      matrix     == EncodingMatrix[chunkCount]
      network(i) == FieldElementsToBytes(
                      SplitBitsToFieldElements(SubSeq(message, i * size + 1, (i + 1) * size),
                                               messageBitsPerElement),
                      networkBitsPerElement)
      vectors    == [j \in 1 .. chunkCount |->
                       SubSeq(ChunkElements(network(j - 1)), 1, ElementsPerChunk)]
      parity(i)  == FieldElementsToBytes(Combination(matrix[i + 1], vectors),
                                         networkBitsPerElement)
  IN  [chunkCount |-> chunkCount,
       chunks |-> [i \in Indices(chunkCount) |->
                     IF i < chunkCount THEN network(i) ELSE parity(i)]]

(* The chunk count of the first chunk is kept, also when the chunk itself   *)
(* is refused for its index.                                                *)
VerifyThenAddChunk(e, c) ==
  IF c.chunkCount <= 0 \/ e.chunkCount \notin {0, c.chunkCount} THEN e
  ELSE [chunkCount |-> c.chunkCount,
        chunks |->
          IF c.index \in Indices(c.chunkCount)
             /\ c.index \notin DOMAIN e.chunks
          THEN [i \in DOMAIN e.chunks \cup {c.index} |->
                  IF i = c.index THEN c.data ELSE e.chunks[i]]
          ELSE e.chunks]

-----------------------------------------------------------------------------
(* ReconstructMessage *)

(* The bytes are copied into the place of the chunk in the message: what is *)
(* too long is written over by the next chunk or cut at the end.            *)
Message(vectors) ==
  FlattenSeq([i \in DOMAIN vectors |->
    SubSeq(FieldElementsToBytes(vectors[i], messageBitsPerElement),
           1, ByteBits * MessageChunkSize)])

(* From the chunks with some indices, in some order. *)
Decoded(e, index) ==
  LET rows  == [i \in DOMAIN index |-> EncodingMatrix[e.chunkCount][index[i] + 1]]
      R     == [i \in DOMAIN index |-> ChunkElements(e.chunks[index[i]])]
  IN  Message(MatrixMultiply(InvertMatrix(rows), R))

Reconstructible(e) == e.chunkCount > 0 /\ Cardinality(DOMAIN e.chunks) >= e.chunkCount

(* What it may return: without all the data chunks it takes as many chunks  *)
(* as it needs in the order of a Go map, which is any.  One order of them   *)
(* stands for all: the others exchange the equations, no more, and that     *)
(* none of them gives another message is proved in ShadowProofs.tla.        *)
ReconstructMessage(e) ==
  LET data == 0 .. e.chunkCount - 1
  IN  IF data \subseteq DOMAIN e.chunks
      THEN {Message([i \in 1 .. e.chunkCount |-> ChunkElements(e.chunks[i - 1])])}
      ELSE {Decoded(e, SetToSeq(indices)) : indices \in kSubset(e.chunkCount, DOMAIN e.chunks)}
=============================================================================
