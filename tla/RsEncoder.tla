-------------------------------- MODULE RsEncoder --------------------------------
(***************************************************************************)
(* The bookkeeping of the Reed-Solomon encoder (src/ec/encode/rs/rs.go)    *)
(* for one message: which chunks are stored, in which order they came, and *)
(* how often each was emitted.  Each method runs under the encoder's own   *)
(* mutex and is an operator from entry to entry here.  A chunk is its      *)
(* index: the bytes it carries are a function of the message and the       *)
(* index, and any DataChunks of them determine the message.                *)
(***************************************************************************)
EXTENDS Naturals, Sequences, FiniteSets

CONSTANTS
  DataChunks,            \* chunkCount: the message's size in chunks
  ParityNum, ParityDen,  \* config.ParityRatio as a fraction
  MinEmitCount           \* config.MinEmitCount

ASSUME EncoderAssumption ==
  /\ DataChunks \in Nat \ {0}
  /\ ParityNum \in Nat \ {0} /\ ParityDen \in Nat \ {0}
  /\ MinEmitCount \in Nat \ {0}

(* At least one parity chunk, whatever the ratio rounds to.  The code       *)
(* truncates a floating-point product, see parityCount in RsCode.tla.       *)
ParityChunks ==
  LET rounded == (DataChunks * ParityNum) \div ParityDen
  IN  IF rounded = 0 THEN 1 ELSE rounded

TotalChunks == DataChunks + ParityChunks
Chunks == 0 .. TotalChunks - 1

(* The entry of a message: its part of r.chunks, r.chunkOrder, r.emitCounts. *)
Entry == [chunks : SUBSET Chunks, chunkOrder : Seq(Chunks),
          emitCounts : [Chunks -> Nat]]

NoEntry == [chunks |-> {}, chunkOrder |-> <<>>,
            emitCounts |-> [c \in Chunks |-> 0]]

(* Whether VerifyThenAddChunk accepts a chunk of the message ... *)
Acceptable(e, c) == c \in Chunks /\ c \notin e.chunks

(* ... and what it stores then. *)
VerifyThenAddChunk(e, c) ==
  [e EXCEPT !.chunks = @ \cup {c}, !.chunkOrder = Append(@, c)]

(* The maps of chunks and counts are made anew, the order is only extended. *)
(* Mutant: the order is made anew as well, and the counts are kept.         *)
GenerateKeepingCounts(e) ==
  [chunks |-> Chunks,
   chunkOrder |-> [i \in 1 .. TotalChunks |-> i - 1],
   emitCounts |-> e.emitCounts]

GenerateThenAddChunks(e) ==
  [chunks |-> Chunks,
   chunkOrder |-> e.chunkOrder \o [i \in 1 .. TotalChunks |-> i - 1],
   emitCounts |-> [c \in Chunks |-> 0]]

(* The places of the order whose chunk is still to be emitted MinEmitCount  *)
(* times.                                                                   *)
Due(e) == {i \in DOMAIN e.chunkOrder : e.emitCounts[e.chunkOrder[i]] < MinEmitCount}

(* EmitChunk: the earliest chunk that is due, or else the latest one.       *)
(* Mutant: the latest chunk every time.                                     *)
EmittedLatest(e) == e.chunkOrder[Len(e.chunkOrder)]

Emitted(e) ==
  IF Due(e) # {}
  THEN e.chunkOrder[CHOOSE i \in Due(e) : \A j \in Due(e) : i <= j]
  ELSE e.chunkOrder[Len(e.chunkOrder)]

EmitChunk(e) ==
  IF Due(e) # {} THEN [e EXCEPT !.emitCounts[Emitted(e)] = @ + 1] ELSE e

(* GetChunkCount against GetMinChunksForReconstruction; ReconstructMessage  *)
(* succeeds from then on.                                                   *)
Reconstructible(e) == Cardinality(e.chunks) >= DataChunks
=============================================================================
