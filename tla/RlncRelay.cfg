SPECIFICATION Spec
CONSTANTS
  P = 3
  n1 = n1
  n2 = n2
  n3 = n3
  Links <- Line
  ByteBits = 4
  Nodes = {n1, n2, n3}
  Publishers = {n1, n2}
  Message <- TwoChunks
  MessageChunkSize = 1
  NetworkChunkSize = 2
  ElementsPerChunk = 4
  MaxCoefficientBits = 2
  Generators <- FourGenerators
  MaxInFlight = 1
INVARIANTS ChunksIndependent ReconstructionExact HelpPossible
PROPERTIES RefusedIsUseless KnowledgeKept
CHECK_DEADLOCK FALSE
