SPECIFICATION FairSpec
CONSTANTS
  None = None
  Requests <- SomeRequests
  Messages <- SomeMessages
  MaxSimulated = 4
  Degree = 3
  Irreducible = {0, 1, 3}
  ByteBits = 4
  ParityNum = 2
  ParityDen = 3
  MessageChunkSize = 3
  NetworkChunkSize = 4
  ElementsPerChunk = 4
  PrimitiveElement = {1}
  MaxChunkCount = 3
INVARIANTS GeneratedConnected EachDialledOnce AnyChunksDecode QuietMeansComplete
PROPERTY GenerationEnds
CHECK_DEADLOCK FALSE
