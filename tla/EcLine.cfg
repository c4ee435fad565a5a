SPECIFICATION FairSpec
CONSTANTS
  n1 = n1
  n2 = n2
  n3 = n3
  Nodes <- Three
  Neighbours <- Line
  Messages = {m1}
  Changing = {}
  Lossy = FALSE
  DataChunks = 2
  ParityNum = 1
  ParityDen = 2
  MinEmitCount = 1
  PublishMultiplier = 2
  ForwardMultiplier = 1
  MaxPublishes = 1
  Takers <- Three
PROPERTIES FloodEnds ImplementsLiveBroadcast
CHECK_DEADLOCK FALSE
