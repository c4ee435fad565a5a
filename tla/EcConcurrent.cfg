SPECIFICATION Spec
CONSTANTS
  n1 = n1
  n2 = n2
  n3 = n3
  Nodes <- Three
  Neighbours <- Line
  Messages = {m1}
  Changing <- Breaking
  Lossy = TRUE
  DataChunks = 2
  ParityNum = 1
  ParityDen = 2
  MinEmitCount = 1
  PublishMultiplier = 1
  ForwardMultiplier = 1
  MaxPublishes = 2
  Takers = {n3}
INVARIANTS NoMissedReconstruction DeliveredOnce EmittedInOrder DeliveriesAccounted
CHECK_DEADLOCK FALSE
