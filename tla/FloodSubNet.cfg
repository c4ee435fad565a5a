SPECIFICATION FairSpec
CONSTANTS
  n1 = n1
  n2 = n2
  n3 = n3
  n4 = n4
  Nodes <- Four
  Neighbours <- Joined
  Messages = {m1}
  Dynamic = FALSE
  Lossy = FALSE
  Closing = FALSE
  TTL = 0
  MaxTime = 0
  Never = Never
INVARIANT Agreement
PROPERTIES FloodEnds ImplementsLiveBroadcast
CHECK_DEADLOCK FALSE
