SPECIFICATION Spec
CONSTANTS
  n1 = n1
  n2 = n2
  n3 = n3
  n4 = n4
  Nodes <- Pair
  Neighbours <- EachOther
  Messages = {m1}
  Dynamic = TRUE
  Lossy = TRUE
  Closing = TRUE
  TTL = 1
  MaxTime = 2
  Never = Never
SYMMETRY Interchangeable
INVARIANTS TypeOK RememberedForTTL NoHole
PROPERTY NoDuplicateWithinTTL
CHECK_DEADLOCK FALSE
