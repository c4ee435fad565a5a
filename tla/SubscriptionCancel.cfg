SPECIFICATION FairSpec
CONSTANTS
  Readers = {r1}
  Messages = {m1}
  Cancellable = {r1}
  MayClose = FALSE
  MaxPuts = 1
  MaxBroadcasts = 2
  Free = Free
PROPERTY CancelledNextReturns
CHECK_DEADLOCK FALSE
