SPECIFICATION FairSpec
CONSTANTS
  Readers = {r1, r2, r3}
  Messages = {m1, m2}
  Cancellable = {r3}
  MayClose = TRUE
  MaxPuts = 3
  MaxBroadcasts = 1
  Free = Free
INVARIANTS TypeOK FifoExactlyOnce NoStrandedMessage
PROPERTIES ImplementsQueue QueueServed CloseWakesSleepers CancelWakesSleepers
CHECK_DEADLOCK FALSE
