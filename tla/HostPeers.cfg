SPECIFICATION FairSpec
CONSTANTS
  h1 = h1
  h2 = h2
  c1 = c1
  c2 = c2
  c3 = c3
  Hosts = {h1, h2}
  Conns = {c1, c2, c3}
  Dialer <- FirstDials
  Listener <- SecondListens
  Failing = {c1}
  Closing = {h2}
  None = None
INVARIANTS TypeOK EntriesWatched HandlersInTurns
PROPERTIES CloseReturns DeadPeersForgotten
CHECK_DEADLOCK FALSE
