SPECIFICATION Spec
CONSTANTS
  p1 = p1
  Peers <- OnePeer
  PeerOf <- SamePeer
  Topics = {t1}
  Subs = {s1, s2}
  Conns = {c1, c2}
  Apps = {a1, a2}
  Calls = {"join", "subscribe", "unsubscribe"}
  MaxRPCs = 1
  Kinds = {"subscribe", "unsubscribe"}
  Deliveries = FALSE
  Host = Host
  Free = Free
  Nil = Nil
  Absent = Absent
SYMMETRY Interchangeable
INVARIANTS PeersMatchSubscribers SenderNeverStale SubscriptionsAnnounced
CHECK_DEADLOCK FALSE
