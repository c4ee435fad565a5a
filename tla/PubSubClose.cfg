SPECIFICATION Spec
CONSTANTS
  p1 = p1
  Peers <- OnePeer
  PeerOf <- SamePeer
  Topics = {t1}
  Subs = {s1, s2}
  Conns = {c1}
  Apps = {a1, a2}
  Calls = {"join", "subscribe", "unsubscribe", "closeTopic", "closePubSub"}
  MaxRPCs = 1
  Kinds = {"data"}
  Deliveries = TRUE
  Host = Host
  Free = Free
  Nil = Nil
  Absent = Absent
SYMMETRY Interchangeable
INVARIANTS CloseClosesTopics MySubscriptionsExact
CHECK_DEADLOCK FALSE
