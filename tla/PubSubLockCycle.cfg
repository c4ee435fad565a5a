SPECIFICATION Spec
CONSTANTS
  p1 = p1
  Peers <- OnePeer
  PeerOf <- SamePeer
  Topics = {t1}
  Subs = {s1}
  Conns = {c1}
  Apps = {a1}
  Calls = {"join", "subscribe"}
  MaxRPCs = 1
  Kinds = {"subscribe"}
  Deliveries = FALSE
  Host = Host
  Free = Free
  Nil = Nil
  Absent = Absent
INVARIANT NoLockCycle
CHECK_DEADLOCK FALSE
