SPECIFICATION FairSpec
CONSTANTS
  c1 = c1  c2 = c2
  n1 = n1
  s1 = s1  s2 = s2
  k1 = k1  k2 = k2
  NoConn = NoConn
  NoStatus = NoStatus
  Conns = {c1}
  Nodes = {n1}
  NodeOf <- MCNodeOf
  Workers = {k1, k2}
  Statuses = {s1, s2}
  Faults = {"silence", "hangup", "api", "revocation"}
INVARIANTS
  SingleFlight
  NewestKept
PROPERTIES
  RevokedIsCutOff
  HeartbeatArrives
CHECK_DEADLOCK FALSE
