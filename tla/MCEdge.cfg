SPECIFICATION MCSpec
CONSTANTS
  t1 = t1  t2 = t2  t3 = t3
  n1 = n1  n2 = n2
  r1 = r1  r2 = r2
  NoTunnel = NoTunnel
  Unavailable = Unavailable
  Tunnels = {t1, t2, t3}
  Nodes = {n1, n2}
  NodeOf <- MCNodeOf
  Requests = {r1, r2}
  CacheSeconds = 2
  CallSeconds = 1
  MaxTime = 4
  MaxVersion = 3
SYMMETRY MCSymmetry
INVARIANTS
  UnregisteredIsClosed
  OpensNewest
PROPERTIES
  RouteFresh
  TunnelsPromise
CHECK_DEADLOCK FALSE
