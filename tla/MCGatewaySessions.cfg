SPECIFICATION FairSpec
CONSTANTS
  c1 = c1  c2 = c2 
  n1 = n1
  s1 = s1  s2 = s2
  k1 = k1  k2 = k2
  NoConn = NoConn
  NoStatus = NoStatus
  Conns = {c1, c2}
  Nodes = {n1}
  NodeOf <- MCNodeOf
  Workers = {}
  Statuses = {}
  Faults = {"silence", "hangup", "return", "api"}
INVARIANTS
  UnregisteredIsEnding
  RegistryNamesHandlers
  SupersededStaySilent
PROPERTIES
  NewcomerServed
  SessionsPromise
CHECK_DEADLOCK FALSE
