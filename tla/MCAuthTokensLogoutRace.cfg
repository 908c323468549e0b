SPECIFICATION MCSpec
CONSTANTS
  t1 = t1  t2 = t2  t3 = t3  t4 = t4  t5 = t5  t6 = t6
  k1 = k1  k2 = k2
  u1 = u1
  p1 = p1  p2 = p2
  NoToken = NoToken
  NoCode = NoCode
  NoUser = NoUser
  Users = {u1}
  Tokens = {t1, t2, t3}
  Codes = {}
  Procs = {p1, p2}
  Operations = {"oauth", "refresh", "endAll"}
  Scenarios = {FALSE}
  Overlapping = {"oauth", "refresh", "endAll"}
SYMMETRY MCSymmetry
INVARIANTS
  LoginsStayEnded
CHECK_DEADLOCK FALSE
