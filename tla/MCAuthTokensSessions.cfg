SPECIFICATION MCSpec
CONSTANTS
  t1 = t1  t2 = t2  t3 = t3  t4 = t4  t5 = t5  t6 = t6
  k1 = k1  k2 = k2
  u1 = u1
  p1 = p1  p2 = p2
  NoToken = NoToken
  NoCode = NoCode
  NoUser = NoUser
  Users = {u1}
  Tokens = {t1, t2, t3, t4}
  Codes = {k1}
  Procs = {p1, p2}
  Operations = {"login", "confirm", "oauth", "refresh", "end", "endAll", "forgot", "reset", "generate", "revokeCodes", "expire"}
  Scenarios = {TRUE, FALSE}
  Overlapping = {"oauth", "refresh", "end", "endAll"}
SYMMETRY MCSymmetry
INVARIANTS
  RotationRevokesParent
  RotatedOnceAlone
  LoginsStayEndedAlone
  OnePinAlone
  UsedOnceAlone
CHECK_DEADLOCK FALSE
