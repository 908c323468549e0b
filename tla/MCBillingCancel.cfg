SPECIFICATION MCFairSpec
CONSTANTS
  u1 = u1  k1 = k1  c1 = c1  c2 = c2  s1 = s1  s2 = s2  s3 = s3
  basic = basic  pro = pro  p1 = p1  p2 = p2
  None = None
  Users = {u1}
  Companies = {k1}
  CompanyOf <- MCCompanyOf
  Plans = {basic, pro}
  Price <- MCPrice
  Interval = 30
  DaysLeft = {30}
  Grants = {1, 2}
  Charges = {c1, c2}
  Subscriptions = {s1, s2, s3}
  Procs = {p1, p2}
  MaxFaults = 0
INVARIANTS
  CancelledIsNoError
CHECK_DEADLOCK FALSE
