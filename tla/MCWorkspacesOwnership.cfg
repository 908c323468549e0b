SPECIFICATION MCSpec
CONSTANTS
  u1 = u1  u2 = u2  u3 = u3
  e1 = e1  e2 = e2
  w1 = w1  w2 = w2
  i1 = i1  i2 = i2
  p1 = p1  p2 = p2
  None = None
  Users = {u1, u2}
  Emails = {e1, e2}
  EmailOf <- MCEmailOf
  Workspaces = {w1, w2}
  Invitations = {i1}
  Procs = {p1, p2}
  LegacyCompany <- MCNoCompanies
  LegacySystem = {}
  OfferedRoles = {"admin"}
  Operations = {"register", "oauth", "createWorkspace", "legacy", "inviteUser", "deleteUser", "createInvitation", "acceptInvitation", "updateMemberRole", "crash"}
  Scenarios = {FALSE}
SYMMETRY MCRequestSymmetry
INVARIANTS
  AtMostOneOwner
  SomebodyOwns
CHECK_DEADLOCK FALSE
