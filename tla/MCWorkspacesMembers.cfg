SPECIFICATION MCSpec
CONSTANTS
  u1 = u1  u2 = u2  u3 = u3
  e1 = e1  e2 = e2
  w1 = w1  w2 = w2
  i1 = i1  i2 = i2
  p1 = p1  p2 = p2
  None = None
  Users = {u1, u2}
  Emails = {e1, e2}
  EmailOf <- MCEmailOf
  Workspaces = {w1, w2}
  Invitations = {i1, i2}
  Procs = {p1, p2}
  LegacyCompany <- MCTwoCompanies
  LegacySystem = {u1, u2}
  OfferedRoles = {"admin"}
  Operations = {"legacy", "updateMemberRole", "removeMember", "createInvitation", "acceptInvitation", "revokeInvitation", "preview", "lapse", "switch", "deleteWorkspace", "crash"}
  Scenarios = {TRUE, FALSE}
SYMMETRY MCSymmetry
INVARIANTS
  AcceptedMeansJoined
  OnePendingAlone
  NoManagerAlone
PROPERTIES
  ActiveOwnerKept
  NoSilentReinstatement
  SettledOnceAlone
CHECK_DEADLOCK FALSE
