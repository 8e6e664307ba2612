CONSTANTS
  o = o
  s1 = s1
  s2 = s2
  e1 = e1
  e2 = e2
  r1 = r1
  r2 = r2
  User <- MCOneUser
  Owner = o
  Session = {s1}
  Tab = {e1}
  Req = {r1, r2}
  Editor <- MCEditor
  Project <- MCTwoProjects
  NoRow = NoRow
  NoReq = NoReq
  SESSION_SECONDS = 3
  SESSION_MAX_SECONDS = 3
  SESSION_RENEW_INTERVAL = 1
  LEASE_SECONDS = 2
  INVITATION_SECONDS = 2
  BUSY_TIMEOUT = 1
  MaxTime = 3
  MaxHash = 1
  MaxPhone = 1
  MaxLinks = 0
SYMMETRY MCSymmetry
SPECIFICATION Spec
INVARIANTS TypeOK ShortLeasesEnd
PROPERTIES CommitsOwnLeases CleanupSparesSuccessor
