CONSTANTS
  o = o
  m = m
  s1 = s1
  s2 = s2
  e1 = e1
  e2 = e2
  User <- MCUser
  Owner = o
  Session = {s1, s2}
  Editor = {e1, e2}
  Project <- MCProject
  NoRow = NoRow
  SESSION_SECONDS = 2
  SESSION_MAX_SECONDS = 3
  SESSION_RENEW_INTERVAL = 1
  LEASE_SECONDS = 2
  INVITATION_SECONDS = 2
  BUSY_TIMEOUT = 1
  MaxTime = 4
  MaxHash = 2
  MaxPhone = 2
  MaxLinks = 1
SYMMETRY MCSymmetry
SPECIFICATION AccountsSpec
INVARIANTS AccountsTypeOK SessionsCurrent LeasesBacked
PROPERTIES RenewalNeverRevives HolderKeepsLease
