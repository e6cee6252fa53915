CONSTANTS
  k1 = k1
  k2 = k2
  b1 = b1
  b2 = b2
  g1 = g1
  g2 = g2
  g3 = g3
  g4 = g4
  u1 = u1
  u2 = u2
  u3 = u3
  admin = admin
  e1 = e1
  e2 = e2
  e3 = e3
  None = None
  Browser = {b1, b2}
  Request = {r1, r2}
  Subject = {g1, g2, g3, g4}
  Email = {admin, e1, e2, e3}
  AdminEmail = admin
  Account <- SmallAccount
  User = {u1, u2, u3}
  Registered <- SmallRegistered
  SignedIn <- SmallSignedIn
  Nonce = {n1, n2}
  Secret = {k1, k2}
  Settings <- SmallSettings
  MaxStarts = 2
  MaxSends = 3
SPECIFICATION Spec
INVARIANTS TypeOK SessionFromOwnLogin AuthorizedWithinRequest DrainedBeforeClose
PROPERTIES ApprovalOnlyByAdmin SignalEndsProcess
CHECK_DEADLOCK FALSE
