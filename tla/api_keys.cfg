SPECIFICATION Spec
CONSTANTS
  w1 = w1
  w2 = w2
  k1 = k1
  k2 = k2
  u1 = u1
  u2 = u2
  Absent = Absent
  None = None
  Workers = {w1, w2}
  KeyIds = {k1, k2}
  Users = {u1, u2}
  Scopes <- AllScopes
  Logins <- SomeLogins
  KeyTTL = 0
  MaxTime = 1
  Crashes = TRUE
SYMMETRY Symmetry
INVARIANTS
  TypeOK
  SweepCovers
  UsedBeforeExpiry
  AuditNeverAhead
PROPERTIES
  RevocationFinal
  KeysOwned
