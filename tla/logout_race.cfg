SPECIFICATION Spec
CONSTANTS
  w1 = w1
  w2 = w2
  k1 = k1
  k2 = k2
  u1 = u1
  u2 = u2
  Absent = Absent
  None = None
  Workers = {w1, w2}
  KeyIds = {k1, k2}
  Users = {u1, u2}
  Scopes <- AllScopes
  Logins <- OneLogin
  KeyTTL = 1
  MaxTime = 1
  Crashes = FALSE
SYMMETRY Symmetry
PROPERTIES
  SweepTotal
