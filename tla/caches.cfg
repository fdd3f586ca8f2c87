SPECIFICATION Spec
CONSTANTS
  w1 = w1
  w2 = w2
  u1 = u1
  u2 = u2
  Anonymous = Anonymous
  None = None
  Workers = {w1, w2}
  Listings = {"categories"}
  Users = {u1, u2}
  ScopeSets <- AllScopeSets
  Callers <- OneEach
  MaxWrites = 2
INVARIANTS
  TypeOK
  AnswersTrue
PROPERTIES
  Converges
