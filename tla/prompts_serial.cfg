CONSTANTS
  w1 = w1
  w2 = w2
  u1 = u1
  u2 = u2
  orgA = orgA
  orgB = orgB
  Users = {u1, u2}
  Orgs = {orgA, orgB}
  NoOrg = NoOrg
  Anonymous = Anonymous
  Workers = {w1}
  PromptIds = {1}
  Titles <- OneText
  Bodies <- TwoBodies
  Claims <- AccessClaims
  KeyOwners <- AccessKeys
  Creations <- AccessCreations
  Patches <- AccessPatches
  Redis = TRUE
  MaxKept = 1
  Crashes = TRUE
  Absent = Absent
  None = None
SPECIFICATION Spec
INVARIANTS
  EmbeddingCurrent
  AuditTailCurrent
  ServedVisible
  ModelComplete
  FlagsActionable
PROPERTIES
  FollowsLifecycle
  DeletedFrozen
