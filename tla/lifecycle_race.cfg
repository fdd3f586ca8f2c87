CONSTANTS
  w1 = w1
  w2 = w2
  u1 = u1
  u2 = u2
  orgA = orgA
  orgB = orgB
  Users = {u1, u2}
  Orgs = {orgA, orgB}
  NoOrg = NoOrg
  Anonymous = Anonymous
  Workers = {w1, w2}
  PromptIds = {1}
  Titles <- OneText
  Bodies <- OneBody
  Claims <- LifecycleClaims
  KeyOwners <- NoKeys
  Creations <- LifecycleCreations
  Patches <- LifecyclePatches
  Redis = FALSE
  MaxKept = 1
  Crashes = FALSE
  Absent = Absent
  None = None
SPECIFICATION Spec
PROPERTY FollowsLifecycle
