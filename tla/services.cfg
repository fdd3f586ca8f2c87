SPECIFICATION MCSpec
CONSTANTS
  r1 = r1
  r2 = r2
  k1 = k1
  k2 = k2
  anne = anne
  bob = bob
  web = web
  org = org
  here = here
  side = side
  prompt = prompt
  ha = ha
  hb = hb
  new = new
  p1 = p1
  p2 = p2
  p3 = p3
  exact = exact
  related = related
  other = other
  Nobody = Nobody
  NoKeys = NoKeys
  Slots = {r1, r2}
  Keys = {k1, k2}
  KeySets <- MCKeySets
  Subjects = {anne, bob, web, org, here, side}
  Jwts <- MCJwts
  Secrets <- MCSecrets
  Calls <- MCCalls
  Limit <- MCLimit
  MaxMinute = 1
  MaxCalls = 2
  Threads = {t1, t2}
  RatedPrompts = {prompt}
  Counters <- MCCounters
  Scorers = {u1}
  Scores = {low, high}
  RatingIds = {i1, i2}
  NoRow = NoRow
  MaxCounted = 2
  Ids = {1, 2}
  Contents = {a, b}
  EmbeddingModels = {old, new}
  Configured = new
  BatchSize = 1
  MaxRevisions = 2
  NoVector = NoVector
  Runs = {s1, s2}
  Headings = {ha, hb}
  Listings <- MCListings
  Imported = {d1, d2}
  Vacant = Vacant
  Removed = Removed
  PromptIds = {p1, p2, p3}
  Texts = {exact, related, other}
  Hits = {exact}
  Nearness <- MCNearness
  RankConstant = 60
  TopK = 2
  PerPage = 2
  MaxChanges = 1
INVARIANTS
  TypeOK
  WithinLimits
  ToolsAnswerTrue
  CountsHonest
  ReembedTrue
  ImportOnce
  FusedFairly
  PagesComplete
PROPERTIES
  GenuineAccepted
  ServedAsCounted
  WithdrawnKeysFade
  RatingsLinearise
