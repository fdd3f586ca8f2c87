SPECIFICATION Spec
CONSTANTS
  w1 = w1
  w2 = w2
  p1 = p1
  p2 = p2
  c1 = c1
  c2 = c2
  t1 = t1
  t2 = t2
  t3 = t3
  Absent = Absent
  None = None
  Workers = {w1, w2}
  PromptIds = {p1}
  CategoryIds = {c1}
  TagIds = {t1, t2}
  Names = {"a", "b"}
  Normal <- Lowered
  Bodies <- TagBodies
  Named <- OneTag
PROPERTY
  RequestsEnd
