CONSTANTS
  e1 = e1
  e2 = e2
  p1 = p1
  p2 = p2
  s1 = s1
  t1 = t1
  r1 = r1
  r2 = r2
  None = None
  Epic = {e1, e2}
  Project = {p1, p2}
  Stage = {s1}
  Todo = {t1}
  Request = {r1, r2}
  MayAbort = TRUE
  Calls <- AllCalls
SPECIFICATION Spec
INVARIANTS TypeOK NoDanglingReference
PROPERTIES DeleteEpicKeepsChildren DeleteStageKeepsChildren DetachedOnlyFromDeletedParent DeleteProjectDropsChildren
SYMMETRY Symmetry
