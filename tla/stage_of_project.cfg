CONSTANTS
  e1 = e1
  p1 = p1
  p2 = p2
  s1 = s1
  t1 = t1
  r1 = r1
  None = None
  Epic = {e1}
  Project = {p1, p2}
  Stage = {s1}
  Todo = {t1}
  Request = {r1}
  MayAbort = FALSE
  Calls <- AllCalls
SPECIFICATION Spec
INVARIANTS StageBelongsToProject
