CONSTANTS
  t1 = t1
  t2 = t2
  t3 = t3
  p1 = p1
  p2 = p2
  r1 = r1
  None = None
  Todo = {t1, t2, t3}
  Project = {p1, p2}
  Request = {r1}
  Deletable = {p1, p2}
  Abortable = {r1}
  Calls <- NextActionCalls
SPECIFICATION Spec
INVARIANTS SetterFindsProjectFree
