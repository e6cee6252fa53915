CONSTANTS
  t1 = t1
  t2 = t2
  t3 = t3
  p1 = p1
  r1 = r1
  r2 = r2
  None = None
  Todo = {t1, t2, t3}
  Project = {p1}
  Request = {r1, r2}
  Deletable = {}
  Abortable = {r1}
  Calls <- StatusCalls
SPECIFICATION Spec
INVARIANTS CompletedOnlyIfDone
PROPERTIES DependentStaysBlocked
SYMMETRY RowSymmetry
