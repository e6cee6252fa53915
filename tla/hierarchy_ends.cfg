CONSTANTS
  e1 = e1
  p1 = p1
  s1 = s1
  t1 = t1
  r1 = r1
  r2 = r2
  None = None
  Epic = {e1}
  Project = {p1}
  Stage = {s1}
  Todo = {t1}
  Request = {r1, r2}
  MayAbort = TRUE
  Calls <- AllCalls
SPECIFICATION FairSpec
PROPERTIES TransactionsEnd
