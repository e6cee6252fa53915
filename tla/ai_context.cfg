CONSTANTS
  e1 = e1
  p1 = p1
  p2 = p2
  p3 = p3
  s1 = s1
  s2 = s2
  t1 = t1
  t2 = t2
  t3 = t3
  a1 = a1
  r1 = r1
  None = None
  Epic = {e1}
  Project = {p1, p2, p3}
  Stage = {s1, s2}
  Todo = {t1, t2, t3}
  Proposal = {a1}
  Request = {r1}
  BlankRef = {"", "null"}
  Plans <- SmallPlans
  Tree <- SmallTree
  Others <- SmallOthers
  Generating = {e1, p1}
  MayAbort = TRUE
SPECIFICATION Spec
PROPERTIES AcceptStaysInParent
