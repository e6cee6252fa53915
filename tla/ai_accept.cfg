CONSTANTS
  e1 = e1
  p1 = p1
  p2 = p2
  p3 = p3
  s1 = s1
  s2 = s2
  t1 = t1
  t2 = t2
  t3 = t3
  a1 = a1
  a2 = a2
  r1 = r1
  r2 = r2
  None = None
  Epic = {e1}
  Project = {p1, p2, p3}
  Stage = {s1, s2}
  Todo = {t1, t2, t3}
  Proposal = {a1, a2}
  Request = {r1, r2}
  BlankRef = {"", "null"}
  Plans <- SmallPlans
  Tree <- SmallTree
  Others <- SmallOthers
  Generating = {e1, p1}
  MayAbort = TRUE
SPECIFICATION Spec
INVARIANTS TypeOK OneNextActionPerProject NoDanglingReference
PROPERTIES AppliedOnce AppliedEntirely
SYMMETRY Symmetry
