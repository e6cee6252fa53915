CONSTANTS
  t1 = t1
  t2 = t2
  p1 = p1
  p2 = p2
  r1 = r1
  r2 = r2
  None = None
  Todo = {t1, t2}
  Project = {p1, p2}
  Request = {r1, r2}
  Deletable = {}
  Abortable = {}
  Calls <- HandoverCalls
SPECIFICATION FairSpec
PROPERTIES NextActionHandedOver SettingLeadsToNextAction
