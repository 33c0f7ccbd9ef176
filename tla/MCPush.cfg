SPECIFICATION PushSpec
CONSTANTS
  p1 = p1
  p2 = p2
  o1 = o1
  o2 = o2
  c1 = c1
  c2 = c2
  Plugins = {p1}
  Objects = {o1, o2}
  Contents = {c1, c2}
  None = None
  MaxRuns = 3
  t1 = t1
  t2 = t2
  ObjectTypes = {t1, t2}
  MaxSyncs = 2
SYMMETRY MCSymmetry
CONSTRAINT Halves
CHECK_DEADLOCK FALSE
INVARIANTS
  TypeOK
  ApiMirrorsRun
  LabelsMatchApi
  PushedIsHeld
