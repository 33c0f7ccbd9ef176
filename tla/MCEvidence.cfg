SPECIFICATION Spec
CONSTANTS
  p1 = p1
  p2 = p2
  o1 = o1
  o2 = o2
  c1 = c1
  c2 = c2
  Plugins = {p1, p2}
  Objects = {o1}
  Contents = {c1, c2}
  None = None
  MaxRuns = 3
SYMMETRY MCSymmetry
CHECK_DEADLOCK FALSE
INVARIANTS
  TypeOK
  UnassessedKept
  RosterTrue
PROPERTIES
  ReplayExact
  ImplementsFindings
