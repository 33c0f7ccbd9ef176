SPECIFICATION MCSpec
CONSTANTS
  u1 = u1
  g1 = g1
  g2 = g2
  Users = {u1}
  Groups = {g1, g2}
  Admin = admin
  MaxRuns = 3
  MaxEvents = 3
CHECK_DEADLOCK FALSE
INVARIANTS
  TypeOK
  NewAssignmentsExact
  NewMembersExact
PROPERTIES
  UnreadClosesNothing
