SPECIFICATION Spec
CONSTANTS
  ou1 = ou1
  gpo1 = gpo1
  zone1 = zone1
  t1 = t1
  u1 = u1
  u2 = u2
  s1 = s1
  g1 = g1
  g2 = g2
  r1 = r1
  a = a
  b = b
  v1 = v1
  v2 = v2
  None = None
  Unrecorded = Unrecorded
  Netlogon = Netlogon
  Ous <- MCOus
  Gpos <- MCGpos
  Zones <- MCZones
  AclKeys <- MCAclKeys
  Flags <- MCValues
  Accounts <- MCAccounts
  Foreign <- MCForeign
  Groups <- MCGroups
  Rodcs <- MCRodcs
  Names <- MCValues
  Files <- MCFiles
  Settings <- MCValues
  MaxChanges = 2
  MaxRuns = 2
SYMMETRY Symmetry
CHECK_DEADLOCK FALSE
INVARIANT TypeOK
PROPERTY UnreadKeepsEdges
PROPERTY EdgesMirrorDirectory
PROPERTY NothingFalselyNew
