\* A user and a site, two controllers, three runs.
SPECIFICATION Spec
CONSTANTS
  Users = {u1}
  Sites = {s1}
  Attrs = {a, b}
  d1 = d1
  d2 = d2
  Dcs = {d1, d2}
  Hosting <- MCHosting
  OptionalClasses <- MCOptional
  UsnBase <- MCUsnBase
  Started <- MCStarted
  Unrecorded = {"failed"}
  None = None
  IsDeleted = IsDeleted
  MaxUsn = 4
  MaxRuns = 3
SYMMETRY MCSymmetry
INVARIANTS
  TypeOK
  RowsAgree
  NoDeletionBehindWatermark
  MirrorsDirectory
PROPERTIES
  HistoryKept
  ImplementsMirror
CHECK_DEADLOCK FALSE
