\* Any run, the first one included, may end between commit and finalize.
SPECIFICATION SpecAnyEnd
CONSTANTS
  Users = {u1}
  Sites = {s1}
  Attrs = {a, b}
  d1 = d1
  d2 = d2
  Dcs = {d1, d2}
  Hosting <- MCHosting
  OptionalClasses <- MCOptional
  UsnBase <- MCUsnBase
  Started <- MCStarted
  Unrecorded = {"failed"}
  None = None
  IsDeleted = IsDeleted
  MaxUsn = 3
  MaxRuns = 3
SYMMETRY MCSymmetry
INVARIANT FailedRunWritesNoData
CHECK_DEADLOCK FALSE
