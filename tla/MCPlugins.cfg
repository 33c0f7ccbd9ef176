SPECIFICATION Spec
CONSTANTS
  Null = Null
  SomeHolders = 1
  ManyHolders = 2
  MostHolders = 3
  MaxHops = 6
  Bases <- MCBases
  Areas <- MCAreas
  MaxAltered <- MCMaxAltered
INVARIANT TypeOK HandedOver ControlReported LastWriterWins PathsMatchClosure
          OpenPortalReported
PROPERTY EscalatesOnly QuietWithoutChange NewExposureReported
CHECK_DEADLOCK FALSE
