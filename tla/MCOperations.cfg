SPECIFICATION Spec
CONSTANTS
  Controller = Controller
  Gateway = Gateway
  s1 = s1
  s2 = s2
  Secrets = {s1, s2}
  FirstSecret = s1
  None = None
  Strikes = 2
  Spacing = 2
  MaxBackups = 1
  MaxBusy = 1
  MaxReboots = 1
INVARIANTS
  UpgradeIsAlone
  CodeFitsData
  BackupIsWhole
PROPERTIES
  ServicesReturn
CHECK_DEADLOCK FALSE
