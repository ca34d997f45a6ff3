SPECIFICATION Spec
CONSTANTS
  t1 = t1
  t2 = t2
  r1 = r1
  r2 = r2
  c1 = c1
  c2 = c2
  Tx = {t1}
  Routes = {r1, r2}
  Clients = {c1, c2}
  None = None
  Layouts <- JustOneRoute
  KillAt <- Nowhere
  NftFails <- Nowhere
  MayUpgrade = FALSE
  MaxStreak = 6
  MaxFaults = 0
INVARIANTS
  FailuresInARowClose
CHECK_DEADLOCK FALSE
