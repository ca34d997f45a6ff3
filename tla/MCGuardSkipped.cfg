SPECIFICATION Spec
CONSTANTS
  t1 = t1
  t2 = t2
  r1 = r1
  r2 = r2
  c1 = c1
  c2 = c2
  Tx = {t1, t2}
  Routes = {r1, r2}
  Clients = {c1, c2}
  None = None
  Layouts <- MCLayouts
  KillAt <- Nowhere
  NftFails <- OnlyList
  MayUpgrade = FALSE
  MaxStreak = 1
  MaxFaults = 1
INVARIANTS
  MismatchCloses
CHECK_DEADLOCK FALSE
