SPECIFICATION Spec
CONSTANTS
  e1 = e1
  e2 = e2
  s1 = s1
  s2 = s2
  t0 = t0
  t1 = t1
  t2 = t2
  t3 = t3
  Exits = {e1, e2}
  Direct = {e2}
  Subs = {s1, s2}
  Tx = {t0, t1, t2, t3}
  None = None
  Factory = Factory
  First = t0
  Established = {e1}
  GiveUpAt <- ButCommitOfDelete
  DbFailAt <- LaneWrites
  RestartAt <- ButEndOfDelete
  CanGetStuck = TRUE
  MaxFaults = 1
  MaxTokens = 0
  MaxChecks = 0
SYMMETRY Symmetry
INVARIANTS
  ReadyIsDeployed
  RevokedIsRemoved
  OneWorker
PROPERTIES
  SucceededIsInstalled
CHECK_DEADLOCK FALSE
