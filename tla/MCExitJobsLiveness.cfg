SPECIFICATION FairSpec
CONSTANTS
  e1 = e1
  e2 = e2
  s1 = s1
  s2 = s2
  t0 = t0
  t1 = t1
  t2 = t2
  t3 = t3
  Exits = {e1}
  Direct = {}
  Subs = {s1}
  Tx = {t0, t1, t2}
  None = None
  Factory = Factory
  First = t0
  Established = {e1}
  GiveUpAt <- Everywhere
  DbFailAt <- EveryDb
  RestartAt <- Everywhere
  CanGetStuck = TRUE
  MaxFaults = 2
  MaxTokens = 1
  MaxChecks = 1
INVARIANTS
  ApplyingIsRunning
PROPERTIES
  JobsFinish
CHECK_DEADLOCK FALSE
