SPECIFICATION FairSpec
CONSTANTS
  t1 = t1
  t2 = t2
  t3 = t3
  g1 = g1
  g2 = g2
  Tx = {t1, t2}
  Groups = {g1}
  None = None
  Factory = Factory
  Down = Down
  FailAt <- FailWatched
  KillAt <- KillWatched
  RebootAt <- RebootWatched
  MaxFaults = 2
  QuietBoot = TRUE
PROPERTIES
  EventuallyDecided
  CoreReturns
