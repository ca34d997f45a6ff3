SPECIFICATION Spec
CONSTANTS
  t1 = t1
  t2 = t2
  t3 = t3
  g1 = g1
  g2 = g2
  Tx = {t1, t2, t3}
  Groups = {g1, g2}
  None = None
  Factory = Factory
  Down = Down
  FailAt <- FailAnywhereButHalfRestored
  KillAt <- KillAnywhereButHalfRestored
  RebootAt <- RebootAnywhereButHalfRestored
  MaxFaults = 3
  QuietBoot = FALSE
SYMMETRY Symmetry
INVARIANTS
  RunningIsInstalled
  OneVerdict
PROPERTIES
  AcknowledgedIsInstalled
  ImplementsStore
  TrialIsWatched
