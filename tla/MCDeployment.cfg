SPECIFICATION FairSpec
CONSTANTS
  None = None
  MayOutwait <- LongHolders
  GiveUpAt <- EveryCall
  DbFailAt <- EveryWrite
  KillAt <- EveryCommand
  RebootAt <- Anytime
  MayRestart = TRUE
  MaxFaults = 3
  MaxJobs = 3
INVARIANTS
  BusyIsShown
  NeverLockedOut
PROPERTIES
  DeployedIsHardened
  HardeningDecided
  JobsFinish
CHECK_DEADLOCK FALSE
