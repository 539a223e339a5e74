SPECIFICATION Spec
INVARIANTS TypeOK NoLostUpdate RunsUnderAuthority WaitHasWaker NoOrphanRules
PROPERTIES TimerStopsNothing AuthorityKept
CONSTANTS
  d1 = d1
  d2 = d2
  Devices = {d1}
  Delays <- TwoDelays
  Configs <- TimerConfigs
  LastUptime = 2
  LastToken = 2
  GenLimit = 1
  WriteFaults = FALSE
  Orphans = FALSE
