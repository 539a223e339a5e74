SPECIFICATION Spec
INVARIANTS RunsUnderAuthority NoLostUpdate
PROPERTIES NoTimerStartOnDownLink AuthorityKept TimerStopsNothing
SYMMETRY LinkSymmetry
CONSTANTS
  d1 = d1
  d2 = d2
  Devices = {d1, d2}
  Delays = {1}
  Configs <- LinkConfigs
  LastUptime = 1
  LastToken = 1
  GenLimit = 2
  WriteFaults = TRUE
  Orphans = TRUE
