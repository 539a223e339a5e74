SPECIFICATION Spec
INVARIANT IfdownInvalidatesToken
CONSTANTS
  d1 = d1
  d2 = d2
  Devices = {d1}
  Delays = {1}
  Configs <- SmallConfigs
  LastUptime = 1
  LastToken = 1
  GenLimit = 1
  WriteFaults = FALSE
  Orphans = FALSE
