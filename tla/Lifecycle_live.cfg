SPECIFICATION LiveSpec
PROPERTIES TimerDelivers IfupRecovers
CONSTANTS
  d1 = d1
  d2 = d2
  Devices = {d1}
  Delays = {1}
  Configs <- SmallConfigs
  LastUptime = 1
  LastToken = 1
  GenLimit = 2
  WriteFaults = FALSE
  Orphans = FALSE
