SPECIFICATION LiveSpec
PROPERTIES StopsNormally
CONSTANTS
  p1 = p1
  p2 = p2
  p3 = p3
  Procs = {p1}
  NoProc = NoProc
  Queues = {1}
  ErrLimit = 1
  NftFaults <- AllButDelete
  Kills = FALSE
  Orphans = FALSE

