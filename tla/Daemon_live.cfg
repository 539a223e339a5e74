SPECIFICATION LiveSpec
PROPERTIES SetupEnds ToldEnds
CONSTANTS
  p1 = p1
  p2 = p2
  p3 = p3
  Procs = {p1, p2}
  NoProc = NoProc
  Queues = {1}
  ErrLimit = 1
  NftFaults <- AllKinds
  Kills = TRUE
  Orphans = TRUE

