SPECIFICATION Spec
INVARIANTS TypeOK TablesHaveReader
CONSTANTS
  p1 = p1
  p2 = p2
  p3 = p3
  Procs = {p1, p2, p3}
  NoProc = NoProc
  Queues = {1, 2}
  ErrLimit = 2
  NftFaults <- AllButDelete
  Kills = FALSE
  Orphans = FALSE
SYMMETRY ProcSymmetry
