SPECIFICATION Spec
INVARIANTS ListenerIntercepts StopLeavesNoTable
PROPERTIES InterceptionKept
CONSTANTS
  p1 = p1
  p2 = p2
  p3 = p3
  Procs = {p1, p2, p3}
  NoProc = NoProc
  Queues = {1}
  ErrLimit = 2
  NftFaults <- AllButDelete
  Kills = TRUE
  Orphans = FALSE
SYMMETRY ProcSymmetry
