-------------------------- MODULE MCFakesipDaemon --------------------------
(* Small instances of FakesipDaemon for TLC.                               *)
EXTENDS FakesipDaemon, TLC

CONSTANTS p1, p2, p3

AllKinds == CommandKinds
AllButDelete == CommandKinds \ {"delete"}

(* Processes differ in nothing but their names.                            *)
ProcSymmetry == Permutations(Procs)
===========================================================================
