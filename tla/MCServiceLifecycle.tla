------------------------ MODULE MCServiceLifecycle ------------------------
(* Small instances of ServiceLifecycle for TLC.                            *)
EXTENDS ServiceLifecycle, TLC

CONSTANTS d1, d2

On(delay, devices) ==
  [enabled |-> TRUE, delay |-> delay, all |-> FALSE, ifaces |-> devices,
   sound |-> TRUE]
Off == [On(1, {d1}) EXCEPT !.enabled = FALSE]
Disabled == [On(1, {}) EXCEPT !.enabled = FALSE]
AllMode == [On(1, {}) EXCEPT !.all = TRUE]

TwoDelays == {1, 2}
TimerConfigs == {On(1, {d1}), On(2, {d1}), Off}
LinkConfigs == {On(1, {d1, d2}), AllMode, Disabled}
LinkSymmetry == Permutations({d1, d2})
SmallConfigs == {On(1, {d1}), Off}
===========================================================================
