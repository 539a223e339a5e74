-------------------------- MODULE StartAuthority --------------------------
(***************************************************************************)
(* What one packet service promises about being started and stopped,       *)
(* without locks, scripts, timers or tokens.                               *)
(*                                                                         *)
(* The service runs only under an authority: a command of the              *)
(* administrator ("manual") or an automatic start whose boot window is     *)
(* over ("done").  While a window is armed ("wait") nothing runs, and the  *)
(* window ends no earlier than it was announced to.  A stop, a disable or  *)
(* a scheduler stop withdraws the authority ("cancel"), and after that     *)
(* only a new command of the administrator can give one.                   *)
(***************************************************************************)
EXTENDS Naturals

CONSTANT Dues    \* the uptimes a boot window may be announced to end at

VARIABLES phase,   \* the authority the service is under
          due,     \* when the armed window ends
          clock,   \* seconds since the system booted
          running  \* is there an instance of the service

vars == <<phase, due, clock, running>>

Init ==
  /\ phase = "none"
  /\ due \in Dues
  /\ clock = 0
  /\ running = FALSE

(* A window is armed, or armed again with another end, while nothing runs. *)
Arm ==
  /\ phase \in {"none", "wait"}
  /\ ~running
  /\ phase' = "wait"
  /\ due' \in Dues
  /\ UNCHANGED <<clock, running>>

(* The automatic start is due: not before the end of an armed window.      *)
Open ==
  /\ phase \in {"none", "wait"}
  /\ phase = "wait" => clock >= due
  /\ phase' = "done"
  /\ due' \in Dues
  /\ UNCHANGED <<clock, running>>

(* The administrator starts the service: whatever ran before is replaced.  *)
Command ==
  /\ phase' = "manual"
  /\ due' \in Dues
  /\ running' = FALSE
  /\ UNCHANGED clock

(* The authority is withdrawn; what still runs is left to Halt.            *)
Cancel ==
  /\ phase' = "cancel"
  /\ due' \in Dues
  /\ running' \in {running, FALSE}
  /\ UNCHANGED clock

Launch ==
  /\ phase \in {"manual", "done"}
  /\ running' = TRUE
  /\ UNCHANGED <<phase, due, clock>>

Halt ==
  /\ running' = FALSE
  /\ UNCHANGED <<phase, due, clock>>

Tick ==
  /\ clock' \in Nat
  /\ clock' >= clock
  /\ UNCHANGED <<phase, due, running>>

Next == Arm \/ Open \/ Command \/ Cancel \/ Launch \/ Halt \/ Tick

Spec == Init /\ [][Next]_vars

===========================================================================
