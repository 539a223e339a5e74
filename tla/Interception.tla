---------------------------- MODULE Interception ----------------------------
(***************************************************************************)
(* What FakeSIP promises about the packets it takes out of the traffic,    *)
(* without commands, chains, tables or signals, and whether the rules are  *)
(* nft's or those of iptables.                                             *)
(*                                                                         *)
(* At most one process holds the queue.  Rules divert traffic of a family  *)
(* to it.  A process that serves has its traffic diverted exactly as its   *)
(* configuration wants, and nothing changes that as long as it serves,     *)
(* whoever else is at the rules.  Rules are added only while there is a    *)
(* process to read what they divert; anybody may take rules away, but from *)
(* a process that serves.                                                  *)
(***************************************************************************)

CONSTANTS
  Procs,
  Families,
  Traffic,   \* kinds of packets of a family that may be diverted
  Crashes    \* may a process end without taking its rules away

VARIABLES
  holders,   \* processes that have the queue
  diverted,  \* traffic of each family that the rules divert
  wanted     \* traffic the process that serves wants; none if none serves

vars == <<holders, diverted, wanted>>

NoTraffic == [f \in Families |-> {}]

(* In the families it wants anything of, a process gets what it wants.     *)
Met(w, d) == \A f \in Families : w[f] # {} => d[f] = w[f]

Init == holders = {} /\ diverted = NoTraffic /\ wanted = NoTraffic

Take(p) ==
  /\ holders = {}
  /\ holders' = {p}
  /\ UNCHANGED <<diverted, wanted>>

Elsewhere(f) == \A g \in Families \ {f} : diverted'[g] = diverted[g]

(* Traffic is added, and with the last of it a process may begin to serve. *)
Divert(f) ==
  /\ holders # {} /\ wanted = NoTraffic
  /\ diverted[f] \subseteq diverted'[f] /\ Elsewhere(f)
  /\ Met(wanted', diverted')
  /\ UNCHANGED holders

Spare(f) ==
  /\ wanted = NoTraffic
  /\ diverted'[f] \subseteq diverted[f] /\ Elsewhere(f)
  /\ UNCHANGED <<holders, wanted>>

(* The process that serves is about to end.                                *)
Rest ==
  /\ wanted # NoTraffic /\ wanted' = NoTraffic
  /\ UNCHANGED <<holders, diverted>>

(* A process ends.                                                         *)
Release ==
  /\ holders # {} /\ holders' = {}
  /\ Crashes \/ diverted = NoTraffic
  /\ wanted' = NoTraffic
  /\ UNCHANGED diverted

Change ==
  \/ \E p \in Procs : Take(p)
  \/ \E f \in Families : Divert(f) \/ Spare(f)
  \/ Rest \/ Release

(* Traffic and wishes are what they are called.                            *)
Next ==
  /\ Change
  /\ diverted' \in [Families -> SUBSET Traffic]
  /\ wanted' \in [Families -> SUBSET Traffic]

Spec == Init /\ [][Next]_vars

---------------------------------------------------------------------------
(* Properties.                                                             *)

(* The queue has one reader, a process that serves holds it and has its    *)
(* traffic diverted as it wants, and unless a process crashes no traffic   *)
(* goes to a queue without a reader (mainfun.c:436-505).                   *)
Promise ==
  /\ \A p, q \in holders : p = q
  /\ wanted # NoTraffic => holders # {} /\ Met(wanted, diverted)
  /\ ~Crashes /\ holders = {} => diverted = NoTraffic
=============================================================================
