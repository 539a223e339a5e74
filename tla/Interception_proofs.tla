------------------------ MODULE Interception_proofs ------------------------
(***************************************************************************)
(* What every system that keeps Interception guarantees, for any set of    *)
(* processes, families and kinds of traffic.                               *)
(***************************************************************************)
EXTENDS Interception, TLAPS

(* One process at a time has the queue; while one serves it has the queue  *)
(* and its traffic; what is diverted has a reader unless one has crashed   *)
(* (fs_nfq_setup and fs_nfrules_setup before fs_nfq_loop).                 *)
THEOREM PromiseKept == Spec => []Promise
<1>1. Init => Promise
  BY DEF Init, Promise, NoTraffic
<1>2. Promise /\ [Next]_vars => Promise'
  <2> SUFFICES ASSUME Promise, [Next]_vars  PROVE Promise'
    OBVIOUS
  <2>1. ASSUME NEW p \in Procs, Take(p)  PROVE Promise'
    BY <2>1 DEF Promise, Take, Met, NoTraffic
  <2>2. ASSUME NEW f \in Families, Divert(f)  PROVE Promise'
    BY <2>2 DEF Promise, Divert
  <2>3. ASSUME NEW f \in Families, Spare(f), diverted' \in [Families -> SUBSET Traffic]
        PROVE  Promise'
    <3>1. diverted = NoTraffic => diverted' = NoTraffic
      <4>1. ASSUME diverted = NoTraffic, NEW g \in Families  PROVE diverted'[g] = {}
        BY <2>3, <4>1 DEF Spare, Elsewhere, NoTraffic
      <4>. QED  BY <2>3, <4>1 DEF NoTraffic
    <3>. QED  BY <2>3, <3>1 DEF Promise, Spare, NoTraffic
  <2>4. CASE Rest
    BY <2>4 DEF Promise, Rest, NoTraffic
  <2>5. CASE Release
    BY <2>5 DEF Promise, Release, NoTraffic
  <2>6. CASE UNCHANGED vars
    BY <2>6 DEF Promise, vars, Met, NoTraffic
  <2>. QED  BY <2>1, <2>2, <2>3, <2>4, <2>5, <2>6 DEF Next, Change
<1>. QED  BY <1>1, <1>2, PTL DEF Spec
=============================================================================
