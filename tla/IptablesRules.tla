--------------------------- MODULE IptablesRules ---------------------------
(***************************************************************************)
(* FakeSIP's rules where there is no nft: chains FAKESIP_S, FAKESIP_D and  *)
(* FAKESIP_R (here S, D and R) of the mangle table of iptables and         *)
(* ip6tables.  Nothing is a transaction: each rule is a command of its     *)
(* own, and a process may be killed between any two.  What it leaves stays *)
(* until a later process, perhaps with other devices or families, has      *)
(* cleaned up.                                                             *)
(*                                                                         *)
(* A process keeps its queue to itself from before its first command until *)
(* after its last one, so that no two are at the rules.                    *)
(***************************************************************************)
EXTENDS Naturals, Sequences

CONSTANTS
  Local,   \* networks excluded, of each family
  Devs,    \* devices that may be selected
  AnyDev,  \* stands for all devices
  Nothing,
  MaxMissed  \* commands of a process's clean-ups that may fail without cause

Families == {"ip", "ip6"}
Chains == {"S", "D", "R"}
Hooked == {"S", "D"}  \* from PREROUTING and from POSTROUTING

ASSUME RulesAssumption ==
  /\ \A f \in Families : Local[f] # {} /\ Nothing \notin Local[f]
  /\ AnyDev \notin Devs
  /\ MaxMissed \in Nat

VARIABLES
  phase,
  conf,    \* families and devices of the process
  left,    \* families it has not finished
  step,    \* command of the clean-up it is at
  stage,   \* command of the set-up it is at
  todo,    \* networks or devices whose commands are still to come
  dev,     \* device at hand
  exists,  \* chains of each family
  rules,   \* rules of each chain
  hooks,   \* jumps to each chain from the hook
  missed   \* commands of its clean-ups that have failed without cause

control == <<phase, conf, left, step, stage, todo, dev>>
table == <<exists, rules, hooks>>
vars == <<control, table, missed>>

Family == IF "ip" \in left THEN "ip" ELSE "ip6"

(* The rules: leave for a local network, drop ICMP time exceeded, go on to *)
(* R for a device; leave for a marked packet, queue.                       *)
Leave(n) == [kind |-> "leave", of |-> n]
Drop(d) == [kind |-> "drop", of |-> d]
Go(d) == [kind |-> "go", of |-> d]
Mark == [kind |-> "mark", of |-> Nothing]
Queue == [kind |-> "queue", of |-> Nothing]

Stages == {"newS", "newD", "hookS", "hookD", "newR", "leaveS", "leaveD", "mark",
           "queue", "drop", "goS", "goD"}

NoConf == [fams |-> {}, devs |-> {}]
Confs ==
  [fams : (SUBSET Families) \ {{}},
   devs : ((SUBSET Devs) \ {{}}) \union {{AnyDev}}]

---------------------------------------------------------------------------
(* Clean-up.                                                               *)

(* Fault: a chain is deleted before the rules that lead to it.             *)
CleanUpByChain ==
  << <<"flush", "R">>, <<"delete", "R">>, <<"flush", "S">>, <<"unhook", "S">>,
     <<"delete", "S">>, <<"flush", "D">>, <<"unhook", "D">>, <<"delete", "D">> >>

CleanUp ==
  << <<"flush", "R">>, <<"flush", "S">>, <<"flush", "D">>,
     <<"unhook", "S">>, <<"unhook", "D">>,
     <<"delete", "R">>, <<"delete", "S">>, <<"delete", "D">> >>

Referenced(f, c) ==
  IF c = "R" THEN \E h \in Hooked : \E r \in rules[f][h] : r.kind = "go"
             ELSE hooks[f][c] > 0

CanClean(f, cmd) ==
  CASE cmd[1] = "flush" -> cmd[2] \in exists[f]
    [] cmd[1] = "unhook" -> hooks[f][cmd[2]] > 0
    [] cmd[1] = "delete" -> /\ cmd[2] \in exists[f] /\ rules[f][cmd[2]] = {}
                            /\ ~Referenced(f, cmd[2])

Clean(f, cmd) ==
  /\ rules' = IF cmd[1] = "flush" THEN [rules EXCEPT ![f][cmd[2]] = {}]
              ELSE rules
  /\ hooks' = IF cmd[1] = "unhook" THEN [hooks EXCEPT ![f][cmd[2]] = @ - 1]
              ELSE hooks
  /\ exists' = IF cmd[1] = "delete" THEN [exists EXCEPT ![f] = @ \ {cmd[2]}]
               ELSE exists

Cleaning == phase \in {"clean", "undo"}

(* What comes after a command of a clean-up: its next command, the set-up  *)
(* of the family, the clean-up of the next family, or the end.             *)
Proceed ==
  /\ UNCHANGED <<conf, dev, todo>>
  /\ IF step < Len(CleanUp)
     THEN step' = step + 1 /\ UNCHANGED <<phase, left, stage>>
     ELSE /\ step' = 1
          /\ IF phase = "clean"
             THEN phase' = "build" /\ stage' = "newS" /\ UNCHANGED left
             ELSE /\ left' = left \ {Family} /\ UNCHANGED stage
                  /\ phase' = IF left' = {} THEN "ended" ELSE "undo"

CleanCommand ==
  /\ Cleaning
  /\ CanClean(Family, CleanUp[step]) /\ Clean(Family, CleanUp[step])
  /\ Proceed /\ UNCHANGED missed

(* The outcome of a clean-up is not looked at.                             *)
CleanCommandFails ==
  /\ Cleaning
  /\ \/ ~CanClean(Family, CleanUp[step]) /\ UNCHANGED missed
     \/ /\ CanClean(Family, CleanUp[step])
        /\ missed < MaxMissed /\ missed' = missed + 1
  /\ Proceed /\ UNCHANGED table

---------------------------------------------------------------------------
(* Set-up.                                                                 *)

Start ==
  /\ phase \in {"off", "ended"}
  /\ conf' \in Confs
  /\ phase' = "clean" /\ left' = conf'.fams /\ step' = 1
  /\ missed' = 0
  /\ UNCHANGED <<stage, todo, dev, table>>

At(s) == phase = "build" /\ stage = s

Reach(s) == stage' = s /\ UNCHANGED <<phase, conf, left, step, missed>>

(* Fault: a chain that is there already will do.                           *)
NewChainAnyway(s, c, next) ==
  /\ At(s)
  /\ exists' = [exists EXCEPT ![Family] = @ \union {c}]
  /\ Reach(next) /\ UNCHANGED <<rules, hooks, dev>>
  /\ todo' = IF c = "R" THEN Local[Family] ELSE todo

(* iptables -N.                                                            *)
NewChain(s, c, next) ==
  /\ At(s) /\ c \notin exists[Family]
  /\ exists' = [exists EXCEPT ![Family] = @ \union {c}]
  /\ Reach(next) /\ UNCHANGED <<rules, hooks, dev>>
  /\ todo' = IF c = "R" THEN Local[Family] ELSE todo

HookChain(s, c, next) ==
  /\ At(s) /\ c \in exists[Family]
  /\ hooks' = [hooks EXCEPT ![Family][c] = @ + 1]
  /\ Reach(next) /\ UNCHANGED <<exists, rules, todo, dev>>

(* Rules go to the end of the chain, but for Drop, which goes to its head. *)
Add(c, r) ==
  /\ c \in exists[Family]
  /\ rules' = [rules EXCEPT ![Family][c] = @ \union {r}]
  /\ UNCHANGED <<exists, hooks>>

(* Fault: one network is enough.                                           *)
LeaveFirst(s, c, next, networks) ==
  /\ At(s)
  /\ \E n \in todo : Add(c, Leave(n))
  /\ todo' = networks /\ Reach(next)
  /\ UNCHANGED dev

(* networks: those the next command is for.                                *)
LeaveLocal(s, c, next, networks) ==
  /\ At(s)
  /\ \E n \in todo :
       /\ Add(c, Leave(n))
       /\ IF todo = {n} THEN todo' = networks /\ Reach(next)
                        ELSE todo' = todo \ {n} /\ Reach(s)
  /\ UNCHANGED dev

AddMark ==
  /\ At("mark") /\ Add("R", Mark) /\ Reach("queue")
  /\ UNCHANGED <<todo, dev>>

AddQueue ==
  /\ At("queue") /\ Add("R", Queue) /\ Reach("drop")
  /\ todo' = conf.devs /\ UNCHANGED dev

AddDrop ==
  /\ At("drop")
  /\ \E d \in todo : Add("S", Drop(d)) /\ dev' = d /\ todo' = todo \ {d}
  /\ Reach("goS")

AddGoS ==
  /\ At("goS") /\ "R" \in exists[Family]
  /\ Add("S", Go(dev)) /\ Reach("goD")
  /\ UNCHANGED <<todo, dev>>

(* Fault: only the first family is set up.                                 *)
FinishEarly ==
  /\ left' = {} /\ phase' = "run" /\ stage' = "newS"
  /\ UNCHANGED <<conf, step, missed>>

(* Fault: there is always another family.                                  *)
FinishAgain ==
  /\ left' = left \ {Family} /\ phase' = "clean" /\ stage' = "newS"
  /\ UNCHANGED <<conf, step, missed>>

(* The family is finished.                                                 *)
Finish ==
  /\ left' = left \ {Family}
  /\ phase' = IF left' = {} THEN "run" ELSE "clean"
  /\ stage' = "newS"
  /\ UNCHANGED <<conf, step, missed>>

AddGoD ==
  /\ At("goD") /\ "R" \in exists[Family]
  /\ Add("D", Go(dev)) /\ dev' = AnyDev
  /\ IF todo = {} THEN Finish ELSE Reach("drop")
  /\ UNCHANGED todo

Build ==
  \/ NewChain("newS", "S", "newD") \/ NewChain("newD", "D", "hookS")
  \/ HookChain("hookS", "S", "hookD") \/ HookChain("hookD", "D", "newR")
  \/ NewChain("newR", "R", "leaveS")
  \/ LeaveLocal("leaveS", "S", "leaveD", Local[Family])
  \/ LeaveLocal("leaveD", "D", "mark", {})
  \/ AddMark \/ AddQueue \/ AddDrop \/ AddGoS \/ AddGoD

NoStage == stage' = "newS" /\ todo' = {} /\ dev' = AnyDev

Undo ==
  /\ phase' = "undo" /\ left' = conf.fams /\ step' = 1 /\ NoStage
  /\ UNCHANGED <<conf, table, missed>>

(* A command of the set-up fails, for a chain that is there already or for *)
(* no cause we model: every family in use is cleaned up.                   *)
BuildFails == phase = "build" /\ Undo

(* The process ends after its packets, or because a later step failed.     *)
Stop == phase = "run" /\ Undo

Killed ==
  /\ phase \notin {"off", "ended"} /\ phase' = "off"
  /\ conf' = NoConf /\ left' = {} /\ step' = 1 /\ NoStage
  /\ UNCHANGED <<table, missed>>

NoRules == [f \in Families |-> [c \in Chains |-> {}]]
NoHooks == [f \in Families |-> [c \in Hooked |-> 0]]

Init ==
  /\ phase = "off" /\ conf = NoConf /\ left = {}
  /\ step = 1 /\ stage = "newS" /\ todo = {} /\ dev = AnyDev
  /\ exists = [f \in Families |-> {}] /\ rules = NoRules /\ hooks = NoHooks
  /\ missed = 0

Next ==
  \/ Start \/ CleanCommand \/ CleanCommandFails \/ Build \/ BuildFails
  \/ Stop \/ Killed

Spec == Init /\ [][Next]_vars

---------------------------------------------------------------------------
Selected == Devs \union {AnyDev}

RuleType ==
  {Leave(n) : n \in UNION {Local[f] : f \in Families}}
  \union {Drop(d) : d \in Selected} \union {Go(d) : d \in Selected}
  \union {Mark, Queue}

(* Every variable has its type, and a process has families left exactly    *)
(* while it is at their rules (fs_nfrules_setup, fs_nfrules_cleanup).      *)
TypeOK ==
  /\ phase \in {"off", "clean", "build", "run", "undo", "ended"}
  /\ conf \in IF phase = "off" THEN {NoConf} ELSE Confs
  /\ left \subseteq conf.fams
  /\ phase \in {"clean", "build", "undo"} <=> left # {}
  /\ step \in 1 .. Len(CleanUp) /\ stage \in Stages
  /\ todo \subseteq Selected \union UNION {Local[f] : f \in Families}
  /\ dev \in Selected
  /\ exists \in [Families -> SUBSET Chains]
  /\ rules \in [Families -> [Chains -> SUBSET RuleType]]
  /\ hooks \in [Families -> [Hooked -> Nat]]
  /\ missed \in 0 .. MaxMissed

(* Whatever a killed process has left and whichever command has failed     *)
(* since, no packet passes the chains twice (fs_ipt4_setup: the chain is   *)
(* made before it is hooked).                                              *)
OneHook == \A f \in Families, c \in Hooked : hooks[f][c] <= 1

(* Exactly the rules of the process, and nothing of an earlier one.        *)
Exact(f) ==
  /\ exists[f] = Chains
  /\ rules[f]["R"] = {Mark, Queue}
  /\ rules[f]["S"] = {Leave(n) : n \in Local[f]}
       \union {Drop(d) : d \in conf.devs} \union {Go(d) : d \in conf.devs}
  /\ rules[f]["D"] = {Leave(n) : n \in Local[f]}
       \union {Go(d) : d \in conf.devs}
  /\ \A c \in Hooked : hooks[f][c] = 1

(* A process that runs has its rules whole, and no others, in every family *)
(* it uses, even if the clean-up before them has failed (fs_ipt4_setup,    *)
(* fs_ipt6_setup, fs_nfrules_setup).                                       *)
SetupExact == phase = "run" => \A f \in conf.fams : Exact(f)

(* At no instant of a set-up, a clean-up or a wreck does a packet of a     *)
(* local network, or a decoy, which is marked, reach the queue: the rules  *)
(* that spare it stand before the rules that lead there.                   *)
LocalNeverQueued ==
  \A f \in Families :
    /\ \A c \in Hooked : (\E d \in Selected : Go(d) \in rules[f][c]) =>
         \A n \in Local[f] : Leave(n) \in rules[f][c]
    /\ Queue \in rules[f]["R"] => Mark \in rules[f]["R"]

(* A clean-up finds its way out of every wreck: the set-up of a family     *)
(* begins with nothing of it there, and so it fails only if a command      *)
(* does; a process that ends by itself leaves nothing (fs_ipt4_cleanup).   *)
CleanSlate ==
  missed = 0 =>
    /\ At("newS") => exists[Family] = {} /\ \A c \in Hooked : hooks[Family][c] = 0
    /\ phase \in {"undo", "ended"} => \A f \in conf.fams \ left :
         exists[f] = {} /\ \A c \in Hooked : hooks[f][c] = 0

(* What Interception sees.  Traffic is that of a device at a hook; it is   *)
(* diverted by a hooked chain with a rule for the device, while R has the  *)
(* queue rule.                                                             *)
Traffic == Hooked \X Selected

Diverts(f, c, d) ==
  hooks[f][c] > 0 /\ Go(d) \in rules[f][c] /\ Queue \in rules[f]["R"]

Holders == IF phase \in {"off", "ended"} THEN {} ELSE {conf}
Diverted == [f \in Families |-> {t \in Traffic : Diverts(f, t[1], t[2])}]
Wanted ==
  [f \in Families |->
    IF phase = "run" /\ f \in conf.fams THEN Hooked \X conf.devs ELSE {}]

Interceptor == INSTANCE Interception WITH
  Procs <- Confs, Crashes <- TRUE,
  holders <- Holders, diverted <- Diverted, wanted <- Wanted

(* Whatever is killed or fails, FakeSIP keeps the promise of Interception  *)
(* with iptables too: what a process wants is diverted, and nothing else   *)
(* in its families, from the moment it runs until it ends, although its    *)
(* rules are put together and taken apart one by one (fs_ipt4_setup,       *)
(* fs_ipt6_setup, fs_nfrules_cleanup).                                     *)
InterceptionKept == Interceptor!Spec
=============================================================================
