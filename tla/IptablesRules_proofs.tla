------------------------ MODULE IptablesRules_proofs ------------------------
(***************************************************************************)
(* Proofs about IptablesRules: for any networks and devices, and however   *)
(* many processes are killed or commands fail.                             *)
(***************************************************************************)
EXTENDS IptablesRules, TLAPS

AllLeave(f) == {Leave(n) : n \in Local[f]}

(* What the kernel keeps true of the table of a family, whoever has been   *)
(* at it: a chain that has rules, or is hooked, exists.                    *)
Consistent(f) ==
  /\ \A c \in Chains : c \notin exists[f] => rules[f][c] = {}
  /\ \A c \in Hooked : hooks[f][c] > 0 => c \in exists[f]

Frame == TypeOK /\ \A f \in Families : Consistent(f)

(* What holds of the table of a family if only FakeSIP has been at it.     *)
Sound(f) ==
  /\ \A c \in Chains : c \notin exists[f] => rules[f][c] = {}
  /\ \A c \in Hooked :
       /\ hooks[f][c] \in {0, 1}
       /\ hooks[f][c] = 1 => c \in exists[f]
       /\ \A d \in Selected : Go(d) \in rules[f][c] =>
            "R" \in exists[f] /\ AllLeave(f) \subseteq rules[f][c]
  /\ Queue \in rules[f]["R"] => Mark \in rules[f]["R"]

(* What the chains of a family hold when its set-up is at a stage: it is   *)
(* done with all devices but those to do and the one at hand.              *)
ChainS(f) ==
  /\ stage \in {"newD", "hookS", "hookD", "newR"} => rules[f]["S"] = {}
  /\ stage = "leaveS" => rules[f]["S"] = {Leave(n) : n \in Local[f] \ todo}
  /\ stage \in {"leaveD", "mark", "queue"} => rules[f]["S"] = AllLeave(f)
  /\ stage = "goS" => rules[f]["S"] =
       AllLeave(f) \union {Drop(d) : d \in conf.devs \ todo}
       \union {Go(d) : d \in conf.devs \ (todo \union {dev})}
  /\ stage \in {"drop", "goD"} => rules[f]["S"] =
       AllLeave(f) \union {Drop(d) : d \in conf.devs \ todo}
       \union {Go(d) : d \in conf.devs \ todo}

ChainD(f) ==
  /\ stage \in {"hookS", "hookD", "newR", "leaveS"} => rules[f]["D"] = {}
  /\ stage = "leaveD" => rules[f]["D"] = {Leave(n) : n \in Local[f] \ todo}
  /\ stage \in {"mark", "queue"} => rules[f]["D"] = AllLeave(f)
  /\ stage = "drop" => rules[f]["D"] =
       AllLeave(f) \union {Go(d) : d \in conf.devs \ todo}
  /\ stage \in {"goS", "goD"} => rules[f]["D"] =
       AllLeave(f) \union {Go(d) : d \in conf.devs \ (todo \union {dev})}

ChainR(f) ==
  /\ stage \in {"leaveS", "leaveD", "mark"} => rules[f]["R"] = {}
  /\ stage = "queue" => rules[f]["R"] = {Mark}
  /\ stage \in {"drop", "goS", "goD"} => rules[f]["R"] = {Mark, Queue}

Linked(f) ==
  /\ stage # "newS" => "S" \in exists[f]
  /\ stage \notin {"newS", "newD"} => "D" \in exists[f]
  /\ stage \notin {"newS", "newD", "hookS", "hookD", "newR"} =>
       "R" \in exists[f]
  /\ stage \in {"newD", "hookS"} => hooks[f]["S"] = 0
  /\ stage \in {"hookS", "hookD"} => hooks[f]["D"] = 0
  /\ stage \notin {"newS", "newD", "hookS"} => hooks[f]["S"] = 1
  /\ stage \notin {"newS", "newD", "hookS", "hookD"} => hooks[f]["D"] = 1

Loop(f) ==
  /\ stage \in {"leaveS", "leaveD"} => todo \subseteq Local[f] /\ todo # {}
  /\ stage \in {"drop", "goS", "goD"} => todo \subseteq conf.devs
  /\ stage \in {"goS", "goD"} => dev \in conf.devs \ todo

Partial(f) == ChainS(f) /\ ChainD(f) /\ ChainR(f) /\ Linked(f) /\ Loop(f)

Building == phase = "build" => Partial(Family)

Built ==
  phase \in {"clean", "build", "run"} => \A f \in conf.fams \ left : Exact(f)

(* What the commands of a clean-up have removed, if none has failed.       *)
Gone(f) ==
  /\ step > 1 => rules[f]["R"] = {}
  /\ step > 2 => rules[f]["S"] = {}
  /\ step > 3 => rules[f]["D"] = {}
  /\ step > 4 => hooks[f]["S"] = 0
  /\ step > 5 => hooks[f]["D"] = 0
  /\ step > 6 => "R" \notin exists[f]
  /\ step > 7 => "S" \notin exists[f]

Empty(f) == exists[f] = {} /\ \A c \in Hooked : hooks[f][c] = 0

Cleaned ==
  missed = 0 =>
    /\ Cleaning => Gone(Family)
    /\ At("newS") => Empty(Family)
    /\ phase \in {"undo", "ended"} => \A f \in conf.fams \ left : Empty(f)

Base == TypeOK /\ \A f \in Families : Sound(f)

Rested == ~Cleaning => step = 1

Inv == Base /\ Building /\ Built /\ Cleaned /\ Rested

---------------------------------------------------------------------------
(* Facts about families, rules and the clean-up.                           *)

LEMMA FamilyIsLeft ==
  ASSUME TypeOK, left # {}
  PROVE  Family \in left /\ Family \in Families /\ Family \in conf.fams
BY DEF TypeOK, Family, Families, Confs, NoConf

LEMMA CleanUpSteps ==
  /\ Len(CleanUp) = 8
  /\ CleanUp[1] = <<"flush", "R">> /\ CleanUp[2] = <<"flush", "S">>
  /\ CleanUp[3] = <<"flush", "D">> /\ CleanUp[4] = <<"unhook", "S">>
  /\ CleanUp[5] = <<"unhook", "D">> /\ CleanUp[6] = <<"delete", "R">>
  /\ CleanUp[7] = <<"delete", "S">> /\ CleanUp[8] = <<"delete", "D">>
BY DEF CleanUp

LEMMA CleanUpIsCommand ==
  ASSUME NEW i \in 1 .. Len(CleanUp)
  PROVE  \/ CleanUp[i][1] = "flush" /\ CleanUp[i][2] \in Chains
         \/ CleanUp[i][1] = "unhook" /\ CleanUp[i][2] \in Hooked
         \/ CleanUp[i][1] = "delete" /\ CleanUp[i][2] \in Chains
<1>1. i \in 1 .. 8
  BY CleanUpSteps
<1>2. \/ i = 1 \/ i = 2 \/ i = 3 \/ i = 4 \/ i = 5 \/ i = 6 \/ i = 7 \/ i = 8
  BY <1>1
<1> QED
  BY <1>2, CleanUpSteps DEF Chains, Hooked

LEMMA RulesDiffer ==
  /\ \A n, m : Leave(n) = Leave(m) => n = m
  /\ \A n, m : Drop(n) = Drop(m) => n = m
  /\ \A n, m : Go(n) = Go(m) => n = m
  /\ \A n, m : Leave(n) # Drop(m) /\ Leave(n) # Go(m) /\ Drop(n) # Go(m)
  /\ \A n : Leave(n) # Mark /\ Drop(n) # Mark /\ Go(n) # Mark
  /\ \A n : Leave(n) # Queue /\ Drop(n) # Queue /\ Go(n) # Queue
  /\ Mark # Queue
  /\ \A n : Go(n).kind = "go"
BY DEF Leave, Drop, Go, Mark, Queue

LEMMA RulesAreRules ==
  /\ \A f \in Families : \A n \in Local[f] : Leave(n) \in RuleType
  /\ \A d \in Selected : Drop(d) \in RuleType /\ Go(d) \in RuleType
  /\ Mark \in RuleType /\ Queue \in RuleType
BY DEF RuleType

LEMMA ConfDevices ==
  ASSUME NEW c \in Confs
  PROVE  c.devs \subseteq Selected /\ c.fams \subseteq Families /\ c.fams # {}
BY DEF Confs, Selected

---------------------------------------------------------------------------
(* What each kind of command does to the table.                            *)

LEMMA AddEffect ==
  ASSUME TypeOK, Family \in Families, NEW c \in Chains, NEW r, Add(c, r)
  PROVE  /\ rules'[Family][c] = rules[Family][c] \union {r}
         /\ \A x \in Chains \ {c} : rules'[Family][x] = rules[Family][x]
         /\ \A g \in Families \ {Family} : rules'[g] = rules[g]
         /\ exists' = exists /\ hooks' = hooks /\ c \in exists[Family]
         /\ r \in RuleType =>
              rules' \in [Families -> [Chains -> SUBSET RuleType]]
<1> DEFINE F == Family
<1>1. rules \in [Families -> [Chains -> SUBSET RuleType]] /\ F \in Families
  BY DEF TypeOK
<1>2. rules' = [rules EXCEPT ![F][c] = @ \union {r}]
  BY DEF Add
<1>3. exists' = exists /\ hooks' = hooks /\ c \in exists[F]
  BY DEF Add
<1> HIDE DEF F
<1> QED
  BY <1>1, <1>2, <1>3 DEF F

LEMMA NewChainEffect ==
  ASSUME TypeOK, Family \in Families, NEW s, NEW c \in Chains, NEW next,
         NewChain(s, c, next)
  PROVE  /\ exists'[Family] = exists[Family] \union {c}
         /\ c \notin exists[Family]
         /\ \A g \in Families \ {Family} : exists'[g] = exists[g]
         /\ rules' = rules /\ hooks' = hooks
         /\ exists' \in [Families -> SUBSET Chains]
<1> DEFINE F == Family
<1>1. exists \in [Families -> SUBSET Chains] /\ F \in Families
  BY DEF TypeOK
<1>2. exists' = [exists EXCEPT ![F] = @ \union {c}]
  BY DEF NewChain
<1>3. rules' = rules /\ hooks' = hooks /\ c \notin exists[F]
  BY DEF NewChain
<1> HIDE DEF F
<1> QED
  BY <1>1, <1>2, <1>3 DEF F

LEMMA HookChainEffect ==
  ASSUME TypeOK, Family \in Families, NEW s, NEW c \in Hooked, NEW next,
         HookChain(s, c, next)
  PROVE  /\ hooks'[Family][c] = hooks[Family][c] + 1
         /\ \A x \in Hooked \ {c} : hooks'[Family][x] = hooks[Family][x]
         /\ \A g \in Families \ {Family} : hooks'[g] = hooks[g]
         /\ rules' = rules /\ exists' = exists /\ c \in exists[Family]
         /\ hooks' \in [Families -> [Hooked -> Nat]]
<1> DEFINE F == Family
<1>1. hooks \in [Families -> [Hooked -> Nat]] /\ F \in Families
  BY DEF TypeOK
<1>2. hooks' = [hooks EXCEPT ![F][c] = @ + 1]
  BY DEF HookChain
<1>3. rules' = rules /\ exists' = exists /\ c \in exists[F]
  BY DEF HookChain
<1> HIDE DEF F
<1> QED
  BY <1>1, <1>2, <1>3 DEF F

LEMMA FlushEffect ==
  ASSUME TypeOK, NEW f \in Families, NEW cmd, cmd[1] = "flush",
         cmd[2] \in Chains, CanClean(f, cmd), Clean(f, cmd)
  PROVE  /\ rules'[f][cmd[2]] = {}
         /\ \A x \in Chains \ {cmd[2]} : rules'[f][x] = rules[f][x]
         /\ \A g \in Families \ {f} : rules'[g] = rules[g]
         /\ exists' = exists /\ hooks' = hooks
         /\ rules' \in [Families -> [Chains -> SUBSET RuleType]]
<1>1. rules \in [Families -> [Chains -> SUBSET RuleType]]
  BY DEF TypeOK
<1>2. rules' = [rules EXCEPT ![f][cmd[2]] = {}]
  BY DEF Clean
<1>3. exists' = exists /\ hooks' = hooks
  BY DEF Clean
<1> QED
  BY <1>1, <1>2, <1>3

LEMMA UnhookEffect ==
  ASSUME TypeOK, NEW f \in Families, NEW cmd, cmd[1] = "unhook",
         cmd[2] \in Hooked, CanClean(f, cmd), Clean(f, cmd)
  PROVE  /\ hooks'[f][cmd[2]] = hooks[f][cmd[2]] - 1 /\ hooks[f][cmd[2]] > 0
         /\ \A x \in Hooked \ {cmd[2]} : hooks'[f][x] = hooks[f][x]
         /\ \A g \in Families \ {f} : hooks'[g] = hooks[g]
         /\ exists' = exists /\ rules' = rules
         /\ hooks' \in [Families -> [Hooked -> Nat]]
<1>1. hooks \in [Families -> [Hooked -> Nat]]
  BY DEF TypeOK
<1>2. hooks' = [hooks EXCEPT ![f][cmd[2]] = @ - 1]
  BY DEF Clean
<1>3. exists' = exists /\ rules' = rules /\ hooks[f][cmd[2]] > 0
  BY DEF Clean, CanClean
<1> QED
  BY <1>1, <1>2, <1>3

LEMMA DeleteEffect ==
  ASSUME TypeOK, NEW f \in Families, NEW cmd, cmd[1] = "delete",
         cmd[2] \in Chains, CanClean(f, cmd), Clean(f, cmd)
  PROVE  /\ exists'[f] = exists[f] \ {cmd[2]} /\ cmd[2] \in exists[f]
         /\ \A g \in Families \ {f} : exists'[g] = exists[g]
         /\ hooks' = hooks /\ rules' = rules /\ rules[f][cmd[2]] = {}
         /\ ~Referenced(f, cmd[2])
         /\ exists' \in [Families -> SUBSET Chains]
<1>1. exists \in [Families -> SUBSET Chains]
  BY DEF TypeOK
<1>2. exists' = [exists EXCEPT ![f] = @ \ {cmd[2]}]
  BY DEF Clean
<1>3. /\ hooks' = hooks /\ rules' = rules /\ rules[f][cmd[2]] = {}
      /\ ~Referenced(f, cmd[2]) /\ cmd[2] \in exists[f]
  BY DEF Clean, CanClean
<1> QED
  BY <1>1, <1>2, <1>3

---------------------------------------------------------------------------
(* Every variable keeps its type.                                          *)

LEMMA ProceedTypes ==
  ASSUME TypeOK, Cleaning, Proceed
  PROVE  /\ phase' \in {"clean", "undo", "build", "ended"}
         /\ conf' \in Confs /\ left' \subseteq conf'.fams
         /\ phase' \in {"clean", "build", "undo"} <=> left' # {}
         /\ step' \in 1 .. Len(CleanUp) /\ stage' \in Stages
         /\ todo' \subseteq Selected \union UNION {Local[f] : f \in Families}
         /\ dev' \in Selected
<1>1. Len(CleanUp) = 8
  BY CleanUpSteps
<1> QED
  BY <1>1 DEF TypeOK, Cleaning, Proceed, Stages

LEMMA CleanTypes ==
  ASSUME TypeOK, CleanCommand
  PROVE  TypeOK'
<1> DEFINE cmd == CleanUp[step]
<1>1. Proceed /\ Cleaning /\ missed' = missed
  BY DEF CleanCommand
<1>2. left # {} /\ step \in 1 .. Len(CleanUp)
  BY <1>1 DEF TypeOK, Cleaning
<1>3. Family \in Families /\ CanClean(Family, cmd) /\ Clean(Family, cmd)
  BY <1>2, FamilyIsLeft DEF CleanCommand
<1>4. \/ cmd[1] = "flush" /\ cmd[2] \in Chains
      \/ cmd[1] = "unhook" /\ cmd[2] \in Hooked
      \/ cmd[1] = "delete" /\ cmd[2] \in Chains
  BY <1>2, CleanUpIsCommand
<1> HIDE DEF cmd
<1>5. /\ exists' \in [Families -> SUBSET Chains]
      /\ rules' \in [Families -> [Chains -> SUBSET RuleType]]
      /\ hooks' \in [Families -> [Hooked -> Nat]]
  <2>1. CASE cmd[1] = "flush" /\ cmd[2] \in Chains
    BY <2>1, <1>3, FlushEffect DEF TypeOK
  <2>2. CASE cmd[1] = "unhook" /\ cmd[2] \in Hooked
    BY <2>2, <1>3, UnhookEffect DEF TypeOK
  <2>3. CASE cmd[1] = "delete" /\ cmd[2] \in Chains
    BY <2>3, <1>3, DeleteEffect DEF TypeOK
  <2> QED
    BY <1>4, <2>1, <2>2, <2>3
<1>6. missed' \in 0 .. MaxMissed
  BY <1>1 DEF TypeOK
<1> QED
  BY <1>1, <1>5, <1>6, ProceedTypes DEF TypeOK

LEMMA ReachTypes ==
  ASSUME TypeOK, phase = "build", NEW s \in Stages, Reach(s)
  PROVE  /\ phase' \in {"off", "clean", "build", "run", "undo", "ended"}
         /\ conf' \in IF phase' = "off" THEN {NoConf} ELSE Confs
         /\ left' \subseteq conf'.fams
         /\ phase' \in {"clean", "build", "undo"} <=> left' # {}
         /\ step' \in 1 .. Len(CleanUp) /\ stage' \in Stages
         /\ missed' \in 0 .. MaxMissed
BY DEF TypeOK, Reach

LEMMA TypeStep ==
  ASSUME TypeOK, Building, [Next]_vars
  PROVE  TypeOK'
<1> DEFINE Items == Selected \union UNION {Local[f] : f \in Families}
<1>0. CASE UNCHANGED vars
  BY <1>0 DEF TypeOK, vars, control, table
<1>1. CASE Start
  <2>1. conf' \in Confs /\ conf'.fams # {} /\ left' = conf'.fams
    BY <1>1, ConfDevices DEF Start
  <2>2. step' \in 1 .. Len(CleanUp) /\ missed' \in 0 .. MaxMissed
    BY <1>1, CleanUpSteps, RulesAssumption DEF Start
  <2> QED
    BY <1>1, <2>1, <2>2 DEF Start, TypeOK, table
<1>2. CASE CleanCommand
  BY <1>2, CleanTypes
<1>3. CASE CleanCommandFails
  <2>1. Cleaning /\ Proceed /\ UNCHANGED table
    BY <1>3 DEF CleanCommandFails
  <2>2. missed' \in 0 .. MaxMissed
    BY <1>3, RulesAssumption DEF CleanCommandFails, TypeOK
  <2> QED
    BY <2>1, <2>2, ProceedTypes DEF TypeOK, table
<1>4. CASE Build
  <2>0. phase = "build" /\ Family \in Families /\ Family \in conf.fams
    BY <1>4, FamilyIsLeft
    DEF TypeOK, Build, NewChain, HookChain, LeaveLocal, AddMark, AddQueue,
        AddDrop, AddGoS, AddGoD, At
  <2>1. Local[Family] \subseteq Items /\ conf.devs \subseteq Items
    BY <2>0, ConfDevices DEF TypeOK
  <2>2. CASE \/ NewChain("newS", "S", "newD")
             \/ NewChain("newD", "D", "hookS")
             \/ NewChain("newR", "R", "leaveS")
    <3>1. PICK s \in Stages, c \in Chains, n \in Stages : NewChain(s, c, n)
      BY <2>2 DEF Chains, Stages
    <3>2. todo' \subseteq Items /\ dev' \in Selected
      BY <3>1, <2>1 DEF NewChain, TypeOK
    <3>3. Reach(n)
      BY <3>1 DEF NewChain
    <3>4. /\ exists' \in [Families -> SUBSET Chains]
          /\ rules' = rules /\ hooks' = hooks
      BY <3>1, <2>0, NewChainEffect
    <3> QED
      BY <3>2, <3>3, <3>4, <2>0, ReachTypes DEF TypeOK
  <2>3. CASE \/ HookChain("hookS", "S", "hookD")
             \/ HookChain("hookD", "D", "newR")
    <3>1. PICK s \in Stages, c \in Hooked, n \in Stages : HookChain(s, c, n)
      BY <2>3 DEF Hooked, Stages
    <3>2. todo' \subseteq Items /\ dev' \in Selected /\ Reach(n)
      BY <3>1 DEF HookChain, TypeOK
    <3>4. /\ hooks' \in [Families -> [Hooked -> Nat]]
          /\ rules' = rules /\ exists' = exists
      BY <3>1, <2>0, HookChainEffect
    <3> QED
      BY <3>2, <3>4, <2>0, ReachTypes DEF TypeOK
  <2>4. CASE \/ LeaveLocal("leaveS", "S", "leaveD", Local[Family])
             \/ LeaveLocal("leaveD", "D", "mark", {})
    <3>1. PICK s \in Stages, c \in Chains, m \in Stages, N \in SUBSET Items :
            LeaveLocal(s, c, m, N) /\ s \in {"leaveS", "leaveD"}
      BY <2>4, <2>1 DEF Chains, Stages
    <3>2. todo \subseteq Local[Family] /\ dev' = dev
      BY <3>1, <2>0 DEF LeaveLocal, At, Building, Partial, Loop
    <3>3. PICK n \in todo :
            /\ Add(c, Leave(n))
            /\ IF todo = {n} THEN todo' = N /\ Reach(m)
                             ELSE todo' = todo \ {n} /\ Reach(s)
      BY <3>1 DEF LeaveLocal
    <3>4. Leave(n) \in RuleType /\ Add(c, Leave(n))
      BY <3>2, <3>3, <2>0, RulesAreRules
    <3>5. /\ rules' \in [Families -> [Chains -> SUBSET RuleType]]
          /\ exists' = exists /\ hooks' = hooks
      BY <3>1, <3>4, <2>0, AddEffect
    <3>6. todo' \subseteq Items /\ dev' \in Selected /\ (Reach(m) \/ Reach(s))
      BY <3>2, <3>3, <2>1 DEF TypeOK
    <3> QED
      BY <3>1, <3>5, <3>6, <2>0, ReachTypes DEF TypeOK
  <2>5. CASE AddMark \/ AddQueue \/ AddDrop \/ AddGoS
    <3>1. /\ todo' \subseteq Items /\ dev' \in Selected
          /\ Reach("queue") \/ Reach("drop") \/ Reach("goS") \/ Reach("goD")
      <4>1. CASE AddMark \/ AddQueue \/ AddGoS
        BY <4>1, <2>1 DEF AddMark, AddQueue, AddGoS, TypeOK
      <4>2. CASE AddDrop
        <5>1. todo \subseteq Selected
          BY <4>2, <2>0, ConfDevices
          DEF AddDrop, At, Building, Partial, Loop, TypeOK
        <5> QED
          BY <4>2, <5>1 DEF AddDrop
      <4> QED
        BY <2>5, <4>1, <4>2
    <3>2. \E c \in Chains, r \in RuleType : Add(c, r)
      <4>1. CASE AddMark \/ AddQueue \/ AddGoS
        BY <4>1, RulesAreRules
        DEF AddMark, AddQueue, AddGoS, Chains, TypeOK
      <4>2. CASE AddDrop
        <5>1. todo \subseteq Selected
          BY <4>2, <2>0, ConfDevices
          DEF AddDrop, At, Building, Partial, Loop, TypeOK
        <5> QED
          BY <4>2, <5>1, RulesAreRules DEF AddDrop, Chains
      <4> QED
        BY <2>5, <4>1, <4>2
    <3>3. /\ rules' \in [Families -> [Chains -> SUBSET RuleType]]
          /\ exists' = exists /\ hooks' = hooks
      BY <3>2, <2>0, AddEffect
    <3>4. {"queue", "drop", "goS", "goD"} \subseteq Stages
      BY DEF Stages
    <3> QED
      BY <3>1, <3>3, <3>4, <2>0, ReachTypes DEF TypeOK
  <2>6. CASE AddGoD
    <3>1. Add("D", Go(dev)) /\ Go(dev) \in RuleType
      BY <2>6, RulesAreRules DEF AddGoD, TypeOK
    <3>2. /\ rules' \in [Families -> [Chains -> SUBSET RuleType]]
          /\ exists' = exists /\ hooks' = hooks
      BY <3>1, <2>0, AddEffect DEF Chains
    <3>3. todo' \subseteq Items /\ dev' \in Selected
      BY <2>6 DEF AddGoD, TypeOK, Selected
    <3>4. CASE Reach("drop")
      BY <3>2, <3>3, <3>4, <2>0, ReachTypes DEF TypeOK, Stages
    <3>5. CASE Finish
      BY <3>2, <3>3, <3>5, <2>0 DEF TypeOK, Finish, Stages
    <3> QED
      BY <2>6, <3>4, <3>5 DEF AddGoD
  <2> QED
    BY <1>4, <2>2, <2>3, <2>4, <2>5, <2>6 DEF Build
<1>5. CASE BuildFails \/ Stop
  <2>1. Undo /\ conf \in Confs
    BY <1>5 DEF BuildFails, Stop, TypeOK
  <2>2. conf.fams # {} /\ 1 \in 1 .. Len(CleanUp)
    BY <2>1, ConfDevices, CleanUpSteps
  <2> QED
    BY <2>1, <2>2 DEF Undo, NoStage, TypeOK, table, Stages, Selected
<1>6. CASE Killed
  <2>1. 1 \in 1 .. Len(CleanUp)
    BY CleanUpSteps
  <2> QED
    BY <1>6, <2>1 DEF Killed, NoStage, TypeOK, table, Stages, Selected, NoConf
<1> QED
  BY <1>0, <1>1, <1>2, <1>3, <1>4, <1>5, <1>6 DEF Next

---------------------------------------------------------------------------
(* The table of every family stays sound.                                  *)

LEMMA SoundIsConsistent ==
  ASSUME NEW f \in Families, Sound(f)
  PROVE  Consistent(f)
BY DEF Sound, Consistent

LEMMA SoundIfSame ==
  ASSUME NEW f \in Families, Sound(f),
         rules'[f] = rules[f], hooks'[f] = hooks[f], exists'[f] = exists[f]
  PROVE  Sound(f)'
BY DEF Sound, AllLeave

LEMMA SoundAfterAdd ==
  ASSUME Base, Family \in Families, NEW c \in Chains, NEW r, Add(c, r),
         \A d : r = Go(d) =>
           "R" \in exists[Family] /\ AllLeave(Family) \subseteq rules[Family][c],
         r = Queue => c = "R" /\ Mark \in rules[Family]["R"]
  PROVE  \A f \in Families : Sound(f)'
<1>0. PICK F \in Families : F = Family
  OBVIOUS
<1>1. /\ rules'[F][c] = rules[F][c] \union {r}
      /\ \A x \in Chains \ {c} : rules'[F][x] = rules[F][x]
      /\ \A g \in Families \ {F} : rules'[g] = rules[g]
      /\ exists' = exists /\ hooks' = hooks /\ c \in exists[F]
  BY <1>0, AddEffect DEF Base
<1>2. \A f \in Families : Sound(f)
  BY DEF Base
<1>3. ASSUME NEW f \in Families, f # F
      PROVE  Sound(f)'
  BY <1>1, <1>2, <1>3, SoundIfSame
<1>4. F \in Families /\ Sound(F)
  BY <1>2
<1>4a. /\ \A d : r = Go(d) =>
            "R" \in exists[F] /\ AllLeave(F) \subseteq rules[F][c]
       /\ r = Queue => c = "R" /\ Mark \in rules[F]["R"]
  BY <1>0
<1>5. Sound(F)'
  <2>1. \A x \in Chains : x \notin exists'[F] => rules'[F][x] = {}
    BY <1>1, <1>4 DEF Sound
  <2>2. \A x \in Hooked : hooks'[F][x] \in {0, 1} /\ (hooks'[F][x] = 1 => x \in exists'[F])
    BY <1>1, <1>4 DEF Sound
  <2>3. ASSUME NEW x \in Hooked, NEW d \in Selected, Go(d) \in rules'[F][x]
        PROVE  "R" \in exists'[F] /\ AllLeave(F) \subseteq rules'[F][x]
    <3>1. rules[F][x] \subseteq rules'[F][x] /\ x \in Chains
      BY <1>1 DEF Hooked, Chains
    <3>2. CASE Go(d) \in rules[F][x]
      BY <3>1, <3>2, <1>1, <1>4 DEF Sound
    <3>3. CASE Go(d) \notin rules[F][x]
      BY <3>1, <3>3, <2>3, <1>1, <1>4a
    <3> QED
      BY <3>2, <3>3
  <2>4. Queue \in rules'[F]["R"] => Mark \in rules'[F]["R"]
    BY <1>1, <1>4, <1>4a DEF Sound, Chains
  <2>5. AllLeave(F)' = AllLeave(F)
    BY DEF AllLeave
  <2> QED
    BY <2>1, <2>2, <2>3, <2>4, <2>5 DEF Sound
<1> QED
  BY <1>3, <1>5

LEMMA SoundAfterClean ==
  ASSUME Base, CleanCommand
  PROVE  \A f \in Families : Sound(f)'
<1>0. PICK F \in Families : F = Family
  BY FamilyIsLeft DEF CleanCommand, Cleaning, Base, TypeOK
<1>0a. PICK cmd : cmd = CleanUp[step]
  OBVIOUS
<1>1. /\ F \in Families /\ CanClean(F, cmd) /\ Clean(F, cmd)
      /\ \/ cmd[1] = "flush" /\ cmd[2] \in Chains
         \/ cmd[1] = "unhook" /\ cmd[2] \in Hooked
         \/ cmd[1] = "delete" /\ cmd[2] \in Chains
  BY <1>0, <1>0a, CleanUpIsCommand DEF CleanCommand, Cleaning, Base, TypeOK
<1>2. TypeOK /\ \A f \in Families : Sound(f)
  BY DEF Base
<1>3. AllLeave(F)' = AllLeave(F)
  BY DEF AllLeave
<1>4. ASSUME NEW f \in Families, f # F
      PROVE  Sound(f)'
  <2>1. rules'[f] = rules[f] /\ hooks'[f] = hooks[f] /\ exists'[f] = exists[f]
    BY <1>1, <1>2, <1>4, FlushEffect, UnhookEffect, DeleteEffect
  <2> QED
    BY <2>1, <1>2, SoundIfSame
<1>5. Sound(F)'
  <2>1. CASE cmd[1] = "flush" /\ cmd[2] \in Chains
    <3>1. /\ rules'[F][cmd[2]] = {}
          /\ \A x \in Chains \ {cmd[2]} : rules'[F][x] = rules[F][x]
          /\ exists' = exists /\ hooks' = hooks
      BY <2>1, <1>1, <1>2, FlushEffect
    <3>2. Hooked \subseteq Chains /\ "R" \in Chains
      BY DEF Hooked, Chains
    <3>3. \A x \in Chains : rules'[F][x] = {} \/ rules'[F][x] = rules[F][x]
      BY <3>1
    <3>4. Sound(F)
      BY <1>1, <1>2
    <3> QED
      BY <3>1, <3>2, <3>3, <3>4, <1>3 DEF Sound
  <2>2. CASE cmd[1] = "unhook" /\ cmd[2] \in Hooked
    <3>1. /\ hooks'[F][cmd[2]] = hooks[F][cmd[2]] - 1 /\ hooks[F][cmd[2]] > 0
          /\ \A x \in Hooked \ {cmd[2]} : hooks'[F][x] = hooks[F][x]
          /\ exists' = exists /\ rules' = rules
      BY <2>2, <1>1, <1>2, UnhookEffect
    <3>2. Sound(F)
      BY <1>1, <1>2
    <3>3. hooks'[F][cmd[2]] = 0
      BY <3>1, <3>2, <2>2 DEF Sound
    <3>4. \A x \in Hooked : hooks'[F][x] = 0 \/ hooks'[F][x] = hooks[F][x]
      BY <3>1, <3>3
    <3> QED
      BY <3>1, <3>2, <3>4, <1>3 DEF Sound
  <2>3. CASE cmd[1] = "delete" /\ cmd[2] \in Chains
    <3>1. /\ exists'[F] = exists[F] \ {cmd[2]}
          /\ hooks' = hooks /\ rules' = rules /\ rules[F][cmd[2]] = {}
          /\ ~Referenced(F, cmd[2])
      BY <2>3, <1>1, <1>2, DeleteEffect
    <3>2. Sound(F)
      BY <1>1, <1>2
    <3>3. cmd[2] = "R" => \A x \in Hooked : \A d : Go(d) \notin rules[F][x]
      BY <3>1, RulesDiffer DEF Referenced
    <3>4. cmd[2] \in Hooked => ~(hooks[F][cmd[2]] > 0)
      BY <3>1 DEF Referenced, Hooked
    <3>5. cmd[2] \in Hooked => hooks[F][cmd[2]] = 0
      BY <3>2, <3>4 DEF Sound
    <3> QED
      BY <3>1, <3>2, <3>3, <3>5, <1>3 DEF Sound
  <2> QED
    BY <1>1, <2>1, <2>2, <2>3
<1> QED
  BY <1>4, <1>5

LEMMA SoundStep ==
  ASSUME Base, Building, [Next]_vars
  PROVE  \A f \in Families : Sound(f)'
<1>0. TypeOK /\ \A f \in Families : Sound(f)
  BY DEF Base
<1>1. CASE UNCHANGED table
  BY <1>0, <1>1, SoundIfSame DEF table
<1>2. CASE CleanCommand
  BY <1>2, SoundAfterClean
<1>3. CASE Build
  <2>0. Family \in Families /\ phase = "build" /\ Partial(Family)
    BY <1>0, <1>3, FamilyIsLeft
    DEF TypeOK, Build, NewChain, HookChain, LeaveLocal, AddMark, AddQueue,
        AddDrop, AddGoS, AddGoD, At, Building
  <2>2. CASE \/ NewChain("newS", "S", "newD")
             \/ NewChain("newD", "D", "hookS")
             \/ NewChain("newR", "R", "leaveS")
    <3>1. PICK s \in Stages, c \in Chains, n \in Stages : NewChain(s, c, n)
      BY <2>2 DEF Chains, Stages
    <3>2. /\ exists'[Family] = exists[Family] \union {c}
          /\ \A g \in Families \ {Family} : exists'[g] = exists[g]
          /\ rules' = rules /\ hooks' = hooks
      BY <3>1, <2>0, <1>0, NewChainEffect
    <3>3. TAKE f \in Families
    <3>4. exists[f] \subseteq exists'[f]
      BY <3>2
    <3> QED
      BY <3>2, <3>4, <1>0 DEF Sound, AllLeave
  <2>3. CASE \/ HookChain("hookS", "S", "hookD")
             \/ HookChain("hookD", "D", "newR")
    <3>1. PICK s \in Stages, c \in Hooked, n \in Stages :
            HookChain(s, c, n) /\ hooks[Family][c] = 0
      BY <2>3, <2>0 DEF Hooked, Stages, HookChain, At, Partial, Linked
    <3>2. /\ hooks'[Family][c] = hooks[Family][c] + 1
          /\ \A x \in Hooked \ {c} : hooks'[Family][x] = hooks[Family][x]
          /\ \A g \in Families \ {Family} : hooks'[g] = hooks[g]
          /\ rules' = rules /\ exists' = exists /\ c \in exists[Family]
      BY <3>1, <2>0, <1>0, HookChainEffect
    <3>3. hooks'[Family][c] = 1
      BY <3>1, <3>2
    <3>4. TAKE f \in Families
    <3>5. CASE f = Family
      <4>1. \A x \in Hooked : hooks'[f][x] \in {0, 1} /\ (hooks'[f][x] = 1 => x \in exists'[f])
        BY <3>2, <3>3, <3>5, <1>0 DEF Sound
      <4> QED
        BY <4>1, <3>2, <1>0 DEF Sound, AllLeave
    <3>6. CASE f # Family
      BY <3>2, <3>6, <1>0, SoundIfSame
    <3> QED
      BY <3>5, <3>6
  <2>4. CASE \/ LeaveLocal("leaveS", "S", "leaveD", Local[Family])
             \/ LeaveLocal("leaveD", "D", "mark", {})
    <3>1. PICK c \in Chains, n \in todo : Add(c, Leave(n))
      BY <2>4 DEF LeaveLocal, Chains
    <3> QED
      BY <3>1, <2>0, SoundAfterAdd, RulesDiffer
  <2>5. CASE AddMark
    BY <2>5, <2>0, SoundAfterAdd, RulesDiffer DEF AddMark, Chains
  <2>6. CASE AddQueue
    <3>1. Add("R", Queue) /\ Mark \in rules[Family]["R"]
      BY <2>6, <2>0 DEF AddQueue, At, Partial, ChainR
    <3> QED
      BY <3>1, <2>0, SoundAfterAdd, RulesDiffer DEF Chains
  <2>7. CASE AddDrop
    <3>1. PICK d \in todo : Add("S", Drop(d))
      BY <2>7 DEF AddDrop
    <3> QED
      BY <3>1, <2>0, SoundAfterAdd, RulesDiffer DEF Chains
  <2>8. CASE AddGoS
    <3>1. Add("S", Go(dev)) /\ "R" \in exists[Family] /\ stage = "goS"
      BY <2>8 DEF AddGoS, At
    <3>2. AllLeave(Family) \subseteq rules[Family]["S"]
      BY <3>1, <2>0 DEF Partial, ChainS
    <3> QED
      BY <3>1, <3>2, <2>0, SoundAfterAdd, RulesDiffer DEF Chains
  <2>9. CASE AddGoD
    <3>1. Add("D", Go(dev)) /\ "R" \in exists[Family] /\ stage = "goD"
      BY <2>9 DEF AddGoD, At
    <3>2. AllLeave(Family) \subseteq rules[Family]["D"]
      BY <3>1, <2>0 DEF Partial, ChainD
    <3> QED
      BY <3>1, <3>2, <2>0, SoundAfterAdd, RulesDiffer DEF Chains
  <2> QED
    BY <1>3, <2>2, <2>3, <2>4, <2>5, <2>6, <2>7, <2>8, <2>9 DEF Build
<1> QED
  BY <1>1, <1>2, <1>3
  DEF Next, vars, Start, CleanCommandFails, BuildFails, Stop, Undo, Killed, table

---------------------------------------------------------------------------
(* Each command of a set-up brings the family from stage to stage.         *)

LEMMA FirstStages ==
  ASSUME Frame, Building, Family \in Families,
         \/ NewChain("newS", "S", "newD") \/ NewChain("newD", "D", "hookS")
         \/ HookChain("hookS", "S", "hookD") \/ HookChain("hookD", "D", "newR")
         \/ NewChain("newR", "R", "leaveS")
  PROVE  /\ phase' = "build" /\ left' = left /\ conf' = conf
         /\ Building'
         /\ \A g \in Families \ {Family} :
              /\ rules'[g] = rules[g] /\ hooks'[g] = hooks[g]
              /\ exists'[g] = exists[g]
<1>0. PICK F \in Families : F = Family
  OBVIOUS
<1>1. /\ phase = "build" /\ phase' = "build"
      /\ left' = left /\ conf' = conf /\ dev' = dev
  BY DEF NewChain, HookChain, At, Reach
<1>2. F = Family' /\ Partial(F) /\ Consistent(F) /\ TypeOK
  BY <1>0, <1>1 DEF Family, Building, Frame
<1>3. CASE NewChain("newS", "S", "newD")
  <2>1. /\ exists'[F] = exists[F] \union {"S"} /\ "S" \notin exists[F]
        /\ \A g \in Families \ {F} : exists'[g] = exists[g]
        /\ rules' = rules /\ hooks' = hooks
    BY <1>0, <1>2, <1>3, NewChainEffect DEF Chains
  <2>2. stage' = "newD"
    BY <1>3 DEF NewChain, Reach
  <2>3. rules[F]["S"] = {} /\ hooks[F]["S"] = 0
    BY <1>2, <2>1 DEF Consistent, TypeOK, Chains, Hooked
  <2>4. Partial(F)'
    BY <2>1, <2>2, <2>3 DEF Partial, ChainS, ChainD, ChainR, Linked, Loop
  <2> QED
    BY <1>0, <1>1, <1>2, <2>1, <2>4 DEF Building
<1>4. CASE NewChain("newD", "D", "hookS")
  <2>1. /\ exists'[F] = exists[F] \union {"D"} /\ "D" \notin exists[F]
        /\ \A g \in Families \ {F} : exists'[g] = exists[g]
        /\ rules' = rules /\ hooks' = hooks
    BY <1>0, <1>2, <1>4, NewChainEffect DEF Chains
  <2>2. stage = "newD" /\ stage' = "hookS"
    BY <1>4 DEF NewChain, Reach, At
  <2>3. rules[F]["D"] = {} /\ hooks[F]["D"] = 0
    BY <1>2, <2>1 DEF Consistent, TypeOK, Chains, Hooked
  <2>4. Partial(F)'
    BY <1>2, <2>1, <2>2, <2>3 DEF Partial, ChainS, ChainD, ChainR, Linked, Loop
  <2> QED
    BY <1>0, <1>1, <1>2, <2>1, <2>4 DEF Building
<1>5. CASE HookChain("hookS", "S", "hookD")
  <2>1. /\ hooks'[F]["S"] = hooks[F]["S"] + 1 /\ hooks'[F]["D"] = hooks[F]["D"]
        /\ \A g \in Families \ {F} : hooks'[g] = hooks[g]
        /\ rules' = rules /\ exists' = exists
    BY <1>0, <1>2, <1>5, HookChainEffect DEF Hooked
  <2>2. stage = "hookS" /\ stage' = "hookD"
    BY <1>5 DEF HookChain, Reach, At
  <2>4. Partial(F)'
    BY <1>2, <2>1, <2>2 DEF Partial, ChainS, ChainD, ChainR, Linked, Loop
  <2> QED
    BY <1>0, <1>1, <1>2, <2>1, <2>4 DEF Building
<1>6. CASE HookChain("hookD", "D", "newR")
  <2>1. /\ hooks'[F]["D"] = hooks[F]["D"] + 1 /\ hooks'[F]["S"] = hooks[F]["S"]
        /\ \A g \in Families \ {F} : hooks'[g] = hooks[g]
        /\ rules' = rules /\ exists' = exists
    BY <1>0, <1>2, <1>6, HookChainEffect DEF Hooked
  <2>2. stage = "hookD" /\ stage' = "newR"
    BY <1>6 DEF HookChain, Reach, At
  <2>4. Partial(F)'
    BY <1>2, <2>1, <2>2 DEF Partial, ChainS, ChainD, ChainR, Linked, Loop
  <2> QED
    BY <1>0, <1>1, <1>2, <2>1, <2>4 DEF Building
<1>7. CASE NewChain("newR", "R", "leaveS")
  <2>1. /\ exists'[F] = exists[F] \union {"R"} /\ "R" \notin exists[F]
        /\ \A g \in Families \ {F} : exists'[g] = exists[g]
        /\ rules' = rules /\ hooks' = hooks
    BY <1>0, <1>2, <1>7, NewChainEffect DEF Chains
  <2>2. stage = "newR" /\ stage' = "leaveS" /\ todo' = Local[F] /\ todo' # {}
    BY <1>0, <1>7, RulesAssumption DEF NewChain, Reach, At
  <2>3. rules[F]["R"] = {}
    BY <1>2, <2>1 DEF Consistent, Chains
  <2>4. {Leave(n) : n \in Local[F] \ todo'} = {}
    BY <2>2
  <2>5. Partial(F)'
    BY <1>2, <2>1, <2>2, <2>3, <2>4
    DEF Partial, ChainS, ChainD, ChainR, Linked, Loop
  <2> QED
    BY <1>0, <1>1, <1>2, <2>1, <2>5 DEF Building
<1> QED
  BY <1>3, <1>4, <1>5, <1>6, <1>7

LEMMA LeaveStages ==
  ASSUME Frame, Building, Family \in Families,
         \/ LeaveLocal("leaveS", "S", "leaveD", Local[Family])
         \/ LeaveLocal("leaveD", "D", "mark", {})
  PROVE  /\ phase' = "build" /\ left' = left /\ conf' = conf
         /\ Building'
         /\ \A g \in Families \ {Family} :
              /\ rules'[g] = rules[g] /\ hooks'[g] = hooks[g]
              /\ exists'[g] = exists[g]
<1>0. PICK F \in Families : F = Family
  OBVIOUS
<1>1. /\ phase = "build" /\ phase' = "build"
      /\ left' = left /\ conf' = conf /\ dev' = dev
  BY DEF LeaveLocal, At, Reach
<1>2. F = Family' /\ Partial(F) /\ Consistent(F) /\ TypeOK
  BY <1>0, <1>1 DEF Family, Building, Frame
<1>3. CASE LeaveLocal("leaveS", "S", "leaveD", Local[Family])
  <2>1. stage = "leaveS" /\ todo \subseteq Local[F]
    BY <1>2, <1>3 DEF LeaveLocal, At, Partial, Loop
  <2>2. PICK n \in todo :
          /\ Add("S", Leave(n))
          /\ IF todo = {n} THEN todo' = Local[F] /\ stage' = "leaveD"
                           ELSE todo' = todo \ {n} /\ stage' = "leaveS"
    BY <1>0, <1>3 DEF LeaveLocal, Reach
  <2>3. /\ rules'[F]["S"] = rules[F]["S"] \union {Leave(n)}
        /\ rules'[F]["D"] = rules[F]["D"] /\ rules'[F]["R"] = rules[F]["R"]
        /\ \A g \in Families \ {F} : rules'[g] = rules[g]
        /\ exists' = exists /\ hooks' = hooks
    BY <1>0, <1>2, <2>2, AddEffect DEF Chains
  <2>4. rules'[F]["S"] = {Leave(m) : m \in Local[F] \ (todo \ {n})}
    BY <1>2, <2>1, <2>2, <2>3 DEF Partial, ChainS
  <2>5. rules[F]["D"] = {} /\ rules[F]["R"] = {}
    BY <1>2, <2>1 DEF Partial, ChainD, ChainR
  <2>6. CASE todo = {n}
    <3>1. rules'[F]["S"] = AllLeave(F)
      BY <2>4, <2>6 DEF AllLeave
    <3>2. {Leave(m) : m \in Local[F] \ todo'} = {} /\ Local[F] # {}
      BY <2>1, <2>2, <2>6
    <3>3. Partial(F)'
      BY <1>2, <2>1, <2>2, <2>3, <2>5, <2>6, <3>1, <3>2
      DEF Partial, ChainS, ChainD, ChainR, Linked, Loop, AllLeave
    <3> QED
      BY <1>0, <1>1, <1>2, <2>3, <3>3 DEF Building
  <2>7. CASE todo # {n}
    <3>1. Partial(F)'
      BY <1>2, <2>1, <2>2, <2>3, <2>4, <2>5, <2>7
      DEF Partial, ChainS, ChainD, ChainR, Linked, Loop
    <3> QED
      BY <1>0, <1>1, <1>2, <2>3, <3>1 DEF Building
  <2> QED
    BY <2>6, <2>7
<1>4. CASE LeaveLocal("leaveD", "D", "mark", {})
  <2>1. stage = "leaveD" /\ todo \subseteq Local[F]
    BY <1>2, <1>4 DEF LeaveLocal, At, Partial, Loop
  <2>2. PICK n \in todo :
          /\ Add("D", Leave(n))
          /\ IF todo = {n} THEN todo' = {} /\ stage' = "mark"
                           ELSE todo' = todo \ {n} /\ stage' = "leaveD"
    BY <1>0, <1>4 DEF LeaveLocal, Reach
  <2>3. /\ rules'[F]["D"] = rules[F]["D"] \union {Leave(n)}
        /\ rules'[F]["S"] = rules[F]["S"] /\ rules'[F]["R"] = rules[F]["R"]
        /\ \A g \in Families \ {F} : rules'[g] = rules[g]
        /\ exists' = exists /\ hooks' = hooks
    BY <1>0, <1>2, <2>2, AddEffect DEF Chains
  <2>4. rules'[F]["D"] = {Leave(m) : m \in Local[F] \ (todo \ {n})}
    BY <1>2, <2>1, <2>2, <2>3 DEF Partial, ChainD
  <2>5. rules[F]["S"] = AllLeave(F) /\ rules[F]["R"] = {}
    BY <1>2, <2>1 DEF Partial, ChainS, ChainR
  <2>6. CASE todo = {n}
    <3>1. rules'[F]["D"] = AllLeave(F)
      BY <2>4, <2>6 DEF AllLeave
    <3>3. Partial(F)'
      BY <1>2, <2>1, <2>2, <2>3, <2>5, <2>6, <3>1
      DEF Partial, ChainS, ChainD, ChainR, Linked, Loop, AllLeave
    <3> QED
      BY <1>0, <1>1, <1>2, <2>3, <3>3 DEF Building
  <2>7. CASE todo # {n}
    <3>1. Partial(F)'
      BY <1>2, <2>1, <2>2, <2>3, <2>4, <2>5, <2>7
      DEF Partial, ChainS, ChainD, ChainR, Linked, Loop, AllLeave
    <3> QED
      BY <1>0, <1>1, <1>2, <2>3, <3>1 DEF Building
  <2> QED
    BY <2>6, <2>7
<1> QED
  BY <1>3, <1>4

LEMMA RuleStages ==
  ASSUME Frame, Building, Family \in Families,
         AddMark \/ AddQueue \/ AddDrop \/ AddGoS \/ (AddGoD /\ todo # {})
  PROVE  /\ phase' = "build" /\ left' = left /\ conf' = conf
         /\ Building'
         /\ \A g \in Families \ {Family} :
              /\ rules'[g] = rules[g] /\ hooks'[g] = hooks[g]
              /\ exists'[g] = exists[g]
<1>0. PICK F \in Families : F = Family
  OBVIOUS
<1>1. /\ phase = "build" /\ phase' = "build"
      /\ left' = left /\ conf' = conf
  BY DEF AddMark, AddQueue, AddDrop, AddGoS, AddGoD, At, Reach
<1>2. F = Family' /\ Partial(F) /\ Consistent(F) /\ TypeOK
  BY <1>0, <1>1 DEF Family, Building, Frame
<1>3. CASE AddMark
  <2>1. stage = "mark" /\ stage' = "queue" /\ Add("R", Mark)
    BY <1>3 DEF AddMark, At, Reach
  <2>2. /\ rules'[F]["R"] = rules[F]["R"] \union {Mark}
        /\ rules'[F]["S"] = rules[F]["S"] /\ rules'[F]["D"] = rules[F]["D"]
        /\ \A g \in Families \ {F} : rules'[g] = rules[g]
        /\ exists' = exists /\ hooks' = hooks
    BY <1>0, <1>2, <2>1, AddEffect DEF Chains
  <2>3. Partial(F)'
    BY <1>2, <2>1, <2>2
    DEF Partial, ChainS, ChainD, ChainR, Linked, Loop, AllLeave
  <2> QED
    BY <1>0, <1>1, <1>2, <2>2, <2>3 DEF Building
<1>4. CASE AddQueue
  <2>1. /\ stage = "queue" /\ stage' = "drop" /\ Add("R", Queue)
        /\ todo' = conf'.devs
    BY <1>1, <1>4 DEF AddQueue, At, Reach
  <2>2. /\ rules'[F]["R"] = rules[F]["R"] \union {Queue}
        /\ rules'[F]["S"] = rules[F]["S"] /\ rules'[F]["D"] = rules[F]["D"]
        /\ \A g \in Families \ {F} : rules'[g] = rules[g]
        /\ exists' = exists /\ hooks' = hooks
    BY <1>0, <1>2, <2>1, AddEffect DEF Chains
  <2>3. /\ {Drop(d) : d \in conf'.devs \ todo'} = {}
        /\ {Go(d) : d \in conf'.devs \ todo'} = {}
    BY <2>1
  <2>4. Partial(F)'
    BY <1>2, <2>1, <2>2, <2>3
    DEF Partial, ChainS, ChainD, ChainR, Linked, Loop, AllLeave
  <2> QED
    BY <1>0, <1>1, <1>2, <2>2, <2>4 DEF Building
<1>5. CASE AddDrop
  <2>1. /\ stage = "drop" /\ stage' = "goS" /\ todo \subseteq conf.devs
    BY <1>2, <1>5 DEF AddDrop, At, Reach, Partial, Loop
  <2>2. PICK d \in todo : Add("S", Drop(d)) /\ dev' = d /\ todo' = todo \ {d}
    BY <1>5 DEF AddDrop
  <2>3. /\ rules'[F]["S"] = rules[F]["S"] \union {Drop(d)}
        /\ rules'[F]["R"] = rules[F]["R"] /\ rules'[F]["D"] = rules[F]["D"]
        /\ \A g \in Families \ {F} : rules'[g] = rules[g]
        /\ exists' = exists /\ hooks' = hooks
    BY <1>0, <1>2, <2>2, AddEffect DEF Chains
  <2>4. conf.devs \ (todo' \union {dev'}) = conf.devs \ todo
    BY <2>2
  <2>5. {Drop(x) : x \in conf.devs \ todo'} =
          {Drop(x) : x \in conf.devs \ todo} \union {Drop(d)}
    BY <2>1, <2>2
  <2>6. ChainS(F)'
    BY <1>1, <1>2, <2>1, <2>3, <2>4, <2>5 DEF Partial, ChainS, AllLeave
  <2>7. ChainD(F)' /\ ChainR(F)'
    BY <1>1, <1>2, <2>1, <2>3, <2>4 DEF Partial, ChainD, ChainR, AllLeave
  <2>8. Linked(F)' /\ Loop(F)'
    BY <1>1, <1>2, <2>1, <2>2, <2>3 DEF Partial, Linked, Loop
  <2> QED
    BY <1>0, <1>1, <1>2, <2>3, <2>6, <2>7, <2>8 DEF Building, Partial
<1>6. CASE AddGoS
  <2>1. /\ stage = "goS" /\ stage' = "goD" /\ todo \subseteq conf.devs
        /\ dev \in conf.devs \ todo /\ todo' = todo /\ dev' = dev
        /\ Add("S", Go(dev))
    BY <1>2, <1>6 DEF AddGoS, At, Reach, Partial, Loop
  <2>2. /\ rules'[F]["S"] = rules[F]["S"] \union {Go(dev)}
        /\ rules'[F]["R"] = rules[F]["R"] /\ rules'[F]["D"] = rules[F]["D"]
        /\ \A g \in Families \ {F} : rules'[g] = rules[g]
        /\ exists' = exists /\ hooks' = hooks
    BY <1>0, <1>2, <2>1, AddEffect DEF Chains
  <2>3. {Go(x) : x \in conf.devs \ todo} =
          {Go(x) : x \in conf.devs \ (todo \union {dev})} \union {Go(dev)}
    BY <2>1
  <2>4. ChainS(F)'
    BY <1>1, <1>2, <2>1, <2>2, <2>3 DEF Partial, ChainS, AllLeave
  <2>5. ChainD(F)' /\ ChainR(F)'
    BY <1>1, <1>2, <2>1, <2>2 DEF Partial, ChainD, ChainR, AllLeave
  <2>6. Linked(F)' /\ Loop(F)'
    BY <1>1, <1>2, <2>1, <2>2 DEF Partial, Linked, Loop
  <2> QED
    BY <1>0, <1>1, <1>2, <2>2, <2>4, <2>5, <2>6 DEF Building, Partial
<1>7. CASE AddGoD /\ todo # {}
  <2>1. /\ stage = "goD" /\ stage' = "drop" /\ todo \subseteq conf.devs
        /\ dev \in conf.devs \ todo /\ todo' = todo
        /\ Add("D", Go(dev))
    BY <1>2, <1>7 DEF AddGoD, At, Reach, Partial, Loop
  <2>2. /\ rules'[F]["D"] = rules[F]["D"] \union {Go(dev)}
        /\ rules'[F]["R"] = rules[F]["R"] /\ rules'[F]["S"] = rules[F]["S"]
        /\ \A g \in Families \ {F} : rules'[g] = rules[g]
        /\ exists' = exists /\ hooks' = hooks
    BY <1>0, <1>2, <2>1, AddEffect DEF Chains
  <2>3. {Go(x) : x \in conf.devs \ todo} =
          {Go(x) : x \in conf.devs \ (todo \union {dev})} \union {Go(dev)}
    BY <2>1
  <2>4. ChainD(F)'
    BY <1>1, <1>2, <2>1, <2>2, <2>3 DEF Partial, ChainD, AllLeave
  <2>5. ChainS(F)' /\ ChainR(F)'
    BY <1>1, <1>2, <2>1, <2>2 DEF Partial, ChainS, ChainR, AllLeave
  <2>6. Linked(F)' /\ Loop(F)'
    BY <1>1, <1>2, <2>1, <2>2 DEF Partial, Linked, Loop
  <2> QED
    BY <1>0, <1>1, <1>2, <2>2, <2>4, <2>5, <2>6 DEF Building, Partial
<1> QED
  BY <1>3, <1>4, <1>5, <1>6, <1>7

LEMMA LastStage ==
  ASSUME Frame, Building, Family \in Families, AddGoD, todo = {}
  PROVE  /\ Finish /\ phase' # "build"
         /\ \A f \in Families : f = Family => Exact(f)'
         /\ \A g \in Families \ {Family} :
              /\ rules'[g] = rules[g] /\ hooks'[g] = hooks[g]
              /\ exists'[g] = exists[g]
<1>0. PICK F \in Families : F = Family
  OBVIOUS
<1>1. phase = "build" /\ Finish /\ conf' = conf
  BY DEF AddGoD, At, Finish
<1>2. Partial(F) /\ TypeOK
  BY <1>0, <1>1 DEF Building, Frame
<1>3. /\ stage = "goD" /\ dev \in conf.devs /\ todo = {} /\ Add("D", Go(dev))
  BY <1>2 DEF AddGoD, At, Partial, Loop
<1>4. /\ rules'[F]["D"] = rules[F]["D"] \union {Go(dev)}
      /\ rules'[F]["R"] = rules[F]["R"] /\ rules'[F]["S"] = rules[F]["S"]
      /\ \A g \in Families \ {F} : rules'[g] = rules[g]
      /\ exists' = exists /\ hooks' = hooks
  BY <1>0, <1>2, <1>3, AddEffect DEF Chains
<1>5. {Go(x) : x \in conf.devs} =
        {Go(x) : x \in conf.devs \ (todo \union {dev})} \union {Go(dev)}
  BY <1>3
<1>6. rules'[F]["D"] = AllLeave(F) \union {Go(d) : d \in conf.devs}
  BY <1>2, <1>3, <1>4, <1>5 DEF Partial, ChainD
<1>7. conf.devs \ todo = conf.devs
  BY <1>3
<1>8. rules'[F]["S"] = AllLeave(F) \union {Drop(d) : d \in conf.devs}
        \union {Go(d) : d \in conf.devs}
  BY <1>2, <1>3, <1>4, <1>7 DEF Partial, ChainS
<1>9. /\ rules'[F]["R"] = {Mark, Queue} /\ exists'[F] = Chains
      /\ hooks'[F]["S"] = 1 /\ hooks'[F]["D"] = 1
  <2>1. exists[F] \subseteq Chains
    BY <1>2 DEF TypeOK
  <2> QED
    BY <1>2, <1>3, <1>4, <2>1 DEF Partial, ChainR, Linked, Chains
<1>10. Exact(F)'
  BY <1>1, <1>6, <1>8, <1>9 DEF Exact, AllLeave, Hooked
<1> QED
  BY <1>0, <1>1, <1>4, <1>10 DEF Finish

LEMMA BuildingStep ==
  ASSUME Frame, Building, [Next]_vars
  PROVE  Building'
<1>1. CASE Build
  <2>1. Family \in Families
    BY <1>1, FamilyIsLeft
    DEF Frame, TypeOK, Build, NewChain, HookChain, LeaveLocal, AddMark,
        AddQueue, AddDrop, AddGoS, AddGoD, At
  <2>2. CASE AddGoD /\ todo = {}
    BY <2>1, <2>2, LastStage DEF Building
  <2> QED
    BY <1>1, <2>1, <2>2, FirstStages, LeaveStages, RuleStages DEF Build
<1>2. CASE CleanCommand \/ CleanCommandFails
  <2>1. phase' = "build" => stage' = "newS"
    BY <1>2 DEF CleanCommand, CleanCommandFails, Proceed, Cleaning
  <2>2. stage' = "newS" => \A f \in Families : Partial(f)'
    BY DEF Partial, ChainS, ChainD, ChainR, Linked, Loop
  <2>3. phase' = "build" => Family' \in Families
    BY DEF Family, Families
  <2> QED
    BY <2>1, <2>2, <2>3 DEF Building
<1>3. CASE Start \/ BuildFails \/ Stop \/ Killed
  BY <1>3 DEF Start, BuildFails, Stop, Undo, Killed, Building
<1>4. CASE UNCHANGED vars
  BY <1>4 DEF Building, vars, control, table, Partial, ChainS, ChainD,
              ChainR, Linked, Loop, Family, AllLeave
<1> QED
  BY <1>1, <1>2, <1>3, <1>4 DEF Next

---------------------------------------------------------------------------
(* A family once built stays built until the process ends.                 *)

LEMMA CleanKeepsOthers ==
  ASSUME TypeOK, CleanCommand
  PROVE  \A g \in Families \ {Family} :
           /\ rules'[g] = rules[g] /\ hooks'[g] = hooks[g]
           /\ exists'[g] = exists[g]
<1>0. PICK cmd : cmd = CleanUp[step]
  OBVIOUS
<1>1. /\ Family \in Families /\ CanClean(Family, cmd) /\ Clean(Family, cmd)
      /\ \/ cmd[1] = "flush" /\ cmd[2] \in Chains
         \/ cmd[1] = "unhook" /\ cmd[2] \in Hooked
         \/ cmd[1] = "delete" /\ cmd[2] \in Chains
  BY <1>0, FamilyIsLeft, CleanUpIsCommand DEF CleanCommand, Cleaning, TypeOK
<1> QED
  BY <1>1, FlushEffect, UnhookEffect, DeleteEffect

LEMMA ExactIfSame ==
  ASSUME NEW f \in Families, Exact(f), conf' = conf,
         rules'[f] = rules[f], hooks'[f] = hooks[f], exists'[f] = exists[f]
  PROVE  Exact(f)'
BY DEF Exact

LEMMA BuiltStep ==
  ASSUME Frame, Building, Built, [Next]_vars
  PROVE  Built'
<1>0. TypeOK /\ Building /\ Built /\ Frame
  BY DEF Frame
<1>0a. \A f : f \in conf.fams => f \in Families
  BY <1>0, ConfDevices DEF TypeOK, NoConf
<1>1. CASE Build
  <2>1. /\ phase = "build" /\ Family \in Families /\ Family \in left
        /\ Family \in conf.fams
    BY <1>0, <1>1, FamilyIsLeft
    DEF TypeOK, Build, NewChain, HookChain, LeaveLocal, AddMark,
        AddQueue, AddDrop, AddGoS, AddGoD, At
  <2>2. CASE AddGoD /\ todo = {}
    <3>1. conf' = conf /\ left' = left \ {Family}
      BY <1>0, <2>1, <2>2, LastStage DEF Finish
    <3>2. ASSUME NEW f \in conf.fams \ left', f # Family
          PROVE  Exact(f)'
      <4>1. f \in Families /\ Exact(f)
        BY <1>0, <1>0a, <2>1, <3>1, <3>2 DEF Built
      <4> QED
        BY <4>1, <1>0, <2>1, <2>2, <3>1, <3>2, LastStage, ExactIfSame
    <3>3. \A f \in Families : f = Family => Exact(f)'
      BY <1>0, <2>1, <2>2, LastStage
    <3> QED
      BY <3>1, <3>2, <3>3, <1>0a DEF Built
  <2>3. CASE ~(AddGoD /\ todo = {})
    <3>1. /\ left' = left /\ conf' = conf
          /\ \A g \in Families \ {Family} :
               /\ rules'[g] = rules[g] /\ hooks'[g] = hooks[g]
               /\ exists'[g] = exists[g]
      BY <1>0, <1>1, <2>1, <2>3, FirstStages, LeaveStages, RuleStages DEF Build
    <3>2. ASSUME NEW f \in conf.fams \ left
          PROVE  Exact(f)'
      BY <1>0, <1>0a, <2>1, <3>1, ExactIfSame DEF Built
    <3> QED
      BY <3>1, <3>2 DEF Built
  <2> QED
    BY <2>2, <2>3
<1>2. CASE CleanCommand \/ CleanCommandFails
  <2>1. Family \in left /\ Cleaning
    BY <1>0, <1>2, FamilyIsLeft
    DEF CleanCommand, CleanCommandFails, Cleaning, TypeOK
  <2>2. \A g \in Families \ {Family} :
           /\ rules'[g] = rules[g] /\ hooks'[g] = hooks[g]
           /\ exists'[g] = exists[g]
    BY <1>0, <1>2, CleanKeepsOthers DEF CleanCommandFails, table
  <2>3. /\ conf' = conf
        /\ phase' \in {"clean", "build", "run"} => phase = "clean" /\ left' = left
    BY <1>2, <2>1 DEF CleanCommand, CleanCommandFails, Proceed, Cleaning
  <2>4. ASSUME NEW f \in conf.fams \ left, phase = "clean"
        PROVE  Exact(f)'
    BY <1>0, <1>0a, <2>1, <2>2, <2>3, <2>4, ExactIfSame DEF Built
  <2> QED
    BY <2>3, <2>4 DEF Built
<1>3. CASE Start \/ BuildFails \/ Stop \/ Killed
  BY <1>3 DEF Start, BuildFails, Stop, Undo, Killed, Built
<1>4. CASE UNCHANGED vars
  BY <1>4, <1>0 DEF Built, vars, control, table, Exact
<1> QED
  BY <1>1, <1>2, <1>3, <1>4 DEF Next

---------------------------------------------------------------------------
(* A clean-up whose commands do not fail without cause leaves nothing.     *)

(* A command of the clean-up, done or refused for cause, achieves what it  *)
(* is there for.                                                           *)
LEMMA CleanAchieves ==
  ASSUME Base, NEW f \in Families, NEW i \in 1 .. 8, step = i, Gone(f),
         \/ CanClean(f, CleanUp[i]) /\ Clean(f, CleanUp[i])
         \/ ~CanClean(f, CleanUp[i]) /\ UNCHANGED table
  PROVE  /\ rules'[f]["R"] = {}
         /\ i > 1 => rules'[f]["S"] = {}
         /\ i > 2 => rules'[f]["D"] = {}
         /\ i > 3 => hooks'[f]["S"] = 0
         /\ i > 4 => hooks'[f]["D"] = 0
         /\ i > 5 => "R" \notin exists'[f]
         /\ i > 6 => "S" \notin exists'[f]
         /\ i > 7 => "D" \notin exists'[f]
<1>0. PICK cmd : cmd = CleanUp[i]
  OBVIOUS
<1>1. TypeOK /\ Sound(f)
  BY DEF Base
<1>2. CASE i \in {1, 2, 3}
  <2>1. cmd[1] = "flush" /\ cmd[2] \in Chains
        /\ cmd = <<"flush", IF i = 1 THEN "R" ELSE IF i = 2 THEN "S" ELSE "D">>
    BY <1>0, <1>2, CleanUpSteps DEF Chains
  <2>2. rules'[f][cmd[2]] = {}
    <3>1. CASE CanClean(f, cmd) /\ Clean(f, cmd)
      BY <3>1, <2>1, <1>1, FlushEffect
    <3>2. CASE ~CanClean(f, cmd) /\ UNCHANGED table
      BY <3>2, <2>1, <1>1 DEF CanClean, table, Sound
    <3> QED
      BY <1>0, <3>1, <3>2
  <2>3. \A x \in Chains \ {cmd[2]} : rules'[f][x] = rules[f][x]
    <3>1. CASE CanClean(f, cmd) /\ Clean(f, cmd)
      BY <3>1, <2>1, <1>1, FlushEffect
    <3>2. CASE UNCHANGED table
      BY <3>2 DEF table
    <3> QED
      BY <1>0, <3>1, <3>2
  <2> QED
    BY <1>2, <2>1, <2>2, <2>3 DEF Gone, Chains
<1>3. CASE i \in {4, 5}
  <2>1. cmd[1] = "unhook" /\ cmd[2] \in Hooked
        /\ cmd = <<"unhook", IF i = 4 THEN "S" ELSE "D">>
    BY <1>0, <1>3, CleanUpSteps DEF Hooked
  <2>2. hooks'[f][cmd[2]] = 0 /\ rules' = rules
    <3>1. CASE CanClean(f, cmd) /\ Clean(f, cmd)
      <4>1. /\ hooks'[f][cmd[2]] = hooks[f][cmd[2]] - 1 /\ hooks[f][cmd[2]] > 0
            /\ rules' = rules
        BY <3>1, <2>1, <1>1, UnhookEffect
      <4> QED
        BY <4>1, <2>1, <1>1 DEF Sound
    <3>2. CASE ~CanClean(f, cmd) /\ UNCHANGED table
      <4>1. ~(hooks[f][cmd[2]] > 0) /\ hooks' = hooks /\ rules' = rules
        BY <3>2, <2>1 DEF CanClean, table
      <4> QED
        BY <4>1, <2>1, <1>1 DEF Sound
    <3> QED
      BY <1>0, <3>1, <3>2
  <2>3. \A x \in Hooked \ {cmd[2]} : hooks'[f][x] = hooks[f][x]
    <3>1. CASE CanClean(f, cmd) /\ Clean(f, cmd)
      BY <3>1, <2>1, <1>1, UnhookEffect
    <3>2. CASE UNCHANGED table
      BY <3>2 DEF table
    <3> QED
      BY <1>0, <3>1, <3>2
  <2> QED
    BY <1>3, <2>1, <2>2, <2>3 DEF Gone, Hooked
<1>4. CASE i \in {6, 7, 8}
  <2>1. cmd[1] = "delete" /\ cmd[2] \in Chains
        /\ cmd = <<"delete", IF i = 6 THEN "R" ELSE IF i = 7 THEN "S" ELSE "D">>
    BY <1>0, <1>4, CleanUpSteps DEF Chains
  <2>2. /\ rules[f]["R"] = {} /\ rules[f]["S"] = {} /\ rules[f]["D"] = {}
        /\ hooks[f]["S"] = 0 /\ hooks[f]["D"] = 0
    BY <1>4 DEF Gone
  <2>3. ~Referenced(f, cmd[2]) /\ rules[f][cmd[2]] = {}
    BY <2>1, <2>2 DEF Referenced, Hooked
  <2>4. /\ cmd[2] \notin exists'[f] /\ rules' = rules /\ hooks' = hooks
        /\ \A x : x \notin exists[f] => x \notin exists'[f]
    <3>1. CASE CanClean(f, cmd) /\ Clean(f, cmd)
      BY <3>1, <2>1, <1>1, DeleteEffect
    <3>2. CASE ~CanClean(f, cmd) /\ UNCHANGED table
      BY <3>2, <2>1, <2>3 DEF CanClean, table
    <3> QED
      BY <1>0, <3>1, <3>2
  <2> QED
    BY <1>4, <2>1, <2>2, <2>4 DEF Gone
<1> QED
  BY <1>2, <1>3, <1>4

LEMMA CleanedStep ==
  ASSUME Inv, [Next]_vars
  PROVE  Cleaned'
<1>0. TypeOK /\ Base /\ Cleaned /\ Rested
  BY DEF Inv, Base
<1>0a. \A f : f \in conf.fams => f \in Families
  BY <1>0, ConfDevices DEF TypeOK, NoConf
<1>1. CASE CleanCommand \/ CleanCommandFails
  <2> SUFFICES ASSUME missed' = 0
               PROVE  /\ Cleaning' => Gone(Family)'
                      /\ At("newS")' => Empty(Family)'
                      /\ phase' \in {"undo", "ended"} =>
                           \A f \in conf'.fams \ left' : Empty(f)'
    BY DEF Cleaned, At
  <2>1. /\ Cleaning /\ Proceed /\ missed = 0
        /\ \/ CanClean(Family, CleanUp[step]) /\ Clean(Family, CleanUp[step])
           \/ ~CanClean(Family, CleanUp[step]) /\ UNCHANGED table
    <3>1. missed + 1 # 0
      BY <1>0 DEF TypeOK
    <3> QED
      BY <1>1, <3>1 DEF CleanCommand, CleanCommandFails
  <2>2. PICK F \in Families : F = Family /\ F \in left /\ F \in conf.fams
    BY <1>0, <2>1, FamilyIsLeft DEF Cleaning, TypeOK
  <2>3. PICK i \in 1 .. 8 : step = i
    BY <1>0, CleanUpSteps DEF TypeOK
  <2>4. Gone(F)
    BY <1>0, <2>1, <2>2 DEF Cleaned
  <2>5. /\ rules'[F]["R"] = {}
        /\ i > 1 => rules'[F]["S"] = {}
        /\ i > 2 => rules'[F]["D"] = {}
        /\ i > 3 => hooks'[F]["S"] = 0
        /\ i > 4 => hooks'[F]["D"] = 0
        /\ i > 5 => "R" \notin exists'[F]
        /\ i > 6 => "S" \notin exists'[F]
        /\ i > 7 => "D" \notin exists'[F]
    BY <1>0, <2>1, <2>2, <2>3, <2>4, CleanAchieves
  <2>6. \A g \in Families \ {F} :
           /\ rules'[g] = rules[g] /\ hooks'[g] = hooks[g]
           /\ exists'[g] = exists[g]
    BY <1>0, <1>1, <2>2, CleanKeepsOthers DEF CleanCommandFails, table
  <2>7. ASSUME NEW f \in conf.fams \ left, phase = "undo"
        PROVE  Empty(f)'
    <3>1. Empty(f) /\ f \in Families \ {F}
      BY <1>0, <1>0a, <2>1, <2>2, <2>7 DEF Cleaned
    <3> QED
      BY <3>1, <2>6 DEF Empty
  <2>8. CASE i < 8
    <3>1. /\ step' = i + 1 /\ phase' = phase /\ left' = left /\ conf' = conf
          /\ phase' \in {"clean", "undo"}
      BY <2>1, <2>3, <2>8, CleanUpSteps DEF Proceed, Cleaning
    <3>2. Gone(F)'
      BY <2>5, <2>8, <3>1 DEF Gone
    <3>3. F = Family'
      BY <2>2, <3>1 DEF Family
    <3> QED
      BY <2>7, <3>1, <3>2, <3>3 DEF At
  <2>9. CASE i = 8
    <3>1. /\ step' = 1 /\ conf' = conf
          /\ \/ phase = "clean" /\ phase' = "build" /\ left' = left
             \/ /\ phase = "undo" /\ phase' \in {"undo", "ended"}
                /\ left' = left \ {F}
      BY <2>1, <2>2, <2>3, <2>9, CleanUpSteps DEF Proceed, Cleaning
    <3>2. Empty(F)'
      <4>1. exists'[F] \subseteq Chains
        BY <1>0, <2>2, TypeStep DEF Inv, TypeOK
      <4> QED
        BY <2>5, <2>9, <4>1 DEF Empty, Chains, Hooked
    <3>3. phase' = "build" => F = Family'
      BY <2>2, <3>1 DEF Family
    <3>4. Gone(Family)'
      BY <3>1 DEF Gone
    <3>5. ASSUME phase = "undo", NEW f \in conf.fams \ left'
          PROVE  Empty(f)'
      BY <2>7, <3>1, <3>2, <3>5
    <3> QED
      BY <3>1, <3>2, <3>3, <3>4, <3>5 DEF At
  <2> QED
    BY <2>3, <2>8, <2>9
<1>2. CASE Build
  <2>1. phase = "build" /\ step' = step
    BY <1>2 DEF Build, NewChain, HookChain, LeaveLocal, AddMark, AddQueue,
                AddDrop, AddGoS, AddGoD, At, Reach, Finish
  <2>2. step' = 1
    BY <1>0, <2>1 DEF Rested, Cleaning
  <2>3. phase' = "build" => stage' # "newS"
    BY <1>2 DEF Build, NewChain, HookChain, LeaveLocal, AddMark, AddQueue,
                AddDrop, AddGoS, AddGoD, At, Reach, Finish
  <2>4. phase' \in {"build", "clean", "run"}
    BY <1>2 DEF Build, NewChain, HookChain, LeaveLocal, AddMark, AddQueue,
                AddDrop, AddGoS, AddGoD, At, Reach, Finish
  <2>5. Gone(Family)'
    BY <2>2 DEF Gone
  <2> QED
    BY <2>3, <2>4, <2>5 DEF Cleaned, At
<1>3. CASE Start \/ BuildFails \/ Stop \/ Killed
  <2>1. /\ step' = 1 /\ phase' # "build"
        /\ phase' \in {"undo", "ended"} => conf'.fams \ left' = {}
    BY <1>3 DEF Start, BuildFails, Stop, Undo, Killed
  <2>2. Gone(Family)'
    BY <2>1 DEF Gone
  <2> QED
    BY <2>1, <2>2 DEF Cleaned, At
<1>4. CASE UNCHANGED vars
  BY <1>4, <1>0 DEF Cleaned, vars, control, table, Gone, Empty, Cleaning, At,
                    Family
<1> QED
  BY <1>1, <1>2, <1>3, <1>4 DEF Next

LEMMA RestedStep ==
  ASSUME Inv, [Next]_vars
  PROVE  Rested'
<1>1. CASE CleanCommand \/ CleanCommandFails
  BY <1>1 DEF CleanCommand, CleanCommandFails, Proceed, Cleaning, Rested
<1>2. CASE Build
  BY <1>2 DEF Inv, Build, NewChain, HookChain, LeaveLocal, AddMark, AddQueue,
              AddDrop, AddGoS, AddGoD, At, Reach, Finish, Rested, Cleaning
<1>3. CASE Start \/ BuildFails \/ Stop \/ Killed \/ UNCHANGED vars
  BY <1>3 DEF Inv, Start, BuildFails, Stop, Undo, Killed, vars, control,
              Rested, Cleaning
<1> QED
  BY <1>1, <1>2, <1>3 DEF Next

---------------------------------------------------------------------------
(* The invariant, and what it gives.                                       *)

LEMMA InvInit ==
  ASSUME Init
  PROVE  Inv
<1>1. TypeOK
  BY CleanUpSteps, RulesAssumption
  DEF Init, TypeOK, NoConf, Stages, Selected, NoRules, NoHooks
<1>2. \A f \in Families : Sound(f)
  BY DEF Init, Sound, NoRules, NoHooks, Chains, Hooked
<1>3. Building /\ Built /\ Cleaned /\ Rested
  BY DEF Init, Building, Built, Cleaned, Rested, Cleaning, At
<1> QED
  BY <1>1, <1>2, <1>3 DEF Inv, Base

LEMMA InvStep ==
  ASSUME Inv, [Next]_vars
  PROVE  Inv'
<1>1. TypeOK' /\ \A f \in Families : Sound(f)'
  BY TypeStep, SoundStep DEF Inv, Base
<1>2. Frame
  BY SoundIsConsistent DEF Inv, Base, Frame
<1> QED
  BY <1>1, <1>2, BuildingStep, BuiltStep, CleanedStep, RestedStep
  DEF Inv, Base

LEMMA Invariance == Spec => []Inv
<1>1. Init => Inv
  BY InvInit
<1>2. Inv /\ [Next]_vars => Inv'
  BY InvStep
<1> QED
  BY <1>1, <1>2, PTL DEF Spec

(* Every variable keeps its type, whatever is killed or fails.             *)
THEOREM RulesTypeCorrect == Spec => []TypeOK
<1>1. Inv => TypeOK
  BY DEF Inv, Base
<1> QED
  BY <1>1, Invariance, PTL

(* A chain is never hooked twice, whatever a killed process has left.      *)
THEOREM HookedOnce == Spec => []OneHook
<1>1. Inv => OneHook
  BY DEF Inv, Base, Sound, OneHook
<1> QED
  BY <1>1, Invariance, PTL

(* A process that runs has exactly its own rules.                          *)
THEOREM SetupIsExact == Spec => []SetupExact
<1>1. Inv => SetupExact
  BY DEF Inv, Base, TypeOK, Built, SetupExact
<1> QED
  BY <1>1, Invariance, PTL

(* Local packets and marked decoys are spared at every instant.            *)
THEOREM LocalIsSpared == Spec => []LocalNeverQueued
<1>1. Inv => LocalNeverQueued
  BY DEF Inv, Base, Sound, LocalNeverQueued, AllLeave
<1> QED
  BY <1>1, Invariance, PTL

(* A clean-up finds its way out of every wreck.                            *)
THEOREM WrecksAreCleaned == Spec => []CleanSlate
<1>1. Inv => CleanSlate
  BY DEF Inv, Cleaned, CleanSlate, Empty
<1> QED
  BY <1>1, Invariance, PTL

---------------------------------------------------------------------------
(* Every step is a step of Interception, or changes nothing it sees.       *)

Seen ==
  /\ Diverted \in [Families -> SUBSET Traffic]
  /\ Wanted \in [Families -> SUBSET Traffic]

LEMMA SeenTyped ==
  ASSUME TypeOK'
  PROVE  Seen'
<1>1. \A f \in Families : {t \in Traffic : Diverts(f, t[1], t[2])}' \subseteq Traffic
  BY DEF Traffic, Selected
<1>2. Diverted' \in [Families -> SUBSET Traffic]
  BY <1>1 DEF Diverted
<1>3. ASSUME phase' = "run"  PROVE Hooked \X conf'.devs \subseteq Traffic
  <2>1. conf' \in Confs
    BY <1>3 DEF TypeOK
  <2>. QED  BY <2>1, ConfDevices DEF Traffic
<1>4. Wanted' \in [Families -> SUBSET Traffic]
  BY <1>3 DEF Wanted
<1>. QED  BY <1>2, <1>4 DEF Seen

LEMMA NothingWanted ==
  ASSUME phase # "run"
  PROVE  Wanted = Interceptor!NoTraffic
BY DEF Wanted, Interceptor!NoTraffic

LEMMA NothingWantedNext ==
  ASSUME phase' # "run"
  PROVE  Wanted' = Interceptor!NoTraffic
BY DEF Wanted, Interceptor!NoTraffic

LEMMA DivertedElsewhere ==
  ASSUME NEW g \in Families, rules'[g] = rules[g], hooks'[g] = hooks[g]
  PROVE  Diverted'[g] = Diverted[g]
BY DEF Diverted, Diverts, Traffic

LEMMA DivertedMore ==
  ASSUME NEW f \in Families,
         \A c \in Hooked : hooks[f][c] > 0 => hooks'[f][c] > 0,
         \A c \in Chains : rules[f][c] \subseteq rules'[f][c]
  PROVE  Diverted[f] \subseteq Diverted'[f]
<1>1. ASSUME NEW t \in Traffic, Diverts(f, t[1], t[2])
      PROVE  Diverts(f, t[1], t[2])'
  <2>1. t[1] \in Hooked /\ t[1] \in Chains /\ "R" \in Chains
    BY DEF Traffic, Hooked, Chains
  <2>. QED  BY <1>1, <2>1 DEF Diverts
<1>2. Traffic' = Traffic
  BY DEF Traffic, Selected
<1>. QED  BY <1>1, <1>2 DEF Diverted

LEMMA DivertedLess ==
  ASSUME NEW f \in Families,
         \A c \in Hooked : hooks'[f][c] > 0 => hooks[f][c] > 0,
         \A c \in Chains : rules'[f][c] \subseteq rules[f][c]
  PROVE  Diverted'[f] \subseteq Diverted[f]
<1>1. ASSUME NEW t \in Traffic, Diverts(f, t[1], t[2])'
      PROVE  Diverts(f, t[1], t[2])
  <2>1. t[1] \in Hooked /\ t[1] \in Chains /\ "R" \in Chains
    BY DEF Traffic, Hooked, Chains
  <2>. QED  BY <1>1, <2>1 DEF Diverts
<1>2. Traffic' = Traffic
  BY DEF Traffic, Selected
<1>. QED  BY <1>1, <1>2 DEF Diverted

LEMMA StartTakes ==
  ASSUME Seen', Start
  PROVE  [Interceptor!Next]_(Interceptor!vars)
<1>1. /\ phase \in {"off", "ended"} /\ phase' = "clean" /\ conf' \in Confs
      /\ rules' = rules /\ hooks' = hooks
  BY DEF Start, table
<1>2. Holders = {} /\ Holders' = {conf'}
  BY <1>1 DEF Holders
<1>3. Wanted' = Wanted
  BY <1>1, NothingWanted, NothingWantedNext
<1>4. Diverted' = Diverted
  BY <1>1 DEF Diverted, Diverts, Traffic, Selected
<1>5. Interceptor!Take(conf')
  BY <1>2, <1>3, <1>4 DEF Interceptor!Take
<1>. QED
  BY <1>1, <1>5 DEF Seen, Interceptor!Next, Interceptor!Change

(* The last command of a clean-up leaves what is diverted alone.           *)
LEMMA CleanSpares ==
  ASSUME TypeOK, Seen', CleanCommand \/ CleanCommandFails
  PROVE  [Interceptor!Next]_(Interceptor!vars)
<1>0. PICK F : F = Family
  OBVIOUS
<1>1. /\ F \in Families /\ phase \in {"clean", "undo"} /\ conf' = conf
      /\ phase' \in {"clean", "build", "undo", "ended"}
      /\ phase' = "ended" => step = 8
  BY <1>0, FamilyIsLeft, CleanUpSteps
  DEF CleanCommand, CleanCommandFails, Proceed, Cleaning, TypeOK
<1>2. /\ Wanted = Interceptor!NoTraffic /\ Wanted' = Interceptor!NoTraffic
      /\ Holders = {conf}
  BY <1>1, NothingWanted, NothingWantedNext DEF Holders
<1>3. \A g \in Families \ {F} : rules'[g] = rules[g] /\ hooks'[g] = hooks[g]
  BY <1>0, CleanKeepsOthers DEF CleanCommandFails, table
<1>4. /\ \A c \in Hooked : hooks'[F][c] > 0 => hooks[F][c] > 0
      /\ \A c \in Chains : rules'[F][c] \subseteq rules[F][c]
      /\ step = 8 => rules' = rules /\ hooks' = hooks
  <2>1. CASE CleanCommandFails
    BY <2>1 DEF CleanCommandFails, table
  <2>2. CASE CleanCommand
    <3>0. PICK cmd : cmd = CleanUp[step]
      OBVIOUS
    <3>1. /\ CanClean(F, cmd) /\ Clean(F, cmd)
          /\ \/ cmd[1] = "flush" /\ cmd[2] \in Chains
             \/ cmd[1] = "unhook" /\ cmd[2] \in Hooked
             \/ cmd[1] = "delete" /\ cmd[2] \in Chains
          /\ step = 8 => cmd[1] = "delete"
      BY <1>0, <2>2, <3>0, CleanUpIsCommand, CleanUpSteps
      DEF CleanCommand, TypeOK
    <3>2. CASE cmd[1] = "flush" /\ cmd[2] \in Chains
      BY <1>1, <3>1, <3>2, FlushEffect
    <3>3. CASE cmd[1] = "unhook" /\ cmd[2] \in Hooked
      BY <1>1, <3>1, <3>3, UnhookEffect
    <3>4. CASE cmd[1] = "delete" /\ cmd[2] \in Chains
      BY <1>1, <3>1, <3>4, DeleteEffect
    <3>. QED  BY <3>1, <3>2, <3>3, <3>4
  <2>. QED  BY <2>1, <2>2
<1>5. CASE phase' = "ended"
  <2>1. Holders' = {} /\ Diverted' = Diverted
    BY <1>1, <1>4, <1>5 DEF Holders, Diverted, Diverts, Traffic, Selected
  <2>2. Interceptor!Release
    BY <1>2, <2>1 DEF Interceptor!Release
  <2>. QED  BY <2>2 DEF Seen, Interceptor!Next, Interceptor!Change
<1>6. CASE phase' # "ended"
  <2>1. Holders' = Holders
    BY <1>1, <1>2, <1>6 DEF Holders
  <2>2. Interceptor!Spare(F)
    BY <1>1, <1>2, <1>3, <1>4, <2>1, DivertedLess, DivertedElsewhere
    DEF Interceptor!Spare, Interceptor!Elsewhere
  <2>. QED  BY <1>1, <2>2 DEF Seen, Interceptor!Next, Interceptor!Change
<1>. QED  BY <1>5, <1>6

(* A command of the set-up takes nothing away, and leaves other families   *)
(* alone.                                                                  *)
LEMMA BuildGrows ==
  ASSUME TypeOK, Build
  PROVE  /\ phase = "build" /\ Family \in Families /\ conf' = conf
         /\ phase' \in {"build", "clean", "run"}
         /\ \A c \in Hooked :
              hooks[Family][c] > 0 => hooks'[Family][c] > 0
         /\ \A c \in Chains : rules[Family][c] \subseteq rules'[Family][c]
         /\ \A g \in Families \ {Family} :
              rules'[g] = rules[g] /\ hooks'[g] = hooks[g]
<1>1. phase = "build"
  BY DEF Build, NewChain, HookChain, LeaveLocal, AddMark, AddQueue, AddDrop,
         AddGoS, AddGoD, At
<1>2. Family \in Families
  BY <1>1, FamilyIsLeft DEF TypeOK
<1>3. conf' = conf /\ phase' \in {"build", "clean", "run"}
  BY <1>1 DEF Build, NewChain, HookChain, LeaveLocal, AddMark, AddQueue,
              AddDrop, AddGoS, AddGoD, Reach, Finish
<1>4. PICK F \in Families : F = Family
  BY <1>2
<1> DEFINE Grows == /\ \A c \in Hooked : hooks[F][c] > 0 => hooks'[F][c] > 0
                    /\ \A c \in Chains : rules[F][c] \subseteq rules'[F][c]
                    /\ \A g \in Families \ {F} :
                         rules'[g] = rules[g] /\ hooks'[g] = hooks[g]
<1>5. ASSUME NEW s, NEW c, NEW next, NewChain(s, c, next)  PROVE Grows
  BY <1>5 DEF NewChain
<1>6. ASSUME NEW s, NEW c \in Hooked, NEW next, HookChain(s, c, next)
      PROVE  Grows
  <2>1. /\ hooks'[F][c] = hooks[F][c] + 1
        /\ \A x \in Hooked \ {c} : hooks'[F][x] = hooks[F][x]
        /\ \A g \in Families \ {F} : hooks'[g] = hooks[g]
        /\ rules' = rules
    BY <1>2, <1>4, <1>6, HookChainEffect
  <2>2. hooks[F][c] \in Nat
    BY DEF TypeOK
  <2>. QED  BY <2>1, <2>2
<1>7. ASSUME NEW c \in Chains, NEW r, Add(c, r)  PROVE Grows
  <2>1. /\ rules'[F][c] = rules[F][c] \union {r}
        /\ \A x \in Chains \ {c} : rules'[F][x] = rules[F][x]
        /\ \A g \in Families \ {F} : rules'[g] = rules[g]
        /\ hooks' = hooks
    BY <1>2, <1>4, <1>7, AddEffect
  <2>. QED  BY <2>1
<1>8. Grows
  <2>1. CASE \/ NewChain("newS", "S", "newD") \/ NewChain("newD", "D", "hookS")
             \/ NewChain("newR", "R", "leaveS")
    BY <1>5, <2>1
  <2>2. CASE \/ HookChain("hookS", "S", "hookD")
             \/ HookChain("hookD", "D", "newR")
    BY <1>6, <2>2 DEF Hooked
  <2>3. CASE \/ LeaveLocal("leaveS", "S", "leaveD", Local[Family])
             \/ LeaveLocal("leaveD", "D", "mark", {})
    <3>1. \E c \in Chains : \E r : Add(c, r)
      BY <2>3 DEF LeaveLocal, Chains
    <3>. QED  BY <1>7, <3>1
  <2>4. CASE AddMark \/ AddQueue \/ AddDrop \/ AddGoS \/ AddGoD
    <3>1. \E c \in Chains : \E r : Add(c, r)
      BY <2>4 DEF AddMark, AddQueue, AddDrop, AddGoS, AddGoD, Chains
    <3>. QED  BY <1>7, <3>1
  <2>. QED  BY <2>1, <2>2, <2>3, <2>4 DEF Build
<1>. QED  BY <1>1, <1>2, <1>3, <1>4, <1>8

(* A process that runs has what it wants.                                  *)
LEMMA ExactIsWanted ==
  ASSUME TypeOK', SetupExact'
  PROVE  Interceptor!Met(Wanted', Diverted')
<1>1. SUFFICES ASSUME NEW f \in Families, Wanted'[f] # {}
               PROVE  Diverted'[f] = Wanted'[f]
  BY DEF Interceptor!Met
<1>2. phase' = "run" /\ f \in conf'.fams /\ Wanted'[f] = Hooked \X conf'.devs
  BY <1>1 DEF Wanted
<1>3. conf' \in Confs /\ Exact(f)'
  BY <1>2 DEF TypeOK, SetupExact
<1>4. conf'.devs \subseteq Selected
  BY <1>3, ConfDevices
<1>5. /\ \A c \in Hooked : hooks'[f][c] > 0
      /\ Queue \in rules'[f]["R"]
      /\ \A c \in Hooked, d \in Selected :
           Go(d) \in rules'[f][c] <=> d \in conf'.devs
  BY <1>3, RulesDiffer DEF Exact, Hooked
<1>6. \A t \in Traffic : Diverts(f, t[1], t[2])' <=> t[2] \in conf'.devs
  BY <1>5 DEF Diverts, Traffic
<1>7. Diverted'[f] = {t \in Traffic : t[2] \in conf'.devs}
  <2>1. Traffic' = Traffic
    BY DEF Traffic, Selected
  <2>. QED  BY <1>6, <2>1 DEF Diverted
<1>8. {t \in Traffic : t[2] \in conf'.devs} = Hooked \X conf'.devs
  BY <1>4 DEF Traffic
<1>. QED  BY <1>2, <1>7, <1>8

LEMMA BuildDiverts ==
  ASSUME TypeOK, TypeOK', SetupExact', Build
  PROVE  [Interceptor!Next]_(Interceptor!vars)
<1>0. PICK F : F = Family
  OBVIOUS
<1>1. /\ phase = "build" /\ F \in Families /\ conf' = conf
      /\ phase' \in {"build", "clean", "run"}
      /\ \A c \in Hooked : hooks[F][c] > 0 => hooks'[F][c] > 0
      /\ \A c \in Chains : rules[F][c] \subseteq rules'[F][c]
      /\ \A g \in Families \ {F} :
           rules'[g] = rules[g] /\ hooks'[g] = hooks[g]
  BY <1>0, BuildGrows
<1>2. /\ Holders = {conf} /\ Holders' = Holders
      /\ Wanted = Interceptor!NoTraffic
  BY <1>1, NothingWanted DEF Holders
<1>3. /\ Diverted[F] \subseteq Diverted'[F]
      /\ \A g \in Families \ {F} : Diverted'[g] = Diverted[g]
  BY <1>1, DivertedMore, DivertedElsewhere
<1>4. Interceptor!Divert(F)
  BY <1>2, <1>3, ExactIsWanted
  DEF Interceptor!Divert, Interceptor!Elsewhere
<1>. QED
  BY <1>1, <1>4, SeenTyped DEF Seen, Interceptor!Next, Interceptor!Change

LEMMA StopRests ==
  ASSUME TypeOK, Seen', Stop
  PROVE  [Interceptor!Next]_(Interceptor!vars)
<1>1. /\ phase = "run" /\ phase' = "undo" /\ conf' = conf
      /\ rules' = rules /\ hooks' = hooks
  BY DEF Stop, Undo, table
<1>2. PICK f \in Families : f \in conf.fams
  BY <1>1, ConfDevices DEF TypeOK
<1>3. conf.devs # {}
  BY <1>1 DEF TypeOK, Confs
<1>4. Wanted[f] # {}
  <2>1. PICK d \in conf.devs : <<"S", d>> \in Hooked \X conf.devs
    BY <1>3 DEF Hooked
  <2>2. Wanted[f] = Hooked \X conf.devs
    BY <1>1, <1>2 DEF Wanted
  <2>. QED  BY <2>1, <2>2
<1>5. Wanted # Interceptor!NoTraffic /\ Wanted' = Interceptor!NoTraffic
  BY <1>1, <1>4, NothingWantedNext DEF Interceptor!NoTraffic
<1>6. Holders' = Holders /\ Diverted' = Diverted
  BY <1>1 DEF Holders, Diverted, Diverts, Traffic, Selected
<1>7. Interceptor!Rest
  BY <1>5, <1>6 DEF Interceptor!Rest
<1>. QED  BY <1>7 DEF Seen, Interceptor!Next, Interceptor!Change

LEMMA KilledReleases ==
  ASSUME Seen', Killed
  PROVE  [Interceptor!Next]_(Interceptor!vars)
<1>1. /\ phase \notin {"off", "ended"} /\ phase' = "off"
      /\ rules' = rules /\ hooks' = hooks
  BY DEF Killed, table
<1>2. Holders # {} /\ Holders' = {} /\ Diverted' = Diverted
  BY <1>1 DEF Holders, Diverted, Diverts, Traffic, Selected
<1>3. Wanted' = Interceptor!NoTraffic
  BY <1>1, NothingWantedNext
<1>4. Interceptor!Release
  BY <1>2, <1>3 DEF Interceptor!Release
<1>. QED  BY <1>4 DEF Seen, Interceptor!Next, Interceptor!Change

LEMMA InterceptionStep ==
  ASSUME TypeOK, TypeOK', SetupExact', [Next]_vars
  PROVE  [Interceptor!Next]_(Interceptor!vars)
<1>1. CASE BuildFails \/ UNCHANGED vars
  <2>1. /\ rules' = rules /\ hooks' = hooks /\ conf' = conf
        /\ phase' = phase \/ {phase, phase'} \subseteq {"build", "undo"}
    BY <1>1 DEF BuildFails, Undo, vars, control, table
  <2>2. Holders' = Holders /\ Wanted' = Wanted
    BY <2>1 DEF Holders, Wanted
  <2>3. Diverted' = Diverted
    BY <2>1 DEF Diverted, Diverts, Traffic, Selected
  <2>. QED  BY <2>2, <2>3 DEF Interceptor!vars
<1>. QED
  BY <1>1, SeenTyped, StartTakes, CleanSpares, BuildDiverts, StopRests,
     KilledReleases DEF Next

(* With iptables too FakeSIP keeps the promise of Interception, for any    *)
(* networks and devices, whatever is killed and whichever commands fail:   *)
(* from the moment it runs until it begins to end a process has what it    *)
(* wants diverted, and nothing else in its families.                       *)
THEOREM RulesIntercept == Spec => InterceptionKept
<1>1. Init => Inv /\ Interceptor!Init
  <2>1. ASSUME Init  PROVE Interceptor!Init
    <3>1. Holders = {} /\ Wanted = Interceptor!NoTraffic
      BY <2>1, NothingWanted DEF Init, Holders
    <3>2. \A f \in Families, t \in Traffic : ~Diverts(f, t[1], t[2])
      BY <2>1 DEF Init, Diverts, NoRules, Chains
    <3>3. Diverted = Interceptor!NoTraffic
      BY <3>2 DEF Diverted, Interceptor!NoTraffic
    <3>. QED  BY <3>1, <3>3 DEF Interceptor!Init
  <2>. QED  BY <2>1, InvInit
<1>2. Inv /\ [Next]_vars => Inv'
  BY InvStep
<1>3. Inv => TypeOK /\ SetupExact
  BY DEF Inv, Base, TypeOK, Built, SetupExact
<1>4. (TypeOK /\ SetupExact) /\ (TypeOK /\ SetupExact)' /\ [Next]_vars
        => [Interceptor!Next]_(Interceptor!vars)
  BY InterceptionStep
<1>. QED
  BY <1>1, <1>2, <1>3, <1>4, PTL
  DEF Spec, InterceptionKept, Interceptor!Spec

---------------------------------------------------------------------------
(* From whatever is there when the first process starts.                   *)

(* No process yet, and any rules the kernel can have in FakeSIP's chains:  *)
(* those of an earlier boot of the service that were saved and restored,   *)
(* hooked twice, half of them deleted by hand.                             *)
Leftovers ==
  /\ phase = "off" /\ conf = NoConf /\ left = {}
  /\ step = 1 /\ stage = "newS" /\ todo = {} /\ dev = AnyDev
  /\ missed = 0
  /\ exists \in [Families -> SUBSET Chains]
  /\ rules \in [Families -> [Chains -> SUBSET RuleType]]
  /\ hooks \in [Families -> [Hooked -> Nat]]
  /\ \A f \in Families : Consistent(f)

LEMMA ConsistentIfSame ==
  ASSUME NEW f \in Families, Consistent(f),
         rules'[f] = rules[f], hooks'[f] = hooks[f], exists'[f] = exists[f]
  PROVE  Consistent(f)'
BY DEF Consistent

LEMMA ConsistentAfterClean ==
  ASSUME Frame, CleanCommand
  PROVE  \A f \in Families : Consistent(f)'
<1>0. PICK F \in Families : F = Family
  BY FamilyIsLeft DEF CleanCommand, Cleaning, Frame, TypeOK
<1>1. PICK cmd : cmd = CleanUp[step]
  OBVIOUS
<1>2. /\ CanClean(F, cmd) /\ Clean(F, cmd)
      /\ \/ cmd[1] = "flush" /\ cmd[2] \in Chains
         \/ cmd[1] = "unhook" /\ cmd[2] \in Hooked
         \/ cmd[1] = "delete" /\ cmd[2] \in Chains
  BY <1>0, <1>1, CleanUpIsCommand DEF CleanCommand, Frame, TypeOK
<1>3. TypeOK /\ \A f \in Families : Consistent(f)
  BY DEF Frame
<1>4. ASSUME NEW f \in Families, f # F  PROVE Consistent(f)'
  BY <1>0, <1>3, <1>4, CleanKeepsOthers, ConsistentIfSame
<1>5. Consistent(F)'
  <2>1. CASE cmd[1] = "flush" /\ cmd[2] \in Chains
    <3>1. /\ \A x \in Chains : rules'[F][x] = {} \/ rules'[F][x] = rules[F][x]
          /\ exists' = exists /\ hooks' = hooks
      BY <1>2, <1>3, <2>1, FlushEffect
    <3>. QED  BY <1>3, <3>1 DEF Consistent
  <2>2. CASE cmd[1] = "unhook" /\ cmd[2] \in Hooked
    <3>1. /\ hooks'[F][cmd[2]] = hooks[F][cmd[2]] - 1 /\ hooks[F][cmd[2]] > 0
          /\ \A x \in Hooked \ {cmd[2]} : hooks'[F][x] = hooks[F][x]
          /\ exists' = exists /\ rules' = rules
      BY <1>2, <1>3, <2>2, UnhookEffect
    <3>2. \A x \in Hooked : hooks'[F][x] > 0 => hooks[F][x] > 0
      BY <3>1
    <3>. QED  BY <1>3, <3>1, <3>2 DEF Consistent
  <2>3. CASE cmd[1] = "delete" /\ cmd[2] \in Chains
    <3>1. /\ exists'[F] = exists[F] \ {cmd[2]}
          /\ hooks' = hooks /\ rules' = rules /\ rules[F][cmd[2]] = {}
          /\ ~Referenced(F, cmd[2])
      BY <1>2, <1>3, <2>3, DeleteEffect
    <3>2. cmd[2] \in Hooked => ~(hooks[F][cmd[2]] > 0)
      BY <3>1 DEF Referenced, Hooked
    <3>. QED  BY <1>3, <3>1, <3>2 DEF Consistent
  <2>. QED  BY <1>2, <2>1, <2>2, <2>3
<1>. QED  BY <1>4, <1>5

LEMMA ConsistentAfterBuild ==
  ASSUME Frame, Build
  PROVE  \A f \in Families : Consistent(f)'
<1>0. PICK F : F = Family
  OBVIOUS
<1>1. F \in Families
  BY <1>0, BuildGrows DEF Frame
<1>2. TypeOK /\ \A f \in Families : Consistent(f)
  BY DEF Frame
<1>3. ASSUME NEW s, NEW c \in Chains, NEW n, NewChain(s, c, n)
      PROVE  \A f \in Families : Consistent(f)'
  <2>1. /\ \A f \in Families : exists[f] \subseteq exists'[f]
        /\ rules' = rules /\ hooks' = hooks
    BY <1>0, <1>1, <1>2, <1>3, NewChainEffect
  <2>. QED  BY <1>2, <2>1 DEF Consistent
<1>4. ASSUME NEW s, NEW c \in Hooked, NEW n, HookChain(s, c, n)
      PROVE  \A f \in Families : Consistent(f)'
  <2>1. /\ \A x \in Hooked \ {c} : hooks'[F][x] = hooks[F][x]
        /\ \A g \in Families \ {F} : hooks'[g] = hooks[g]
        /\ rules' = rules /\ exists' = exists /\ c \in exists[F]
    BY <1>0, <1>1, <1>2, <1>4, HookChainEffect
  <2>2. ASSUME NEW f \in Families, NEW x \in Hooked, hooks'[f][x] > 0
        PROVE  x \in exists'[f]
    BY <1>2, <2>1, <2>2 DEF Consistent
  <2>. QED  BY <1>2, <2>1, <2>2 DEF Consistent
<1>5. ASSUME NEW c \in Chains, NEW r, Add(c, r)
      PROVE  \A f \in Families : Consistent(f)'
  <2>1. /\ \A x \in Chains \ {c} : rules'[F][x] = rules[F][x]
        /\ \A g \in Families \ {F} : rules'[g] = rules[g]
        /\ exists' = exists /\ hooks' = hooks /\ c \in exists[F]
    BY <1>0, <1>1, <1>2, <1>5, AddEffect
  <2>. QED  BY <1>2, <2>1 DEF Consistent
<1>6. CASE \/ NewChain("newS", "S", "newD") \/ NewChain("newD", "D", "hookS")
           \/ NewChain("newR", "R", "leaveS")
  BY <1>3, <1>6 DEF Chains
<1>7. CASE \/ HookChain("hookS", "S", "hookD")
           \/ HookChain("hookD", "D", "newR")
  BY <1>4, <1>7 DEF Hooked
<1>8. CASE \/ LeaveLocal("leaveS", "S", "leaveD", Local[Family])
           \/ LeaveLocal("leaveD", "D", "mark", {})
  <2>1. \E c \in Chains : \E r : Add(c, r)
    BY <1>8 DEF LeaveLocal, Chains
  <2>. QED  BY <1>5, <2>1
<1>9. CASE AddMark \/ AddQueue \/ AddDrop \/ AddGoS \/ AddGoD
  <2>1. \E c \in Chains : \E r : Add(c, r)
    BY <1>9 DEF AddMark, AddQueue, AddDrop, AddGoS, AddGoD, Chains
  <2>. QED  BY <1>5, <2>1
<1>. QED  BY <1>6, <1>7, <1>8, <1>9 DEF Build

LEMMA FrameStep ==
  ASSUME Frame, Building, [Next]_vars
  PROVE  Frame'
<1>1. TypeOK /\ \A f \in Families : Consistent(f)
  BY DEF Frame
<1>2. TypeOK'
  BY <1>1, TypeStep
<1>3. CASE UNCHANGED table
  BY <1>1, <1>2, <1>3, ConsistentIfSame DEF table, Frame
<1>. QED
  BY <1>2, <1>3, ConsistentAfterClean, ConsistentAfterBuild
  DEF Next, vars, Start, CleanCommandFails, BuildFails, Stop, Undo, Killed,
      table, Frame

LEMMA LeftoversFrame == Leftovers => Frame /\ Building /\ Built
<1>1. 1 \in 1 .. Len(CleanUp) /\ "newS" \in Stages /\ 0 \in 0 .. MaxMissed
  BY CleanUpSteps, RulesAssumption DEF Stages
<1>. QED
  BY <1>1 DEF Leftovers, Frame, TypeOK, NoConf, Selected, Building, Built

LEMMA FromLeftovers ==
  Leftovers /\ [][Next]_vars => [](Frame /\ Building /\ Built)
<1>1. Leftovers => Frame /\ Building /\ Built
  BY LeftoversFrame
<1>2. Frame /\ Building /\ Built /\ [Next]_vars => (Frame /\ Building /\ Built)'
  BY FrameStep, BuildingStep, BuiltStep
<1>. QED  BY <1>1, <1>2, PTL

(* Even if the clean-up cannot remove what somebody else has made of the   *)
(* chains, a process that gets to run has exactly its own rules: a set-up  *)
(* that finds a chain fails (fs_ipt4_setup, fs_ipt6_setup).                *)
THEOREM SetupIsExactAnyhow == Leftovers /\ [][Next]_vars => []SetupExact
<1>1. Frame /\ Building /\ Built => SetupExact
  BY DEF Frame, TypeOK, Built, SetupExact
<1>. QED  BY <1>1, FromLeftovers, PTL

(* And every step is one that Interception allows: such rules may divert   *)
(* traffic before the first process starts, but once a process runs it has *)
(* what it wants, and nothing else in its families.                        *)
THEOREM InterceptAnyhow ==
  Leftovers /\ [][Next]_vars => [][Interceptor!Next]_(Interceptor!vars)
<1>1. Frame /\ Building /\ Built => TypeOK /\ SetupExact
  BY DEF Frame, TypeOK, Built, SetupExact
<1>2. (TypeOK /\ SetupExact) /\ (TypeOK /\ SetupExact)' /\ [Next]_vars
        => [Interceptor!Next]_(Interceptor!vars)
  BY InterceptionStep
<1>. QED  BY <1>1, <1>2, FromLeftovers, PTL
=============================================================================
