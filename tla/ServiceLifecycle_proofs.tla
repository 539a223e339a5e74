---------------------- MODULE ServiceLifecycle_proofs ----------------------
(***************************************************************************)
(* What ServiceLifecycle guarantees for every set of devices, every        *)
(* configuration and every value of the bounds, with and without write     *)
(* faults.                                                                 *)
(***************************************************************************)
EXTENDS ServiceLifecycle, TLAPS

(* An armed wait has the token and the deadline of a timer.                *)
ArmedType(b) ==
  /\ b \in BootStates
  /\ b.phase = "wait" => [token |-> b.token, deadline |-> b.deadline] \in Timers

(* TypeOK alone is not inductive: the scheduler hands out a token without  *)
(* another look at the bound, and keeps the token of a wait it has seen.   *)
TypeInv ==
  /\ TypeOK
  /\ ArmedType(boot)
  /\ ArmedType(sched.seen)
  /\ sched.pc \in {"arm", "arming"} =>
       tokens < LastToken /\ sched.delay \in Delays

(* Who holds the lifecycle lock, and which commands the steps of an        *)
(* invocation belong to.                                                   *)
LockInv ==
  /\ lock = "sched" <=>
       sched.pc \in {"arming", "cancelling", "cancellingAgain"}
  /\ lock = "job" <=> \/ job.pc = "submit" /\ job.cmd \in Nested
                      \/ job.pc = "again" /\ job.cmd = "link_up"
  /\ job.pc = "again" => job.cmd \in {"restart", "link_up"}
  /\ job.pc \in {"kill", "stopped"} => job.cmd \in {"stop", "restart"}
  /\ job.pc = "idle" => job = NoJob
  /\ NoLostUpdate

(* A definition on its way to procd has its authority already, and a stop  *)
(* that has not yet killed the instance has withdrawn it, or failed to.    *)
AuthorityInv ==
  /\ job.pc = "submit" /\ job.def => boot.phase \in {"manual", "done"}
  /\ defined => \/ boot.phase \in {"manual", "done"}
                \/ job.pc = "kill" /\ boot.phase = "cancel"

(* Timer and link commands do their work on the link state they found, and *)
(* a timer finds no instance.                                              *)
CommandInv ==
  /\ job.pc = "submit" /\ job.cmd \in TimerCommands => ~defined
  /\ job.pc = "submit" /\ job.def /\ job.cmd \in TimerCommands \union LinkCommands
       => link.phase # "down"
  /\ job.pc = "again" /\ job.cmd = "link_up" => link.phase # "down"

(* A boot_expired call is made after its deadline.                         *)
TimerInv ==
  /\ sched.at <= uptime
  /\ \A t \in expired : t.deadline <= uptime
  /\ sched.pc = "calling" => sched.timer.deadline <= uptime

IInv == TypeInv /\ LockInv /\ AuthorityInv /\ CommandInv /\ TimerInv

(* Where no write of a state file fails: the scheduler has the timer of an *)
(* armed wait in its hands or has none to care for.                        *)
WakerInv ==
  /\ WaitHasWaker
  /\ sched.pc \in {"calling", "submit"} /\ boot.phase = "wait" =>
       BootIs(sched.timer)
  /\ sched.pc \in {"called", "kill"} => boot.phase # "wait"

(* Where besides no nft command outlives its daemon: an invocation that    *)
(* submits a definition has removed whatever ran before.                   *)
RulesInv ==
  /\ ~orphan
  /\ job.pc = "submit" => ~defined
  /\ rules => defined \/ job.pc = "stopped"

---------------------------------------------------------------------------
(* The records the actions write are of the right type.                    *)

LEMMA MarkArmed ==
  ASSUME NEW p \in Phases \ {"wait"}, NEW d \in Delays \union {0}
  PROVE  ArmedType([phase |-> p, token |-> 0, deadline |-> d])
  BY LifecycleAssumption DEF ArmedType, BootStates

LEMMA WaitingArmed ==
  ASSUME NEW t \in Timers
  PROVE  ArmedType(Waiting(t))
  BY LifecycleAssumption DEF ArmedType, BootStates, Waiting, Timers, Phases

LEMMA DoneArmed ==
  ASSUME NEW b, ArmedType(b)
  PROVE  ArmedType([b EXCEPT !.phase = "done"])
  BY DEF ArmedType, BootStates, Phases

LEMMA NoJobType == NoJob \in JobStates
  BY DEF NoJob, JobStates, Commands

LEMMA JobPcType ==
  ASSUME NEW j \in JobStates,
         NEW pc \in {"idle", "submit", "again", "kill", "stopped"}
  PROVE  [j EXCEPT !.pc = pc] \in JobStates
  BY DEF JobStates

LEMMA NoSchedType == NoSched \in SchedStates /\ ArmedType(NoBoot)
  BY LifecycleAssumption
     DEF NoSched, SchedStates, ArmedType, NoBoot, NoTimer, BootStates, Phases

LEMMA TypeInit == Init => TypeInv
  <1> SUFFICES ASSUME Init PROVE TypeInv
    OBVIOUS
  <1>1. boot \in BootStates /\ ArmedType(boot)
    BY NoSchedType DEF Init, ArmedType
  <1>2. sched \in SchedStates /\ ArmedType(sched.seen)
    BY NoSchedType DEF Init, NoSched
  <1>3. job \in JobStates
    BY NoJobType DEF Init
  <1>4. sched.pc \notin {"arm", "arming"}
    BY DEF Init, NoSched
  <1>5. link \in [phase : {"none", "up", "down"}, gen : 0 .. GenLimit]
    BY LifecycleAssumption DEF Init
  <1>6. uptime \in 0 .. LastUptime /\ tokens \in 0 .. LastToken
    BY LifecycleAssumption DEF Init
  <1>7. defined \in BOOLEAN /\ rules \in BOOLEAN /\ orphan \in BOOLEAN
    BY DEF Init
  <1>8. TypeOK
    BY <1>1, <1>2, <1>3, <1>5, <1>6, <1>7 DEF Init, TypeOK
  <1>9. QED
    BY <1>1, <1>2, <1>4, <1>8 DEF TypeInv

(* What a start may write, in whatever context.                            *)
StartTyped ==
  /\ ArmedType(boot')
  /\ lock' \in {"free", "job", "sched"}
  /\ job' \in JobStates
  /\ defined' \in BOOLEAN
  /\ rules' \in BOOLEAN
  /\ orphan' \in BOOLEAN

LEMMA SubmittingType ==
  ASSUME TypeInv, NEW cmd \in Commands, NEW def \in BOOLEAN,
         Submitting(cmd, def)
  PROVE  lock' \in {"free", "job", "sched"} /\ job' \in JobStates
  BY DEF Submitting, TypeInv, TypeOK, JobStates

LEMMA ConditionTypes ==
  ASSUME TypeInv
  PROVE  /\ uci \in ConfigType
         /\ ConfigValid \in BOOLEAN
         /\ \A ok \in Stored : ok \in BOOLEAN
  BY LifecycleAssumption
     DEF TypeInv, TypeOK, ConfigType, ConfigValid, Stored

LEMMA BootTypes ==
  ASSUME TypeInv
  PROVE  uptime \in Nat /\ boot.deadline \in Nat /\ boot.phase \in Phases
  <1>1. boot.deadline \in Delays \union {0} /\ boot.phase \in Phases
    BY DEF TypeInv, TypeOK, BootStates
  <1>2. uptime \in 0 .. LastUptime
    BY DEF TypeInv, TypeOK
  <1>3. uptime \in Nat
    BY <1>2, LifecycleAssumption
  <1>4. \A d \in Delays \union {0} : d \in Nat
    BY LifecycleAssumption
  <1>5. QED
    BY <1>1, <1>3, <1>4

LEMMA OrphanType ==
  ASSUME TypeInv, NftLivesOn
  PROVE  orphan' \in BOOLEAN
  BY DEF NftLivesOn, TypeInv, TypeOK

LEMMA KillType ==
  ASSUME TypeInv, Kill \/ UNCHANGED procd
  PROVE  defined' \in BOOLEAN /\ rules' \in BOOLEAN /\ orphan' \in BOOLEAN
  <1>1. CASE Kill
    BY <1>1, OrphanType DEF Kill
  <1>2. CASE UNCHANGED procd
    BY <1>2 DEF procd, TypeInv, TypeOK
  <1>3. QED
    BY <1>1, <1>2

LEMMA ManualType ==
  ASSUME TypeInv, NEW cmd \in Commands, ManualStart(cmd)
  PROVE  StartTyped
  <1>1. PICK ok \in Stored :
          /\ boot' = IF ok
               THEN Mark(IF uci.enabled THEN "manual" ELSE "cancel") ELSE boot
          /\ IF ok \/ cmd = "reload" THEN Kill ELSE UNCHANGED procd
          /\ Submitting(cmd, ok /\ uci.enabled /\ ConfigValid)
    BY DEF ManualStart
  <1>2. ArmedType(boot')
    <2>1. ArmedType(Mark("manual")) /\ ArmedType(Mark("cancel"))
      BY MarkArmed DEF Mark, Phases
    <2>2. QED
      BY <1>1, <2>1 DEF TypeInv
  <1>3. (ok /\ uci.enabled /\ ConfigValid) \in BOOLEAN
    BY ConditionTypes
  <1>4. QED
    BY <1>1, <1>2, <1>3, KillType, SubmittingType DEF StartTyped

LEMMA AutomaticType ==
  ASSUME TypeInv, NEW cmd \in Commands, AutomaticStart(cmd)
  PROVE  StartTyped
  <1> DEFINE defers == uci.enabled /\ ShouldDefer(uci.delay)
             keeps == uci.enabled /\ boot.phase \in {"manual", "done"}
             goes(ok) == ~defers /\ (keeps \/ ok)
             done == [phase |-> "done", token |-> 0, deadline |-> uci.delay]
  <1>1. PICK ok \in Stored :
          /\ boot' = IF ~goes(ok) \/ keeps THEN boot
                     ELSE IF uci.enabled THEN done ELSE Mark("cancel")
          /\ IF goes(ok) \/ cmd = "link_up" THEN Kill ELSE UNCHANGED procd
          /\ Submitting(cmd, goes(ok) /\ uci.enabled /\ ConfigValid)
    BY DEF AutomaticStart
  <1>2. ArmedType(boot')
    <2>1. ArmedType(Mark("cancel"))
      BY MarkArmed DEF Mark, Phases
    <2>2. ArmedType(done)
      BY MarkArmed, ConditionTypes DEF ConfigType, Phases
    <2>3. QED
      BY <1>1, <2>1, <2>2 DEF TypeInv
  <1>3. (goes(ok) /\ uci.enabled /\ ConfigValid) \in BOOLEAN
    OBVIOUS
  <1> HIDE DEF goes
  <1>4. QED
    BY <1>1, <1>2, <1>3, KillType, SubmittingType DEF StartTyped

LEMMA ArmedTimerType ==
  ASSUME TypeInv, NEW cmd \in Commands, ArmedTimerStart(cmd)
  PROVE  StartTyped
  <1> DEFINE goes(ok) == ok /\ uci.enabled /\ ~LinkIsDown
  <1>1. PICK ok \in Stored :
          /\ boot' = CASE ~ok -> boot
                       [] ok /\ uci.enabled -> [boot EXCEPT !.phase = "done"]
                       [] ok /\ ~uci.enabled -> Mark("cancel")
          /\ IF goes(ok) THEN Kill ELSE UNCHANGED procd
          /\ Submitting(cmd, goes(ok) /\ ConfigValid)
    BY DEF ArmedTimerStart
  <1>2. ArmedType(boot')
    <2>1. ArmedType(Mark("cancel"))
      BY MarkArmed DEF Mark, Phases
    <2>2. ArmedType([boot EXCEPT !.phase = "done"])
      BY DoneArmed DEF TypeInv
    <2>3. QED
      BY <1>1, <2>1, <2>2, ConditionTypes DEF TypeInv
  <1>3. (goes(ok) /\ ConfigValid) \in BOOLEAN
    OBVIOUS
  <1> HIDE DEF goes
  <1>4. QED
    BY <1>1, <1>2, <1>3, KillType, SubmittingType DEF StartTyped

LEMMA TimerStartType ==
  ASSUME TypeInv, NEW t, NEW cmd \in Commands, TimerStart(t, cmd)
  PROVE  StartTyped
  <1>1. CASE BootIs(t)
    BY <1>1, ArmedTimerType DEF TimerStart
  <1>2. CASE ~BootIs(t)
    BY <1>2 DEF TimerStart, StartTyped, TypeInv, TypeOK, procd
  <1>3. QED
    BY <1>1, <1>2

(* What SchedRelease leaves when it is given a timer or none.              *)
LEMMA ReleaseType ==
  ASSUME TypeInv, NEW t \in Timers \union {NoTimer}, SchedRelease(t)
  PROVE  /\ lock' \in {"free", "job", "sched"}
         /\ sched' \in SchedStates
         /\ ArmedType(sched'.seen)
         /\ sched'.pc \notin {"arm", "arming"}
  BY NoSchedType DEF SchedRelease, SchedStates, NoSched

LEMMA CancelledType ==
  ASSUME TypeInv, NEW ok \in BOOLEAN,
         boot' = IF ok /\ sched.seen.phase = "wait" THEN Mark("cancel")
                 ELSE boot
  PROVE  ArmedType(boot')
  BY MarkArmed DEF Mark, Phases, TypeInv

LEMMA SchedArmType ==
  ASSUME TypeInv, SchedArm
  PROVE  TypeInv'
  <1> DEFINE seen == sched.seen
             kept == seen.phase = "wait" /\ seen.deadline = sched.delay
             seenTimer == [token |-> seen.token, deadline |-> seen.deadline]
             next == [token |-> tokens + 1, deadline |-> sched.delay]
             new(ok) == IF ok THEN next ELSE NoTimer
  <1>1. tokens \in 0 .. LastToken /\ tokens < LastToken /\ sched.delay \in Delays
    BY DEF SchedArm, TypeInv, TypeOK
  <1>2. next \in Timers /\ tokens + 1 \in 0 .. LastToken
    BY <1>1, LifecycleAssumption DEF Timers
  <1>3. /\ UNCHANGED <<uci, present, uptime, procd, link, job, hotplug,
                       expired, waiter, runners>>
        /\ \/ /\ \/ SchedRelease(NoTimer)
                 \/ kept /\ SchedRelease(seenTimer)
              /\ UNCHANGED <<boot, tokens>>
           \/ /\ tokens' = tokens + 1
              /\ \E ok \in Stored :
                   /\ boot' = IF ok THEN Waiting(next) ELSE boot
                   /\ SchedRelease(new(ok))
    BY DEF SchedArm, world
  <1>4. kept => seenTimer \in Timers
    BY DEF TypeInv, ArmedType
  <1> HIDE DEF next, seenTimer, kept, new
  <1>5. \E t \in Timers \union {NoTimer} : SchedRelease(t)
    BY <1>2, <1>3, <1>4 DEF new
  <1>6. ArmedType(boot') /\ tokens' \in 0 .. LastToken
    BY <1>1, <1>2, <1>3, WaitingArmed DEF TypeInv
  <1>7. QED
    BY <1>3, <1>5, <1>6, ReleaseType DEF procd, TypeInv, TypeOK, ArmedType

(* A step of the scheduler that writes only its own state, the lock, the   *)
(* boot state and the runner it has defined.                               *)
LEMMA SchedType ==
  ASSUME TypeInv, SchedStart \/ SchedStop \/ SchedStep
  PROVE  TypeInv'
  <1> USE DEF world, procd, timers
  <1>1. CASE SchedStart
    <2>1. sched' = [sched EXCEPT !.pc = "arm", !.enabled = uci.enabled,
                                 !.delay = uci.delay, !.at = uptime]
      BY <1>1 DEF SchedStart
    <2>2. sched' \in SchedStates /\ sched'.seen = sched.seen
                                 /\ sched'.delay \in Delays
      BY <2>1, ConditionTypes DEF ConfigType, SchedStates, TypeInv, TypeOK
    <2>3. QED
      BY <1>1, <2>2 DEF SchedStart, TypeInv, TypeOK
  <1>2. CASE SchedStop
    BY <1>2 DEF SchedStop, TypeInv, TypeOK, SchedStates
  <1>3. ASSUME NEW from, NEW to \in {"arming", "cancelling", "cancellingAgain"},
               from = "arm" <=> to = "arming", SchedLock(from, to)
        PROVE  TypeInv'
    <2>1. sched' = [sched EXCEPT !.pc = to, !.seen = boot] /\ sched.pc = from
      BY <1>3 DEF SchedLock
    <2>2. sched' \in SchedStates /\ sched'.seen = boot
            /\ sched'.pc = to /\ sched'.delay = sched.delay
      BY <2>1 DEF SchedStates, TypeInv, TypeOK
    <2>3. QED
      BY <1>3, <2>1, <2>2 DEF SchedLock, TypeInv, TypeOK
  <1>4. CASE SchedDisabled
    <2>1. SchedRelease(NoTimer) /\ \E ok \in BOOLEAN :
            boot' = IF ok /\ sched.seen.phase = "wait" THEN Mark("cancel")
                    ELSE boot
      BY <1>4, ConditionTypes DEF SchedDisabled
    <2>2. ArmedType(boot')
      BY <2>1, CancelledType
    <2>3. QED
      BY <1>4, <2>1, <2>2, ReleaseType
         DEF SchedDisabled, TypeInv, TypeOK, ArmedType
  <1>5. CASE SchedArm
    BY <1>5, SchedArmType
  <1>6. CASE SchedReturn
    BY <1>6 DEF SchedReturn, TypeInv, TypeOK, SchedStates
  <1>7. CASE SchedSubmit
    <2>1. sched.timer \in Timers \union {NoTimer}
      BY DEF TypeInv, TypeOK, SchedStates
    <2>2. sched' \in SchedStates /\ ArmedType(sched'.seen) /\ sched'.pc = "idle"
      BY <1>7, NoSchedType DEF SchedSubmit, NoSched
    <2>3. QED
      BY <1>7, <2>1, <2>2 DEF SchedSubmit, TypeInv, TypeOK
  <1>8. ASSUME NEW from, NEW to \in {"kill", "idle"}, SchedCancel(from, to)
        PROVE  TypeInv'
    <2>1. \E ok \in BOOLEAN :
            boot' = IF ok /\ sched.seen.phase = "wait" THEN Mark("cancel")
                    ELSE boot
      BY <1>8, ConditionTypes DEF SchedCancel
    <2>2. ArmedType(boot')
      BY <2>1, CancelledType
    <2>3. sched' \in SchedStates /\ ArmedType(sched'.seen) /\ sched'.pc = to
      BY <1>8, NoSchedType DEF SchedCancel, NoSched, SchedStates
    <2>4. QED
      BY <1>8, <2>2, <2>3 DEF SchedCancel, TypeInv, TypeOK, ArmedType
  <1>9. CASE SchedKill
    BY <1>9 DEF SchedKill, TypeInv, TypeOK, SchedStates
  <1>10. QED
    BY <1>1, <1>2, <1>3, <1>4, <1>5, <1>6, <1>7, <1>8, <1>9 DEF SchedStep

LEMMA TypeStep == TypeInv /\ [Next]_vars => TypeInv'
  <1> SUFFICES ASSUME TypeInv, [Next]_vars PROVE TypeInv'
    OBVIOUS
  <1> USE DEF world, procd, timers
  <1>1. ASSUME NEW cmd \in Commands,
               ManualStart(cmd) \/ AutomaticStart(cmd),
               UNCHANGED <<world, timers, link, hotplug, sched>>
        PROVE  TypeInv'
    <2>1. StartTyped
      BY <1>1, ManualType, AutomaticType
    <2>2. QED
      BY <1>1, <2>1 DEF StartTyped, TypeInv, TypeOK, ArmedType
  <1>2. CASE Start \/ Reload \/ \E cmd \in {"boot", "auto"} : Boot(cmd)
    BY <1>1, <1>2 DEF Start, Reload, Boot, Commands, Nested
  <1>3. ASSUME NEW t \in expired, RunnerExpired(t)
        PROVE  TypeInv'
    <2>1. StartTyped
      BY <1>3, TimerStartType DEF RunnerExpired, Commands, Nested, TimerCommands
    <2>2. QED
      BY <1>3, <2>1 DEF RunnerExpired, StartTyped, TypeInv, TypeOK, ArmedType
  <1>4. CASE SchedExpired
    <2>1. StartTyped
      BY <1>4, TimerStartType DEF SchedExpired, Commands, Nested, TimerCommands
    <2>2. sched' \in SchedStates /\ sched'.seen = sched.seen
            /\ sched'.pc = "called"
      BY <1>4 DEF SchedExpired, SchedStates, TypeInv, TypeOK
    <2>3. QED
      BY <1>4, <2>1, <2>2
         DEF SchedExpired, StartTyped, TypeInv, TypeOK, ArmedType
  <1>5. ASSUME NEW d \in Devices, LinkDown(d) \/ LinkUp(d)
        PROVE  TypeInv'
    <2>1. PICK ok \in Stored :
            /\ \/ link' = link
               \/ LinkStored(ok) /\ \E p \in {"up", "down"} : link' = NextLink(p)
            /\ \/ UNCHANGED <<procd, job, lock>>
               \/ Kill /\ Submitting("link_down", FALSE)
               \/ /\ Kill
                  /\ job' = [pc |-> "again", cmd |-> "link_up", def |-> FALSE]
                  /\ lock' = "job"
      BY <1>5 DEF LinkDown, LinkUp
    <2>2. link' \in [phase : {"none", "up", "down"}, gen : 0 .. GenLimit]
      BY <2>1, LifecycleAssumption
         DEF LinkStored, NextLink, TypeInv, TypeOK
    <2>3. /\ lock' \in {"free", "job", "sched"} /\ job' \in JobStates
          /\ defined' \in BOOLEAN /\ rules' \in BOOLEAN /\ orphan' \in BOOLEAN
      <3>1. "link_down" \in Commands /\ "link_up" \in Commands
        BY DEF Commands, Nested, LinkCommands
      <3>2. [pc |-> "again", cmd |-> "link_up", def |-> FALSE] \in JobStates
        BY <3>1 DEF JobStates
      <3>3. CASE UNCHANGED <<procd, job, lock>>
        BY <3>3 DEF TypeInv, TypeOK
      <3>4. QED
        BY <2>1, <3>1, <3>2, <3>3, KillType, SubmittingType
    <2>4. QED
      BY <1>5, <2>2, <2>3 DEF LinkDown, LinkUp, TypeInv, TypeOK
  <1>6. ASSUME NEW cmd \in {"stop", "restart"}, Stop(cmd)
        PROVE  TypeInv'
    <2>1. ArmedType(boot')
      BY <1>6, MarkArmed DEF Stop, Mark, Phases, TypeInv
    <2>2. job' \in JobStates
      BY <1>6 DEF Stop, JobStates, Commands
    <2>3. QED
      BY <1>6, <2>1, <2>2 DEF Stop, TypeInv, TypeOK, ArmedType
  <1>7. CASE JobStep
    <2>1. CASE LinkUpStart \/ RestartStart
      BY <2>1, <1>1
         DEF LinkUpStart, RestartStart, Commands, Nested, LinkCommands
    <2>2. CASE StopKill
      BY <2>2, OrphanType DEF StopKill, TypeInv, TypeOK, JobStates
    <2>3. CASE ServiceStopped
      BY <2>3, NoJobType DEF ServiceStopped, TypeInv, TypeOK, JobStates
    <2>4. CASE Submit
      <3>1. orphan' \in BOOLEAN
        BY <2>4, OrphanType DEF Submit, TypeInv, TypeOK
      <3>2. QED
        BY <2>4, <3>1, NoJobType DEF Submit, TypeInv, TypeOK, JobStates
    <2>5. QED
      BY <1>7, <2>1, <2>2, <2>3, <2>4 DEF JobStep
  <1>8. CASE SchedStart \/ SchedStop \/ SchedStep
    BY <1>8, SchedType
  <1>9. ASSUME NEW t \in runners, RunnerFire(t) \/ RunnerEnd(t)
        PROVE  TypeInv'
    BY <1>9 DEF RunnerFire, RunnerEnd, TypeInv, TypeOK
  <1>10. ASSUME NEW cmd \in LinkCommands, NEW d \in Devices, HotplugEvent(cmd, d)
         PROVE  TypeInv'
    BY <1>10 DEF HotplugEvent, TypeInv, TypeOK
  <1>11. CASE DaemonInstalls \/ DaemonExits \/ OrphanInstalls
    BY <1>11 DEF DaemonInstalls, DaemonExits, OrphanInstalls, TypeInv, TypeOK
  <1>12. ASSUME NEW c \in Configs, Commit(c)
         PROVE  TypeInv'
    BY <1>12 DEF Commit, TypeInv, TypeOK
  <1>13. ASSUME NEW d \in Devices, DeviceChange(d)
         PROVE  TypeInv'
    BY <1>13 DEF DeviceChange, TypeInv, TypeOK
  <1>14. CASE Tick
    BY <1>14, LifecycleAssumption DEF Tick, TypeInv, TypeOK
  <1>15. CASE UNCHANGED vars
    BY <1>15 DEF vars, TypeInv, TypeOK
  <1>16. QED
    BY <1>2, <1>3, <1>4, <1>5, <1>6, <1>7, <1>8, <1>9, <1>10, <1>11, <1>12,
       <1>13, <1>14, <1>15 DEF Next

(* Every variable has its type, whatever happens: in particular the link   *)
(* generation and the tokens stay within their bounds.                     *)
THEOREM TypeCorrect == Spec => []TypeOK
  <1>1. TypeInv => TypeOK
    BY DEF TypeInv
  <1>2. QED
    BY TypeInit, TypeStep, <1>1, PTL DEF Spec

---------------------------------------------------------------------------
(* The cases of a start.                                                   *)

LEMMA ManualCases ==
  ASSUME TypeInv, NEW cmd, ManualStart(cmd)
  PROVE  \E def \in BOOLEAN :
           /\ Submitting(cmd, def)
           /\ \/ /\ WriteFaults /\ boot' = boot /\ ~def
                 /\ Kill \/ UNCHANGED procd
              \/ boot' = Mark("manual") /\ Kill
              \/ boot' = Mark("cancel") /\ ~def /\ Kill
  <1>1. PICK ok \in Stored :
          /\ boot' = IF ok
               THEN Mark(IF uci.enabled THEN "manual" ELSE "cancel") ELSE boot
          /\ IF ok \/ cmd = "reload" THEN Kill ELSE UNCHANGED procd
          /\ Submitting(cmd, ok /\ uci.enabled /\ ConfigValid)
    BY DEF ManualStart
  <1>2. ok \/ WriteFaults
    BY LifecycleAssumption DEF Stored
  <1> DEFINE def == ok /\ uci.enabled /\ ConfigValid
  <1>3. def \in BOOLEAN
    OBVIOUS
  <1>4. /\ Submitting(cmd, def)
        /\ \/ /\ WriteFaults /\ boot' = boot /\ ~def
              /\ Kill \/ UNCHANGED procd
           \/ boot' = Mark("manual") /\ Kill
           \/ boot' = Mark("cancel") /\ ~def /\ Kill
    BY <1>1, <1>2
  <1> HIDE DEF def
  <1>5. QED
    BY <1>3, <1>4

LEMMA AutomaticCases ==
  ASSUME TypeInv, NEW cmd, AutomaticStart(cmd)
  PROVE  \E def \in BOOLEAN :
           /\ Submitting(cmd, def)
           /\ \/ /\ boot' = boot /\ ~def
                 /\ IF cmd = "link_up" THEN Kill ELSE UNCHANGED procd
                 /\ WriteFaults \/ boot.phase \in {"none", "wait", "cancel"}
              \/ /\ boot' = boot /\ Kill
                 /\ boot.phase \in {"manual", "done"}
              \/ /\ boot.phase \in {"none", "wait"}
                 /\ boot.phase = "wait" => uptime >= boot.deadline
                 /\ \E d \in Delays :
                      boot' = [phase |-> "done", token |-> 0, deadline |-> d]
                 /\ Kill
              \/ boot' = Mark("cancel") /\ ~def /\ Kill
  <1> DEFINE defers == uci.enabled /\ ShouldDefer(uci.delay)
             keeps == uci.enabled /\ boot.phase \in {"manual", "done"}
             goes(ok) == ~defers /\ (keeps \/ ok)
             done == [phase |-> "done", token |-> 0, deadline |-> uci.delay]
             def(ok) == goes(ok) /\ uci.enabled /\ ConfigValid
  <1>1. PICK ok \in Stored :
          /\ boot' = IF ~goes(ok) \/ keeps THEN boot
                     ELSE IF uci.enabled THEN done ELSE Mark("cancel")
          /\ IF goes(ok) \/ cmd = "link_up" THEN Kill ELSE UNCHANGED procd
          /\ Submitting(cmd, def(ok))
    BY DEF AutomaticStart
  <1>2. ok \/ WriteFaults
    BY LifecycleAssumption DEF Stored
  <1>3. def(ok) \in BOOLEAN
    OBVIOUS
  <1>4. defers => boot.phase \in {"none", "wait", "cancel"}
    BY DEF ShouldDefer
  <1>5. uci.enabled /\ ~defers /\ ~keeps =>
          /\ boot.phase \in {"none", "wait"}
          /\ boot.phase = "wait" => uptime >= boot.deadline
    <2>1. uptime \in Nat /\ boot.deadline \in Nat /\ boot.phase \in Phases
      BY BootTypes
    <2>2. ~(uptime < boot.deadline) => uptime >= boot.deadline
      BY <2>1
    <2>3. QED
      BY <2>1, <2>2 DEF ShouldDefer, Phases
  <1>6. uci.delay \in Delays
    BY ConditionTypes DEF ConfigType
  <1> HIDE DEF defers
  <1>7. CASE ~goes(ok)
    BY <1>1, <1>2, <1>3, <1>4, <1>7
  <1>8. CASE goes(ok) /\ keeps
    BY <1>1, <1>3, <1>8
  <1>9. CASE goes(ok) /\ ~keeps /\ uci.enabled
    BY <1>1, <1>3, <1>5, <1>6, <1>9
  <1>10. CASE goes(ok) /\ ~keeps /\ ~uci.enabled
    BY <1>1, <1>3, <1>10
  <1>11. QED
    BY <1>7, <1>8, <1>9, <1>10

LEMMA TimerCases ==
  ASSUME TypeInv, NEW t, NEW cmd, TimerStart(t, cmd)
  PROVE  \/ /\ ~BootIs(t)
            /\ UNCHANGED <<boot, procd, job, lock>>
         \/ /\ BootIs(t)
            /\ \E def \in BOOLEAN :
                 /\ Submitting(cmd, def)
                 /\ Kill \/ UNCHANGED procd
                 /\ \/ WriteFaults /\ boot' = boot /\ ~def
                    \/ /\ boot' = [boot EXCEPT !.phase = "done"]
                       /\ def => link.phase # "down"
                    \/ boot' = Mark("cancel") /\ ~def
  <1>1. CASE ~BootIs(t)
    BY <1>1 DEF TimerStart, procd
  <1>2. CASE BootIs(t)
    <2> DEFINE def(ok) == ok /\ uci.enabled /\ ~LinkIsDown /\ ConfigValid
    <2>1. PICK ok \in Stored :
            /\ boot' = CASE ~ok -> boot
                         [] ok /\ uci.enabled -> [boot EXCEPT !.phase = "done"]
                         [] ok /\ ~uci.enabled -> Mark("cancel")
            /\ Kill \/ UNCHANGED procd
            /\ Submitting(cmd, def(ok))
      BY <1>2 DEF TimerStart, ArmedTimerStart
    <2>2. ok \/ WriteFaults
      BY LifecycleAssumption DEF Stored
    <2>3. ok \in BOOLEAN /\ uci.enabled \in BOOLEAN /\ def(ok) \in BOOLEAN
      BY ConditionTypes DEF ConfigType
    <2>4. def(ok) => ok /\ uci.enabled /\ link.phase # "down"
      BY DEF LinkIsDown
    <2> HIDE DEF def
    <2>5. QED
      BY <1>2, <2>1, <2>2, <2>3, <2>4
  <1>3. QED
    BY <1>1, <1>2

---------------------------------------------------------------------------
(* The inductive invariant, one part at a time.                            *)

LEMMA LockInit == Init => LockInv
  BY DEF Init, LockInv, NoJob, NoSched, NoLostUpdate

LEMMA LockStep == TypeInv /\ LockInv /\ [Next]_vars => LockInv'
  <1> SUFFICES ASSUME TypeInv, LockInv, [Next]_vars PROVE LockInv'
    OBVIOUS
  <1> USE DEF world, procd, timers, NoLostUpdate
  <1> DEFINE Holding == {"arming", "cancelling", "cancellingAgain"}
  (* A start is submitted, and only a nested one keeps the lock.           *)
  <1>1. ASSUME NEW cmd, NEW def, Submitting(cmd, def),
               sched.pc \notin Holding, sched'.pc \notin Holding,
               lock \in {"free", "job"}, lock = "job" => cmd \in Nested
        PROVE  LockInv'
    <2>1. job' = [pc |-> "submit", cmd |-> cmd, def |-> def]
            /\ lock' = IF cmd \in Nested THEN "job" ELSE "free"
      BY <1>1 DEF Submitting
    <2>2. job'.pc = "submit" /\ job'.cmd = cmd
      BY <2>1
    <2>3. QED
      BY <1>1, <2>1, <2>2 DEF LockInv
  <1>2. Entered => lock = "free" /\ sched.pc \notin Holding /\ job.pc = "idle"
    BY DEF Entered, LockInv, NoJob
  <1>3. CASE Start \/ Reload \/ \E cmd \in {"boot", "auto"} : Boot(cmd)
    <2>1. \E cmd, def : Submitting(cmd, def)
      BY <1>3, ManualCases, AutomaticCases DEF Start, Reload, Boot
    <2>2. Entered /\ sched' = sched
      BY <1>3 DEF Start, Reload, Boot
    <2>3. QED
      BY <1>1, <1>2, <2>1, <2>2
  <1>4. ASSUME NEW t \in expired, RunnerExpired(t)
        PROVE  LockInv'
    <2>1. Entered /\ sched' = sched
      BY <1>4 DEF RunnerExpired
    <2>2. CASE \E cmd, def : Submitting(cmd, def)
      BY <1>1, <1>2, <2>1, <2>2
    <2>3. CASE UNCHANGED <<boot, job, lock>>
      BY <2>1, <2>3 DEF LockInv
    <2>4. QED
      BY <1>4, <2>2, <2>3, TimerCases DEF RunnerExpired
  <1>5. CASE SchedExpired
    <2>1. Entered /\ sched.pc = "calling" /\ sched'.pc = "called"
      BY <1>5 DEF SchedExpired, TypeInv, TypeOK, SchedStates
    <2>2. CASE \E cmd, def : Submitting(cmd, def)
      BY <1>1, <1>2, <2>1, <2>2
    <2>3. CASE UNCHANGED <<boot, job, lock>>
      BY <2>1, <2>3 DEF LockInv
    <2>4. QED
      BY <1>5, <2>2, <2>3, TimerCases DEF SchedExpired
  <1>6. ASSUME NEW d \in Devices, LinkDown(d) \/ LinkUp(d)
        PROVE  LockInv'
    <2>1. Entered /\ UNCHANGED <<sched, boot>>
      BY <1>6 DEF LinkDown, LinkUp
    <2>2. CASE Submitting("link_down", FALSE)
      BY <1>1, <1>2, <2>1, <2>2
    <2>3. CASE UNCHANGED <<job, lock>>
      BY <2>1, <2>3 DEF LockInv
    <2>4. CASE /\ job' = [pc |-> "again", cmd |-> "link_up", def |-> FALSE]
               /\ lock' = "job"
      <3>1. job'.pc = "again" /\ job'.cmd = "link_up"
        BY <2>4
      <3>2. QED
        BY <1>2, <2>1, <2>4, <3>1 DEF LockInv
    <2>5. QED
      BY <1>6, <2>2, <2>3, <2>4 DEF LinkDown, LinkUp
  <1>7. ASSUME NEW cmd \in {"stop", "restart"}, Stop(cmd)
        PROVE  LockInv'
    <2>1. Entered /\ UNCHANGED <<lock, sched>>
            /\ job'.pc = "kill" /\ job'.cmd = cmd
      BY <1>7 DEF Stop
    <2>2. QED
      BY <1>2, <2>1 DEF LockInv
  <1>8. CASE JobStep
    <2>1. CASE LinkUpStart \/ RestartStart
      <3>1. PICK cmd, def : Submitting(cmd, def) /\ cmd \in {"link_up", "restart"}
                              /\ (lock = "job" => cmd = "link_up")
        BY <2>1, ManualCases, AutomaticCases DEF LinkUpStart, RestartStart
      <3>2. sched' = sched /\ lock \in {"free", "job"}
        BY <2>1 DEF LinkUpStart, RestartStart, LockInv
      <3>3. sched.pc \notin Holding
        BY <3>2 DEF LockInv
      <3>4. QED
        BY <1>1, <3>1, <3>2, <3>3 DEF Nested, LinkCommands
    <2>2. CASE StopKill
      <3>1. job.pc = "kill" /\ job'.pc = "stopped" /\ job'.cmd = job.cmd
              /\ UNCHANGED <<lock, sched, boot>>
        BY <2>2 DEF StopKill, TypeInv, TypeOK, JobStates
      <3>2. QED
        BY <3>1 DEF LockInv
    <2>3. CASE ServiceStopped
      <3>1. job.pc = "stopped" /\ UNCHANGED <<lock, sched, boot>>
              /\ \/ job' = NoJob
                 \/ job'.pc = "again" /\ job'.cmd = "restart"
        BY <2>3 DEF ServiceStopped, TypeInv, TypeOK, JobStates
      <3>2. NoJob.pc = "idle"
        BY DEF NoJob
      <3>3. QED
        BY <3>1, <3>2 DEF LockInv
    <2>4. CASE Submit
      <3>1. job.pc = "submit" /\ job' = NoJob /\ NoJob.pc = "idle"
              /\ UNCHANGED <<sched, boot>>
              /\ lock' = IF job.cmd \in Nested THEN "free" ELSE lock
        BY <2>4 DEF Submit, NoJob
      <3>2. QED
        BY <3>1 DEF LockInv
    <2>5. QED
      BY <1>8, <2>1, <2>2, <2>3, <2>4 DEF JobStep
  <1>9. CASE SchedStart \/ SchedStop \/ SchedReturn \/ SchedSubmit \/ SchedKill
    <2>1. sched \in SchedStates
      BY DEF TypeInv, TypeOK
    <2>2. sched.pc \notin Holding
      BY <1>9 DEF SchedStart, SchedStop, SchedReturn, SchedSubmit, SchedKill
    <2>3. CASE SchedSubmit
      BY <2>3 DEF SchedSubmit, NoSched, LockInv
    <2>4. CASE SchedStart \/ SchedStop \/ SchedReturn \/ SchedKill
      <3>1. sched'.pc \in {"arm", "cancel", "submit", "cancelAgain"}
        BY <2>1, <2>4
           DEF SchedStart, SchedStop, SchedReturn, SchedKill, SchedStates
      <3>2. UNCHANGED <<lock, boot, job>>
        BY <2>4 DEF SchedStart, SchedStop, SchedReturn, SchedKill
      <3>3. QED
        BY <2>2, <3>1, <3>2 DEF LockInv
    <2>5. QED
      BY <1>9, <2>3, <2>4
  <1>10. ASSUME NEW from, NEW to \in Holding, SchedLock(from, to)
         PROVE  LockInv'
    <2>1. /\ lock = "free" /\ lock' = "sched" /\ UNCHANGED <<boot, job>>
          /\ sched'.pc = to /\ sched'.seen = boot
      BY <1>10 DEF SchedLock, TypeInv, TypeOK, SchedStates
    <2>2. QED
      BY <2>1 DEF LockInv
  <1>11. CASE \/ SchedDisabled \/ SchedArm
              \/ SchedCancel("cancelling", "kill")
              \/ SchedCancel("cancellingAgain", "idle")
    <2>1. /\ sched.pc \in Holding /\ sched'.pc \notin Holding
          /\ lock' = "free" /\ job' = job
      <3>1. \A t : SchedRelease(t) =>
              sched'.pc \in {"calling", "submit"} /\ lock' = "free"
        BY DEF SchedRelease, NoSched
      <3>2. CASE SchedDisabled
        BY <3>1, <3>2 DEF SchedDisabled
      <3>3. CASE SchedArm
        BY <3>1, <3>3 DEF SchedArm
      <3>4. CASE \/ SchedCancel("cancelling", "kill")
                 \/ SchedCancel("cancellingAgain", "idle")
        BY <3>4 DEF SchedCancel, NoSched
      <3>5. QED
        BY <1>11, <3>2, <3>3, <3>4
    <2>2. QED
      BY <2>1 DEF LockInv
  <1>12. CASE \/ \E t \in runners : RunnerFire(t) \/ RunnerEnd(t)
              \/ \E cmd \in LinkCommands, d \in Devices : HotplugEvent(cmd, d)
              \/ DaemonInstalls \/ DaemonExits \/ OrphanInstalls
              \/ \E c \in Configs : Commit(c)
              \/ \E d \in Devices : DeviceChange(d)
              \/ Tick \/ UNCHANGED vars
    <2>1. UNCHANGED <<lock, job, sched, boot>>
      BY <1>12 DEF RunnerFire, RunnerEnd, HotplugEvent, DaemonInstalls,
                   DaemonExits, OrphanInstalls, Commit, DeviceChange, Tick, vars
    <2>2. QED
      BY <2>1 DEF LockInv
  <1>13. QED
    BY <1>3, <1>4, <1>5, <1>6, <1>7, <1>8, <1>9, <1>10, <1>11, <1>12
       DEF Next, SchedStep

LEMMA AuthorityInit == Init => AuthorityInv
  BY DEF Init, AuthorityInv, NoJob

LEMMA AuthorityStep ==
  TypeInv /\ LockInv /\ AuthorityInv /\ [Next]_vars => AuthorityInv'
  <1> SUFFICES ASSUME TypeInv, LockInv, AuthorityInv, [Next]_vars
               PROVE  AuthorityInv'
    OBVIOUS
  <1> USE DEF world, procd, timers
  <1> DEFINE Given == {"manual", "done"}
  <1>1. ASSUME NEW cmd, NEW def, Submitting(cmd, def),
               def => boot'.phase \in Given,
               defined' => boot'.phase \in Given
        PROVE  AuthorityInv'
    <2>1. job'.pc = "submit" /\ job'.def = def
      BY <1>1 DEF Submitting
    <2>2. QED
      BY <1>1, <2>1 DEF AuthorityInv
  <1>2. Mark("manual").phase = "manual" /\ Mark("cancel").phase = "cancel"
    BY DEF Mark
  <1>3. job.pc # "kill" /\ job.pc # "submit" =>
          (defined => boot.phase \in Given)
    BY DEF AuthorityInv
  <1>4. ASSUME NEW cmd, ManualStart(cmd) \/ AutomaticStart(cmd),
               job.pc \notin {"kill", "submit"}
        PROVE  AuthorityInv'
    <2>1. CASE ManualStart(cmd)
      <3>1. PICK def \in BOOLEAN :
              /\ Submitting(cmd, def)
              /\ \/ boot' = boot /\ ~def /\ (Kill \/ UNCHANGED procd)
                 \/ boot' = Mark("manual") /\ Kill
                 \/ boot' = Mark("cancel") /\ ~def /\ Kill
        BY <2>1, ManualCases
      <3>2. QED
        BY <1>1, <1>2, <1>3, <1>4, <3>1 DEF Kill
    <2>2. CASE AutomaticStart(cmd)
      <3>1. PICK def \in BOOLEAN :
              /\ Submitting(cmd, def)
              /\ \/ boot' = boot /\ ~def /\ (Kill \/ UNCHANGED procd)
                 \/ boot' = boot /\ Kill /\ boot.phase \in Given
                 \/ boot'.phase = "done" /\ Kill
                 \/ boot' = Mark("cancel") /\ ~def /\ Kill
        BY <2>2, AutomaticCases
      <3>2. QED
        BY <1>1, <1>2, <1>3, <1>4, <3>1 DEF Kill
    <2>3. QED
      BY <1>4, <2>1, <2>2
  <1>5. Entered => job.pc = "idle"
    BY DEF Entered, NoJob
  <1>6. CASE Start \/ Reload \/ \E cmd \in {"boot", "auto"} : Boot(cmd)
    BY <1>4, <1>5, <1>6 DEF Start, Reload, Boot
  <1>7. CASE LinkUpStart \/ RestartStart
    BY <1>4, <1>7 DEF LinkUpStart, RestartStart
  <1>8. ASSUME NEW t, NEW cmd, Entered, TimerStart(t, cmd)
        PROVE  AuthorityInv'
    <2>1. CASE UNCHANGED <<boot, procd, job, lock>>
      BY <2>1 DEF AuthorityInv
    <2>2. CASE BootIs(t) /\ \E def \in BOOLEAN :
                 /\ Submitting(cmd, def)
                 /\ Kill \/ UNCHANGED procd
                 /\ \/ boot' = boot /\ ~def
                    \/ boot' = [boot EXCEPT !.phase = "done"]
                    \/ boot' = Mark("cancel") /\ ~def
      <3>1. boot.phase = "wait" /\ ~defined
        BY <1>3, <1>5, <1>8, <2>2 DEF BootIs, Waiting
      <3>2. ~defined'
        BY <2>2, <3>1 DEF Kill
      <3>3. [boot EXCEPT !.phase = "done"].phase = "done"
        BY DEF TypeInv, TypeOK, BootStates
      <3>4. QED
        BY <1>1, <2>2, <3>2, <3>3
    <2>3. QED
      BY <1>8, <2>1, <2>2, TimerCases
  <1>9. CASE SchedExpired \/ \E t \in expired : RunnerExpired(t)
    BY <1>8, <1>9 DEF SchedExpired, RunnerExpired
  <1>10. ASSUME NEW d \in Devices, LinkDown(d) \/ LinkUp(d)
         PROVE  AuthorityInv'
    <2>1. CASE UNCHANGED <<procd, job, boot>>
      BY <2>1 DEF AuthorityInv
    <2>2. CASE /\ Kill /\ UNCHANGED boot
               /\ \/ Submitting("link_down", FALSE)
                  \/ job' = [pc |-> "again", cmd |-> "link_up", def |-> FALSE]
      <3>1. ~defined' /\ ~job'.def
        BY <2>2 DEF Kill, Submitting
      <3>2. QED
        BY <3>1 DEF AuthorityInv
    <2>3. QED
      BY <1>10, <2>1, <2>2 DEF LinkDown, LinkUp
  <1>11. ASSUME NEW cmd \in {"stop", "restart"}, Stop(cmd)
         PROVE  AuthorityInv'
    <2>1. /\ job'.pc = "kill" /\ defined' = defined
          /\ boot' = Mark("cancel") \/ boot' = boot
      BY <1>11 DEF Stop
    <2>2. QED
      BY <1>2, <1>3, <1>5, <1>11, <2>1 DEF Stop, AuthorityInv
  <1>12. CASE StopKill \/ ServiceStopped
    <2>1. job'.pc \in {"stopped", "again", "idle"} /\ boot' = boot
      BY <1>12 DEF StopKill, ServiceStopped, TypeInv, TypeOK, JobStates, NoJob
    <2>2. defined' => defined /\ job.pc = "stopped"
      BY <1>12 DEF StopKill, ServiceStopped
    <2>3. QED
      BY <2>1, <2>2 DEF AuthorityInv
  <1>13. CASE Submit
    BY <1>13 DEF Submit, AuthorityInv, NoJob
  (* A scheduler that writes the boot state has seen that nothing was      *)
  (* started: its lock kept every start away since.                        *)
  <1>14. ASSUME UNCHANGED <<procd, job>>, sched.seen = boot,
                boot.phase \in {"none", "wait"}
         PROVE  AuthorityInv'
    BY <1>14 DEF AuthorityInv
  <1>15. CASE \/ SchedDisabled \/ SchedArm
              \/ SchedCancel("cancelling", "kill")
              \/ SchedCancel("cancellingAgain", "idle")
    <2>1. UNCHANGED <<procd, job>> /\ sched.seen = boot
      BY <1>15 DEF SchedDisabled, SchedArm, SchedCancel, LockInv, NoLostUpdate
    <2>2. boot' = boot \/ boot.phase \in {"none", "wait"}
      BY <1>15, <2>1 DEF SchedDisabled, SchedArm, SchedCancel
    <2>3. QED
      BY <1>14, <2>1, <2>2 DEF AuthorityInv
  <1>16. CASE \/ SchedStart \/ SchedStop \/ SchedReturn \/ SchedSubmit
              \/ SchedKill
              \/ \E from, to : SchedLock(from, to)
              \/ \E t \in runners : RunnerFire(t) \/ RunnerEnd(t)
              \/ \E cmd \in LinkCommands, d \in Devices : HotplugEvent(cmd, d)
              \/ DaemonInstalls \/ DaemonExits \/ OrphanInstalls
              \/ \E c \in Configs : Commit(c)
              \/ \E d \in Devices : DeviceChange(d)
              \/ Tick \/ UNCHANGED vars
    <2>1. UNCHANGED <<job, boot, defined>>
      BY <1>16 DEF SchedStart, SchedStop, SchedReturn, SchedSubmit, SchedKill,
                   SchedLock, RunnerFire, RunnerEnd, HotplugEvent,
                   DaemonInstalls, DaemonExits, OrphanInstalls, Commit, DeviceChange, Tick, vars
    <2>2. QED
      BY <2>1 DEF AuthorityInv
  <1>17. QED
    BY <1>6, <1>7, <1>9, <1>10, <1>11, <1>12, <1>13, <1>15, <1>16
       DEF Next, JobStep, SchedStep

LEMMA CommandInit == Init => CommandInv
  BY DEF Init, CommandInv, NoJob

LEMMA CommandStep ==
  /\ TypeInv /\ LockInv /\ AuthorityInv /\ CommandInv
  /\ [Next]_vars
  => CommandInv'
  <1> SUFFICES ASSUME TypeInv, LockInv, AuthorityInv, CommandInv, [Next]_vars
               PROVE  CommandInv'
    OBVIOUS
  <1> USE DEF world, procd, timers
  <1>1. Entered => job.pc = "idle"
    BY DEF Entered, NoJob
  <1>2. ASSUME NEW cmd \in {"start", "reload", "boot", "auto", "restart"},
               ManualStart(cmd) \/ AutomaticStart(cmd)
        PROVE  CommandInv'
    <2>1. job'.pc = "submit" /\ job'.cmd = cmd
      BY <1>2, ManualCases, AutomaticCases DEF Submitting
    <2>2. QED
      BY <2>1 DEF CommandInv, TimerCommands, LinkCommands
  <1>3. CASE \/ Start \/ Reload \/ RestartStart
             \/ \E cmd \in {"boot", "auto"} : Boot(cmd)
    BY <1>2, <1>3 DEF Start, Reload, RestartStart, Boot
  <1>4. CASE LinkUpStart
    <2>1. /\ link.phase # "down" /\ link' = link
          /\ job'.pc = "submit" /\ job'.cmd = "link_up"
      BY <1>4, AutomaticCases DEF LinkUpStart, CommandInv, Submitting
    <2>2. QED
      BY <2>1 DEF CommandInv, TimerCommands
  <1>5. ASSUME NEW t, NEW cmd, Entered, TimerStart(t, cmd), link' = link
        PROVE  CommandInv'
    <2>1. CASE UNCHANGED <<boot, procd, job, lock>>
      BY <1>5, <2>1 DEF CommandInv
    <2>2. CASE BootIs(t) /\ \E def \in BOOLEAN :
                 /\ Submitting(cmd, def)
                 /\ Kill \/ UNCHANGED procd
                 /\ def => link.phase # "down"
      <3>1. ~defined'
        BY <1>1, <1>5, <2>2 DEF BootIs, Waiting, AuthorityInv, Kill
      <3>2. job'.pc = "submit" /\ (job'.def => link.phase # "down")
        BY <2>2 DEF Submitting
      <3>3. QED
        BY <1>5, <3>1, <3>2 DEF CommandInv
    <2>3. QED
      BY <1>5, <2>1, <2>2, TimerCases
  <1>6. CASE SchedExpired \/ \E t \in expired : RunnerExpired(t)
    BY <1>5, <1>6 DEF SchedExpired, RunnerExpired
  <1>7. ASSUME NEW d \in Devices, LinkDown(d)
        PROVE  CommandInv'
    <2>1. CASE UNCHANGED job
      BY <1>1, <1>7, <2>1 DEF LinkDown, CommandInv
    <2>2. CASE Kill /\ Submitting("link_down", FALSE)
      BY <2>2 DEF Kill, Submitting, CommandInv, TimerCommands
    <2>3. QED
      BY <1>7, <2>1, <2>2 DEF LinkDown
  <1>8. ASSUME NEW d \in Devices, LinkUp(d)
        PROVE  CommandInv'
    <2>1. CASE UNCHANGED job
      BY <1>1, <1>8, <2>1 DEF LinkUp, CommandInv
    <2>2. CASE /\ job' = [pc |-> "again", cmd |-> "link_up", def |-> FALSE]
               /\ link' = NextLink("up")
      BY <2>2 DEF NextLink, CommandInv
    <2>3. QED
      BY <1>8, <2>1, <2>2 DEF LinkUp
  <1>9. ASSUME NEW cmd \in {"stop", "restart"}, Stop(cmd)
        PROVE  CommandInv'
    BY <1>9 DEF Stop, CommandInv
  <1>10. CASE StopKill \/ ServiceStopped
    <2>1. /\ job'.pc # "submit"
          /\ job'.pc = "again" => job'.cmd = "restart"
      BY <1>10 DEF StopKill, ServiceStopped, TypeInv, TypeOK, JobStates, NoJob
    <2>2. QED
      BY <2>1 DEF CommandInv
  <1>11. CASE Submit
    BY <1>11 DEF Submit, CommandInv, NoJob
  <1>12. CASE \/ SchedStart \/ SchedStop \/ SchedReturn \/ SchedSubmit
              \/ SchedKill \/ SchedDisabled \/ SchedArm
              \/ \E from, to : SchedLock(from, to) \/ SchedCancel(from, to)
              \/ \E t \in runners : RunnerFire(t) \/ RunnerEnd(t)
              \/ \E cmd \in LinkCommands, d \in Devices : HotplugEvent(cmd, d)
              \/ DaemonInstalls \/ DaemonExits \/ OrphanInstalls
              \/ \E c \in Configs : Commit(c)
              \/ \E d \in Devices : DeviceChange(d)
              \/ Tick \/ UNCHANGED vars
    <2>1. UNCHANGED <<job, link, defined>>
      BY <1>12 DEF SchedStart, SchedStop, SchedReturn, SchedSubmit, SchedKill,
                   SchedDisabled, SchedArm, SchedLock, SchedCancel, RunnerFire,
                   RunnerEnd, HotplugEvent, DaemonInstalls, DaemonExits, OrphanInstalls, Commit,
                   DeviceChange, Tick, vars
    <2>2. QED
      BY <2>1 DEF CommandInv
  <1>13. QED
    BY <1>3, <1>4, <1>6, <1>7, <1>8, <1>9, <1>10, <1>11, <1>12
       DEF Next, JobStep, SchedStep

LEMMA TimerInit == Init => TimerInv
  BY DEF Init, TimerInv, NoSched

LEMMA TimerStep == TypeInv /\ TimerInv /\ [Next]_vars => TimerInv'
  <1> SUFFICES ASSUME TypeInv, TimerInv, [Next]_vars PROVE TimerInv'
    OBVIOUS
  <1> USE DEF world, procd, timers
  <1>1. sched \in SchedStates /\ uptime \in Nat
    BY BootTypes DEF TypeInv, TypeOK
  <1>2. ASSUME UNCHANGED <<uptime, sched>>, expired' \subseteq expired
        PROVE  TimerInv'
    BY <1>2 DEF TimerInv
  <1>3. ASSUME UNCHANGED <<uptime, expired>>, sched'.at \in {0, sched.at, uptime},
               sched'.pc # "calling"
        PROVE  TimerInv'
    BY <1>1, <1>3 DEF TimerInv
  <1>4. \A d \in Delays \union {0} : d \in Nat
    BY LifecycleAssumption
  <1>5. CASE SchedDisabled \/ SchedArm
    <2>1. /\ sched'.at = 0
          /\ sched'.pc = "calling" => sched.at >= sched'.timer.deadline
      <3>1. \A t : SchedRelease(t) =>
              /\ sched'.at = 0 /\ sched'.timer = t
              /\ sched'.pc = "calling" => sched.at >= t.deadline
        BY DEF SchedRelease, NoSched
      <3>2. \E t : SchedRelease(t)
        BY <1>5 DEF SchedDisabled, SchedArm
      <3>3. QED
        BY <3>1, <3>2
    <2>2. sched'.timer.deadline \in Nat
      <3>1. sched' \in SchedStates
        BY <1>5, SchedType DEF SchedStep, TypeInv, TypeOK
      <3>2. sched'.timer.deadline \in Delays \union {0}
        BY <3>1 DEF SchedStates, Timers, NoTimer
      <3>3. QED
        BY <1>4, <3>2
    <2>3. sched.at \in Nat /\ sched.at <= uptime
      <3>1. sched.at \in 0 .. LastUptime
        BY <1>1 DEF SchedStates
      <3>2. QED
        BY <3>1, LifecycleAssumption DEF TimerInv
    <2>4. uptime' = uptime /\ expired' = expired
      BY <1>5 DEF SchedDisabled, SchedArm
    <2>5. QED
      BY <1>1, <2>1, <2>2, <2>3, <2>4 DEF TimerInv
  <1>6. CASE SchedStart \/ SchedStop
    <2>1. /\ sched'.pc # "calling" /\ sched'.at \in {sched.at, uptime}
          /\ UNCHANGED <<uptime, expired>>
      BY <1>1, <1>6 DEF SchedStart, SchedStop, SchedStates
    <2>2. QED
      BY <1>3, <2>1
  <1>7. CASE \E from, to \in {"arm", "arming", "cancel", "cancelling", "kill",
                              "cancelAgain", "cancellingAgain", "idle"} :
               SchedLock(from, to) \/ SchedCancel(from, to)
    <2>1. /\ sched'.pc # "calling" /\ sched'.at \in {0, sched.at}
          /\ UNCHANGED <<uptime, expired>>
      BY <1>1, <1>7 DEF SchedLock, SchedCancel, NoSched, SchedStates
    <2>2. QED
      BY <1>3, <2>1
  <1>8. CASE SchedExpired \/ SchedReturn \/ SchedSubmit \/ SchedKill
    <2>1. CASE SchedSubmit
      BY <1>3, <2>1 DEF SchedSubmit, NoSched
    <2>2. CASE SchedExpired
      BY <1>1, <1>3, <2>2 DEF SchedExpired, SchedStates
    <2>3. CASE SchedReturn \/ SchedKill
      BY <1>1, <1>3, <2>3 DEF SchedReturn, SchedKill, SchedStates
    <2>4. QED
      BY <1>8, <2>1, <2>2, <2>3
  <1>9. ASSUME NEW t \in runners, RunnerFire(t) \/ RunnerEnd(t)
        PROVE  TimerInv'
    <2>1. CASE RunnerEnd(t)
      BY <1>2, <2>1 DEF RunnerEnd
    <2>2. CASE RunnerFire(t)
      <3>1. t.deadline \in Nat
        BY <1>4 DEF TypeInv, TypeOK, Timers
      <3>2. t.deadline <= uptime
        BY <1>1, <2>2, <3>1 DEF RunnerFire
      <3>3. QED
        BY <2>2, <3>2 DEF RunnerFire, TimerInv
    <2>3. QED
      BY <1>9, <2>1, <2>2
  <1>10. CASE Tick
    <2>1. \A t \in expired : t.deadline \in Nat
      BY <1>4 DEF TypeInv, TypeOK, Timers
    <2>2. sched.timer.deadline \in Delays \union {0}
      BY <1>1 DEF SchedStates, Timers, NoTimer
    <2>3. sched.at \in Nat
      BY <1>1, LifecycleAssumption DEF SchedStates
    <2>4. uptime' = uptime + 1 /\ UNCHANGED <<expired, sched>>
      BY <1>10 DEF Tick
    <2>5. QED
      BY <1>1, <1>4, <2>1, <2>2, <2>3, <2>4 DEF TimerInv
  <1>11. CASE \/ Start \/ Reload \/ \E cmd \in {"boot", "auto"} : Boot(cmd)
              \/ \E t \in expired : RunnerExpired(t)
              \/ \E d \in Devices : LinkDown(d) \/ LinkUp(d)
              \/ \E cmd \in {"stop", "restart"} : Stop(cmd)
              \/ JobStep
              \/ \E cmd \in LinkCommands, d \in Devices : HotplugEvent(cmd, d)
              \/ DaemonInstalls \/ DaemonExits \/ OrphanInstalls
              \/ \E c \in Configs : Commit(c)
              \/ \E d \in Devices : DeviceChange(d)
              \/ UNCHANGED vars
    <2>1. UNCHANGED <<uptime, sched>> /\ expired' \subseteq expired
      BY <1>11 DEF Start, Reload, Boot, RunnerExpired, LinkDown, LinkUp, Stop,
                   JobStep, LinkUpStart, StopKill, ServiceStopped, RestartStart,
                   Submit, HotplugEvent, DaemonInstalls, DaemonExits, OrphanInstalls, Commit,
                   DeviceChange, vars
    <2>2. QED
      BY <1>2, <2>1
  <1>12. QED
    BY <1>5, <1>6, <1>7, <1>8, <1>9, <1>10, <1>11 DEF Next, SchedStep

LEMMA IInvInit == Init => IInv
  BY TypeInit, LockInit, AuthorityInit, CommandInit, TimerInit DEF IInv

LEMMA IInvStep == IInv /\ [Next]_vars => IInv'
  BY TypeStep, LockStep, AuthorityStep, CommandStep, TimerStep DEF IInv

LEMMA Inductive == Spec => []IInv
  BY IInvInit, IInvStep, PTL DEF Spec

(* No start, stop, event or timer comes between what the scheduler reads   *)
(* of the boot state and what it writes, even where writes fail.           *)
THEOREM NothingLost == Spec => []NoLostUpdate
  <1>1. IInv => NoLostUpdate
    BY DEF IInv, LockInv
  <1>2. QED
    BY Inductive, <1>1, PTL

(* procd has no instance without the authority to run one, even where      *)
(* writes fail.                                                            *)
THEOREM NoUnauthorisedInstance == Spec => []RunsUnderAuthority
  <1>1. IInv => RunsUnderAuthority
    BY DEF IInv, AuthorityInv, RunsUnderAuthority
  <1>2. QED
    BY Inductive, <1>1, PTL

---------------------------------------------------------------------------
(* What a step may not do.                                                 *)

(* Whether procd has an instance is changed by these steps only.           *)
LEMMA DefinedChanges ==
  ASSUME IInv, Next, defined' # defined
  PROVE  \/ \E cmd \in {"start", "reload", "boot", "auto"} :
              Entered /\ (ManualStart(cmd) \/ AutomaticStart(cmd))
         \/ LinkUpStart \/ RestartStart
         \/ \E t, cmd : Entered /\ TimerStart(t, cmd)
         \/ Entered /\ Kill /\ Submitting("link_down", FALSE)
         \/ /\ Entered /\ Kill
            /\ job' = [pc |-> "again", cmd |-> "link_up", def |-> FALSE]
         \/ StopKill
         \/ Submit
  <1> USE DEF world, procd, timers
  <1>1. CASE \/ \E d \in Devices : LinkDown(d) \/ LinkUp(d)
    BY <1>1 DEF LinkDown, LinkUp
  <1>2. CASE \/ Start \/ Reload \/ \E cmd \in {"boot", "auto"} : Boot(cmd)
             \/ SchedExpired \/ \E t \in expired : RunnerExpired(t)
    BY <1>2 DEF Start, Reload, Boot, SchedExpired, RunnerExpired
  <1>3. CASE JobStep
    <2>1. ~ServiceStopped
      BY DEF ServiceStopped
    <2>2. QED
      BY <1>3, <2>1 DEF JobStep
  <1>4. CASE \/ \E cmd \in {"stop", "restart"} : Stop(cmd)
             \/ SchedStart \/ SchedStop \/ SchedStep
             \/ \E t \in runners : RunnerFire(t) \/ RunnerEnd(t)
             \/ \E cmd \in LinkCommands, d \in Devices : HotplugEvent(cmd, d)
             \/ DaemonInstalls \/ DaemonExits \/ OrphanInstalls
             \/ \E c \in Configs : Commit(c)
             \/ \E d \in Devices : DeviceChange(d)
             \/ Tick
    BY <1>4 DEF Stop, SchedStart, SchedStop, SchedStep, SchedLock, SchedDisabled,
                SchedArm, SchedReturn, SchedSubmit, SchedCancel, SchedKill,
                RunnerFire, RunnerEnd, HotplugEvent, DaemonInstalls,
                DaemonExits, OrphanInstalls, Commit, DeviceChange, Tick
  <1>5. QED
    BY <1>1, <1>2, <1>3, <1>4 DEF Next

LEMMA TimerStepStopsNothing ==
  IInv /\ Next /\ defined /\ ~defined' =>
    job.cmd \notin TimerCommands /\ job'.cmd \notin TimerCommands
  <1> SUFFICES ASSUME IInv, Next, defined, ~defined'
               PROVE  job.cmd \notin TimerCommands /\ job'.cmd \notin TimerCommands
    OBVIOUS
  <1> USE DEF TimerCommands, procd
  <1>1. TypeInv /\ LockInv /\ AuthorityInv /\ CommandInv
    BY DEF IInv
  <1>2. Entered => job.cmd = "none"
    BY DEF Entered, NoJob
  <1>3. ASSUME NEW cmd, ManualStart(cmd) \/ AutomaticStart(cmd)
        PROVE  job'.cmd = cmd
    <2>1. \E def \in BOOLEAN : Submitting(cmd, def)
      <3>1. CASE ManualStart(cmd)
        BY <1>1, <3>1, ManualCases
      <3>2. CASE AutomaticStart(cmd)
        BY <1>1, <3>2, AutomaticCases
      <3>3. QED
        BY <1>3, <3>1, <3>2
    <2>2. QED
      BY <2>1 DEF Submitting
  <1>4. CASE \E cmd \in {"start", "reload", "boot", "auto"} :
               Entered /\ (ManualStart(cmd) \/ AutomaticStart(cmd))
    BY <1>2, <1>3, <1>4
  <1>5. CASE LinkUpStart \/ RestartStart
    BY <1>3, <1>5 DEF LinkUpStart, RestartStart
  <1>6. ASSUME NEW t, NEW cmd, Entered, TimerStart(t, cmd)
        PROVE  FALSE
    <2>1. BootIs(t) => ~defined
      BY <1>1, <1>6 DEF Entered, NoJob, BootIs, Waiting, AuthorityInv
    <2>2. QED
      BY <1>1, <1>6, <2>1, TimerCases
  <1>7. CASE Entered /\ Kill /\ Submitting("link_down", FALSE)
    BY <1>2, <1>7 DEF Submitting
  <1>8. CASE /\ Entered
             /\ job' = [pc |-> "again", cmd |-> "link_up", def |-> FALSE]
    BY <1>2, <1>8
  <1>9. CASE StopKill
    BY <1>1, <1>9 DEF StopKill, LockInv, TypeInv, TypeOK, JobStates
  <1>10. CASE Submit
    BY <1>1, <1>10 DEF Submit, CommandInv, NoJob
  <1>11. QED
    BY <1>4, <1>5, <1>6, <1>7, <1>8, <1>9, <1>10, DefinedChanges

(* No timer, late or in time, ends an instance.                            *)
THEOREM TimersStopNothing == Spec => TimerStopsNothing
  <1>1. IInv /\ [Next]_vars =>
          [defined /\ ~defined' => job.cmd \notin TimerCommands
                                   /\ job'.cmd \notin TimerCommands]_vars
    BY TimerStepStopsNothing
  <1>2. QED
    BY Inductive, <1>1, PTL DEF Spec, TimerStopsNothing

LEMMA TimerStepNotOnDownLink ==
  IInv /\ Next /\ ~defined /\ defined' /\ link.phase = "down" =>
    job.cmd \notin TimerCommands \union LinkCommands
  <1> SUFFICES ASSUME IInv, Next, ~defined, defined', link.phase = "down"
               PROVE  job.cmd \notin TimerCommands \union LinkCommands
    OBVIOUS
  <1>1. TypeInv /\ LockInv /\ AuthorityInv /\ CommandInv
    BY DEF IInv
  <1>2. Entered => job.cmd = "none"
    BY DEF Entered, NoJob
  <1>3. CASE Entered
    BY <1>2, <1>3 DEF TimerCommands, LinkCommands
  <1>4. CASE LinkUpStart \/ RestartStart
    <2>1. \E cmd : ManualStart(cmd) \/ AutomaticStart(cmd)
      BY <1>4 DEF LinkUpStart, RestartStart
    <2>2. QED
      BY <1>1, <2>1, ManualCases, AutomaticCases DEF Kill, procd
  <1>5. CASE StopKill
    BY <1>5 DEF StopKill
  <1>6. CASE Submit
    BY <1>1, <1>6 DEF Submit, CommandInv
  <1>7. QED
    BY <1>3, <1>4, <1>5, <1>6, DefinedChanges

(* Once a link is recorded down, no timer and no command of the hotplug    *)
(* script starts the service before the link is recorded up again.         *)
THEOREM NoTimerStartWhileDown == Spec => NoTimerStartOnDownLink
  <1>1. IInv /\ [Next]_vars =>
          [~defined /\ defined' /\ link.phase = "down" =>
             job.cmd \notin TimerCommands \union LinkCommands]_vars
    BY TimerStepNotOnDownLink
  <1>2. QED
    BY Inductive, <1>1, PTL DEF Spec, NoTimerStartOnDownLink

---------------------------------------------------------------------------
(* Every step is a step of StartAuthority, or changes nothing it sees.     *)

LEMMA AuthorityInitially == Init => Authority!Init
  BY DEF Init, NoBoot, Authority!Init

LEMMA Refines ==
  ASSUME IInv, [Next]_vars
  PROVE  [Authority!Next]_(Authority!vars)
  <1> USE DEF procd, world, timers, Authority!vars
  <1>1. TypeInv /\ LockInv /\ AuthorityInv /\ TimerInv /\ TypeInv'
    BY TypeStep DEF IInv
  <1>2. boot'.deadline \in Delays \union {0}
    BY <1>1 DEF TypeInv, TypeOK, BootStates
  <1>3. /\ Mark("manual").phase = "manual" /\ Mark("cancel").phase = "cancel"
        /\ \A t : Waiting(t).phase = "wait"
    BY DEF Mark, Waiting
  <1> DEFINE Same == UNCHANGED <<boot, uptime, defined>>
  <1>4. Same => UNCHANGED Authority!vars
    OBVIOUS
  <1>5. UNCHANGED <<boot, uptime>> /\ defined' = FALSE => Authority!Halt
    BY DEF Authority!Halt
  <1>6. UNCHANGED uptime /\ boot'.phase = "cancel" /\ defined' \in {defined, FALSE}
          => Authority!Cancel
    BY <1>2 DEF Authority!Cancel
  <1>7. UNCHANGED uptime /\ boot'.phase = "manual" /\ defined' = FALSE
          => Authority!Command
    BY <1>2 DEF Authority!Command
  <1>8. /\ boot.phase \in {"none", "wait"}
        /\ boot.phase = "wait" => uptime >= boot.deadline
        /\ boot'.phase = "done" /\ UNCHANGED <<uptime, defined>>
        => Authority!Open
    BY <1>2 DEF Authority!Open
  <1>9. /\ boot.phase \in {"none", "wait"} /\ boot'.phase = "wait" /\ ~defined
        /\ UNCHANGED <<uptime, defined>>
        => Authority!Arm
    BY <1>2 DEF Authority!Arm
  <1>10. job.pc # "kill" /\ boot.phase \in {"none", "wait"} => ~defined
    BY <1>1 DEF AuthorityInv
  <1>11. Entered => job.pc # "kill"
    BY DEF Entered, NoJob
  <1> HIDE DEF Same
  <1>12. ASSUME NEW cmd, ManualStart(cmd), uptime' = uptime
         PROVE  Authority!Next \/ Same
    <2>1. \/ boot' = boot /\ (Kill \/ UNCHANGED procd)
          \/ boot' = Mark("manual") /\ Kill
          \/ boot' = Mark("cancel") /\ Kill
      BY <1>1, <1>12, ManualCases
    <2>2. QED
      BY <1>3, <1>5, <1>6, <1>7, <1>12, <2>1 DEF Kill, Same, Authority!Next
  <1>13. ASSUME NEW cmd, AutomaticStart(cmd), uptime' = uptime, job.pc # "kill"
         PROVE  Authority!Next \/ Same
    <2>1. \/ boot' = boot /\ (Kill \/ UNCHANGED procd)
          \/ /\ boot.phase \in {"none", "wait"}
             /\ boot.phase = "wait" => uptime >= boot.deadline
             /\ boot'.phase = "done" /\ Kill
          \/ boot' = Mark("cancel") /\ Kill
      BY <1>1, <1>13, AutomaticCases
    <2>2. defined \in BOOLEAN
      BY <1>1 DEF TypeInv, TypeOK
    <2>3. CASE boot' = boot /\ (Kill \/ UNCHANGED procd)
      BY <1>5, <1>13, <2>3 DEF Kill, Same, Authority!Next
    <2>4. CASE /\ boot.phase \in {"none", "wait"}
               /\ boot.phase = "wait" => uptime >= boot.deadline
               /\ boot'.phase = "done" /\ Kill
      <3>1. defined' = defined
        BY <1>10, <1>13, <2>2, <2>4 DEF Kill
      <3>2. QED
        BY <1>8, <1>13, <2>4, <3>1 DEF Authority!Next
    <2>5. CASE boot' = Mark("cancel") /\ Kill
      BY <1>3, <1>6, <1>13, <2>5 DEF Kill, Authority!Next
    <2>6. QED
      BY <2>1, <2>3, <2>4, <2>5
  <1>14. CASE Start \/ Reload \/ RestartStart
    BY <1>12, <1>14, <1>4 DEF Start, Reload, RestartStart
  <1>15. CASE LinkUpStart \/ \E cmd \in {"boot", "auto"} : Boot(cmd)
    BY <1>13, <1>11, <1>15, <1>4 DEF LinkUpStart, Boot
  <1>16. ASSUME NEW t \in Timers \union {NoTimer}, NEW cmd, Entered,
                TimerStart(t, cmd), uptime' = uptime, t.deadline <= uptime
         PROVE  Authority!Next \/ Same
    <2>1. CASE UNCHANGED <<boot, procd, job, lock>>
      BY <1>16, <2>1 DEF Same
    <2>2. CASE /\ BootIs(t)
               /\ Kill \/ UNCHANGED procd
               /\ \/ boot' = boot
                  \/ boot' = [boot EXCEPT !.phase = "done"]
                  \/ boot' = Mark("cancel")
      <3>1. boot.phase = "wait" /\ boot.deadline = t.deadline
        BY <2>2 DEF BootIs, Waiting
      <3>2. defined' = defined
        BY <1>1, <1>10, <1>11, <1>16, <2>2, <3>1 DEF Kill, TypeInv, TypeOK
      <3>3. uptime >= boot.deadline
        BY <1>1, <1>16, <3>1, BootTypes
      <3>4. [boot EXCEPT !.phase = "done"].phase = "done"
        BY <1>1 DEF TypeInv, TypeOK, BootStates
      <3>5. QED
        BY <1>3, <1>6, <1>8, <1>16, <2>2, <3>1, <3>2, <3>3, <3>4
           DEF Same, Authority!Next
    <2>3. QED
      BY <1>1, <1>16, <2>1, <2>2, TimerCases
  <1>17. CASE SchedExpired \/ \E t \in expired : RunnerExpired(t)
    <2>1. \A t \in expired : t \in Timers /\ t.deadline <= uptime
      BY <1>1 DEF TypeInv, TypeOK, TimerInv
    <2>2. SchedExpired => /\ sched.timer \in Timers \union {NoTimer}
                          /\ sched.timer.deadline <= uptime
      BY <1>1 DEF SchedExpired, TypeInv, TypeOK, SchedStates, TimerInv
    <2>3. QED
      BY <1>4, <1>16, <1>17, <2>1, <2>2 DEF SchedExpired, RunnerExpired
  <1>18. CASE StopKill \/ \E d \in Devices : LinkDown(d) \/ LinkUp(d)
    <2>1. UNCHANGED <<boot, uptime>> /\ (defined' = FALSE \/ defined' = defined)
      BY <1>18 DEF StopKill, LinkDown, LinkUp, Kill
    <2>2. QED
      BY <1>4, <1>5, <2>1 DEF Same, Authority!Next
  <1>19. CASE \E cmd \in {"stop", "restart"} : Stop(cmd)
    <2>1. /\ UNCHANGED <<uptime, defined>>
          /\ boot' = boot \/ boot' = Mark("cancel")
      BY <1>19 DEF Stop
    <2>2. QED
      BY <1>3, <1>4, <1>6, <2>1 DEF Same, Authority!Next
  <1>20. CASE Submit
    <2>1. UNCHANGED <<boot, uptime>> /\ defined' = job.def
            /\ job.def \in BOOLEAN
      BY <1>1, <1>20 DEF Submit, TypeInv, TypeOK, JobStates
    <2>2. CASE job.def
      BY <1>1, <1>20, <2>1, <2>2
         DEF Submit, AuthorityInv, Authority!Next, Authority!Launch
    <2>3. CASE ~job.def
      BY <1>5, <2>1, <2>3 DEF Authority!Next
    <2>4. QED
      BY <2>2, <2>3
  <1>21. CASE \/ SchedDisabled \/ SchedArm
              \/ SchedCancel("cancelling", "kill")
              \/ SchedCancel("cancellingAgain", "idle")
    <2>1. sched.seen = boot /\ lock = "sched"
      BY <1>1, <1>21
         DEF SchedDisabled, SchedArm, SchedCancel, LockInv, NoLostUpdate
    <2>2. UNCHANGED <<uptime, defined>>
      BY <1>21 DEF SchedDisabled, SchedArm, SchedCancel
    <2>3. \/ boot' = boot
          \/ boot' = Mark("cancel")
          \/ /\ boot.phase \in {"none", "wait"}
             /\ \E t : boot' = Waiting(t)
      BY <1>21, <2>1 DEF SchedDisabled, SchedArm, SchedCancel
    <2>4. boot.phase \in {"none", "wait"} => ~defined
      BY <1>1 DEF AuthorityInv
    <2>5. QED
      BY <1>3, <1>4, <1>6, <1>9, <2>2, <2>3, <2>4 DEF Same, Authority!Next
  <1>22. CASE Tick
    BY <1>1, <1>22, BootTypes DEF Tick, Authority!Next, Authority!Tick
  <1>23. CASE \/ ServiceStopped \/ SchedStart \/ SchedStop \/ SchedReturn
              \/ SchedSubmit \/ SchedKill
              \/ \E from, to : SchedLock(from, to)
              \/ \E t \in runners : RunnerFire(t) \/ RunnerEnd(t)
              \/ \E cmd \in LinkCommands, d \in Devices : HotplugEvent(cmd, d)
              \/ DaemonInstalls \/ DaemonExits \/ OrphanInstalls
              \/ \E c \in Configs : Commit(c)
              \/ \E d \in Devices : DeviceChange(d)
              \/ UNCHANGED vars
    <2>1. Same
      BY <1>23 DEF ServiceStopped, SchedStart, SchedStop, SchedReturn,
                   SchedSubmit, SchedKill, SchedLock, RunnerFire, RunnerEnd,
                   HotplugEvent, DaemonInstalls, DaemonExits, OrphanInstalls, Commit,
                   DeviceChange, vars, Same
    <2>2. QED
      BY <1>4, <2>1
  <1>24. QED
    BY <1>14, <1>15, <1>17, <1>18, <1>19, <1>20, <1>21, <1>22, <1>23
       DEF Next, JobStep, SchedStep

(* The locks, the tokens and the checks together keep the promise of       *)
(* StartAuthority, even where writes fail.                                 *)
THEOREM KeepsAuthority == Spec => AuthorityKept
  <1>1. IInv /\ [Next]_vars => [Authority!Next]_(Authority!vars)
    BY Refines
  <1>2. QED
    BY AuthorityInitially, Inductive, <1>1, PTL
       DEF Spec, AuthorityKept, Authority!Spec

---------------------------------------------------------------------------
(* Where no write of a state file fails.                                   *)

LEMMA RulesInit == Init => RulesInv
  BY DEF Init, RulesInv, NoJob

LEMMA RulesStep ==
  ~WriteFaults /\ ~Orphans /\ IInv /\ RulesInv /\ [Next]_vars => RulesInv'
  <1> SUFFICES ASSUME ~WriteFaults, ~Orphans, IInv, RulesInv, [Next]_vars
               PROVE  RulesInv'
    OBVIOUS
  <1> USE DEF procd, world, timers
  <1>1. TypeInv /\ AuthorityInv
    BY DEF IInv
  <1>2. Entered => job.pc = "idle"
    BY DEF Entered, NoJob
  (* An invocation that finds a service without authority finds no table.  *)
  <1>3. Entered /\ boot.phase \in {"none", "wait", "cancel"} => ~defined /\ ~rules
    BY <1>1, <1>2 DEF AuthorityInv, RulesInv
  <1>4. ASSUME ~defined', ~rules', ~orphan' PROVE RulesInv'
    BY <1>4 DEF RulesInv
  <1>0. ~orphan /\ (NftLivesOn => ~orphan')
    BY DEF NftLivesOn, RulesInv
  <1>5. Kill => RulesInv'
    BY <1>0, <1>4 DEF Kill
  <1>6. CASE Start \/ Reload \/ RestartStart
    <2>1. \E cmd : ManualStart(cmd)
      BY <1>6 DEF Start, Reload, RestartStart
    <2>2. QED
      BY <1>1, <1>5, <2>1, ManualCases
  <1>7. CASE LinkUpStart
    BY <1>1, <1>5, <1>7, AutomaticCases DEF LinkUpStart
  <1>8. CASE \E cmd \in {"boot", "auto"} : Boot(cmd)
    <2>1. PICK cmd : Entered /\ AutomaticStart(cmd)
      BY <1>8 DEF Boot
    <2>2. Kill \/ (UNCHANGED procd /\ boot.phase \in {"none", "wait", "cancel"})
      BY <1>1, <2>1, AutomaticCases
    <2>3. QED
      BY <1>0, <1>3, <1>4, <1>5, <2>1, <2>2
  <1>9. ASSUME NEW t, NEW cmd, Entered, TimerStart(t, cmd)
        PROVE  RulesInv'
    <2>1. CASE UNCHANGED <<boot, procd, job, lock>>
      BY <2>1 DEF RulesInv
    <2>2. CASE BootIs(t) /\ (Kill \/ UNCHANGED procd)
      BY <1>0, <1>3, <1>4, <1>5, <1>9, <2>2 DEF BootIs, Waiting
    <2>3. QED
      BY <1>1, <1>9, <2>1, <2>2, TimerCases
  <1>10. CASE SchedExpired \/ \E t \in expired : RunnerExpired(t)
    BY <1>9, <1>10 DEF SchedExpired, RunnerExpired
  <1>11. CASE \E d \in Devices : LinkDown(d) \/ LinkUp(d)
    <2>1. Kill \/ UNCHANGED <<procd, job>>
      BY <1>11 DEF LinkDown, LinkUp
    <2>2. QED
      BY <1>5, <2>1 DEF RulesInv
  <1>12. CASE \E cmd \in {"stop", "restart"} : Stop(cmd)
    <2>1. Entered /\ UNCHANGED procd /\ job'.pc = "kill"
      BY <1>12 DEF Stop
    <2>2. QED
      BY <1>2, <2>1 DEF RulesInv
  <1>13. CASE StopKill
    <2>1. job'.pc = "stopped"
      BY <1>1, <1>13 DEF StopKill, TypeInv, TypeOK, JobStates
    <2>2. QED
      BY <1>0, <1>13, <2>1 DEF StopKill, RulesInv
  <1>14. CASE ServiceStopped
    <2>1. job'.pc \in {"idle", "again"}
      BY <1>1, <1>14 DEF ServiceStopped, NoJob, TypeInv, TypeOK, JobStates
    <2>2. QED
      BY <1>14, <2>1 DEF ServiceStopped, RulesInv
  <1>15. CASE Submit
    BY <1>0, <1>15 DEF Submit, RulesInv, NoJob
  <1>16. CASE DaemonInstalls \/ DaemonExits \/ OrphanInstalls
    BY <1>16 DEF DaemonInstalls, DaemonExits, OrphanInstalls, RulesInv
  <1>17. CASE \/ SchedStart \/ SchedStop \/ SchedReturn \/ SchedSubmit
              \/ SchedKill \/ SchedDisabled \/ SchedArm
              \/ \E from, to : SchedLock(from, to) \/ SchedCancel(from, to)
              \/ \E t \in runners : RunnerFire(t) \/ RunnerEnd(t)
              \/ \E cmd \in LinkCommands, d \in Devices : HotplugEvent(cmd, d)
              \/ \E c \in Configs : Commit(c)
              \/ \E d \in Devices : DeviceChange(d)
              \/ Tick \/ UNCHANGED vars
    <2>1. UNCHANGED <<procd, job>>
      BY <1>17 DEF SchedStart, SchedStop, SchedReturn, SchedSubmit, SchedKill,
                   SchedDisabled, SchedArm, SchedLock, SchedCancel, RunnerFire,
                   RunnerEnd, HotplugEvent, Commit, DeviceChange, Tick, vars
    <2>2. QED
      BY <2>1 DEF RulesInv
  <1>18. QED
    BY <1>6, <1>7, <1>8, <1>10, <1>11, <1>12, <1>13, <1>14, <1>15, <1>16, <1>17
       DEF Next, JobStep, SchedStep

(* Between the commands of the init script no nftables table is left       *)
(* without an instance, as long as the state files can be written and no   *)
(* nft command outlives a daemon that is killed in its set-up.             *)
THEOREM NoTableLeft == ~WriteFaults /\ ~Orphans => (Spec => []NoOrphanRules)
  <1> SUFFICES ASSUME ~WriteFaults, ~Orphans PROVE Spec => []NoOrphanRules
    OBVIOUS
  <1>1. RulesInv => NoOrphanRules
    BY DEF RulesInv, NoOrphanRules
  <1>2. IInv /\ RulesInv /\ [Next]_vars => RulesInv'
    BY RulesStep
  <1>3. QED
    BY RulesInit, Inductive, <1>1, <1>2, PTL DEF Spec

LEMMA WakerInit == Init => WakerInv
  BY DEF Init, WakerInv, WaitHasWaker, NoBoot, NoSched

LEMMA WakerStep ==
  ~WriteFaults /\ IInv /\ WakerInv /\ [Next]_vars => WakerInv'
  <1> SUFFICES ASSUME ~WriteFaults, IInv, WakerInv, [Next]_vars
               PROVE  WakerInv'
    OBVIOUS
  <1> USE DEF world, timers
  <1>1. TypeInv /\ LockInv /\ sched \in SchedStates
    BY DEF IInv, TypeInv, TypeOK
  <1>2. ASSUME boot'.phase # "wait" PROVE WakerInv'
    BY <1>2 DEF WakerInv, WaitHasWaker
  <1> DEFINE Wakes(t) == \/ t \in runners /\ waiter = t
                         \/ t \in expired
                         \/ sched.pc \in {"calling", "submit"} /\ sched.timer = t
  <1>3. boot.phase = "wait" => \E t \in Timers : BootIs(t) /\ Wakes(t)
    BY DEF WakerInv, WaitHasWaker
  (* A step that leaves the boot state alone must leave the armed timer    *)
  (* its waker.                                                            *)
  <1>4. ASSUME boot' = boot, boot.phase = "wait",
               \A t \in Timers : BootIs(t) /\ Wakes(t) => Wakes(t)',
               sched'.pc \notin {"called", "kill"},
               sched'.pc \in {"calling", "submit"} => sched'.timer = sched.timer
                               /\ sched.pc \in {"calling", "submit"}
        PROVE  WakerInv'
    <2>1. WaitHasWaker'
      BY <1>3, <1>4 DEF WaitHasWaker, BootIs
    <2>2. QED
      BY <1>4, <2>1 DEF WakerInv, BootIs
  <1>5. ASSUME UNCHANGED <<boot, runners, waiter, expired, sched>>
        PROVE  WakerInv'
    BY <1>5 DEF WakerInv, WaitHasWaker, BootIs
  <1>6. ASSUME UNCHANGED <<boot, runners, waiter, expired>>,
               sched.pc \notin {"calling", "submit"},
               sched'.pc \notin {"calling", "submit", "called", "kill"}
        PROVE  WakerInv'
    BY <1>2, <1>4, <1>6
  <1>7. Mark("manual").phase # "wait" /\ Mark("cancel").phase # "wait"
          /\ [boot EXCEPT !.phase = "done"].phase # "wait"
    BY <1>1 DEF Mark, TypeInv, TypeOK, BootStates
  <1>8. ASSUME NEW cmd, ManualStart(cmd) \/ AutomaticStart(cmd),
               UNCHANGED <<runners, waiter, expired, sched>>
        PROVE  WakerInv'
    <2>1. boot' = boot \/ boot'.phase # "wait"
      <3>1. CASE ManualStart(cmd)
        BY <1>1, <1>7, <3>1, ManualCases
      <3>2. CASE AutomaticStart(cmd)
        BY <1>1, <1>7, <3>2, AutomaticCases
      <3>3. QED
        BY <1>8, <3>1, <3>2
    <2>2. QED
      BY <1>2, <1>5, <1>8, <2>1
  <1>9. CASE \/ Start \/ Reload \/ RestartStart \/ LinkUpStart
             \/ \E cmd \in {"boot", "auto"} : Boot(cmd)
    BY <1>8, <1>9 DEF Start, Reload, RestartStart, LinkUpStart, Boot
  <1>10. ASSUME NEW t, NEW cmd, TimerStart(t, cmd)
         PROVE  (~BootIs(t) /\ boot' = boot) \/ boot'.phase # "wait"
    BY <1>1, <1>7, <1>10, TimerCases
  <1>11. ASSUME NEW t \in expired, RunnerExpired(t)
         PROVE  WakerInv'
    <2>1. CASE boot'.phase # "wait"
      BY <1>2, <2>1
    <2>2. CASE ~BootIs(t) /\ boot' = boot
      <3>1. expired' = expired \ {t} /\ UNCHANGED <<runners, waiter, sched>>
        BY <1>11 DEF RunnerExpired
      <3>2. \A u \in Timers : BootIs(u) /\ Wakes(u) => Wakes(u)'
        BY <2>2, <3>1
      <3>3. boot.phase = "wait" => sched.pc \notin {"called", "kill"}
        BY DEF WakerInv
      <3>4. QED
        BY <1>2, <1>4, <2>2, <3>1, <3>2, <3>3
    <2>3. QED
      BY <1>10, <1>11, <2>1, <2>2 DEF RunnerExpired
  <1>12. CASE SchedExpired
    <2>1. boot.phase = "wait" => BootIs(sched.timer)
      BY <1>12 DEF SchedExpired, WakerInv
    <2>2. boot'.phase # "wait"
      BY <1>10, <1>12, <2>1 DEF SchedExpired
    <2>3. QED
      BY <1>2, <2>2
  <1>13. CASE \E cmd \in {"stop", "restart"} : Stop(cmd)
    <2>1. UNCHANGED <<runners, waiter, expired, sched>>
            /\ (boot' = boot \/ boot' = Mark("cancel"))
      BY <1>13 DEF Stop
    <2>2. QED
      BY <1>2, <1>5, <1>7, <2>1
  <1>14. CASE SchedStart \/ SchedStop \/ \E from, to : /\ SchedLock(from, to)
                                            /\ from \in {"arm", "cancel", "cancelAgain"}
                                            /\ to \in {"arming", "cancelling",
                                                       "cancellingAgain"}
    <2>1. /\ UNCHANGED <<boot, runners, waiter, expired>>
          /\ sched.pc \notin {"calling", "submit"}
      BY <1>14 DEF SchedStart, SchedStop, SchedLock
    <2>2. sched'.pc \in {"arm", "cancel", "arming", "cancelling",
                         "cancellingAgain"}
      BY <1>1, <1>14 DEF SchedStart, SchedStop, SchedLock, SchedStates
    <2>3. QED
      BY <1>6, <2>1, <2>2
  <1>15. CASE \/ SchedDisabled
              \/ SchedCancel("cancelling", "kill")
              \/ SchedCancel("cancellingAgain", "idle")
    <2>1. sched.seen = boot
      BY <1>1, <1>15 DEF SchedDisabled, SchedCancel, LockInv, NoLostUpdate
    <2>2. \A ok \in Stored : ok
      BY DEF Stored
    <2>3. boot' = IF boot.phase = "wait" THEN Mark("cancel") ELSE boot
      BY <1>15, <2>1, <2>2 DEF SchedDisabled, SchedCancel
    <2>4. QED
      BY <1>2, <1>7, <2>3
  <1>16. CASE SchedArm
    <2> DEFINE kept == boot.phase = "wait" /\ boot.deadline = sched.delay
               bootTimer == [token |-> boot.token, deadline |-> boot.deadline]
               next == [token |-> tokens + 1, deadline |-> sched.delay]
    <2>1. sched.seen = boot /\ \A ok \in Stored : ok
      BY <1>1, <1>16 DEF SchedArm, LockInv, NoLostUpdate, Stored
    <2>2. \/ boot' = boot /\ boot.phase \in {"manual", "done", "cancel"}
          \/ boot' = boot /\ kept /\ SchedRelease(bootTimer)
          \/ boot' = Waiting(next) /\ SchedRelease(next)
      BY <1>16, <2>1 DEF SchedArm
    <2>3. kept => bootTimer \in Timers /\ boot = Waiting(bootTimer)
      BY <1>1 DEF TypeInv, TypeOK, ArmedType, BootStates, Waiting
    <2>4. next \in Timers
      <3>1. tokens \in 0 .. LastToken /\ tokens < LastToken
              /\ sched.delay \in Delays
        BY <1>1, <1>16 DEF SchedArm, TypeInv, TypeOK
      <3>2. QED
        BY <3>1, LifecycleAssumption DEF Timers
    <2>5. ASSUME NEW t \in Timers, boot' = Waiting(t), SchedRelease(t)
          PROVE  WakerInv'
      <3>1. sched'.pc \in {"calling", "submit"} /\ sched'.timer = t
        BY <2>5 DEF SchedRelease, NoSched
      <3>2. BootIs(t)'
        BY <2>5 DEF BootIs, Waiting
      <3>3. QED
        BY <2>5, <3>1, <3>2 DEF WakerInv, WaitHasWaker, BootIs
    <2> HIDE DEF next, bootTimer
    <2>6. QED
      BY <1>2, <2>2, <2>3, <2>4, <2>5
  <1>17. CASE SchedReturn
    <2>1. boot' = boot /\ boot.phase # "wait"
      BY <1>17 DEF SchedReturn, WakerInv
    <2>2. QED
      BY <1>2, <2>1
  <1>18. CASE SchedSubmit
    <2>1. CASE boot.phase = "wait"
      <3>1. BootIs(sched.timer)
        BY <1>18, <2>1 DEF SchedSubmit, WakerInv
      <3>2. sched.timer \in Timers
        <4>1. sched.timer.token = boot.token /\ boot.token \in 1 .. LastToken
          BY <1>1, <2>1, <3>1 DEF BootIs, Waiting, TypeInv, ArmedType, Timers
        <4>2. sched.timer \in Timers \union {NoTimer}
          BY <1>1 DEF SchedStates
        <4>3. QED
          BY <4>1, <4>2, LifecycleAssumption DEF NoTimer
      <3>3. PICK t \in Timers : t = sched.timer
        BY <3>2
      <3>4. /\ waiter' = t /\ t \in runners'
            /\ sched'.pc = "idle" /\ boot' = boot
        BY <1>18, <3>3, LifecycleAssumption
           DEF SchedSubmit, NoSched, NoTimer, Timers
      <3>5. BootIs(t)'
        BY <3>1, <3>3, <3>4 DEF BootIs
      <3>6. QED
        BY <3>4, <3>5 DEF WakerInv, WaitHasWaker
    <2>2. CASE boot.phase # "wait"
      BY <1>2, <1>18, <2>2 DEF SchedSubmit
    <2>3. QED
      BY <2>1, <2>2
  <1>19. CASE SchedKill
    <2>1. boot' = boot /\ boot.phase # "wait"
      BY <1>19 DEF SchedKill, WakerInv
    <2>2. QED
      BY <1>2, <2>1
  <1>20. ASSUME NEW t \in runners, RunnerFire(t) \/ RunnerEnd(t)
         PROVE  WakerInv'
    <2>1. UNCHANGED <<boot, waiter, sched>>
      BY <1>20 DEF RunnerFire, RunnerEnd
    <2>2. \A u \in Timers : BootIs(u) /\ Wakes(u) => Wakes(u)'
      BY <1>20, <2>1 DEF RunnerFire, RunnerEnd
    <2>3. boot.phase = "wait" => sched.pc \notin {"called", "kill"}
      BY DEF WakerInv
    <2>4. QED
      BY <1>2, <1>4, <2>1, <2>2, <2>3
  <1>21. CASE \/ \E d \in Devices : LinkDown(d) \/ LinkUp(d)
              \/ StopKill \/ ServiceStopped \/ Submit
              \/ \E cmd \in LinkCommands, d \in Devices : HotplugEvent(cmd, d)
              \/ DaemonInstalls \/ DaemonExits \/ OrphanInstalls
              \/ \E c \in Configs : Commit(c)
              \/ \E d \in Devices : DeviceChange(d)
              \/ Tick \/ UNCHANGED vars
    <2>1. UNCHANGED <<boot, runners, waiter, expired, sched>>
      BY <1>21 DEF LinkDown, LinkUp, StopKill, ServiceStopped, Submit,
                   HotplugEvent, DaemonInstalls, DaemonExits, OrphanInstalls, Commit,
                   DeviceChange, Tick, vars
    <2>2. QED
      BY <1>5, <2>1
  <1>22. QED
    BY <1>9, <1>11, <1>12, <1>13, <1>14, <1>15, <1>16, <1>17, <1>18, <1>19,
       <1>20, <1>21 DEF Next, JobStep, SchedStep

(* As long as the state files can be written an armed wait is never        *)
(* forgotten: something under way will end it or ask again.                *)
THEOREM NoWaitForgotten == ~WriteFaults => (Spec => []WaitHasWaker)
  <1> SUFFICES ASSUME ~WriteFaults PROVE Spec => []WaitHasWaker
    OBVIOUS
  <1>1. WakerInv => WaitHasWaker
    BY DEF WakerInv
  <1>2. IInv /\ WakerInv /\ [Next]_vars => WakerInv'
    BY WakerStep
  <1>3. QED
    BY WakerInit, Inductive, <1>1, <1>2, PTL DEF Spec

---------------------------------------------------------------------------
(* The two locks are given back.                                           *)

(* Steps of its own, at most, until an invocation of the init script, or   *)
(* of the scheduler's, has ended.                                          *)
JobDistance ==
  CASE job.pc = "idle" -> 0
    [] job.pc = "submit" -> 1
    [] job.pc = "again" -> 2
    [] job.pc = "stopped" -> 3
    [] job.pc = "kill" -> 4

SchedDistance ==
  CASE sched.pc = "idle" -> 0
    [] sched.pc \in {"submit", "cancellingAgain"} -> 1
    [] sched.pc \in {"called", "cancelAgain"} -> 2
    [] sched.pc \in {"calling", "kill"} -> 3
    [] sched.pc \in {"arming", "cancelling"} -> 4
    [] sched.pc \in {"arm", "cancel"} -> 5

(* Steps of its holder until the lifecycle lock is free.                   *)
LockDistance ==
  CASE lock = "free" -> 0
    [] lock = "job" /\ job.pc = "again" -> 2
    [] lock = "job" /\ job.pc # "again" -> 1
    [] lock = "sched" -> 1

SchedSteps == SchedStep \/ SchedExpired

JobReturns ==
  job # NoJob => IF JobStep THEN JobDistance' < JobDistance ELSE job' = job

SchedReturns ==
  sched.pc # "idle" =>
    IF SchedSteps THEN SchedDistance' < SchedDistance ELSE sched' = sched

LockReturns ==
  /\ lock = "job" => IF JobStep THEN LockDistance' < LockDistance
                                ELSE UNCHANGED <<lock, LockDistance>>
  /\ lock = "sched" => IF SchedStep THEN LockDistance' < LockDistance
                                    ELSE UNCHANGED <<lock, LockDistance>>

(* An invocation waits for the lifecycle lock only after the kill in a     *)
(* restart; the scheduler waits for both locks, one after the other, or    *)
(* for the boot_expired command it called.                                 *)
JobWaits == job.pc = "again" /\ job.cmd = "restart" /\ lock # "free"
SchedWaits ==
  \/ sched.pc \in {"arm", "cancel", "cancelAgain"} /\ lock # "free"
  \/ sched.pc = "calling" /\ ~Entered
  \/ sched.pc = "called" /\ job.cmd = "sched_expired"

LEMMA PcCases ==
  ASSUME TypeInv, LockInv
  PROVE  /\ job.pc \in {"idle", "submit", "again", "kill", "stopped"}
         /\ job = NoJob <=> job.pc = "idle"
         /\ sched.pc \in {"idle", "arm", "arming", "calling", "called", "submit",
              "cancel", "cancelling", "kill", "cancelAgain", "cancellingAgain"}
         /\ lock \in {"free", "job", "sched"}
  BY DEF TypeInv, TypeOK, JobStates, SchedStates, LockInv, NoJob

LEMMA JobStepReturns ==
  ASSUME TypeInv, LockInv, JobStep
  PROVE  /\ job.pc # "idle" /\ JobDistance' < JobDistance
         /\ lock = "job" => LockDistance' < LockDistance
         /\ lock = "sched" => lock' = lock
         /\ sched' = sched
  <1>1. CASE LinkUpStart \/ RestartStart
    <2>1. PICK cmd, def : Submitting(cmd, def) /\ cmd \in {"link_up", "restart"}
                            /\ (cmd = "restart" => lock = "free")
                            /\ (cmd = "link_up" => job.cmd = "link_up")
      BY <1>1, ManualCases, AutomaticCases DEF LinkUpStart, RestartStart
    <2>2. job.pc = "again" /\ job'.pc = "submit" /\ sched' = sched
      BY <1>1, <2>1 DEF LinkUpStart, RestartStart, Submitting
    <2>3. JobDistance = 2 /\ JobDistance' = 1
      BY <2>2 DEF JobDistance
    <2>4. lock = "job" => lock' = "job"
      BY <2>1 DEF Submitting, Nested, LinkCommands
    <2>5. lock = "job" => LockDistance = 2 /\ LockDistance' = 1
      BY <2>2, <2>4 DEF LockDistance
    <2>6. lock # "sched"
      BY <2>1, <2>2 DEF LockInv
    <2>7. QED
      BY <2>2, <2>3, <2>5, <2>6
  <1>2. CASE StopKill
    <2>1. /\ job.pc = "kill" /\ job'.pc = "stopped"
          /\ UNCHANGED <<lock, sched>>
      BY <1>2 DEF StopKill, TypeInv, TypeOK, JobStates
    <2>2. JobDistance = 4 /\ JobDistance' = 3
      BY <2>1 DEF JobDistance
    <2>3. lock # "job"
      BY <2>1 DEF LockInv
    <2>4. QED
      BY <2>1, <2>2, <2>3
  <1>3. CASE ServiceStopped
    <2>1. /\ job.pc = "stopped" /\ job'.pc \in {"idle", "again"}
          /\ UNCHANGED <<lock, sched>>
      BY <1>3 DEF ServiceStopped, TypeInv, TypeOK, JobStates, NoJob
    <2>2. JobDistance = 3 /\ JobDistance' \in {0, 2}
      BY <2>1 DEF JobDistance
    <2>3. lock # "job"
      BY <2>1 DEF LockInv
    <2>4. QED
      BY <2>1, <2>2, <2>3
  <1>4. CASE Submit
    <2>1. /\ job.pc = "submit" /\ job'.pc = "idle" /\ sched' = sched
          /\ lock' = IF job.cmd \in Nested THEN "free" ELSE lock
      BY <1>4 DEF Submit, NoJob
    <2>2. JobDistance = 1 /\ JobDistance' = 0
      BY <2>1 DEF JobDistance
    <2>3. /\ lock = "job" => lock' = "free"
          /\ lock = "sched" => lock' = lock
      BY <2>1 DEF LockInv
    <2>4. lock = "job" => LockDistance = 1 /\ LockDistance' = 0
      BY <2>1, <2>3 DEF LockDistance
    <2>5. QED
      BY <2>1, <2>2, <2>3, <2>4
  <1>5. QED
    BY <1>1, <1>2, <1>3, <1>4 DEF JobStep

LEMMA SchedStepReturns ==
  ASSUME TypeInv, LockInv, SchedStep
  PROVE  /\ sched.pc # "idle" /\ SchedDistance' < SchedDistance
         /\ lock = "sched" => LockDistance' < LockDistance
         /\ lock = "job" => lock' = lock
         /\ job' = job
  <1> USE DEF timers
  <1>1. ASSUME NEW from, NEW to, SchedLock(from, to),
               \/ from = "arm" /\ to = "arming"
               \/ from = "cancel" /\ to = "cancelling"
               \/ from = "cancelAgain" /\ to = "cancellingAgain"
        PROVE  /\ sched.pc = from /\ SchedDistance' < SchedDistance
               /\ lock = "free" /\ job' = job
    <2>1. /\ sched.pc = from /\ sched'.pc = to
          /\ lock = "free" /\ job' = job
      BY <1>1 DEF SchedLock, TypeInv, TypeOK, SchedStates
    <2>2. QED
      BY <1>1, <2>1 DEF SchedDistance
  <1>2. CASE \/ SchedDisabled \/ SchedArm
             \/ SchedCancel("cancelling", "kill")
             \/ SchedCancel("cancellingAgain", "idle")
    <2>1. \A t : SchedRelease(t) =>
            sched'.pc \in {"calling", "submit"} /\ lock' = "free"
      BY DEF SchedRelease, NoSched
    <2>2. /\ lock' = "free" /\ job' = job
          /\ \/ sched.pc = "arming" /\ sched'.pc \in {"calling", "submit"}
             \/ sched.pc = "cancelling" /\ sched'.pc = "kill"
             \/ sched.pc = "cancellingAgain" /\ sched'.pc = "idle"
      <3>1. CASE SchedDisabled
        BY <2>1, <3>1 DEF SchedDisabled
      <3>2. CASE SchedArm
        BY <2>1, <3>2 DEF SchedArm
      <3>3. CASE \/ SchedCancel("cancelling", "kill")
                 \/ SchedCancel("cancellingAgain", "idle")
        BY <3>3 DEF SchedCancel, NoSched
      <3>4. QED
        BY <1>2, <3>1, <3>2, <3>3
    <2>3. SchedDistance' < SchedDistance
      BY <2>2 DEF SchedDistance
    <2>4. lock = "sched"
      BY <2>2 DEF LockInv
    <2>5. LockDistance = 1 /\ LockDistance' = 0
      BY <2>2, <2>4 DEF LockDistance
    <2>6. QED
      BY <2>2, <2>3, <2>4, <2>5
  <1>3. CASE SchedReturn \/ SchedSubmit \/ SchedKill
    <2>1. /\ UNCHANGED <<lock, job>>
          /\ \/ sched.pc = "called" /\ sched'.pc = "submit"
             \/ sched.pc = "submit" /\ sched'.pc = "idle"
             \/ sched.pc = "kill" /\ sched'.pc = "cancelAgain"
      BY <1>3 DEF SchedReturn, SchedSubmit, SchedKill, NoSched, TypeInv, TypeOK,
                  SchedStates
    <2>2. SchedDistance' < SchedDistance
      BY <2>1 DEF SchedDistance
    <2>3. lock # "sched"
      BY <2>1 DEF LockInv
    <2>4. QED
      BY <2>1, <2>2, <2>3
  <1>4. QED
    BY <1>1, <1>2, <1>3 DEF SchedStep

(* The steps of neither.                                                   *)
LEMMA OtherSteps ==
  ASSUME TypeInv, LockInv, [Next]_vars, ~JobStep, ~SchedStep
  PROVE  \/ UNCHANGED <<job, lock>> /\ (sched' = sched \/ sched.pc = "idle")
         \/ job = NoJob /\ lock = "free" /\ sched' = sched
         \/ SchedExpired
  <1> USE DEF world, procd, timers
  <1>1. CASE \/ Start \/ Reload \/ \E cmd \in {"boot", "auto"} : Boot(cmd)
             \/ \E t \in expired : RunnerExpired(t)
             \/ \E d \in Devices : LinkDown(d) \/ LinkUp(d)
             \/ \E cmd \in {"stop", "restart"} : Stop(cmd)
    <2>1. Entered /\ sched' = sched
      BY <1>1 DEF Start, Reload, Boot, RunnerExpired, LinkDown, LinkUp, Stop
    <2>2. QED
      BY <2>1 DEF Entered
  <1>2. CASE SchedStart \/ SchedStop
    BY <1>2 DEF SchedStart, SchedStop
  <1>3. CASE \/ \E t \in runners : RunnerFire(t) \/ RunnerEnd(t)
             \/ \E cmd \in LinkCommands, d \in Devices : HotplugEvent(cmd, d)
             \/ DaemonInstalls \/ DaemonExits \/ OrphanInstalls
             \/ \E c \in Configs : Commit(c)
             \/ \E d \in Devices : DeviceChange(d)
             \/ Tick \/ UNCHANGED vars
    BY <1>3 DEF RunnerFire, RunnerEnd, HotplugEvent, DaemonInstalls,
                DaemonExits, OrphanInstalls, Commit, DeviceChange, Tick, vars
  <1>4. QED
    BY <1>1, <1>2, <1>3 DEF Next

LEMMA SchedExpiredReturns ==
  ASSUME TypeInv, LockInv, SchedExpired
  PROVE  /\ job = NoJob /\ lock = "free"
         /\ sched.pc = "calling" /\ SchedDistance' < SchedDistance
  <1>1. /\ job = NoJob /\ lock = "free"
        /\ sched.pc = "calling" /\ sched'.pc = "called"
    BY DEF SchedExpired, Entered, TypeInv, TypeOK, SchedStates
  <1>2. QED
    BY <1>1 DEF SchedDistance

(* Each invocation, and each holder of the lifecycle lock, has only a few  *)
(* steps of its own before it, and no step of another changes that; and no *)
(* two of them wait for each other.  So the locks are given back, and the  *)
(* order in which a restart and the scheduler take them cannot block the   *)
(* service.                                                                *)
THEOREM LocksReturn ==
  Spec => /\ [][JobReturns /\ SchedReturns /\ LockReturns]_vars
          /\ [](~(JobWaits /\ SchedWaits))
  <1>1. IInv /\ [Next]_vars => JobReturns /\ SchedReturns /\ LockReturns
    <2> SUFFICES ASSUME TypeInv, LockInv, [Next]_vars
                 PROVE  JobReturns /\ SchedReturns /\ LockReturns
      BY DEF IInv
    <2>1. JobReturns
      <3>1. CASE JobStep
        BY <3>1, JobStepReturns DEF JobReturns
      <3>2. CASE ~JobStep
        BY <3>2, SchedStepReturns, SchedExpiredReturns, OtherSteps, PcCases
           DEF JobReturns
      <3>3. QED
        BY <3>1, <3>2
    <2>2. SchedReturns
      <3>1. CASE SchedSteps
        BY <3>1, SchedStepReturns, SchedExpiredReturns
           DEF SchedReturns, SchedSteps
      <3>2. CASE ~SchedSteps
        BY <3>2, JobStepReturns, OtherSteps DEF SchedReturns, SchedSteps
      <3>3. QED
        BY <3>1, <3>2
    <2>3. LockReturns
      <3>1. CASE lock = "job"
        <4>1. CASE JobStep
          <5>1. LockDistance' < LockDistance
            BY <3>1, <4>1, JobStepReturns
          <5>2. QED
            BY <3>1, <4>1, <5>1 DEF LockReturns
        <4>2. CASE ~JobStep
          <5>1. lock' = lock /\ job' = job
            BY <3>1, <4>2, SchedStepReturns, SchedExpiredReturns, OtherSteps
          <5>2. UNCHANGED LockDistance
            BY <5>1 DEF LockDistance
          <5>3. QED
            BY <3>1, <4>2, <5>1, <5>2 DEF LockReturns
        <4>3. QED
          BY <4>1, <4>2
      <3>2. CASE lock = "sched"
        <4>1. CASE SchedStep
          BY <3>2, <4>1, SchedStepReturns DEF LockReturns
        <4>2. CASE ~SchedStep
          <5>1. lock' = lock
            BY <3>2, <4>2, JobStepReturns, SchedExpiredReturns, OtherSteps
          <5>2. LockDistance = 1 /\ LockDistance' = 1
            BY <3>2, <5>1 DEF LockDistance
          <5>3. QED
            BY <3>2, <4>2, <5>1, <5>2 DEF LockReturns
        <4>3. QED
          BY <4>1, <4>2
      <3>3. CASE lock \notin {"job", "sched"}
        BY <3>3 DEF LockReturns
      <3>4. QED
        BY <3>1, <3>2, <3>3
    <2>4. QED
      BY <2>1, <2>2, <2>3
  <1>2. IInv => ~(JobWaits /\ SchedWaits)
    <2> SUFFICES ASSUME TypeInv, LockInv, JobWaits PROVE ~SchedWaits
      BY DEF IInv
    <2>1. lock = "sched"
      BY PcCases DEF LockInv, JobWaits
    <2>2. /\ sched.pc \in {"arming", "cancelling", "cancellingAgain"}
          /\ job.cmd = "restart"
      BY <2>1 DEF LockInv, JobWaits
    <2>3. QED
      BY <2>2 DEF SchedWaits
  <1>3. QED
    BY <1>1, <1>2, Inductive, PTL DEF Spec
===========================================================================
