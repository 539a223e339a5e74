------------------------- MODULE ServiceLifecycle -------------------------
(***************************************************************************)
(* The life of one packet service (FakeHTTP or FakeSIP) on the router: its *)
(* init script, the boot-delay scheduler and runner, the interface hotplug *)
(* script and the state files they share in                                *)
(* /var/run/taoistfuchen-boot-delay.                                       *)
(*                                                                         *)
(* Two locks order them.  Every invocation of the service's init script    *)
(* holds procd's lock of that service from beginning to end: `job` is the  *)
(* one invocation that holds it.  The lifecycle lock (`lock`) is shared    *)
(* with the scheduler, an init script of its own; a plain start gives it   *)
(* back before procd is told of the instance, the other commands keep it   *)
(* until then.  The runner and the hotplug script take no lock for what    *)
(* they look at before they call the init script.                          *)
(*                                                                         *)
(* One invocation's work under the lifecycle lock is one step: what other  *)
(* processes do meanwhile is either excluded by the lock (writers of the   *)
(* boot state) or commutes with it (readers of the configuration, and the  *)
(* runner's reads of the boot state, which is replaced by one rename).     *)
(***************************************************************************)
EXTENDS Naturals

CONSTANTS
  Devices,      \* L3 network devices
  Delays,       \* values of boot_delay, in seconds of uptime
  Configs,      \* configurations of the service that UCI may hold
  LastUptime,   \* bound: uptime is not modelled beyond this second
  LastToken,    \* bound: tokens the scheduler hands out, and so its starts
  GenLimit,     \* the link generation that is not exceeded (4294967295)
  WriteFaults,  \* may replacing a state file fail (no space, no memory)
  Orphans       \* may an nft command outlive its daemon, killed in set-up

(* enabled, delay: options of that name; all: interface_mode is "all"      *)
(* (FakeHTTP only); ifaces: the selected devices; sound: the binary is     *)
(* there and every check but that of the devices succeeds.                 *)
ConfigType ==
  [enabled : BOOLEAN, delay : Delays, all : BOOLEAN,
   ifaces : SUBSET Devices, sound : BOOLEAN]

ASSUME LifecycleAssumption ==
  /\ Delays \subseteq Nat
  /\ Configs \subseteq ConfigType
  /\ LastUptime \in Nat
  /\ LastToken \in Nat
  /\ GenLimit \in Nat
  /\ WriteFaults \in BOOLEAN
  /\ Orphans \in BOOLEAN

VARIABLES
  uci,       \* the committed configuration
  present,   \* the devices that exist
  uptime,
  boot,      \* the boot state file: phase, token, deadline
  link,      \* the link state file: phase, generation
  lock,      \* holder of the lifecycle lock: "free", "job" or "sched"
  job,       \* the invocation of the init script that holds procd's lock
  hotplug,   \* the call the hotplug script is about to make, if any
  expired,   \* boot_expired calls of runners that wait for procd's lock
  waiter,    \* the timer procd supervises a runner for
  runners,   \* timers of the runner processes alive
  sched,     \* the scheduler's init script
  tokens,    \* tokens handed out so far
  defined,   \* procd has an instance of the service
  rules,     \* the service's nftables table exists
  orphan     \* an nft command of an instance killed in set-up is at work

vars == <<uci, present, uptime, boot, link, lock, job, hotplug, expired,
          waiter, runners, sched, tokens, defined, rules, orphan>>
world == <<uci, present, uptime>>
timers == <<expired, waiter, runners, tokens>>
procd == <<defined, rules, orphan>>

Timers == [token : 1 .. LastToken, deadline : Delays]
NoTimer == [token |-> 0, deadline |-> 0]

(* The words that stand in the token field of a state other than "wait"    *)
(* (manual, automatic, disabled, explicit-stop, scheduler-stop) are never  *)
(* compared with a token: they are 0 here.                                 *)
NoBoot == [phase |-> "none", token |-> 0, deadline |-> 0]
Mark(phase) == [phase |-> phase, token |-> 0, deadline |-> 0]
Waiting(t) == [phase |-> "wait", token |-> t.token, deadline |-> t.deadline]

NoJob == [pc |-> "idle", cmd |-> "none", def |-> FALSE]
NoSched == [pc |-> "idle", enabled |-> FALSE, delay |-> 0, at |-> 0,
            seen |-> NoBoot, timer |-> NoTimer]

TimerCommands == {"boot_expired", "sched_expired"}
LinkCommands == {"link_up", "link_down"}

(* The commands that call start while they hold the lifecycle lock.        *)
Nested == TimerCommands \union LinkCommands \union {"reload"}

---------------------------------------------------------------------------
(* Helpers of service-common.sh.                                           *)

BootIs(t) == boot = Waiting(t)

(* Faults: a cancelled service is not held back; the window is applied     *)
(* whatever was decided.                                                   *)
ShouldDeferNoCancel(delay) ==
  uptime < IF boot.phase = "wait" THEN boot.deadline
           ELSE IF boot.phase = "none" THEN delay ELSE 0
ShouldDeferAlways(delay) == boot.phase = "cancel" \/ uptime < delay

ShouldDefer(delay) ==
  \/ boot.phase = "wait" /\ uptime < boot.deadline
  \/ boot.phase = "cancel"
  \/ boot.phase = "none" /\ uptime < delay

(* Whether a state file is replaced, when it is tried.                     *)
Stored == IF WriteFaults THEN BOOLEAN ELSE {TRUE}

(* tf_link_state_set fails at the last generation, and on a failed write.  *)
LinkStoredUnbounded(ok) == ok   \* fault: no limit
LinkStored(ok) == ok /\ link.gen < GenLimit
NextLink(phase) == [phase |-> phase, gen |-> link.gen + 1]

LinkIsDownIgnored == FALSE        \* fault: the link state is not looked at
LinkIsDown == link.phase = "down"

Matches(d) == uci.enabled /\ (uci.all \/ d \in uci.ifaces)

ConfigValid ==
  /\ uci.sound
  /\ uci.all \/ (uci.ifaces # {} /\ uci.ifaces \subseteq present)

---------------------------------------------------------------------------
(* The service's init script.                                              *)

(* procd's lock and the lifecycle lock are both there to be taken.         *)
Entered == job = NoJob /\ lock = "free"

(* An instance that has no table yet is in set-up, without handlers for    *)
(* its signals: procd's kill ends the daemon at once, and the nft command  *)
(* it waited for may live on.                                              *)
NftLivesOn ==
  orphan' \in IF Orphans /\ defined /\ ~rules THEN {orphan, TRUE} ELSE {orphan}

Kill == defined' = FALSE /\ rules' = FALSE /\ NftLivesOn

(* The definition is complete and goes to procd next; a nested start keeps *)
(* the lifecycle lock meanwhile.                                           *)
Submitting(cmd, def) ==
  /\ job' = [pc |-> "submit", cmd |-> cmd, def |-> def]
  /\ lock' = IF cmd \in Nested THEN "job" ELSE lock

(* start in a manual context: Enable and Save & Apply (reload), or start   *)
(* and restart at the command line.  A reload has killed the instance      *)
(* before it starts; a failed write leaves an empty definition.            *)
ManualStart(cmd) ==
  \E ok \in Stored :
    /\ boot' = IF ok THEN Mark(IF uci.enabled THEN "manual" ELSE "cancel")
                     ELSE boot
    /\ IF ok \/ cmd = "reload" THEN Kill ELSE UNCHANGED procd
    /\ Submitting(cmd, ok /\ uci.enabled /\ ConfigValid)

Start ==
  /\ Entered
  /\ ManualStart("start")
  /\ UNCHANGED <<world, timers, link, hotplug, sched>>

Reload ==
  /\ Entered
  /\ ManualStart("reload")
  /\ UNCHANGED <<world, timers, link, hotplug, sched>>

(* start in the contexts boot, auto (the package's uci-defaults) and ifup. *)
(* A link_up has killed the instance before it starts.                     *)
AutomaticStart(cmd) ==
  \E ok \in Stored :
    LET defers == uci.enabled /\ ShouldDefer(uci.delay)
        keeps  == uci.enabled /\ boot.phase \in {"manual", "done"}
        goes   == ~defers /\ (keeps \/ ok)
    IN /\ boot' = IF ~goes \/ keeps THEN boot
                  ELSE IF uci.enabled
                    THEN [phase |-> "done", token |-> 0,
                          deadline |-> uci.delay]
                    ELSE Mark("cancel")
       /\ IF goes \/ cmd = "link_up" THEN Kill ELSE UNCHANGED procd
       /\ Submitting(cmd, goes /\ uci.enabled /\ ConfigValid)

Boot(cmd) ==
  /\ Entered
  /\ AutomaticStart(cmd)
  /\ UNCHANGED <<world, timers, link, hotplug, sched>>

(* start in the context boot_expired, with its wait still armed.           *)
ArmedTimerStart(cmd) ==
  \E ok \in Stored :
    LET goes == ok /\ uci.enabled /\ ~LinkIsDown
    IN /\ boot' = CASE ~ok -> boot
                    [] ok /\ uci.enabled -> [boot EXCEPT !.phase = "done"]
                    [] ok /\ ~uci.enabled -> Mark("cancel")
       /\ IF goes THEN Kill ELSE UNCHANGED procd
       /\ Submitting(cmd, goes /\ ConfigValid)

(* Fault: a stale call goes on to start and submits an empty definition.   *)
TimerStartUnchecked(t, cmd) ==
  IF BootIs(t)
    THEN ArmedTimerStart(cmd)
    ELSE Submitting(cmd, FALSE) /\ UNCHANGED <<boot, procd>>

(* boot_expired, called by a runner or by the scheduler itself.  Only the  *)
(* exact armed wait is acted on; the caller's check is made again.         *)
TimerStart(t, cmd) ==
  IF BootIs(t)
    THEN ArmedTimerStart(cmd)
    ELSE UNCHANGED <<boot, procd, job, lock>>

RunnerExpired(t) ==
  /\ Entered
  /\ t \in expired
  /\ expired' = expired \ {t}
  /\ TimerStart(t, "boot_expired")
  /\ UNCHANGED <<world, link, hotplug, waiter, runners, tokens, sched>>

SchedExpired ==
  /\ Entered
  /\ sched.pc = "calling"
  /\ sched' = [sched EXCEPT !.pc = "called", !.timer = NoTimer]
  /\ TimerStart(sched.timer, "sched_expired")
  /\ UNCHANGED <<world, timers, link, hotplug>>

(* A link event whose device the configuration no longer names, or an ifup *)
(* whose device is gone again, does nothing; nor does one whose link state *)
(* cannot be stored.                                                       *)
LinkDown(d) ==
  /\ Entered
  /\ <<"link_down", d>> \in hotplug
  /\ hotplug' = {}
  /\ \E ok \in Stored :
       LET goes == Matches(d) /\ LinkStored(ok)
       IN /\ link' = IF goes THEN NextLink("down") ELSE link
          /\ IF goes THEN Kill /\ Submitting("link_down", FALSE)
                     ELSE UNCHANGED <<procd, job, lock>>
  /\ UNCHANGED <<world, timers, boot, sched>>

LinkUp(d) ==
  /\ Entered
  /\ <<"link_up", d>> \in hotplug
  /\ hotplug' = {}
  /\ \E ok \in Stored :
       LET goes == Matches(d) /\ d \in present /\ LinkStored(ok)
       IN /\ link' = IF goes THEN NextLink("up") ELSE link
          /\ IF goes
               THEN /\ Kill
                    /\ job' = [pc |-> "again", cmd |-> "link_up", def |-> FALSE]
                    /\ lock' = "job"
               ELSE UNCHANGED <<procd, job, lock>>
  /\ UNCHANGED <<world, timers, boot, sched>>

(* The start in a link_up, which reads the configuration once more.        *)
LinkUpStart ==
  /\ job.pc = "again" /\ job.cmd = "link_up"
  /\ AutomaticStart("link_up")
  /\ UNCHANGED <<world, timers, link, hotplug, sched>>

(* stop and restart: the authority to run is withdrawn before procd kills  *)
(* the instance; rc.common goes on even if that write fails.               *)
Stop(cmd) ==
  /\ Entered
  /\ \E ok \in Stored : boot' = IF ok THEN Mark("cancel") ELSE boot
  /\ job' = [pc |-> "kill", cmd |-> cmd, def |-> FALSE]
  /\ UNCHANGED <<world, timers, procd, link, lock, hotplug, sched>>

(* Fault: the instance is not killed.                                      *)
StopKillSkipped ==
  /\ job.pc = "kill"
  /\ job' = [job EXCEPT !.pc = "stopped"]
  /\ UNCHANGED <<world, timers, procd, boot, link, lock, hotplug, sched>>

StopKill ==
  /\ job.pc = "kill"
  /\ defined' = FALSE
  /\ NftLivesOn
  /\ job' = [job EXCEPT !.pc = "stopped"]
  /\ UNCHANGED <<world, timers, boot, link, lock, hotplug, sched, rules>>

(* Fault: the table is left to the daemon.                                 *)
ServiceStoppedNoCleanup ==
  /\ job.pc = "stopped"
  /\ job' = IF job.cmd = "restart" THEN [job EXCEPT !.pc = "again"] ELSE NoJob
  /\ UNCHANGED <<world, timers, procd, boot, link, lock, hotplug, sched>>

ServiceStopped ==
  /\ job.pc = "stopped"
  /\ rules' = FALSE
  /\ job' = IF job.cmd = "restart" THEN [job EXCEPT !.pc = "again"] ELSE NoJob
  /\ UNCHANGED <<world, timers, boot, link, lock, hotplug, sched, defined,
                 orphan>>

RestartStart ==
  /\ job.pc = "again" /\ job.cmd = "restart"
  /\ lock = "free"
  /\ ManualStart("restart")
  /\ UNCHANGED <<world, timers, link, hotplug, sched>>

(* procd takes the definition, and an empty one ends the instance; then    *)
(* the invocation ends and both its locks are free.                        *)
Submit ==
  /\ job.pc = "submit"
  /\ defined' = job.def
  /\ IF job.def THEN UNCHANGED orphan ELSE NftLivesOn
  /\ lock' = IF job.cmd \in Nested THEN "free" ELSE lock
  /\ job' = NoJob
  /\ UNCHANGED <<world, timers, boot, link, hotplug, sched, rules>>

---------------------------------------------------------------------------
(* The boot-delay scheduler, one start or stop at a time.                  *)

(* The configuration and the uptime are read before the lock is taken.     *)
SchedStart ==
  /\ sched.pc = "idle"
  /\ tokens < LastToken
  /\ sched' = [sched EXCEPT !.pc = "arm", !.enabled = uci.enabled,
                            !.delay = uci.delay, !.at = uptime]
  /\ UNCHANGED <<world, timers, procd, boot, link, lock, job, hotplug>>

SchedStop ==
  /\ sched.pc = "idle"
  /\ sched' = [sched EXCEPT !.pc = "cancel"]
  /\ UNCHANGED <<world, timers, procd, boot, link, lock, job, hotplug>>

(* Fault: the boot state is read without the lock.                         *)
SchedReadUnlocked(from, to) ==
  /\ sched.pc = from
  /\ sched' = [sched EXCEPT !.pc = to, !.seen = boot]
  /\ UNCHANGED <<world, timers, procd, boot, link, lock, job, hotplug>>

(* The lifecycle lock is taken and the boot state read.                    *)
SchedLock(from, to) ==
  /\ sched.pc = from
  /\ lock = "free"
  /\ lock' = "sched"
  /\ sched' = [sched EXCEPT !.pc = to, !.seen = boot]
  /\ UNCHANGED <<world, timers, procd, boot, link, job, hotplug>>

(* The lock is given back; a timer that is due already is run at once,     *)
(* otherwise a runner is defined for it.                                   *)
SchedRelease(t) ==
  /\ lock' = "free"
  /\ sched' = [NoSched EXCEPT
       !.pc = IF t # NoTimer /\ sched.at >= t.deadline THEN "calling"
              ELSE "submit",
       !.timer = t]

(* A disabled service loses its armed wait and nothing else.               *)
SchedDisabled ==
  /\ sched.pc = "arming"
  /\ ~sched.enabled
  /\ \E ok \in Stored :
       boot' = IF ok /\ sched.seen.phase = "wait" THEN Mark("cancel") ELSE boot
  /\ SchedRelease(NoTimer)
  /\ UNCHANGED <<world, timers, procd, link, job, hotplug>>

(* An armed wait of the same length keeps its token, a decision that was   *)
(* taken already stands, and every other case is a new wait.               *)
SchedArm ==
  /\ sched.pc = "arming"
  /\ sched.enabled
  /\ LET seen == sched.seen
         kept == seen.phase = "wait" /\ seen.deadline = sched.delay
         next == [token |-> tokens + 1, deadline |-> sched.delay]
     IN \/ /\ seen.phase \in {"manual", "done", "cancel"}
           /\ SchedRelease(NoTimer)
           /\ UNCHANGED <<boot, tokens>>
        \/ /\ kept
           /\ SchedRelease([token |-> seen.token, deadline |-> seen.deadline])
           /\ UNCHANGED <<boot, tokens>>
        \/ /\ seen.phase \in {"none", "wait"} /\ ~kept
           /\ tokens' = tokens + 1
           /\ \E ok \in Stored :
                /\ boot' = IF ok THEN Waiting(next) ELSE boot
                /\ SchedRelease(IF ok THEN next ELSE NoTimer)
  /\ UNCHANGED <<world, procd, link, job, hotplug, expired, waiter, runners>>

(* The boot_expired command the scheduler called has come back.            *)
SchedReturn ==
  /\ sched.pc = "called"
  /\ job.cmd # "sched_expired"
  /\ sched' = [sched EXCEPT !.pc = "submit"]
  /\ UNCHANGED <<world, timers, procd, boot, link, lock, job, hotplug>>

(* Fault: no runner is defined.                                            *)
SchedSubmitNothing ==
  /\ sched.pc = "submit"
  /\ sched' = NoSched
  /\ UNCHANGED <<world, timers, procd, boot, link, lock, job, hotplug>>

(* procd takes the scheduler's definition: it starts the new runner, and   *)
(* one that is no longer defined is sent a signal.                         *)
SchedSubmit ==
  /\ sched.pc = "submit"
  /\ waiter' = sched.timer
  /\ runners' = runners \union ({sched.timer} \ {NoTimer})
  /\ sched' = NoSched
  /\ UNCHANGED <<world, procd, boot, link, lock, job, hotplug, expired, tokens>>

(* Fault: the wait stays armed.                                            *)
SchedCancelNothing(from, to) ==
  /\ sched.pc = from
  /\ lock' = "free"
  /\ sched' = [NoSched EXCEPT !.pc = to]
  /\ UNCHANGED <<world, timers, procd, boot, link, job, hotplug>>

(* A stop withdraws an armed wait before procd kills the runner (the first *)
(* call) and once more afterwards (the second).                            *)
SchedCancel(from, to) ==
  /\ sched.pc = from
  /\ \E ok \in Stored :
       boot' = IF ok /\ sched.seen.phase = "wait" THEN Mark("cancel") ELSE boot
  /\ lock' = "free"
  /\ sched' = [NoSched EXCEPT !.pc = to]
  /\ UNCHANGED <<world, timers, procd, link, job, hotplug>>

SchedKill ==
  /\ sched.pc = "kill"
  /\ waiter' = NoTimer
  /\ sched' = [sched EXCEPT !.pc = "cancelAgain"]
  /\ UNCHANGED <<world, procd, boot, link, lock, job, hotplug, expired,
                 runners, tokens>>

---------------------------------------------------------------------------
(* Runners, hotplug events, the daemon, and the world around them.         *)

(* Fault: the runner does not look at the uptime.                          *)
RunnerFireEarly(t) ==
  /\ t \in runners
  /\ BootIs(t)
  /\ runners' = runners \ {t}
  /\ expired' = expired \union {t}
  /\ UNCHANGED <<world, procd, boot, link, lock, job, hotplug, waiter, sched,
                 tokens>>

(* The loop has seen the deadline pass and the last check finds the wait   *)
(* still armed: boot_expired is called.                                    *)
RunnerFire(t) ==
  /\ t \in runners
  /\ uptime >= t.deadline
  /\ BootIs(t)
  /\ runners' = runners \ {t}
  /\ expired' = expired \union {t}
  /\ UNCHANGED <<world, procd, boot, link, lock, job, hotplug, waiter, sched,
                 tokens>>

(* The wait is not armed any more, or procd's signal arrives.              *)
RunnerEnd(t) ==
  /\ t \in runners
  /\ ~BootIs(t) \/ waiter # t
  /\ runners' = runners \ {t}
  /\ UNCHANGED <<world, procd, boot, link, lock, job, hotplug, expired,
                 waiter, sched, tokens>>

(* netifd runs one hotplug script at a time; it looks at the configuration *)
(* and the device without a lock.                                          *)
HotplugEvent(cmd, d) ==
  /\ hotplug = {}
  /\ job.cmd \notin LinkCommands
  /\ Matches(d)
  /\ cmd = "link_up" => d \in present
  /\ hotplug' = {<<cmd, d>>}
  /\ UNCHANGED <<world, timers, procd, boot, link, lock, job, sched>>

DaemonInstalls ==
  /\ defined /\ ~rules
  /\ rules' = TRUE
  /\ UNCHANGED <<world, timers, boot, link, lock, job, hotplug, sched, defined,
                 orphan>>

DaemonExits ==
  /\ ~defined /\ rules
  /\ rules' = FALSE
  /\ UNCHANGED <<world, timers, boot, link, lock, job, hotplug, sched, defined,
                 orphan>>

(* The command that lived on creates the table, whatever was deleted since *)
(* its daemon was killed; another one may still be at work.                *)
OrphanInstalls ==
  /\ orphan
  /\ orphan' \in BOOLEAN
  /\ rules' = TRUE
  /\ UNCHANGED <<world, timers, boot, link, lock, job, hotplug, sched, defined>>

Commit(c) ==
  /\ uci' = c
  /\ UNCHANGED <<present, uptime, boot, link, lock, job, hotplug, timers,
                 sched, procd>>

DeviceChange(d) ==
  /\ present' = IF d \in present THEN present \ {d} ELSE present \union {d}
  /\ UNCHANGED <<uci, uptime, boot, link, lock, job, hotplug, timers, sched,
                 procd>>

Tick ==
  /\ uptime < LastUptime
  /\ uptime' = uptime + 1
  /\ UNCHANGED <<uci, present, boot, link, lock, job, hotplug, timers, sched,
                 procd>>

---------------------------------------------------------------------------
Init ==
  /\ uci \in Configs
  /\ present \in SUBSET Devices
  /\ uptime = 0
  /\ boot = NoBoot
  /\ link = [phase |-> "none", gen |-> 0]
  /\ lock = "free"
  /\ job = NoJob
  /\ hotplug = {}
  /\ expired = {}
  /\ waiter = NoTimer
  /\ runners = {}
  /\ sched = NoSched
  /\ tokens = 0
  /\ defined = FALSE
  /\ rules = FALSE
  /\ orphan = FALSE

JobStep == LinkUpStart \/ StopKill \/ ServiceStopped \/ RestartStart \/ Submit

SchedStep ==
  \/ SchedLock("arm", "arming")
  \/ SchedLock("cancel", "cancelling")
  \/ SchedLock("cancelAgain", "cancellingAgain")
  \/ SchedDisabled \/ SchedArm \/ SchedReturn \/ SchedSubmit
  \/ SchedCancel("cancelling", "kill")
  \/ SchedKill
  \/ SchedCancel("cancellingAgain", "idle")

Next ==
  \/ Start \/ Reload
  \/ \E cmd \in {"boot", "auto"} : Boot(cmd)
  \/ \E t \in expired : RunnerExpired(t)
  \/ SchedExpired
  \/ \E d \in Devices : LinkDown(d) \/ LinkUp(d)
  \/ \E cmd \in {"stop", "restart"} : Stop(cmd)
  \/ JobStep
  \/ SchedStart \/ SchedStop \/ SchedStep
  \/ \E t \in runners : RunnerFire(t) \/ RunnerEnd(t)
  \/ \E cmd \in LinkCommands, d \in Devices : HotplugEvent(cmd, d)
  \/ DaemonInstalls \/ DaemonExits \/ OrphanInstalls
  \/ \E c \in Configs : Commit(c)
  \/ \E d \in Devices : DeviceChange(d)
  \/ Tick

Spec == Init /\ [][Next]_vars

(* Time passes; procd and the shells keep going.  flock serves its waiters *)
(* in turn, so whoever waits for a lock that is freed again and again gets *)
(* it.  Nobody has to issue a command, an event or a change.               *)
Fairness ==
  /\ WF_vars(Tick)
  /\ WF_vars(\E t \in runners : RunnerFire(t))
  /\ SF_vars(JobStep)
  /\ SF_vars(SchedStep)
  /\ SF_vars((\E t \in expired : RunnerExpired(t)) \/ SchedExpired)
  /\ SF_vars(\E d \in Devices : LinkDown(d) \/ LinkUp(d))

LiveSpec == Spec /\ Fairness

---------------------------------------------------------------------------
Phases == {"none", "wait", "manual", "done", "cancel"}
BootStates ==
  [phase : Phases, token : 0 .. LastToken, deadline : Delays \union {0}]
Commands == Nested \union {"none", "start", "boot", "auto", "stop", "restart"}
JobStates ==
  [pc : {"idle", "submit", "again", "kill", "stopped"}, cmd : Commands,
   def : BOOLEAN]
SchedStates ==
  [pc : {"idle", "arm", "arming", "calling", "called", "submit", "cancel",
         "cancelling", "kill", "cancelAgain", "cancellingAgain"},
   enabled : BOOLEAN, delay : Delays \union {0}, at : 0 .. LastUptime,
   seen : BootStates, timer : Timers \union {NoTimer}]

TypeOK ==
  /\ uci \in Configs
  /\ present \in SUBSET Devices
  /\ uptime \in 0 .. LastUptime
  /\ boot \in BootStates
  /\ link \in [phase : {"none", "up", "down"}, gen : 0 .. GenLimit]
  /\ lock \in {"free", "job", "sched"}
  /\ job \in JobStates
  /\ hotplug \in SUBSET (LinkCommands \X Devices)
  /\ expired \in SUBSET Timers
  /\ waiter \in Timers \union {NoTimer}
  /\ runners \in SUBSET Timers
  /\ sched \in SchedStates
  /\ tokens \in 0 .. LastToken
  /\ defined \in BOOLEAN
  /\ rules \in BOOLEAN
  /\ orphan \in BOOLEAN

(* What the scheduler read of the boot state under the lifecycle lock is   *)
(* still there when it writes: no start, stop, event or timer comes in     *)
(* between, so no update is lost.                                          *)
NoLostUpdate ==
  sched.pc \in {"arming", "cancelling", "cancellingAgain"} =>
    sched.seen = boot

(* procd has an instance only under a manual start or a window that is     *)
(* over; all that may remain to be done otherwise is the kill of a stop in *)
(* progress.  In particular none runs inside an armed boot window, and     *)
(* none outlives a stop, a disable or a scheduler stop.                    *)
RunsUnderAuthority ==
  defined => boot.phase \in {"manual", "done"} \/ job.pc = "kill"

(* An armed wait is never forgotten: a live supervised runner has its      *)
(* token, or its boot_expired call is under way, or the scheduler is about *)
(* to define that runner or to make that call.                             *)
WaitHasWaker ==
  boot.phase = "wait" =>
    \E t \in Timers :
      /\ BootIs(t)
      /\ \/ t \in runners /\ waiter = t
         \/ t \in expired
         \/ sched.pc \in {"calling", "submit"} /\ sched.timer = t

(* Between commands there is no table without an instance: every way to    *)
(* end the instance also deleted the table it left.  It is claimed without *)
(* Orphans: an nft command that outlives its killed daemon creates a table *)
(* which no command deletes before the next start or stop.                 *)
NoOrphanRules == job.pc = "idle" /\ rules => defined

(* A timer, late or in time, ends no instance: a stale boot_expired does   *)
(* not even submit a definition.                                           *)
TimerStopsNothing ==
  [][defined /\ ~defined' =>
       job.cmd \notin TimerCommands /\ job'.cmd \notin TimerCommands]_vars

(* After a link_down nothing but a link_up, a command or a start of the    *)
(* package brings the service back: no timer does.                         *)
NoTimerStartOnDownLink ==
  [][~defined /\ defined' /\ link.phase = "down" =>
       job.cmd \notin TimerCommands \union LinkCommands]_vars

(* The locks, tokens and checks together keep the promise of               *)
(* StartAuthority.                                                         *)
Authority == INSTANCE StartAuthority WITH
  Dues <- Delays \union {0}, phase <- boot.phase, due <- boot.deadline,
  clock <- uptime, running <- defined

AuthorityKept == Authority!Spec

(* A window that is armed ends in an instance, unless it is cancelled or   *)
(* the service could not be started at some time since.                    *)
Startable == uci.enabled /\ ConfigValid /\ link.phase # "down"

TimerDelivers ==
  boot.phase = "wait" ~> (defined \/ boot.phase = "cancel" \/ ~Startable)

(* A link_up that is on its way outside the boot window brings the service *)
(* back, unless the event does not apply any more, the service cannot be   *)
(* started, or it is cancelled.                                            *)
IfupRecovers ==
  \A d \in Devices :
    /\ <<"link_up", d>> \in hotplug
    /\ boot.phase \in {"manual", "done"}
    /\ link.gen < GenLimit
    ~> \/ defined
       \/ boot.phase = "cancel"
       \/ ~(Matches(d) /\ d \in present /\ ConfigValid)

(* README.md:137 says of ifdown that it first makes the old wait token     *)
(* invalid: no wait is armed once link_down has done its work.             *)
IfdownInvalidatesToken ==
  job.pc = "submit" /\ job.cmd = "link_down" => boot.phase # "wait"

===========================================================================
