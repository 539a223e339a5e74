# Verification of the TaoistFuchen packet services

TLA+ models, TLC runs and machine-checked proofs for `luci-app-taoistfuchen`, an OpenWrt
package that runs two packet services (FakeHTTP and FakeSIP) on a router, with a boot delay, an
interface hotplug script, a LuCI interface, an upload CGI and a logo customiser. Paths below are
relative to the repository root unless they start with `S/`, which stands for
`luci-app-taoistfuchen/root/`, or `D/`, for `luci-app-taoistfuchen/src/fakesip/src/`.

## 1. Inventory

### Service lifecycle (`S/etc/init.d/fakehttp`, `fakesip`, `S/usr/share/taoistfuchen/service-common.sh`)

* State: `/var/run/taoistfuchen-boot-delay/<service>.state` (phase `wait`, `manual`, `done` or
  `cancel`, a token, a deadline in seconds of uptime), `<service>.link` (`up`/`down` and a
  generation), `<service>.lock` (flock), the instance procd holds, the nftables table.
* Operations: start (contexts boot, auto, ifup, boot-expired, manual, ifdown-definition), stop,
  restart, reload, `link_up`, `link_down`, `boot_expired`, `service_stopped`.
* Interaction: every invocation holds procd's lock of the service; the lifecycle lock is shared
  with the scheduler. A plain start releases the lifecycle lock before procd has the definition.
* Hard: commands, link events and timers meet in any order; a timer may be late; a write of a
  state file may fail; an empty definition given to procd ends the instance.
* Correct when: nothing runs without authority; nothing a timer does ends or revives a service
  out of turn; an armed window is not forgotten; no table outlives its instance.

### Boot-delay scheduler and runner (`S/etc/init.d/taoistfuchen-boot-delay`, `boot-delay-runner.sh`)

* State: one runner per waiting service, supervised by procd; nothing of its own on disk.
* Operations: start (arm, keep, or leave alone), stop (cancel, kill, cancel again); the runner
  polls the boot state and the uptime, checks once more and calls `boot_expired`.
* Hard: configuration and uptime are read before the lock; the runner's last check and its call
  are not atomic.

### Hotplug script (`S/etc/hotplug.d/iface/99-taoistfuchen`)

* State: a cache of the L3 device per logical interface.
* Operations: ifup/ifdown -> `link_up`/`link_down` of each service whose configuration names the
  device. Reads the configuration without a lock.

### FakeSIP daemon (`D/`)

* State: a netfilter queue, tables `ip fakesip` and `ip6 fakesip`, an exit flag set by signals, an
  error count, a ring of payloads, a ring of learned sources.
* Operations: set-up in order (payload, sources, raw socket, queue, rules, signals), packet loop,
  clean-up in reverse order, `-k` (signal every process of the same executable).
* Hard: an old and a new process overlap; tables are deleted by name; a signal arrives between
  the test of the flag and `recv`, or before the handler exists; set-up fails half-way.

### Packet path of the daemon (`D/nfqueue.c`, `rawsend.c`, `payload.c`, `portmap.c`, `srcinfo.c`)

* State: the ring of payloads and its current node, two port maps, two raw sockets and the device
  each is bound to, the ring of learned sources, the packet held.
* Operations: per packet parse, decide, estimate the distance, choose payload and TTL, send the
  decoys, give the verdict.
* Hard: devices come and go between a packet and its decoys; the binding of a socket is remembered
  by index and made by name on old kernels; any socket call may fail with a packet held; TTLs,
  ports and lengths at their limits.
* Correct when: a verdict is asked for every packet taken up; decoys go only for what was asked, by the device of
  their packet, and die before they reach a peer whose distance was estimated.

### iptables fallback (`D/ipv4ipt.c`, `ipv6ipt.c`, `nfrules.c`)

* State: three chains per family in the mangle table, jumps from PREROUTING and POSTROUTING.
* Operations: per family clean-up and set-up, one command per rule; clean-up at the end.
* Hard: nothing is a transaction. Packets flow while rules are added, a process may be killed between
  two commands, the outcome of a clean-up is not looked at, and the next process may use other
  families and devices.

### Upload CGI and Custom Logo (`S/www/cgi-bin/taoistfuchen-upload`, `S/etc/init.d/taoistfuchen`)

* State: a lock directory and the staging files in `/var/run`, the asset directory on flash, a runtime
  directory in the web root, marked blocks in theme templates.
* Operations: an upload (stage, isolate, check, copy, activate), the trap on exit and on signals;
  start, stop and reload of the service (remove the blocks, wipe the runtime, choose, fill, inject).
* Hard: two requests, LuCI's own upload to the same staging path, signals and kills at any step; the
  service reads files an upload may replace; its commands may fail or be interrupted one by one.

### First-boot migration (`S/etc/uci-defaults/99_taoistfuchen`)

Normalises the configuration, migrates the boot delays (revision 3), removes legacy changes to
themes, starts the services in context `auto`. Must be repeatable after a crash at any step.

### Outside the models

LuCI views, menu and ACL (they write UCI and call the scripts above), the FakeHTTP binary (no
source in the repository), the bytes and checksums of packets, logging, build and release scripts,
string validation helpers.

## 2. Modules

| module | models | role |
|---|---|---|
| `StartAuthority` | what a service promises about starting and stopping | abstract specification |
| `ServiceLifecycle` | init script, scheduler, runner, hotplug call, state files, locks | detailed specification |
| `MCServiceLifecycle` | small instances | TLC |
| `ServiceLifecycle_proofs` | inductive invariants and theorems | TLAPS |
| `Interception`, `Interception_proofs` | what FakeSIP promises about the packets it diverts, with nft or iptables; that it follows | abstract specification, TLAPS |
| `FakesipDaemon` | processes of the FakeSIP daemon, their queues and tables | detailed specification |
| `MCFakesipDaemon` | small instances | TLC |
| `FakesipDaemon_proofs` | inductive invariants and theorems | TLAPS |
| `PacketPath` | command line, payloads, decision, sockets and decoys of one process | detailed specification |
| `MCPacketPath`, `MCPacketHops` | small instances; the second with an observer of distances | TLC |
| `PacketPath_proofs` | inductive invariants and theorems | TLAPS |
| `IptablesRules` | commands of set-up and clean-up without nft | detailed specification |
| `MCIptablesRules`, `IptablesRules_proofs` | a small instance; theorems | TLC, TLAPS |
| `AssetStore` | upload requests, asset directory, Custom Logo service | detailed specification |
| `MCAssetStore`, `AssetStore_proofs` | a small instance; theorems | TLC, TLAPS |

### ServiceLifecycle

One service, either one: the two init scripts differ, in what the model keeps, only in that
FakeHTTP alone has the mode "all interfaces" (`uci.all`).

| variable | in the code |
|---|---|
| `uci`, `present`, `uptime` | committed configuration, existing devices, `/proc/uptime` |
| `boot`, `link` | the `.state` and `.link` files |
| `lock` | flock on the `.lock` file |
| `job` | the invocation of the init script that holds procd's lock, and where it is |
| `hotplug` | the call the hotplug script is about to make |
| `expired` | `boot_expired` calls waiting for procd's lock |
| `waiter`, `runners` | the runner procd supervises; runner processes alive |
| `sched` | the scheduler: where it is, and what it has read |
| `tokens` | tokens handed out (`<service>.<uptime>.<pid>` in the code) |
| `defined`, `rules` | procd has an instance; the table exists |
| `orphan` | an nft command of a daemon that was killed in its set-up is still at work |

A step is one invocation's work under the lifecycle lock. What others do meanwhile is excluded by
the lock (they write the boot state) or commutes with it (they replace a file by one rename, or read
one). Where the code gives up a lock or lets another program act, the model has another step: the
definition reaches procd (`Submit`), `procd_kill` and `service_stopped` of a stop (`StopKill`,
`ServiceStopped`), the second start of a restart (`RestartStart`) and of a link_up (`LinkUpStart`),
the scheduler between reading, locking, releasing, calling and submitting (`SchedStart` ...
`SchedSubmit`), the runner between its last check and its call (`RunnerFire`, `RunnerExpired`), the
hotplug script between its test and its call (`HotplugEvent`, `LinkUp`, `LinkDown`). With
`WriteFaults` every replacement of a state file may fail, and each caller takes its error path. With
`Orphans` an instance that is ended before it has its table may leave an nft command behind
(`NftLivesOn`; `D/process.c:99`, no handler is set during set-up), which creates the table at any later
time (`OrphanInstalls`), after the clean-up of the command that ended the instance too.

Assumed of the system around: procd's lock of a service is held by an invocation of its init script
to its end (also by the scheduler's nested call); procd starts the runner it is told of and signals
one that is no longer defined; netifd runs one hotplug script at a time.

Left out: a lock that cannot be opened (the command returns 1 with an empty definition), an
unreadable `/proc/uptime`, a runner killed by somebody else (procd is not told to respawn it: the
wait then stays armed until an ifup after its deadline, or a command). The two services share
nothing here but the scheduler's loop, which handles them one after another.

### StartAuthority

The promise without locks, scripts or tokens: the phase, the announced end of the window, the clock
and whether an instance runs. `Arm` only while nothing runs; `Open` not before the announced end;
`Launch` only under `manual` or `done`; after `Cancel` only `Command` gives authority again.
`ServiceLifecycle` implements it with `phase <- boot.phase, due <- boot.deadline, clock <- uptime,
running <- defined` (`AuthorityKept`).

### Interception

What FakeSIP promises about diverted packets, without commands, tables, chains or signals: who holds the
queue, the traffic of each family that the rules divert, and the traffic that the process in its
packet loop wants. `Take` only a free queue; `Divert` only for a holder and while nobody serves, and
with the last of it a process may begin to serve; `Spare` (rules go) never while somebody serves; `Rest`
when a process that serves is about to end; `Release` with the rules gone, unless processes may crash.
`Promise` is what follows: one holder at most, who serves has what it wants diverted, and without
crashes nothing is diverted to a queue nobody reads.

| here | in `FakesipDaemon` | in `IptablesRules` |
|---|---|---|
| `holders` | processes some queue is bound to | the process there is (by its configuration) |
| `diverted` | per family the hooked chains of its table | the (chain, device) pairs with a hook, a rule for the device and the queue rule |
| `wanted` | both chains, in the families of a process in the loop that was not told to end | its devices at every hook, in its families, while it runs |
| `Crashes` | kills, or deletes that may fail | always |

Both implement it (`InterceptionKept`). The daemon does so with one queue number and without
orphans; the cases in which it does not are those named in section 3.

### FakesipDaemon

Any number of processes, each of which lives once: respawns and restarts are further processes.

| variable | in the code |
|---|---|
| `proc[p]` | where the process is, its options (`queue`, `fams`), the families still to do (`left`), `g_ctx.exit`, whether handlers are set, `err_cnt` |
| `reader` | the process each netfilter queue is bound to (the kernel's) |
| `table` | per family: the number in its first queue rule, the chains hooked |
| `stray` | nft commands whose process no longer waits |
| `script`, `cleaned` | what the init script has still to delete; it is done and nothing was started since |

Set-up is `OpenQueue`, then per family the commands `delete`, `create`, `prerouting`, `postrouting`
(`CommandSucceeds`, `CommandFails`), then `SetSignals`; the loop is `Test`, `EnterRecv`, `Receive`,
`ReceiveFails`; the end is `Undo` per family and `Close`. One command is one step because nft works
in one transaction and its process waits; the exception is a command that outlives the wait
(`Stray`), after a kill or a second signal in the clean-up. The commands for the selected
interfaces are taken together per chain. `Create` on a table that is still there keeps its first
queue rule. Other ways to change the tables (the administrator, a firewall reload) are left out.

`StopService` and `CleanupNftTable` are the init script after `procd_kill`; `Spawn` waits for them
since both hold procd's lock. `ServiceLifecycle` sees of all this only `rules`: some table exists.

### PacketPath

One process after another on one router; each starts from the globals' initial values.

| variable | in the code |
|---|---|
| `line` | the command line, accepted by `main` or not (`Accepted`) |
| `loaded`, `next`, `current` | the payload nodes, their links, `current_node` |
| `nameOf`, `live`, `old` | the kernel's devices by index, and whether it knows `SO_BINDTOIFINDEX` |
| `byIndex`, `cached` | `use_bindtoifindex`; `sock4if` and `sock6if` |
| `bound` | the device each raw socket is really bound to (the kernel's) |
| `held`, `left`, `aim`, `wire` | the packet held; decoys left, their TTL and payload, those sent |
| `fate` | what has become of the packet of the last message: its verdict is still open, was accepted or refused by the kernel, or could not be asked for |

Set-up is `LoadPayload` for each payload, `PayloadsLoaded`, `Open`. For a packet `Receive` is
`fs_rawsend_handle` up to its loop: family, ports, direction, distance, TTL, and the move to the next
payload. The loop is `Send`, for a packet going out with the binding before it: `BindToIndex`, or
`GiveUpIndexes` and then `NameDevice` and `BindToName`, which are two system calls between which a
device may change (`Plug`, `Unplug`). `SendFails` and `BindFails` leave the loop; `Release` is the
verdict, `ReleaseFails` one that the kernel refuses (`nfq_set_verdict`, 107-114), and `ReceiveUnread` a
message without a packet header, for which no verdict can be asked (60-63). A port map is the set of its bits (`Bit`, `Bitmap`). A custom payload needs one byte of its
buffer free (`Loads`). `Hops` and `SendTtl` are the arithmetic of the code, in integers that cannot
wrap (a TTL is a byte, percentages are below 100).

`fs_srcinfo_get` is modelled by what it returns: nothing in the program calls `fs_srcinfo_put`, so
the lookup fails and the TTL is 0 (`PeerTtls`). Addresses, the text of the invitation, truncated
packets and logging are left out; whatever the parsers refuse is a packet of the kind `odd`.

### IptablesRules

| variable | in the code |
|---|---|
| `phase`, `step`, `stage`, `todo`, `dev` | where the process is: which command of which list comes next |
| `conf`, `left` | `-i`, `-a`, `-4`, `-6`; families still to do |
| `exists`, `rules`, `hooks` | iptables' chains, the rules of each, jumps to each |
| `missed` | clean-up commands that failed though they could have succeeded |

One action is one command: `NewChain`, `HookChain`, `LeaveLocal` (once per excluded network),
`AddMark`, `AddQueue`, per device `AddDrop`, `AddGoS`, `AddGoD`; `CleanCommand` and
`CleanCommandFails` walk the list `CleanUp`. iptables refuses a new chain that exists, a rule for a
chain that does not, and the deletion of a chain that has rules or references (`CanClean`). `Killed`
leaves everything where it is. Rules are kept as sets: their order in a chain is the order of the
commands, which the stages fix. A command is one step because the process waits for it; what a
killed process's last command still does, and two processes at the rules at once, are not modelled
(`FakesipDaemon` treats both for nft). A device has three rules in IPv4 and in IPv6 alike.

### AssetStore

| variable | in the code |
|---|---|
| `request[r]` | a CGI process: the step it is at, the name, what the client posted, its candidate and its copy |
| `lock`, `pending` | the lock directory and the fixed staging path |
| `files` | the asset directory |
| `service` | the script at work: where it is, the templates still to do, the chosen image |
| `site`, `blocks`, `kept` | the runtime directory (which image it has, and whether its style sheet is whole), templates with the block, and those whose block could not be removed |
| `signalled`, `meddled` | a request has been signalled; LuCI has uploaded to the staging path itself |

A request is `Begin` (lock, trap, sweep), `Helper`, `Isolate`, `Check`, `Copy`, `Activate`; every
early exit is `Fail`. The trap does not end the script: after a `Signal` it goes on, without its lock
and its files. `Kill` (SIGKILL) runs no trap, and the lock then stays until `PowerLoss`. The service
is `Command`, `Clear` per template, `Wipe`, `Choose`, `Create`, `Fill`, `Inject` per template; each
may fail in the ways the script allows, and `ServiceKilled` may end it anywhere. `Fill` looks at the
outcome of copying the images and the script, but not at the write of the style sheet (268): the blocks
are injected all the same, over a runtime whose style sheet may be missing or cut (`styled`). A removal
of the directory may stop half-way (`Removed`).

The asset directory starts with any files: releases 1.x and a copy at first boot may have left
unchecked ones. Left out: the checks of the request's own text, which come before any state; the
content stamp; the preparation of the directories; the selection by Argon version (a template may
be skipped); private temporary files a killed request leaves, which the next `Begin` removes. Logo
and favicon are one image, and the two directories whose files the script counts are one.

## 3. Properties and runs

| run | instance | checks |
|---|---|---|
| `timers` | 1 device, delays 1 and 2, on/on/off configurations, uptime to 2, 2 tokens | `TypeOK`, `NoLostUpdate`, `RunsUnderAuthority`, `WaitHasWaker`, `NoOrphanRules`, `TimerStopsNothing`, `AuthorityKept` |
| `links` | 2 devices (symmetric), both selected, or all, or the service disabled; 2 link generations; writes may fail, nft commands outlive their daemon | `RunsUnderAuthority`, `NoLostUpdate`, `NoTimerStartOnDownLink`, `AuthorityKept`, `TimerStopsNothing` |
| `live` | fairness, 1 device, 1 token, 2 link generations | `TimerDelivers`, `IfupRecovers` |
| `ifdown` | smallest instance | `IfdownInvalidatesToken` is violated (section 5) |
| `daemon_rules` | 3 processes, 2 queue numbers, failing commands | `TypeOK`, `TablesHaveReader` |
| `daemon_queue` | 3 processes, 1 queue number, failing commands, kills | `ListenerIntercepts`, `StopLeavesNoTable`, `InterceptionKept` |
| `daemon_live` | 2 processes, 1 queue number, all faults, kills and orphans, fairness | `SetupEnds`, `ToldEnds` |
| `daemon_gap` | 1 process, fairness | `StopsNormally` is violated (section 5) |
| `packets` | 7 command lines, 5 payload lengths, 2 TTLs, 2 ports, 3 devices under 2 names, failing calls, fairness | `TypeOK`, `RingWhole`, `DecoysByOwnDevice`, `DecoysDie`, `DecoysFit`, `DecoysAsAsked`, `EveryPacketAnswered` |
| `packets_hops` | 1 peer heard at 10 or 11 hops, `-y 60` or none | `RaisedToEstimate` is violated (section 5) |
| `iptables` | 2 families, 2 devices or all, 2 networks in IPv4 and 1 in IPv6, one missed command, kills | `TypeOK`, `OneHook`, `SetupExact`, `LocalNeverQueued`, `CleanSlate`, `InterceptionKept` |
| `assets` | 2 requests, 2 names, a proper and an improper image, quota 3, 1 template | `TypeOK`, `ServedChecked`, `BlocksServed`, `StoredChecked`, `QuotaKept`, `OwnContent` |

Bounds. Two tokens are the least with which an old and a new wait exist at once (a re-arm with
another delay, its old runner still alive); two delays make a re-arm change the deadline; uptime 2
lets one deadline pass while the other is still ahead. Two link generations give a down and an up, in
`live` too: an ifup that is stored after an ifdown, and a window that ends on a down link, are among
the behaviours `IfupRecovers` is about. The limit is reached, so its guard is exercised. Commits and device changes are unbounded. In the daemon
runs three processes give one that ends, one that starts and one that is kept out; the error limit
is 2 or 1 instead of 20. The two daemon runs without liveness use symmetry of the processes, which
differ in nothing but their names.

In `packets` the payload lengths lie on both sides of the limit (1199 and 1200) and beyond the packet
buffer, the TTLs give a peer exactly as far as the default TTL and one hop further, the ports share
a bit of their byte (5 and 13), and the percentages reach 99 and 100. Three devices are the least
with which the name of a device passes to another one while a socket is bound. In `iptables` two
devices let a wreck have other devices than the next process, and one missed command per process is
enough to defeat a clean-up that relied on it. In `assets` the sizes (2 and 1) and the quota 3 let two
uploads fit each alone and not together; requests are symmetric. Deadlock is checked everywhere.

Fairness (`LiveSpec`). Time passes; a runner polls once a second, so it fires if the deadline stays
past and the wait armed (weak). An invocation that has begun, a scheduler that has begun, a call
that waits for a lock and a link event on its way get their turn when the lock is free again and
again (strong: flock and procd serve waiters, and a shell is not suspended for ever). Nobody has to
issue a command, commit or event. `TimerDelivers`: an armed window ends in an instance unless it is
cancelled, or the service is disabled, invalid or its link down at some time since. `IfupRecovers`:
outside the window a link_up brings the service back unless it no longer applies.

Fairness of the daemon: a process that can go on does so (nft ends), and a packet comes some time
while a hooked table feeds the queue. The second only makes `StopsNormally` harder to violate.
Nobody has to send a signal, and none has to be sent twice.

Fairness of `PacketPath` is weak, of one process's own steps (`Process`): it runs alone and waits for
nobody while it holds a packet. Packets, devices, start and stop are not fair.

What the properties of the packet path claim. `DecoysDie` is about the estimated distance: the nearest
of 64, 128 and 255 above the TTL is a guess of the code's, and without a TTL of the peer the guess is
64. With `-g` nothing is claimed. `EveryPacketAnswered` says that for every packet taken up a verdict is
asked for, whatever sockets and devices do. It does not say that the kernel takes it: a refused verdict
and a message without a header count as errors of the loop, and that packet stays in the queue until it
is closed. `DecoysByOwnDevice` allows, where sockets are bound by name, the
device that took the name meanwhile. `CleanSlate` is claimed if no command failed without cause, and
for the families of the process: what a killed process left in a family the next one does not use
stays (its queue rule lets packets pass). `OneHook`, `SetupExact` and `LocalNeverQueued` need neither.

`QuotaKept` and `OwnContent` are claimed until a request is signalled. Then it goes on without its
lock, its exit frees the lock of another, and TLC finds two requests that together exceed the quota.
`StoredChecked` holds all the same, because a request reads only its private candidate.

`BlocksServed` is about the images and the script of the runtime, whose copying is checked. It says
nothing of the style sheet. `TypeOK` of `AssetStore` says that uploads and the service leave no asset
half written; the first-boot script, which is not modelled, copies into the directory in place.

What the daemon's properties do not claim. With different queue numbers `ListenerIntercepts` fails:
a process told to end may delete the tables of a successor that opened another queue meanwhile
(TLC finds it with two processes), and nothing restores them. With orphans it fails too, and so does
`StopLeavesNoTable`. A killed process leaves its tables until the next start or stop.

`NoOrphanRules` is not claimed with `Orphans`: an nft command that outlives its daemon may create the
table after the clean-up of the command that ended the instance, and no code deletes it before the next
start or stop. `WaitHasWaker` and `NoOrphanRules` are not claimed with `WriteFaults`. A re-arm that fails to write
leaves the old wait armed while its runner is withdrawn; a start whose first write fails submits an
empty definition without having deleted the table. Likewise a stop that cannot write `cancel` kills
the instance and leaves the old authority, so that a later ifup starts the service.

## 4. Proofs

`ServiceLifecycle_proofs` proves, for all devices, configurations, delays and bounds:

| theorem | states |
|---|---|
| `TypeCorrect`, `NothingLost`, `NoUnauthorisedInstance` | `Spec => []TypeOK`, `[]NoLostUpdate`, `[]RunsUnderAuthority` |
| `TimersStopNothing`, `NoTimerStartWhileDown` | the action properties `TimerStopsNothing`, `NoTimerStartOnDownLink` |
| `KeepsAuthority` | `Spec => AuthorityKept`: every step is a step of `StartAuthority` or a stutter |
| `NoTableLeft` | `[]NoOrphanRules`, if no write fails and no nft command outlives its daemon |
| `NoWaitForgotten` | `[]WaitHasWaker`, if no write fails |
| `LocksReturn` | who holds a lock comes to its end, and nobody waits in a circle (below) |

The only assumption is `LifecycleAssumption` (types of the constants); `NoTableLeft` and
`NoWaitForgotten` add `~WriteFaults`, and the first `~Orphans`. The inductive invariant is `IInv`, five parts, each with its own step lemma:

* `TypeInv`: `TypeOK` is not inductive, because the scheduler hands out a token without a second
  look at the bound and keeps the token of a wait it has seen; so what it has seen is typed too.
* `LockInv`: who holds the lifecycle lock at which step. It gives `NoLostUpdate`: every writer but
  the scheduler needs the lock free.
* `AuthorityInv`: a definition on its way to procd has its authority already, and an instance
  without authority is one a stop is about to kill. Its scheduler case rests on `NoLostUpdate`.
* `CommandInv`: a timer finds no instance, and link commands keep the link state they wrote.
* `TimerInv`: a `boot_expired` call is made after its deadline; the refinement's `Open` needs it.

`RulesInv` and `WakerInv` strengthen the last two properties in the same way. The cases of a start
are stated once (`ManualCases`, `AutomaticCases`, `TimerCases`) and cited by every part.

`FakesipDaemon_proofs` proves, for any number of processes, any queue numbers and any error limit:

| theorem | states | if |
|---|---|---|
| `DaemonTypeCorrect` | `[]TypeOK` | |
| `RulesBeforeQueue` | `[]TablesHaveReader` | no kills, no orphans, no failing delete |
| `ListenersIntercept` | `[]ListenerIntercepts` | no orphans, one queue number |
| `NothingAfterStop` | `[]StopLeavesNoTable` | no orphans, no failing delete |
| `DaemonIntercepts`, `DaemonPromise` | `InterceptionKept`, `[]Interceptor!Promise` | no orphans, one queue number |
| `ProcessesProceed` | a process in set-up or told to end gets there (below) | |

`DaemonAssumption` gives the types of the constants. `BaseInv` is needed by all: `PlaceInv` (a
process at a command has a family to work on, and recv is entered below the error limit, without
which `TypeOK` is not inductive), `HolderInv` (from opening to closing it the queue is bound to the
process), `ToldInv` (only a process that has finished its set-up can be told) and `AskedInv` (while
the init script deletes, every living process was told). On top of it `RulesInv` names for every
table a process that will delete it; `BuiltInv` says what a set-up has achieved so far, and survives
because with one queue number `OnlyHolder` leaves nobody else to run a command; `GoneInv` says which
tables the script has dealt with.

`DaemonIntercepts` goes through the steps one by one. A step that is none of Interception's changes
nothing it sees (`AloneStep`). `OpenQueueTakes`, `CommandDiverts`, `SignalsServe`, `UndoSpares`,
`CloseReleases`, `KilledReleases` and `ScriptSpares` map the others. With one queue number the process
at work is the only one that can serve (`OthersDoNotServe`, from `HolderInv`); `BuiltInv` says that all
it wants is diverted when it sets its handlers, and `RulesInv` that nothing is when it closes the
queue. `DaemonPromise` is then `PromiseKept` of `Interception_proofs`, with its variables substituted.

`PacketPath_proofs` proves, for any command lines, payload lengths, ports, TTLs and devices, with and
without failing calls:

| theorem | states |
|---|---|
| `PathTypeCorrect`, `RingIsWhole` | `[]TypeOK`, `[]RingWhole` |
| `DecoysDieEarly`, `DecoysAlwaysFit` | `[]DecoysDie`, `[]DecoysFit` |
| `DecoysAreAsked`, `DecoysUseOwnDevice` | `[]DecoysAsAsked`, `[]DecoysByOwnDevice` |
| `PacketsAdvance` | a packet held comes nearer to its verdict, and is held until that is asked for (below) |

`Base` is `TypeOK` with `Control`: what each control point knows (the command line was accepted, the
nodes loaded are those of the payloads that fit, decoys are for a packet to be faked). `TypeOK` needs
it because the range of the TTL and of the counts comes from the acceptance. `RingWhole` is
inductive on top of it: a part of the new ring that is closed and misses the new node would be closed
in the old one. `Aimed` gives `DecoysDie` together with two lemmas of arithmetic (`HopsBounds`,
`ShareIsLess`). `Sockets` says that a socket is bound to the device remembered for it or to a later one
of the same name, which survives because a name only passes on to newer indexes.

`IptablesRules_proofs` proves, for any networks, devices and number of missed commands:

| theorem | states |
|---|---|
| `RulesTypeCorrect`, `HookedOnce` | `[]TypeOK`, `[]OneHook` |
| `SetupIsExact`, `LocalIsSpared`, `WrecksAreCleaned` | `[]SetupExact`, `[]LocalNeverQueued`, `[]CleanSlate` |
| `RulesIntercept` | `InterceptionKept` |
| `SetupIsExactAnyhow`, `InterceptAnyhow` | `[]SetupExact` and the steps of Interception, from any leftovers |

The inductive invariant has what is true of every wreck (`Sound`, per family: a hook leads to a chain
that is there, a jump to R stands after all the exemptions), what a set-up has achieved at each stage
(`Building`, `Built`), what a clean-up without missed commands has achieved at each step (`Cleaned`)
and that the step rests at 1 outside a clean-up (`Rested`). A set-up that gets past its three new chains
has found none of them there, which is why it is exact even after a clean-up that failed.

`SetupIsExact` and `RulesIntercept` use of the wrecks only that rules and hooks need a chain that is there
(`Consistent`), which is iptables' doing and not FakeSIP's. The two `Anyhow` theorems therefore start from
`Leftovers`: no process yet, and any chains, rules and hooks under FakeSIP's names that the kernel can
have, such as rules that were saved and restored, hooked twice or half deleted by hand. `OneHook`,
`LocalNeverQueued` and `CleanSlate` are not claimed there, and TLC refutes `OneHook` from leftovers.

`AssetStore_proofs` proves, for any number of requests, names, images, templates and any quota:

| theorem | states |
|---|---|
| `StoreTypeCorrect`, `OnlyCheckedStored` | `[]TypeOK`, `StoredChecked` |
| `QuotaIsKept`, `ContentIsOwn` | `QuotaKept`, `OwnContent` |
| `OnlyCheckedServed`, `BlocksHaveRuntime` | `[]ServedChecked`, `[]BlocksServed` |

The inductive invariant says that a request past its checks holds a proper image (`Uploads`); that until
a signal at most one request is served, under the lock, and what it was found to fit still fits
(`Alone`); that the service has removed the blocks before it touches the runtime (`Cleared`); and that
what it is about to copy or serve is proper (`Chosen`), which an upload meanwhile cannot change.

### Progress

Liveness under fairness is out of the prover's reach. What a liveness property needs apart from fairness
is proved: a distance to the goal that is bounded, that each step of the responsible process shortens,
and that no step of anybody else lengthens. What stays with TLC is that such a step can be taken and, being
fair, is taken.

| theorem | distance | who | liveness property it is the safety half of |
|---|---|---|---|
| `PacketsAdvance` | 0 to 14: decoys left, steps to bind the socket | the process that holds the packet | `EveryPacketAnswered` |
| `ProcessesProceed` | 1 to 13: commands left of the set-up, tables left of the clean-up | each process of the daemon | `SetupEnds`, `ToldEnds` |
| `LocksReturn` | at most 4, 5 and 2: steps left of an invocation, of the scheduler, of the holder of the lifecycle lock | that invocation, the scheduler, the holder | none alone; it is why their fairness asks little |

`ProcessesProceed` needs no assumption: commands may fail, processes be killed, tables be deleted by others,
and orphans run. It also says that a process told to end stays told, so that its goal is its end;
the gap between the test of the flag and `recv` is what it leaves out (section 5). `LocksReturn` adds that
a restart that waits for the lifecycle lock and a scheduler that waits for a lock or for its own call never
wait at the same time, though they take the two locks in different orders.

### What is only model-checked

The five liveness properties: `TimerDelivers`, `IfupRecovers`, `SetupEnds`, `ToldEnds` and
`EveryPacketAnswered`. Every invariant and every action property that a passing run checks is proved, and so
are the refinements. The assumptions are those of the modules, the types of the constants, and what the
tables above add.

## 5. Findings

`D/nfqueue.c` tests the exit flag (236) and then waits in `recv` (243). A SIGTERM in between sets
the flag and wakes nobody; the next packet would, but the init script deletes the tables at once
(`service-common.sh:195-196`), so that none comes: the process keeps its queue until it is killed.
`README.md:92` says the flag lets procd stop the service normally; the run `daemon_gap` shows the
behaviour. `ToldEnds` is what holds outside that gap.

`README.md:137` says that ifdown first invalidates the old wait token. `link_down` records the link
state and stops the instance, and leaves the boot state as it is; the run `ifdown` shows a wait still
armed when link_down has done its work. A timer that then comes due finds the link down and starts
nothing (`NoTimerStartOnDownLink`), so on a down link the effect is the announced one.

`D/../README.md:50` says of `-y` that the TTL is raised to a percentage of the estimated hops. For a
packet going out `D/rawsend.c:455` looks the peer up among the learned sources, but no code stores
one: the distance is taken as 64 whatever it is. The run `packets_hops` shows a decoy for a peer heard
from before whose TTL is not the percentage of its distance. With `-y 60` it is 38, which passes a peer
11 hops away. For packets that came in, whose own TTL is read, `-y` does what is said.

## 6. Not modelled

* First-boot migration. It runs once, alone and in sequence, before the services; its order of commits
  would be the whole model. Two of its hazards are worth knowing: when a theme file cannot be restored
  and its selection was an SVG, the selection is reset all the same, and the retry its comment (67-69)
  promises no longer knows the file and drops the backup; and a copy of an asset that was interrupted
  is taken for complete the next time (`AssetStore` starts from such files).
* The ring of learned sources as a data structure: no code fills it.
* Bytes and checksums of packets, text of the invitation: data without state.
* A switch between nft and iptables, which leaves the rules of the other tool in place.
* FakeHTTP's binary has no source here; the lifecycle of its service is modelled.
* Induction over data, liveness and ENABLED are out of the prover's reach.

## 7. What could follow

The tables of `ServiceLifecycle` tied to `FakesipDaemon`, and an abstract specification of the asset store; the
safety half of `TimerDelivers` and `IfupRecovers`; the hotplug script's cache of devices; a lock that
cannot be opened.
