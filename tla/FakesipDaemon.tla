--------------------------- MODULE FakesipDaemon ---------------------------
(***************************************************************************)
(* Lives of the FakeSIP daemon on one router: what each process does to    *)
(* the netfilter queues and to the tables `ip fakesip` and `ip6 fakesip`,  *)
(* which belong to no process and are made and deleted by name.            *)
(*                                                                         *)
(* A process opens its queue, installs the rules family by family with one *)
(* nft command after the other, sets its signal handlers, reads packets,   *)
(* deletes the tables and gives the queue back.  procd may start the next  *)
(* process before the last one has ended; the init script deletes the      *)
(* tables too, once it has had the processes told to end.                  *)
(*                                                                         *)
(* An nft command is one step, fork to wait: nft changes the tables in one *)
(* transaction.  It is a step of its own (`Stray`) when the process does   *)
(* not wait for it to the end.                                             *)
(***************************************************************************)
EXTENDS Naturals

CONSTANTS
  Procs,      \* processes; each lives once
  NoProc,
  Queues,     \* queue numbers a process may be given
  ErrLimit,   \* failed receives in a row that end the loop (20)
  NftFaults,  \* kinds of nft command that may fail for no modelled reason
  Kills,      \* may a process be killed, or told to end before it listens
  Orphans     \* may an nft command go on after its process stopped waiting

Families == {"ip", "ip6"}
Chains == {"prerouting", "postrouting"}
CommandKinds == {"delete", "create"} \union Chains

ASSUME DaemonAssumption ==
  /\ NoProc \notin Procs
  /\ Queues \subseteq Nat \ {0}
  /\ ErrLimit \in Nat \ {0}
  /\ NftFaults \subseteq CommandKinds
  /\ Kills \in BOOLEAN
  /\ Orphans \in BOOLEAN

VARIABLES
  proc,     \* the processes
  reader,   \* the process each queue is bound to
  table,    \* the table of each family
  stray,    \* nft commands nobody waits for
  script,   \* families whose table the init script is about to delete
  cleaned   \* it has deleted them, and no process was started since

vars == <<proc, reader, table, stray, script, cleaned>>
initScript == <<script, cleaned>>

(* The queue of a table is that of its first queue rule: the rule's bypass *)
(* ends the chain, so that a second queue rule is never reached.  A chain  *)
(* is hooked when it jumps to the rules on the selected devices.           *)
TableType == [queue : Queues, hooks : SUBSET Chains]
NoTable == [queue |-> 0, hooks |-> {}]

Installing == CommandKinds            \* control points of fs_nfrules_setup
Looping == {"test", "enter", "recv"}  \* control points of fs_nfq_loop
Holding == Installing \union Looping \union {"signals", "undo", "close"}

NewProc == [pc |-> "new", queue |-> 0, fams |-> {}, left |-> {},
            exit |-> FALSE, handles |-> FALSE, errs |-> 0]

Alive(p) == proc[p].pc \notin {"new", "dead"}

(* IPv4 comes first, when installing and when deleting.                    *)
First(fams) == IF "ip" \in fams THEN "ip" ELSE "ip6"

Family(p) == First(proc[p].left)

---------------------------------------------------------------------------
(* nft commands.                                                           *)

Delete(f) == table' = [table EXCEPT ![f] = NoTable]

(* A table that is there keeps its rules; the new ones come after them.    *)
Create(f, q) ==
  table' = [table EXCEPT
    ![f] = IF @ = NoTable THEN [queue |-> q, hooks |-> {}] ELSE @]

Hook(f, chain) == table' = [table EXCEPT ![f].hooks = @ \union {chain}]

Effect(kind, f, q) ==
  CASE kind = "delete" -> Delete(f)
    [] kind = "create" -> Create(f, q)
    [] kind \in Chains -> Hook(f, kind)

CanSucceed(kind, f) == kind \in {"delete", "create"} \/ table[f] # NoTable
CanFail(kind, f) == kind \in NftFaults \/ ~CanSucceed(kind, f)

(* The command a process is at, if it is at one.                           *)
Command(p) ==
  [kind |-> IF proc[p].pc = "undo" THEN "delete" ELSE proc[p].pc,
   fam |-> Family(p), queue |-> proc[p].queue]

CommandType == [kind : CommandKinds, fam : Families, queue : Queues]

---------------------------------------------------------------------------
(* Set-up.                                                                 *)

(* procd, or its respawn, starts a process; not while the init script      *)
(* stops the service, which holds procd's lock and has withdrawn the       *)
(* instance.                                                               *)
Spawn(p) ==
  /\ proc[p].pc = "new" /\ script = {}
  /\ \E q \in Queues, fams \in (SUBSET Families) \ {{}} :
       proc' = [proc EXCEPT ![p] =
         [@ EXCEPT !.pc = "open", !.queue = q, !.fams = fams]]
  /\ cleaned' = FALSE
  /\ UNCHANGED <<reader, table, stray, script>>

(* A step before the queue fails, or the queue itself: it is bound to      *)
(* another process, or cannot be configured and is given back.             *)
OpenFails(p) ==
  /\ proc[p].pc = "open"
  /\ proc' = [proc EXCEPT ![p].pc = "dead"]
  /\ UNCHANGED <<reader, table, stray, initScript>>

OpenQueue(p) ==
  /\ proc[p].pc = "open"
  /\ reader[proc[p].queue] = NoProc
  /\ reader' = [reader EXCEPT ![proc[p].queue] = p]
  /\ proc' = [proc EXCEPT ![p].pc = "delete", ![p].left = proc[p].fams]
  /\ UNCHANGED <<table, stray, initScript>>

(* Fault: a failed set-up gives the queue back and leaves the rules.       *)
LeaveKeepingRules(p) == proc' = [proc EXCEPT ![p].pc = "close"]

(* goto cleanup_nfrules: every family in use is deleted.                   *)
Leave(p) ==
  proc' = [proc EXCEPT ![p].pc = "undo", ![p].left = proc[p].fams]

(* Fault: the family that is finished is not left behind.                  *)
AdvanceSameFamily(p) ==
  proc' = [proc EXCEPT ![p].pc =
    CASE @ = "delete" -> "create"
      [] @ = "create" -> "prerouting"
      [] @ = "prerouting" -> "postrouting"
      [] @ = "postrouting" -> "delete"]

(* The command after this one; a family is finished when it is hooked.     *)
Advance(p) ==
  LET rest == proc[p].left \ {Family(p)}
  IN proc' = [proc EXCEPT ![p] =
       CASE @.pc = "delete" -> [@ EXCEPT !.pc = "create"]
         [] @.pc = "create" -> [@ EXCEPT !.pc = "prerouting"]
         [] @.pc = "prerouting" -> [@ EXCEPT !.pc = "postrouting"]
         [] @.pc = "postrouting" ->
              [@ EXCEPT !.pc = IF rest = {} THEN "signals" ELSE "delete",
                        !.left = rest]]

CommandSucceeds(p) ==
  /\ proc[p].pc \in Installing
  /\ CanSucceed(proc[p].pc, Family(p))
  /\ Effect(proc[p].pc, Family(p), proc[p].queue)
  /\ Advance(p)
  /\ UNCHANGED <<reader, stray, initScript>>

(* Nobody looks whether the delete that comes first has failed.            *)
CommandFails(p) ==
  /\ proc[p].pc \in Installing
  /\ CanFail(proc[p].pc, Family(p))
  /\ IF proc[p].pc = "delete" THEN Advance(p) ELSE Leave(p)
  /\ UNCHANGED <<reader, table, stray, initScript>>

SetSignals(p) ==
  /\ proc[p].pc = "signals"
  /\ proc' = [proc EXCEPT ![p].pc = "test", ![p].handles = TRUE]
  /\ UNCHANGED <<reader, table, stray, initScript>>

SetSignalsFails(p) ==
  /\ proc[p].pc = "signals"
  /\ Leave(p)
  /\ UNCHANGED <<reader, table, stray, initScript>>

---------------------------------------------------------------------------
(* The packet loop.                                                        *)

(* Faults: the error count is not looked at; the exit flag is not.         *)
TestUnlimited(p) ==
  /\ proc[p].pc = "test"
  /\ IF proc[p].exit THEN Leave(p)
                     ELSE proc' = [proc EXCEPT ![p].pc = "enter"]
  /\ UNCHANGED <<reader, table, stray, initScript>>
TestWithoutExit(p) ==
  /\ proc[p].pc = "test"
  /\ IF proc[p].errs >= ErrLimit
       THEN Leave(p)
       ELSE proc' = [proc EXCEPT ![p].pc = "enter"]
  /\ UNCHANGED <<reader, table, stray, initScript>>

Test(p) ==
  /\ proc[p].pc = "test"
  /\ IF proc[p].exit \/ proc[p].errs >= ErrLimit
       THEN Leave(p)
       ELSE proc' = [proc EXCEPT ![p].pc = "enter"]
  /\ UNCHANGED <<reader, table, stray, initScript>>

(* The flag was tested; from here on the process is in recv.               *)
EnterRecv(p) ==
  /\ proc[p].pc = "enter"
  /\ proc' = [proc EXCEPT ![p].pc = "recv"]
  /\ UNCHANGED <<reader, table, stray, initScript>>

(* A packet comes and is handled, or its handling fails.                   *)
Receive(p) ==
  /\ proc[p].pc = "recv"
  /\ \E n \in {0, proc[p].errs + 1} :
       proc' = [proc EXCEPT ![p].pc = "test", ![p].errs = n]
  /\ UNCHANGED <<reader, table, stray, initScript>>

(* recv fails: for now (no buffer, time-out), or for good.                 *)
ReceiveFails(p) ==
  /\ proc[p].pc = "recv"
  /\ \/ proc' = [proc EXCEPT ![p].pc = "test", ![p].errs = @ + 1]
     \/ Leave(p)
  /\ UNCHANGED <<reader, table, stray, initScript>>

---------------------------------------------------------------------------
(* The end.                                                                *)

DropFamily(p) ==
  LET rest == proc[p].left \ {Family(p)}
  IN proc' = [proc EXCEPT ![p].left = rest,
                          ![p].pc = IF rest = {} THEN "close" ELSE "undo"]

(* Fault: the queue is given back before the tables are deleted.           *)
UndoAfterClose(p) ==
  /\ proc[p].pc = "undo"
  /\ Delete(Family(p))
  /\ DropFamily(p)
  /\ reader' = [reader EXCEPT ![proc[p].queue] = NoProc]
  /\ UNCHANGED <<stray, initScript>>

(* fs_nfrules_cleanup: the result of a delete is not looked at.            *)
Undo(p) ==
  /\ proc[p].pc = "undo"
  /\ Delete(Family(p)) \/ ("delete" \in NftFaults /\ UNCHANGED table)
  /\ DropFamily(p)
  /\ UNCHANGED <<reader, stray, initScript>>

Close(p) ==
  /\ proc[p].pc = "close"
  /\ reader' = [reader EXCEPT ![proc[p].queue] = NoProc]
  /\ proc' = [proc EXCEPT ![p].pc = "dead"]
  /\ UNCHANGED <<table, stray, initScript>>

(* SIGTERM or SIGINT, from procd, from `fakesip -k` or from a person, once *)
(* the handlers are set.  A recv is interrupted, which counts as an error. *)
(* Nobody has to send it, or to send it again.                             *)
Tell(p) ==
  /\ Alive(p) /\ proc[p].handles
  /\ \/ /\ proc[p].pc = "recv"
        /\ proc' = [proc EXCEPT ![p].exit = TRUE, ![p].pc = "test",
                               ![p].errs = @ + 1]
     \/ /\ proc[p].pc # "recv"
        /\ proc' = [proc EXCEPT ![p].exit = TRUE]
  /\ UNCHANGED <<reader, table, stray, initScript>>

(* The same signal while the process waits for a delete of its clean-up:   *)
(* waitpid is interrupted and the clean-up goes on without the result.     *)
TellInUndo(p) ==
  /\ Orphans
  /\ proc[p].pc = "undo" /\ proc[p].handles
  /\ LET rest == proc[p].left \ {Family(p)}
     IN proc' = [proc EXCEPT ![p].exit = TRUE, ![p].left = rest,
                   ![p].pc = IF rest = {} THEN "close" ELSE "undo"]
  /\ stray' = stray \union {Command(p)}
  /\ UNCHANGED <<reader, table, initScript>>

(* SIGKILL at any time; SIGTERM, SIGINT or SIGHUP before the handlers are  *)
(* set.  The kernel unbinds the queue; a command already started goes on.  *)
Killed(p) ==
  /\ Kills /\ Alive(p)
  /\ proc' = [proc EXCEPT ![p].pc = "dead"]
  /\ reader' = [q \in Queues |-> IF reader[q] = p THEN NoProc ELSE reader[q]]
  /\ \/ UNCHANGED stray
     \/ /\ Orphans /\ proc[p].pc \in Installing \union {"undo"}
        /\ stray' = stray \union {Command(p)}
  /\ UNCHANGED <<table, initScript>>

Stray(c) ==
  /\ c \in stray
  /\ stray' = stray \ {c}
  /\ \/ CanSucceed(c.kind, c.fam) /\ Effect(c.kind, c.fam, c.queue)
     \/ UNCHANGED table
  /\ UNCHANGED <<proc, reader, initScript>>

---------------------------------------------------------------------------
(* The init script.                                                        *)

(* Fault: the tables are deleted before the processes are told.            *)
StopServiceUntold ==
  /\ script = {}
  /\ script' = Families /\ cleaned' = FALSE
  /\ UNCHANGED <<proc, reader, table, stray>>

(* procd_kill has had every process told, and does not wait for its end;   *)
(* a process that was told before it had handlers is dead.                 *)
StopService ==
  /\ script = {}
  /\ \A p \in Procs : Alive(p) => proc[p].exit
  /\ script' = Families /\ cleaned' = FALSE
  /\ UNCHANGED <<proc, reader, table, stray>>

(* Fault: only the IPv4 table is deleted.                                  *)
CleanupIPv4Only ==
  /\ script # {}
  /\ Delete("ip")
  /\ script' = {} /\ cleaned' = TRUE
  /\ UNCHANGED <<proc, reader, stray>>

CleanupNftTable ==
  /\ script # {}
  /\ Delete(First(script)) \/ ("delete" \in NftFaults /\ UNCHANGED table)
  /\ script' = script \ {First(script)}
  /\ cleaned' = (script' = {})
  /\ UNCHANGED <<proc, reader, stray>>

---------------------------------------------------------------------------
Init ==
  /\ proc = [p \in Procs |-> NewProc]
  /\ reader = [q \in Queues |-> NoProc]
  /\ table = [f \in Families |-> NoTable]
  /\ stray = {}
  /\ script = {}
  /\ cleaned = FALSE

(* The steps of a process that nothing but itself has to bring about.      *)
Own(p) ==
  \/ OpenFails(p) \/ OpenQueue(p) \/ CommandSucceeds(p) \/ CommandFails(p)
  \/ SetSignals(p) \/ SetSignalsFails(p)
  \/ Test(p) \/ EnterRecv(p) \/ Undo(p) \/ Close(p)

Next ==
  \/ \E p \in Procs :
       \/ Spawn(p) \/ Own(p) \/ Receive(p) \/ ReceiveFails(p)
       \/ Tell(p) \/ TellInUndo(p) \/ Killed(p)
  \/ \E c \in stray : Stray(c)
  \/ StopService \/ CleanupNftTable

Spec == Init /\ [][Next]_vars

(* Some hooked table sends packets to the queue of p.                      *)
Feeds(p) ==
  \E f \in Families : table[f].hooks # {} /\ table[f].queue = proc[p].queue

(* A process is given the processor; while a table feeds its queue, a      *)
(* packet comes some time.                                                 *)
LiveSpec ==
  /\ Spec
  /\ \A p \in Procs : WF_vars(Own(p)) /\ WF_vars(Feeds(p) /\ Receive(p))

---------------------------------------------------------------------------
(* Properties.                                                             *)

(* Every variable has its type; the error count never passes its limit,    *)
(* on any path round the loop (nfqueue.c:236-269).                         *)
ProcType ==
  [pc : {"new", "open", "dead"} \union Holding, queue : Queues \union {0},
   fams : SUBSET Families, left : SUBSET Families, exit : BOOLEAN,
   handles : BOOLEAN, errs : 0 .. ErrLimit]

TypeOK ==
  /\ proc \in [Procs -> ProcType]
  /\ reader \in [Queues -> Procs \union {NoProc}]
  /\ table \in [Families -> TableType \union {NoTable}]
  /\ stray \subseteq CommandType
  /\ script \subseteq Families
  /\ cleaned \in BOOLEAN

(* A table sends packets to a queue that a process is bound to, also when  *)
(* set-up stops half-way: rules go before the queue (mainfun.c:442-445,    *)
(* 498-501).  Without kills and failing deletes.                           *)
TablesHaveReader ==
  \A f \in Families :
    table[f] # NoTable => reader[table[f].queue] # NoProc

(* A process that reads packets and was not told to end has its tables     *)
(* whole, hooked to its own queue, although others delete tables by the    *)
(* same name (ipv4nft.c:178, 203-208; mainfun.c:499): a queue still bound  *)
(* keeps a successor out until the predecessor has deleted its tables.     *)
(* For processes with the same queue number, without orphans.              *)
ListenerIntercepts ==
  \A p \in Procs :
    proc[p].pc \in Looping /\ ~proc[p].exit =>
      \A f \in proc[p].fams :
        table[f] = [queue |-> proc[p].queue, hooks |-> Chains]

(* Once the init script has stopped the service there is no table until a  *)
(* process is started again, in whatever state the processes it had told   *)
(* were: installing, reading, cleaning up (service-common.sh:187-197).     *)
StopLeavesNoTable ==
  cleaned => \A f \in Families : table[f] = NoTable

(* A process that is started either reads packets some day or is gone,     *)
(* also when its table is deleted under its hands (ipv4nft.c:193-197).     *)
SetupEnds ==
  \A p \in Procs :
    proc[p].pc = "open" ~> proc[p].pc = "dead" \/ proc[p].pc \in Looping

(* A process that was told to end ends, if it is told outside the gap      *)
(* between the test of the flag and recv: in recv, while it handles a      *)
(* packet, while it cleans up (nfqueue.c:236-269, mainfun.c:498-512).      *)
ToldEnds ==
  \A p \in Procs :
    (proc[p].exit /\ proc[p].pc \notin {"enter", "recv"})
      ~> proc[p].pc = "dead"

(* README.md:92: the exit flag is set safely in the handler, so that procd *)
(* can stop the service normally.  Whenever it is told, it ends.           *)
StopsNormally ==
  \A p \in Procs : proc[p].exit ~> proc[p].pc = "dead"

(* What Interception sees: who has a queue, what the tables divert, and    *)
(* what the process in the packet loop wants.                              *)
Serves(p) == proc[p].pc \in Looping /\ ~proc[p].exit
Served(f) == \E p \in Procs : Serves(p) /\ f \in proc[p].fams

Holders == {p \in Procs : \E q \in Queues : reader[q] = p}
Diverted == [f \in Families |-> table[f].hooks]
Wanted == [f \in Families |-> IF Served(f) THEN Chains ELSE {}]
MayCrash == Kills \/ "delete" \in NftFaults

Interceptor == INSTANCE Interception WITH
  Traffic <- Chains, Crashes <- MayCrash,
  holders <- Holders, diverted <- Diverted, wanted <- Wanted

(* Whatever becomes of its processes, its commands and the init script,    *)
(* FakeSIP keeps the promise of Interception: rules are added for a reader *)
(* only, a process that reads packets keeps its chains hooked although     *)
(* others know its tables by name, and the queue is given back after the   *)
(* tables (mainfun.c:436-512).  For processes with the same queue number,  *)
(* without orphans.                                                        *)
InterceptionKept == Interceptor!Spec
===========================================================================
