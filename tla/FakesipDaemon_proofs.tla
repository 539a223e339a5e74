------------------------ MODULE FakesipDaemon_proofs ------------------------
(***************************************************************************)
(* What FakesipDaemon guarantees for any number of processes, any queue    *)
(* numbers and any error limit.                                            *)
(***************************************************************************)
EXTENDS FakesipDaemon, TLAPS

(* A process past its start has a queue number and a family, and recv is   *)
(* entered below the error limit.  A process at a command has a family     *)
(* left to work on.                                                        *)
PlaceInv ==
  \A p \in Procs :
    /\ Alive(p) => proc[p].queue \in Queues /\ proc[p].fams # {}
    /\ proc[p].pc \in {"enter", "recv"} => proc[p].errs < ErrLimit
    /\ proc[p].pc \in Installing \union {"undo"} =>
         proc[p].left # {} /\ proc[p].left \subseteq proc[p].fams

(* From opening to closing it the queue is bound to the process.           *)
HolderInv ==
  \A p \in Procs : proc[p].pc \in Holding => reader[proc[p].queue] = p

(* Only a process with handlers can be told, and it installs no more.      *)
ToldInv ==
  \A p \in Procs :
    /\ proc[p].exit => proc[p].handles
    /\ proc[p].handles => proc[p].pc \in Looping \union {"undo", "close", "dead"}

(* While the init script deletes the tables, and until the next process is *)
(* started, no process lives that was not told.                            *)
AskedInv ==
  script # {} \/ cleaned => \A p \in Procs : Alive(p) => proc[p].exit

NoStray == stray = {}

BaseInv == TypeOK /\ PlaceInv /\ HolderInv /\ ToldInv /\ AskedInv

(* p has made, or may have made, the table of f, and will delete it.       *)
AnswersFor(p, f) ==
  /\ proc[p].pc \in Holding \ {"close"}
  /\ proc[p].queue = table[f].queue
  /\ f \in proc[p].fams
  /\ proc[p].pc = "undo" => f \in proc[p].left

RulesInv ==
  \A f \in Families :
    table[f] # NoTable => \E p \in Procs : AnswersFor(p, f)

(* The table of f is whole and p's own.                                    *)
Whole(p, f) == table[f] = [queue |-> proc[p].queue, hooks |-> Chains]

(* The families p has finished are whole; the one at hand has what the     *)
(* commands so far have put there.                                         *)
Built(p) ==
  /\ proc[p].pc \in Installing =>
       \A f \in proc[p].fams \ proc[p].left : Whole(p, f)
  /\ proc[p].pc \in Looping \union {"signals"} /\ ~proc[p].exit =>
       \A f \in proc[p].fams : Whole(p, f)
  /\ proc[p].pc = "postrouting" =>
       "prerouting" \in table[Family(p)].hooks

BuiltInv == \A p \in Procs : Built(p)

(* The tables the init script has been at are gone.                        *)
GoneInv ==
  script # {} \/ cleaned => \A f \in Families \ script : table[f] = NoTable

OneQueue == \A q, r \in Queues : q = r

---------------------------------------------------------------------------
(* Facts about families.                                                   *)

LEMMA FirstIn ==
  ASSUME NEW fams \in SUBSET Families
  PROVE  First(fams) \in Families /\ (fams # {} => First(fams) \in fams)
BY DEF First, Families

LEMMA ProcRecord ==
  ASSUME TypeOK, NEW p \in Procs
  PROVE  proc[p] \in ProcType /\ Family(p) \in Families
BY FirstIn DEF TypeOK, ProcType, Family

LEMMA EffectTyped ==
  ASSUME TypeOK, NEW kind \in CommandKinds, NEW f \in Families,
         NEW q \in Queues, CanSucceed(kind, f), Effect(kind, f, q)
  PROVE  table' \in [Families -> TableType \union {NoTable}]
<1>1. CASE kind = "delete"
  BY <1>1 DEF TypeOK, Effect, Delete, Chains
<1>2. CASE kind = "create"
  BY <1>2, DaemonAssumption
  DEF TypeOK, Effect, Create, TableType, NoTable, Chains
<1>3. CASE kind \in Chains
  <2>1. kind \notin {"delete", "create"}
    BY <1>3 DEF Chains
  <2>2. table[f] \in TableType
    BY <2>1 DEF TypeOK, CanSucceed
  <2>3. [table[f] EXCEPT !.hooks = @ \union {kind}] \in TableType
    BY <1>3, <2>2 DEF TableType
  <2>4. Hook(f, kind)
    BY <1>3, <2>1 DEF Effect
  <2>5. table' = [table EXCEPT
          ![f] = [table[f] EXCEPT !.hooks = @ \union {kind}]]
    BY <2>4 DEF Hook, TypeOK
  <2>. QED  BY <2>3, <2>5 DEF TypeOK
<1>. QED  BY <1>1, <1>2, <1>3 DEF CommandKinds

(* What the table of a command's family is after it.                       *)
LEMMA EffectCases ==
  ASSUME TypeOK, NEW kind \in CommandKinds, NEW f \in Families,
         NEW q \in Queues, CanSucceed(kind, f), Effect(kind, f, q)
  PROVE  /\ \A g \in Families \ {f} : table'[g] = table[g]
         /\ kind = "delete" => table'[f] = NoTable
         /\ kind = "create" =>
              table'[f] = IF table[f] = NoTable
                            THEN [queue |-> q, hooks |-> {}] ELSE table[f]
         /\ kind \in Chains =>
              /\ table[f] \in TableType /\ table[f] # NoTable
              /\ table'[f] = [queue |-> table[f].queue,
                              hooks |-> table[f].hooks \union {kind}]
<1>1. CASE kind = "delete"
  BY <1>1 DEF TypeOK, Effect, Delete, Chains
<1>2. CASE kind = "create"
  BY <1>2 DEF TypeOK, Effect, Create, Chains
<1>3. CASE kind \in Chains
  <2>1. kind \notin {"delete", "create"}
    BY <1>3 DEF Chains
  <2>2. table[f] \in TableType /\ table[f] # NoTable
    BY <2>1 DEF TypeOK, CanSucceed
  <2>3. [table[f] EXCEPT !.hooks = @ \union {kind}]
          = [queue |-> table[f].queue, hooks |-> table[f].hooks \union {kind}]
    BY <2>2 DEF TableType
  <2>4. table' = [table EXCEPT
          ![f] = [table[f] EXCEPT !.hooks = @ \union {kind}]]
    BY <1>3, <2>1 DEF Effect, Hook, TypeOK
  <2>. QED  BY <2>1, <2>2, <2>3, <2>4 DEF TypeOK
<1>. QED  BY <1>1, <1>2, <1>3 DEF CommandKinds

LEMMA ProcTyped ==
  ASSUME TypeOK, NEW p \in Procs, NEW r \in ProcType,
         proc' = [proc EXCEPT ![p] = r]
  PROVE  proc' \in [Procs -> ProcType]
BY DEF TypeOK

LEMMA TypeStep ==
  ASSUME TypeOK, PlaceInv, [Next]_vars
  PROVE  TypeOK'
<1>1. ASSUME NEW p \in Procs, Spawn(p)  PROVE TypeOK'
  <2>1. proc[p] \in ProcType
    BY ProcRecord
  <2>2. proc'[p] \in ProcType
    <3>1. PICK q \in Queues, fams \in (SUBSET Families) \ {{}} :
            proc'[p] = [proc[p] EXCEPT !.pc = "open", !.queue = q, !.fams = fams]
      BY <1>1 DEF Spawn, TypeOK
    <3>2. "open" \in {"new", "open", "dead"} \union Holding
      OBVIOUS
    <3>. QED  BY <2>1, <3>1, <3>2 DEF ProcType
  <2>3. proc' = [proc EXCEPT ![p] = proc'[p]]
    BY <1>1 DEF Spawn, TypeOK, Installing, CommandKinds, Chains
  <2>4. proc' \in [Procs -> ProcType]
    BY <2>2, <2>3, ProcTyped
  <2>. QED  BY <1>1, <2>4 DEF TypeOK, Spawn, initScript
<1>2. ASSUME NEW p \in Procs, OpenFails(p)  PROVE TypeOK'
  <2>1. proc[p] \in ProcType
    BY ProcRecord
  <2>2. proc'[p] \in ProcType
    BY <1>2, <2>1 DEF OpenFails, ProcType
  <2>3. proc' = [proc EXCEPT ![p] = proc'[p]]
    BY <1>2 DEF OpenFails, TypeOK, Installing, CommandKinds, Chains
  <2>4. proc' \in [Procs -> ProcType]
    BY <2>2, <2>3, ProcTyped
  <2>. QED  BY <1>2, <2>4 DEF TypeOK, OpenFails, initScript
<1>3. ASSUME NEW p \in Procs, OpenQueue(p)  PROVE TypeOK'
  <2>1. proc[p] \in ProcType
    BY ProcRecord
  <2>2. proc'[p] \in ProcType
    BY <1>3, <2>1, DaemonAssumption, FirstIn
    DEF OpenQueue, PlaceInv, TypeOK, ProcType, Holding, Installing, Looping,
        CommandKinds, Chains
  <2>3. proc' = [proc EXCEPT ![p] = proc'[p]]
    BY <1>3 DEF OpenQueue, TypeOK, Installing, CommandKinds, Chains
  <2>4. proc' \in [Procs -> ProcType]
    BY <2>2, <2>3, ProcTyped
  <2>5. reader' \in [Queues -> Procs \union {NoProc}]
    BY <1>3 DEF OpenQueue, TypeOK
  <2>. QED  BY <1>3, <2>4, <2>5 DEF TypeOK, OpenQueue, initScript
<1>4. ASSUME NEW p \in Procs, CommandSucceeds(p)  PROVE TypeOK'
  <2>1. proc[p] \in ProcType
    BY ProcRecord
  <2>2. proc'[p] \in ProcType
    <3> DEFINE rest == proc[p].left \ {Family(p)}
    <3>1. proc[p].pc \in Installing /\ rest \subseteq Families
      BY <1>4, <2>1 DEF CommandSucceeds, ProcType
    <3>2. CASE proc[p].pc = "postrouting"
      <4>1. proc'[p] = [proc[p] EXCEPT
              !.pc = IF rest = {} THEN "signals" ELSE "delete", !.left = rest]
        BY <1>4, <3>2 DEF CommandSucceeds, Advance, TypeOK
      <4>. QED  BY <2>1, <3>1, <4>1
           DEF ProcType, Holding, Installing, Looping, CommandKinds, Chains
    <3>3. CASE proc[p].pc # "postrouting"
      <4>1. \E pc \in Installing : proc'[p] = [proc[p] EXCEPT !.pc = pc]
        BY <1>4, <3>1, <3>3
        DEF CommandSucceeds, Advance, TypeOK, Installing, CommandKinds, Chains
      <4>. QED  BY <2>1, <4>1 DEF ProcType, Holding
    <3>. QED  BY <3>2, <3>3
  <2>3. proc' = [proc EXCEPT ![p] = proc'[p]]
    BY <1>4
    DEF CommandSucceeds, Advance, TypeOK, Installing, CommandKinds, Chains
  <2>4. proc' \in [Procs -> ProcType]
    BY <2>2, <2>3, ProcTyped
  <2>5. table' \in [Families -> TableType \union {NoTable}]
    BY <1>4, ProcRecord, EffectTyped
    DEF CommandSucceeds, PlaceInv, Alive, Installing, CommandKinds, Chains
  <2>. QED  BY <1>4, <2>4, <2>5 DEF TypeOK, CommandSucceeds, initScript
<1>5. ASSUME NEW p \in Procs, CommandFails(p)  PROVE TypeOK'
  <2>1. proc[p] \in ProcType
    BY ProcRecord
  <2>2. proc'[p] \in ProcType
    BY <1>5, <2>1
    DEF CommandFails, Advance, Leave, TypeOK, ProcType, Holding, Installing,
        CommandKinds
  <2>3. proc' = [proc EXCEPT ![p] = proc'[p]]
    BY <1>5
    DEF CommandFails, Advance, Leave, TypeOK, Installing, CommandKinds, Chains
  <2>4. proc' \in [Procs -> ProcType]
    BY <2>2, <2>3, ProcTyped
  <2>. QED  BY <1>5, <2>4 DEF TypeOK, CommandFails, initScript
<1>6. ASSUME NEW p \in Procs, SetSignals(p)  PROVE TypeOK'
  <2>1. proc[p] \in ProcType
    BY ProcRecord
  <2>2. proc'[p] \in ProcType
    BY <1>6, <2>1 DEF SetSignals, TypeOK, ProcType, Holding, Looping
  <2>3. proc' = [proc EXCEPT ![p] = proc'[p]]
    BY <1>6 DEF SetSignals, TypeOK, Installing, CommandKinds, Chains
  <2>4. proc' \in [Procs -> ProcType]
    BY <2>2, <2>3, ProcTyped
  <2>. QED  BY <1>6, <2>4 DEF TypeOK, SetSignals, initScript
<1>7. ASSUME NEW p \in Procs, SetSignalsFails(p)  PROVE TypeOK'
  <2>1. proc[p] \in ProcType
    BY ProcRecord
  <2>2. proc'[p] \in ProcType
    BY <1>7, <2>1 DEF SetSignalsFails, Leave, TypeOK, ProcType, Holding
  <2>3. proc' = [proc EXCEPT ![p] = proc'[p]]
    BY <1>7
    DEF SetSignalsFails, Leave, TypeOK, Installing, CommandKinds, Chains
  <2>4. proc' \in [Procs -> ProcType]
    BY <2>2, <2>3, ProcTyped
  <2>. QED  BY <1>7, <2>4 DEF TypeOK, SetSignalsFails, initScript
<1>8. ASSUME NEW p \in Procs, Test(p)  PROVE TypeOK'
  <2>1. proc[p] \in ProcType
    BY ProcRecord
  <2>2. proc'[p] \in ProcType
    BY <1>8, <2>1 DEF Test, Leave, TypeOK, ProcType, Holding, Looping
  <2>3. proc' = [proc EXCEPT ![p] = proc'[p]]
    BY <1>8 DEF Test, Leave, TypeOK, Installing, CommandKinds, Chains
  <2>4. proc' \in [Procs -> ProcType]
    BY <2>2, <2>3, ProcTyped
  <2>. QED  BY <1>8, <2>4 DEF TypeOK, Test, initScript
<1>9. ASSUME NEW p \in Procs, EnterRecv(p)  PROVE TypeOK'
  <2>1. proc[p] \in ProcType
    BY ProcRecord
  <2>2. proc'[p] \in ProcType
    BY <1>9, <2>1 DEF EnterRecv, ProcType, Holding, Looping
  <2>3. proc' = [proc EXCEPT ![p] = proc'[p]]
    BY <1>9 DEF EnterRecv, TypeOK, Installing, CommandKinds, Chains
  <2>4. proc' \in [Procs -> ProcType]
    BY <2>2, <2>3, ProcTyped
  <2>. QED  BY <1>9, <2>4 DEF TypeOK, EnterRecv, initScript
<1>10. ASSUME NEW p \in Procs, Undo(p)  PROVE TypeOK'
  <2>1. proc[p] \in ProcType
    BY ProcRecord
  <2>2. proc'[p] \in ProcType
    BY <1>10, <2>1, DaemonAssumption, FirstIn
    DEF Undo, DropFamily, PlaceInv, TypeOK, ProcType, Holding, Installing,
        Looping, CommandKinds, Chains
  <2>3. proc' = [proc EXCEPT ![p] = proc'[p]]
    BY <1>10 DEF Undo, DropFamily, TypeOK, Installing, CommandKinds, Chains
  <2>4. proc' \in [Procs -> ProcType]
    BY <2>2, <2>3, ProcTyped
  <2>5. table' \in [Families -> TableType \union {NoTable}]
    BY <1>10 DEF Undo, Delete, TypeOK
  <2>. QED  BY <1>10, <2>4, <2>5 DEF TypeOK, Undo, initScript
<1>11. ASSUME NEW p \in Procs, Close(p)  PROVE TypeOK'
  <2>1. proc[p] \in ProcType
    BY ProcRecord
  <2>2. proc'[p] \in ProcType
    BY <1>11, <2>1 DEF Close, ProcType
  <2>3. proc' = [proc EXCEPT ![p] = proc'[p]]
    BY <1>11 DEF Close, TypeOK, Installing, CommandKinds, Chains
  <2>4. proc' \in [Procs -> ProcType]
    BY <2>2, <2>3, ProcTyped
  <2>5. reader' \in [Queues -> Procs \union {NoProc}]
    BY <1>11 DEF Close, TypeOK
  <2>. QED  BY <1>11, <2>4, <2>5 DEF TypeOK, Close, initScript
<1>12. ASSUME NEW p \in Procs, Receive(p)  PROVE TypeOK'
  <2>1. proc[p] \in ProcType
    BY ProcRecord
  <2>2. proc'[p] \in ProcType
    <3>1. proc[p].errs + 1 \in 0 .. ErrLimit
      BY <1>12, <2>1, DaemonAssumption DEF Receive, PlaceInv, ProcType
    <3>2. PICK n \in {0, proc[p].errs + 1} :
            proc' = [proc EXCEPT ![p].pc = "test", ![p].errs = n]
      BY <1>12 DEF Receive
    <3>3. n \in 0 .. ErrLimit
      BY <3>1, DaemonAssumption
    <3>4. proc'[p] = [proc[p] EXCEPT !.pc = "test", !.errs = n]
      BY <3>2 DEF TypeOK
    <3>. QED  BY <2>1, <3>3, <3>4 DEF ProcType, Holding, Looping
  <2>3. proc' = [proc EXCEPT ![p] = proc'[p]]
    BY <1>12 DEF Receive, TypeOK, Installing, CommandKinds, Chains
  <2>4. proc' \in [Procs -> ProcType]
    BY <2>2, <2>3, ProcTyped
  <2>. QED  BY <1>12, <2>4 DEF TypeOK, Receive, initScript
<1>13. ASSUME NEW p \in Procs, ReceiveFails(p)  PROVE TypeOK'
  <2>1. proc[p] \in ProcType
    BY ProcRecord
  <2>2. proc'[p] \in ProcType
    BY <1>13, <2>1 DEF ReceiveFails, Leave, TypeOK, ProcType, Holding
  <2>3. proc' = [proc EXCEPT ![p] = proc'[p]]
    BY <1>13 DEF ReceiveFails, Leave, TypeOK, Installing, CommandKinds, Chains
  <2>4. proc' \in [Procs -> ProcType]
    BY <2>2, <2>3, ProcTyped
  <2>. QED  BY <1>13, <2>4 DEF TypeOK, ReceiveFails, initScript
<1>14. ASSUME NEW p \in Procs, Tell(p)  PROVE TypeOK'
  <2>1. proc[p] \in ProcType
    BY ProcRecord
  <2>2. proc'[p] \in ProcType
    <3>1. CASE proc[p].pc = "recv"
      <4>1. proc[p].errs + 1 \in 0 .. ErrLimit
        BY <2>1, <3>1, DaemonAssumption DEF PlaceInv, ProcType
      <4>2. proc'[p] = [proc[p] EXCEPT !.exit = TRUE, !.pc = "test",
                                       !.errs = proc[p].errs + 1]
        BY <1>14, <2>1, <3>1 DEF Tell, TypeOK, ProcType
      <4>. QED  BY <2>1, <4>1, <4>2 DEF ProcType, Holding, Looping
    <3>2. CASE proc[p].pc # "recv"
      <4>1. proc'[p] = [proc[p] EXCEPT !.exit = TRUE]
        BY <1>14, <3>2 DEF Tell, TypeOK
      <4>. QED  BY <2>1, <4>1 DEF ProcType
    <3>. QED  BY <3>1, <3>2
  <2>3. proc' = [proc EXCEPT ![p] = proc'[p]]
    BY <1>14 DEF Tell, TypeOK, Installing, CommandKinds, Chains
  <2>4. proc' \in [Procs -> ProcType]
    BY <2>2, <2>3, ProcTyped
  <2>. QED  BY <1>14, <2>4 DEF TypeOK, Tell, initScript
<1>15. ASSUME NEW p \in Procs, TellInUndo(p)  PROVE TypeOK'
  <2>1. proc[p] \in ProcType
    BY ProcRecord
  <2>2. proc'[p] \in ProcType
    <3> DEFINE rest == proc[p].left \ {Family(p)}
    <3>1. proc'[p] = [proc[p] EXCEPT !.exit = TRUE, !.left = rest,
                        !.pc = IF rest = {} THEN "close" ELSE "undo"]
      BY <1>15 DEF TellInUndo, TypeOK
    <3>2. rest \subseteq Families
      BY <2>1 DEF ProcType
    <3>. QED  BY <2>1, <3>1, <3>2 DEF ProcType, Holding
  <2>3. proc' = [proc EXCEPT ![p] = proc'[p]]
    BY <1>15 DEF TellInUndo, TypeOK, Installing, CommandKinds, Chains
  <2>4. proc' \in [Procs -> ProcType]
    BY <2>2, <2>3, ProcTyped
  <2>5. stray' \subseteq CommandType
    BY <1>15, ProcRecord
    DEF TellInUndo, Command, CommandType, TypeOK, PlaceInv, Alive, CommandKinds
  <2>. QED  BY <1>15, <2>4, <2>5 DEF TypeOK, TellInUndo, initScript
<1>16. ASSUME NEW p \in Procs, Killed(p)  PROVE TypeOK'
  <2>1. proc[p] \in ProcType
    BY ProcRecord
  <2>2. proc'[p] \in ProcType
    BY <1>16, <2>1 DEF Killed, ProcType
  <2>3. proc' = [proc EXCEPT ![p] = proc'[p]]
    BY <1>16 DEF Killed, TypeOK, Installing, CommandKinds, Chains
  <2>4. proc' \in [Procs -> ProcType]
    BY <2>2, <2>3, ProcTyped
  <2>5. stray' \subseteq CommandType
    BY <1>16, ProcRecord
    DEF Killed, Command, CommandType, TypeOK, PlaceInv, Installing,
        CommandKinds
  <2>6. reader' \in [Queues -> Procs \union {NoProc}]
    BY <1>16 DEF Killed, TypeOK
  <2>. QED  BY <1>16, <2>4, <2>5, <2>6 DEF TypeOK, Killed, initScript
<1>17. ASSUME NEW c \in stray, Stray(c)  PROVE TypeOK'
  <2>1. /\ c \in CommandType /\ c.kind \in CommandKinds
        /\ c.fam \in Families /\ c.queue \in Queues
    BY DEF TypeOK, CommandType
  <2>2. table' \in [Families -> TableType \union {NoTable}]
    BY <1>17, <2>1, EffectTyped DEF Stray, TypeOK
  <2>. QED  BY <1>17, <2>2 DEF TypeOK, Stray, initScript
<1>18. CASE StopService
  BY <1>18 DEF TypeOK, StopService
<1>19. CASE CleanupNftTable
  BY <1>19 DEF TypeOK, CleanupNftTable, Delete
<1>20. CASE UNCHANGED vars
  BY <1>20 DEF TypeOK, vars
<1>. QED  BY <1>1, <1>2, <1>3, <1>4, <1>5, <1>6, <1>7, <1>8, <1>9, <1>10,
     <1>11, <1>12, <1>13, <1>14, <1>15, <1>16, <1>17, <1>18, <1>19, <1>20
     DEF Next, Own

LEMMA PlaceStep ==
  ASSUME TypeOK, PlaceInv, [Next]_vars
  PROVE  PlaceInv'
<1>1. ASSUME NEW p \in Procs, Spawn(p)  PROVE PlaceInv'
  <2>1. PICK q \in Queues, fams \in (SUBSET Families) \ {{}} :
          proc' = [proc EXCEPT ![p] =
            [proc[p] EXCEPT !.pc = "open", !.queue = q, !.fams = fams]]
    BY <1>1 DEF Spawn
  <2>2. proc[p] \in ProcType
    BY ProcRecord
  <2>3. /\ proc'[p].pc = "open" /\ proc'[p].queue = q /\ proc'[p].fams = fams
        /\ \A x \in Procs \ {p} : proc'[x] = proc[x]
    BY <2>1, <2>2 DEF TypeOK, ProcType
  <2>4. ASSUME NEW x \in Procs \ {p}
        PROVE  /\ Alive(x)' => proc'[x].queue \in Queues /\ proc'[x].fams # {}
               /\ proc'[x].pc \in {"enter", "recv"} => proc'[x].errs < ErrLimit
               /\ proc'[x].pc \in Installing \union {"undo"} =>
                    proc'[x].left # {} /\ proc'[x].left \subseteq proc'[x].fams
    BY <2>3 DEF PlaceInv, Alive
  <2>5. /\ proc'[p].queue \in Queues /\ proc'[p].fams # {}
        /\ proc'[p].pc \notin {"enter", "recv"}
        /\ proc'[p].pc \notin Installing \union {"undo"}
    BY <2>3 DEF Installing, CommandKinds, Chains
  <2>. QED  BY <2>4, <2>5 DEF PlaceInv
<1>2. ASSUME NEW p \in Procs, OpenFails(p)  PROVE PlaceInv'
  BY <1>2 DEF PlaceInv, Alive, Installing, CommandKinds, Chains, OpenFails
<1>3. ASSUME NEW p \in Procs, OpenQueue(p)  PROVE PlaceInv'
  BY <1>3 DEF TypeOK, PlaceInv, Alive, OpenQueue
<1>4. ASSUME NEW p \in Procs, CommandSucceeds(p)  PROVE PlaceInv'
  BY <1>4
  DEF PlaceInv, Alive, Installing, CommandKinds, Chains, CommandSucceeds,
      Advance
<1>5. ASSUME NEW p \in Procs, CommandFails(p)  PROVE PlaceInv'
  BY <1>5
  DEF TypeOK, PlaceInv, ProcType, Alive, Installing, CommandKinds, Chains,
      CommandFails, Advance, Leave
<1>6. ASSUME NEW p \in Procs, SetSignals(p)  PROVE PlaceInv'
  BY <1>6
  DEF TypeOK, PlaceInv, Alive, Installing, CommandKinds, Chains, SetSignals
<1>7. ASSUME NEW p \in Procs, SetSignalsFails(p)  PROVE PlaceInv'
  BY <1>7 DEF TypeOK, PlaceInv, Alive, SetSignalsFails, Leave
<1>8. ASSUME NEW p \in Procs, Test(p)  PROVE PlaceInv'
  BY <1>8, DaemonAssumption
  DEF TypeOK, PlaceInv, ProcType, Alive, Installing, CommandKinds, Chains,
      Test, Leave
<1>9. ASSUME NEW p \in Procs, EnterRecv(p)  PROVE PlaceInv'
  BY <1>9 DEF PlaceInv, Alive, Installing, CommandKinds, Chains, EnterRecv
<1>10. ASSUME NEW p \in Procs, Undo(p)  PROVE PlaceInv'
  BY <1>10 DEF TypeOK, PlaceInv, ProcType, Alive, Undo, DropFamily
<1>11. ASSUME NEW p \in Procs, Close(p)  PROVE PlaceInv'
  BY <1>11 DEF PlaceInv, Alive, Installing, CommandKinds, Chains, Close
<1>12. ASSUME NEW p \in Procs, Receive(p)  PROVE PlaceInv'
  BY <1>12
  DEF TypeOK, PlaceInv, Alive, Installing, CommandKinds, Chains, Receive
<1>13. ASSUME NEW p \in Procs, ReceiveFails(p)  PROVE PlaceInv'
  BY <1>13 DEF TypeOK, PlaceInv, ProcType, Alive, Families, ReceiveFails, Leave
<1>14. ASSUME NEW p \in Procs, Tell(p)  PROVE PlaceInv'
  BY <1>14, DaemonAssumption
  DEF TypeOK, PlaceInv, ProcType, Alive, initScript, Holding, Installing,
      Looping, CommandKinds, Chains, Family, First, Families, Tell
<1>15. ASSUME NEW p \in Procs, TellInUndo(p)  PROVE PlaceInv'
  BY <1>15 DEF TypeOK, ProcType, Family, First, Families, TellInUndo
<1>16. ASSUME NEW p \in Procs, Killed(p)  PROVE PlaceInv'
  BY <1>16 DEF PlaceInv, Alive, Installing, CommandKinds, Chains, Killed
<1>17. ASSUME NEW c \in stray, Stray(c)  PROVE PlaceInv'
  BY <1>17 DEF PlaceInv, Alive, Stray
<1>18. CASE StopService
  BY <1>18 DEF PlaceInv, Alive, StopService
<1>19. CASE CleanupNftTable
  BY <1>19 DEF PlaceInv, Alive, CleanupNftTable
<1>20. CASE UNCHANGED vars
  BY <1>20 DEF PlaceInv, Alive, vars
<1>. QED  BY <1>1, <1>2, <1>3, <1>4, <1>5, <1>6, <1>7, <1>8, <1>9, <1>10,
     <1>11, <1>12, <1>13, <1>14, <1>15, <1>16, <1>17, <1>18, <1>19, <1>20
     DEF Next, Own

LEMMA HolderStep ==
  ASSUME BaseInv, [Next]_vars
  PROVE  HolderInv'
<1>1. ASSUME NEW p \in Procs, Spawn(p)  PROVE HolderInv'
  BY <1>1
  DEF BaseInv, HolderInv, Holding, Installing, Looping, CommandKinds, Chains,
      Spawn
<1>2. ASSUME NEW p \in Procs, OpenFails(p)  PROVE HolderInv'
  BY <1>2
  DEF BaseInv, HolderInv, Holding, Installing, Looping, CommandKinds, Chains,
      OpenFails
<1>3. ASSUME NEW p \in Procs, OpenQueue(p)  PROVE HolderInv'
  BY <1>3, DaemonAssumption
  DEF BaseInv, TypeOK, PlaceInv, HolderInv, Alive, OpenQueue
<1>4. ASSUME NEW p \in Procs, CommandSucceeds(p)  PROVE HolderInv'
  BY <1>4
  DEF BaseInv, HolderInv, Holding, Installing, CommandKinds, Chains,
      CommandSucceeds, Advance
<1>5. ASSUME NEW p \in Procs, CommandFails(p)  PROVE HolderInv'
  BY <1>5
  DEF BaseInv, TypeOK, HolderInv, ProcType, Holding, CommandFails, Advance,
      Leave
<1>6. ASSUME NEW p \in Procs, SetSignals(p)  PROVE HolderInv'
  BY <1>6 DEF BaseInv, TypeOK, HolderInv, ProcType, SetSignals
<1>7. ASSUME NEW p \in Procs, SetSignalsFails(p)  PROVE HolderInv'
  BY <1>7 DEF BaseInv, TypeOK, HolderInv, ProcType, SetSignalsFails, Leave
<1>8. ASSUME NEW p \in Procs, Test(p)  PROVE HolderInv'
  BY <1>8, DaemonAssumption
  DEF BaseInv, TypeOK, HolderInv, ProcType, Test, Leave
<1>9. ASSUME NEW p \in Procs, EnterRecv(p)  PROVE HolderInv'
  BY <1>9 DEF BaseInv, TypeOK, HolderInv, ProcType, EnterRecv
<1>10. ASSUME NEW p \in Procs, Undo(p)  PROVE HolderInv'
  BY <1>10 DEF BaseInv, TypeOK, HolderInv, ProcType, Undo, DropFamily
<1>11. ASSUME NEW p \in Procs, Close(p)  PROVE HolderInv'
  BY <1>11
  DEF BaseInv, TypeOK, HolderInv, Holding, Installing, Looping, CommandKinds,
      Chains, Close
<1>12. ASSUME NEW p \in Procs, Receive(p)  PROVE HolderInv'
  BY <1>12 DEF BaseInv, TypeOK, HolderInv, ProcType, Receive
<1>13. ASSUME NEW p \in Procs, ReceiveFails(p)  PROVE HolderInv'
  BY <1>13 DEF BaseInv, TypeOK, HolderInv, ProcType, ReceiveFails, Leave
<1>14. ASSUME NEW p \in Procs, Tell(p)  PROVE HolderInv'
  BY <1>14 DEF BaseInv, TypeOK, HolderInv, ProcType, Tell
<1>15. ASSUME NEW p \in Procs, TellInUndo(p)  PROVE HolderInv'
  BY <1>15 DEF BaseInv, TypeOK, HolderInv, ProcType, TellInUndo
<1>16. ASSUME NEW p \in Procs, Killed(p)  PROVE HolderInv'
  BY <1>16
  DEF BaseInv, TypeOK, PlaceInv, HolderInv, Alive, Holding, Installing,
      Looping, CommandKinds, Chains, Killed
<1>17. ASSUME NEW c \in stray, Stray(c)  PROVE HolderInv'
  BY <1>17 DEF BaseInv, HolderInv, Stray
<1>18. CASE StopService
  BY <1>18 DEF BaseInv, HolderInv, StopService
<1>19. CASE CleanupNftTable
  BY <1>19 DEF BaseInv, HolderInv, CleanupNftTable
<1>20. CASE UNCHANGED vars
  BY <1>20 DEF BaseInv, HolderInv, vars
<1>. QED  BY <1>1, <1>2, <1>3, <1>4, <1>5, <1>6, <1>7, <1>8, <1>9, <1>10,
     <1>11, <1>12, <1>13, <1>14, <1>15, <1>16, <1>17, <1>18, <1>19, <1>20
     DEF Next, Own

LEMMA ToldStep ==
  ASSUME BaseInv, [Next]_vars
  PROVE  ToldInv'
<1>1. ASSUME NEW p \in Procs, Spawn(p)  PROVE ToldInv'
  BY <1>1 DEF BaseInv, ToldInv, Looping, Spawn
<1>2. ASSUME NEW p \in Procs, OpenFails(p)  PROVE ToldInv'
  BY <1>2 DEF BaseInv, ToldInv, OpenFails
<1>3. ASSUME NEW p \in Procs, OpenQueue(p)  PROVE ToldInv'
  BY <1>3 DEF BaseInv, TypeOK, ToldInv, Looping, OpenQueue
<1>4. ASSUME NEW p \in Procs, CommandSucceeds(p)  PROVE ToldInv'
  BY <1>4
  DEF BaseInv, ToldInv, Installing, Looping, CommandKinds, Chains,
      CommandSucceeds, Advance
<1>5. ASSUME NEW p \in Procs, CommandFails(p)  PROVE ToldInv'
  BY <1>5
  DEF BaseInv, TypeOK, ToldInv, ProcType, Looping, CommandFails, Advance, Leave
<1>6. ASSUME NEW p \in Procs, SetSignals(p)  PROVE ToldInv'
  BY <1>6 DEF BaseInv, TypeOK, ToldInv, Looping, SetSignals
<1>7. ASSUME NEW p \in Procs, SetSignalsFails(p)  PROVE ToldInv'
  BY <1>7 DEF BaseInv, TypeOK, ToldInv, SetSignalsFails, Leave
<1>8. ASSUME NEW p \in Procs, Test(p)  PROVE ToldInv'
  BY <1>8 DEF BaseInv, TypeOK, ToldInv, ProcType, Looping, Test, Leave
<1>9. ASSUME NEW p \in Procs, EnterRecv(p)  PROVE ToldInv'
  BY <1>9 DEF BaseInv, ToldInv, Looping, EnterRecv
<1>10. ASSUME NEW p \in Procs, Undo(p)  PROVE ToldInv'
  BY <1>10 DEF BaseInv, TypeOK, ToldInv, Undo, DropFamily
<1>11. ASSUME NEW p \in Procs, Close(p)  PROVE ToldInv'
  BY <1>11 DEF BaseInv, ToldInv, Close
<1>12. ASSUME NEW p \in Procs, Receive(p)  PROVE ToldInv'
  BY <1>12 DEF BaseInv, TypeOK, ToldInv, Looping, Receive
<1>13. ASSUME NEW p \in Procs, ReceiveFails(p)  PROVE ToldInv'
  BY <1>13 DEF BaseInv, TypeOK, ToldInv, ProcType, Looping, ReceiveFails, Leave
<1>14. ASSUME NEW p \in Procs, Tell(p)  PROVE ToldInv'
  BY <1>14 DEF BaseInv, TypeOK, ToldInv, ProcType, Tell
<1>15. ASSUME NEW p \in Procs, TellInUndo(p)  PROVE ToldInv'
  BY <1>15 DEF BaseInv, TypeOK, ToldInv, TellInUndo
<1>16. ASSUME NEW p \in Procs, Killed(p)  PROVE ToldInv'
  BY <1>16 DEF BaseInv, ToldInv, Killed
<1>17. ASSUME NEW c \in stray, Stray(c)  PROVE ToldInv'
  BY <1>17 DEF BaseInv, ToldInv, Stray
<1>18. CASE StopService
  BY <1>18 DEF BaseInv, ToldInv, StopService
<1>19. CASE CleanupNftTable
  BY <1>19 DEF BaseInv, ToldInv, CleanupNftTable
<1>20. CASE UNCHANGED vars
  BY <1>20 DEF BaseInv, ToldInv, vars
<1>. QED  BY <1>1, <1>2, <1>3, <1>4, <1>5, <1>6, <1>7, <1>8, <1>9, <1>10,
     <1>11, <1>12, <1>13, <1>14, <1>15, <1>16, <1>17, <1>18, <1>19, <1>20
     DEF Next, Own

LEMMA AskedStep ==
  ASSUME BaseInv, [Next]_vars
  PROVE  AskedInv'
<1>1. ASSUME NEW p \in Procs, Spawn(p)  PROVE AskedInv'
  BY <1>1 DEF AskedInv, Spawn
<1>2. ASSUME NEW p \in Procs, OpenFails(p)  PROVE AskedInv'
  BY <1>2 DEF BaseInv, AskedInv, Alive, initScript, OpenFails
<1>3. ASSUME NEW p \in Procs, OpenQueue(p)  PROVE AskedInv'
  BY <1>3 DEF BaseInv, TypeOK, AskedInv, Alive, initScript, OpenQueue
<1>4. ASSUME NEW p \in Procs, CommandSucceeds(p)  PROVE AskedInv'
  BY <1>4
  DEF BaseInv, AskedInv, Alive, initScript, Installing, CommandKinds, Chains,
      CommandSucceeds, Advance
<1>5. ASSUME NEW p \in Procs, CommandFails(p)  PROVE AskedInv'
  BY <1>5
  DEF BaseInv, TypeOK, AskedInv, ProcType, Alive, initScript, Installing,
      CommandKinds, Chains, CommandFails, Advance, Leave
<1>6. ASSUME NEW p \in Procs, SetSignals(p)  PROVE AskedInv'
  BY <1>6 DEF BaseInv, TypeOK, AskedInv, Alive, initScript, SetSignals
<1>7. ASSUME NEW p \in Procs, SetSignalsFails(p)  PROVE AskedInv'
  BY <1>7
  DEF BaseInv, TypeOK, AskedInv, Alive, initScript, SetSignalsFails, Leave
<1>8. ASSUME NEW p \in Procs, Test(p)  PROVE AskedInv'
  BY <1>8
  DEF BaseInv, TypeOK, AskedInv, ProcType, Alive, initScript, Test, Leave
<1>9. ASSUME NEW p \in Procs, EnterRecv(p)  PROVE AskedInv'
  BY <1>9 DEF BaseInv, AskedInv, Alive, initScript, EnterRecv
<1>10. ASSUME NEW p \in Procs, Undo(p)  PROVE AskedInv'
  BY <1>10 DEF BaseInv, TypeOK, AskedInv, Alive, initScript, Undo, DropFamily
<1>11. ASSUME NEW p \in Procs, Close(p)  PROVE AskedInv'
  BY <1>11 DEF BaseInv, AskedInv, Alive, initScript, Close
<1>12. ASSUME NEW p \in Procs, Receive(p)  PROVE AskedInv'
  BY <1>12 DEF BaseInv, TypeOK, AskedInv, Alive, initScript, Receive
<1>13. ASSUME NEW p \in Procs, ReceiveFails(p)  PROVE AskedInv'
  BY <1>13
  DEF BaseInv, TypeOK, AskedInv, ProcType, Alive, initScript, ReceiveFails,
      Leave
<1>14. ASSUME NEW p \in Procs, Tell(p)  PROVE AskedInv'
  BY <1>14 DEF BaseInv, TypeOK, AskedInv, ProcType, Alive, initScript, Tell
<1>15. ASSUME NEW p \in Procs, TellInUndo(p)  PROVE AskedInv'
  BY <1>15 DEF BaseInv, TypeOK, AskedInv, Alive, initScript, TellInUndo
<1>16. ASSUME NEW p \in Procs, Killed(p)  PROVE AskedInv'
  BY <1>16 DEF BaseInv, AskedInv, Alive, initScript, Killed
<1>17. ASSUME NEW c \in stray, Stray(c)  PROVE AskedInv'
  BY <1>17 DEF BaseInv, AskedInv, Alive, initScript, Stray
<1>18. CASE StopService
  BY <1>18 DEF AskedInv, Alive, StopService
<1>19. CASE CleanupNftTable
  BY <1>19 DEF BaseInv, AskedInv, Alive, CleanupNftTable
<1>20. CASE UNCHANGED vars
  BY <1>20 DEF BaseInv, AskedInv, Alive, vars
<1>. QED  BY <1>1, <1>2, <1>3, <1>4, <1>5, <1>6, <1>7, <1>8, <1>9, <1>10,
     <1>11, <1>12, <1>13, <1>14, <1>15, <1>16, <1>17, <1>18, <1>19, <1>20
     DEF Next, Own

LEMMA NoStrayStep ==
  ASSUME NoStray, ~Orphans, [Next]_vars
  PROVE  NoStray'
<1>1. ASSUME NEW p \in Procs, Spawn(p)  PROVE NoStray'
  BY <1>1, DaemonAssumption DEF NoStray, initScript, Spawn
<1>2. ASSUME NEW p \in Procs, OpenFails(p)  PROVE NoStray'
  BY <1>2, DaemonAssumption DEF NoStray, initScript, OpenFails
<1>3. ASSUME NEW p \in Procs, OpenQueue(p)  PROVE NoStray'
  BY <1>3, DaemonAssumption DEF NoStray, initScript, OpenQueue
<1>4. ASSUME NEW p \in Procs, CommandSucceeds(p)  PROVE NoStray'
  BY <1>4 DEF NoStray, CommandSucceeds
<1>5. ASSUME NEW p \in Procs, CommandFails(p)  PROVE NoStray'
  BY <1>5, DaemonAssumption
  DEF NoStray, initScript, CommandFails, Advance, Leave
<1>6. ASSUME NEW p \in Procs, SetSignals(p)  PROVE NoStray'
  BY <1>6, DaemonAssumption DEF NoStray, initScript, SetSignals
<1>7. ASSUME NEW p \in Procs, SetSignalsFails(p)  PROVE NoStray'
  BY <1>7, DaemonAssumption DEF NoStray, initScript, SetSignalsFails, Leave
<1>8. ASSUME NEW p \in Procs, Test(p)  PROVE NoStray'
  BY <1>8, DaemonAssumption DEF NoStray, initScript, Test, Leave
<1>9. ASSUME NEW p \in Procs, EnterRecv(p)  PROVE NoStray'
  BY <1>9, DaemonAssumption DEF NoStray, initScript, EnterRecv
<1>10. ASSUME NEW p \in Procs, Undo(p)  PROVE NoStray'
  BY <1>10, DaemonAssumption DEF NoStray, initScript, Undo, DropFamily, Delete
<1>11. ASSUME NEW p \in Procs, Close(p)  PROVE NoStray'
  BY <1>11, DaemonAssumption DEF NoStray, initScript, Close
<1>12. ASSUME NEW p \in Procs, Receive(p)  PROVE NoStray'
  BY <1>12, DaemonAssumption DEF NoStray, initScript, Receive
<1>13. ASSUME NEW p \in Procs, ReceiveFails(p)  PROVE NoStray'
  BY <1>13, DaemonAssumption DEF NoStray, initScript, ReceiveFails, Leave
<1>14. ASSUME NEW p \in Procs, Tell(p)  PROVE NoStray'
  BY <1>14, DaemonAssumption DEF NoStray, initScript, Tell
<1>15. ASSUME NEW p \in Procs, TellInUndo(p)  PROVE NoStray'
  BY <1>15, DaemonAssumption DEF NoStray, initScript, TellInUndo, Command
<1>16. ASSUME NEW p \in Procs, Killed(p)  PROVE NoStray'
  BY <1>16, DaemonAssumption DEF NoStray, initScript, Killed, Command
<1>17. ASSUME NEW c \in stray, Stray(c)  PROVE NoStray'
  BY <1>17 DEF NoStray
<1>18. CASE StopService
  BY <1>18 DEF NoStray, initScript, StopService
<1>19. CASE CleanupNftTable
  BY <1>19, DaemonAssumption DEF NoStray, initScript, CleanupNftTable, Delete
<1>20. CASE UNCHANGED vars
  BY <1>20 DEF NoStray, initScript, vars
<1>. QED  BY <1>1, <1>2, <1>3, <1>4, <1>5, <1>6, <1>7, <1>8, <1>9, <1>10,
     <1>11, <1>12, <1>13, <1>14, <1>15, <1>16, <1>17, <1>18, <1>19, <1>20
     DEF Next, Own

(* A step that leaves the tables alone, and what its process answers for.  *)
LEMMA AnswersKept ==
  ASSUME RulesInv, NEW p \in Procs, table' = table,
         \A x \in Procs \ {p} : proc'[x] = proc[x],
         \A f \in Families : AnswersFor(p, f) => AnswersFor(p, f)'
  PROVE  RulesInv'
<1>1. ASSUME NEW f \in Families, table'[f] # NoTable
      PROVE  \E x \in Procs : AnswersFor(x, f)'
  <2>1. PICK x \in Procs : AnswersFor(x, f)
    BY <1>1 DEF RulesInv
  <2>2. AnswersFor(x, f)'
    BY <2>1 DEF AnswersFor
  <2>. QED  BY <2>2
<1>. QED  BY <1>1 DEF RulesInv, NoTable

LEMMA RulesStep ==
  ASSUME BaseInv, RulesInv, NoStray, ~Kills, ~Orphans, "delete" \notin NftFaults, [Next]_vars
  PROVE  RulesInv'
<1>1. ASSUME NEW p \in Procs, Spawn(p)  PROVE RulesInv'
  BY <1>1
  DEF RulesInv, AnswersFor, Holding, Installing, Looping, CommandKinds, Chains,
      Spawn
<1>2. ASSUME NEW p \in Procs, OpenFails(p)  PROVE RulesInv'
  BY <1>2
  DEF RulesInv, AnswersFor, Holding, Installing, Looping, CommandKinds, Chains,
      OpenFails
<1>3. ASSUME NEW p \in Procs, OpenQueue(p)  PROVE RulesInv'
  BY <1>3, DaemonAssumption, ProcRecord
  DEF BaseInv, TypeOK, PlaceInv, RulesInv, AnswersFor, ProcType, NoTable,
      TableType, initScript, Holding, Installing, Looping, CommandKinds,
      Chains, OpenQueue
<1>4. ASSUME NEW p \in Procs, CommandSucceeds(p)  PROVE RulesInv'
  <2> DEFINE F == Family(p)
  <2>1. /\ F \in Families /\ F \in proc[p].fams /\ proc[p] \in ProcType
        /\ proc[p].pc \in Installing
    BY <1>4, ProcRecord, FirstIn
    DEF CommandSucceeds, BaseInv, PlaceInv, ProcType, Family
  <2>2. /\ \A x \in Procs \ {p} : proc'[x] = proc[x]
        /\ proc'[p].queue = proc[p].queue /\ proc'[p].fams = proc[p].fams
        /\ proc'[p].pc \in Installing \union {"signals"}
    BY <1>4, <2>1 DEF CommandSucceeds, Advance, BaseInv, TypeOK, ProcType,
                      Installing, CommandKinds, Chains
  <2>3. /\ \A f \in Families \ {F} : table'[f] = table[f]
        /\ \/ table'[F] = NoTable
           \/ table'[F].queue = table[F].queue /\ table[F] # NoTable
           \/ table'[F].queue = proc[p].queue
    <3>1. proc[p].pc \in CommandKinds /\ proc[p].queue \in Queues
      BY <2>1 DEF BaseInv, PlaceInv, Alive, Installing, CommandKinds, Chains
    <3>2. /\ TypeOK /\ CanSucceed(proc[p].pc, F)
          /\ Effect(proc[p].pc, F, proc[p].queue)
      BY <1>4 DEF CommandSucceeds, BaseInv
    <3>3. /\ \A f \in Families \ {F} : table'[f] = table[f]
          /\ proc[p].pc = "delete" => table'[F] = NoTable
          /\ proc[p].pc = "create" =>
               table'[F] = IF table[F] = NoTable
                 THEN [queue |-> proc[p].queue, hooks |-> {}] ELSE table[F]
          /\ proc[p].pc \in Chains =>
               /\ table[F] \in TableType /\ table[F] # NoTable
               /\ table'[F] = [queue |-> table[F].queue,
                               hooks |-> table[F].hooks \union {proc[p].pc}]
      BY <2>1, <3>1, <3>2, EffectCases
    <3>. QED  BY <3>1, <3>3 DEF CommandKinds
  <2>4. SUFFICES ASSUME NEW f \in Families, table'[f] # NoTable
                 PROVE  \E x \in Procs : AnswersFor(x, f)'
    BY DEF RulesInv, NoTable
  <2>5. CASE table'[f].queue = table[f].queue /\ table[f] # NoTable
    <3>1. PICK x \in Procs : AnswersFor(x, f)
      BY <2>5 DEF RulesInv
    <3>2. AnswersFor(x, f)'
      BY <2>1, <2>2, <2>5, <3>1
      DEF AnswersFor, Holding, Installing, CommandKinds, Chains
    <3>. QED  BY <3>2
  <2>6. CASE f = F /\ table'[F].queue = proc[p].queue
    <3>1. AnswersFor(p, f)'
      BY <2>1, <2>2, <2>6
      DEF AnswersFor, Holding, Installing, CommandKinds, Chains
    <3>. QED  BY <3>1
  <2>. QED  BY <2>3, <2>4, <2>5, <2>6
<1>5. ASSUME NEW p \in Procs, CommandFails(p)  PROVE RulesInv'
  BY <1>5
  DEF BaseInv, TypeOK, RulesInv, AnswersFor, ProcType, Holding, Installing,
      CommandKinds, CommandFails, Advance, Leave
<1>6. ASSUME NEW p \in Procs, SetSignals(p)  PROVE RulesInv'
  BY <1>6
  DEF BaseInv, TypeOK, RulesInv, AnswersFor, Holding, Looping, SetSignals
<1>7. ASSUME NEW p \in Procs, SetSignalsFails(p)  PROVE RulesInv'
  <2>1. /\ table' = table /\ \A x \in Procs \ {p} : proc'[x] = proc[x]
        /\ \/ proc'[p].pc = "undo" /\ proc'[p].left = proc[p].fams
           \/ proc'[p].pc = "test"
        /\ proc'[p].queue = proc[p].queue /\ proc'[p].fams = proc[p].fams
    BY <1>7, ProcRecord DEF BaseInv, TypeOK, ProcType, SetSignalsFails, Leave
  <2>2. ASSUME NEW f \in Families, AnswersFor(p, f)  PROVE AnswersFor(p, f)'
    BY <2>1, <2>2 DEF AnswersFor, Holding, Looping
  <2>. QED  BY <2>1, <2>2, AnswersKept
<1>8. ASSUME NEW p \in Procs, Test(p)  PROVE RulesInv'
  BY <1>8, ProcRecord
  DEF BaseInv, TypeOK, RulesInv, AnswersFor, ProcType, NoTable, initScript,
      Holding, Looping, Test, Leave
<1>9. ASSUME NEW p \in Procs, EnterRecv(p)  PROVE RulesInv'
  BY <1>9 DEF RulesInv, AnswersFor, Holding, Looping, EnterRecv
<1>10. ASSUME NEW p \in Procs, Undo(p)  PROVE RulesInv'
  <2> DEFINE F == Family(p)
             rest == proc[p].left \ {F}
  <2>1. /\ F \in Families /\ proc[p] \in ProcType /\ proc[p].pc = "undo"
    BY <1>10, ProcRecord DEF Undo, BaseInv
  <2>2. /\ \A x \in Procs \ {p} : proc'[x] = proc[x]
        /\ proc'[p].queue = proc[p].queue /\ proc'[p].fams = proc[p].fams
        /\ proc'[p].left = rest
        /\ proc'[p].pc = IF rest = {} THEN "close" ELSE "undo"
    BY <1>10, <2>1 DEF Undo, DropFamily, BaseInv, TypeOK, ProcType
  <2>3. /\ \A f \in Families \ {F} : table'[f] = table[f]
        /\ table'[F] = NoTable
    BY <1>10, <2>1 DEF Undo, Delete, BaseInv, TypeOK
  <2>4. SUFFICES ASSUME NEW f \in Families, table'[f] # NoTable
                 PROVE  \E x \in Procs : AnswersFor(x, f)'
    BY DEF RulesInv, NoTable
  <2>5. f # F /\ table'[f] = table[f]
    BY <2>3, <2>4
  <2>6. PICK x \in Procs : AnswersFor(x, f)
    BY <2>4, <2>5 DEF RulesInv
  <2>7. AnswersFor(x, f)'
    BY <2>1, <2>2, <2>5, <2>6 DEF AnswersFor, Holding
  <2>. QED  BY <2>7
<1>11. ASSUME NEW p \in Procs, Close(p)  PROVE RulesInv'
  BY <1>11 DEF RulesInv, AnswersFor, Close
<1>12. ASSUME NEW p \in Procs, Receive(p)  PROVE RulesInv'
  BY <1>12, DaemonAssumption, ProcRecord
  DEF BaseInv, TypeOK, PlaceInv, RulesInv, AnswersFor, ProcType, NoTable,
      TableType, initScript, Holding, Installing, Looping, CommandKinds,
      Chains, Receive
<1>13. ASSUME NEW p \in Procs, ReceiveFails(p)  PROVE RulesInv'
  <2>1. /\ table' = table /\ \A x \in Procs \ {p} : proc'[x] = proc[x]
        /\ \/ proc'[p].pc = "undo" /\ proc'[p].left = proc[p].fams
           \/ proc'[p].pc = "test"
        /\ proc'[p].queue = proc[p].queue /\ proc'[p].fams = proc[p].fams
    BY <1>13, ProcRecord DEF BaseInv, TypeOK, ProcType, ReceiveFails, Leave
  <2>2. ASSUME NEW f \in Families, AnswersFor(p, f)  PROVE AnswersFor(p, f)'
    BY <2>1, <2>2 DEF AnswersFor, Holding, Looping
  <2>. QED  BY <2>1, <2>2, AnswersKept
<1>14. ASSUME NEW p \in Procs, Tell(p)  PROVE RulesInv'
  BY <1>14, DaemonAssumption
  DEF BaseInv, TypeOK, PlaceInv, RulesInv, AnswersFor, ProcType, Installing,
      CommandKinds, Tell
<1>15. ASSUME NEW p \in Procs, TellInUndo(p)  PROVE RulesInv'
  BY <1>15 DEF TellInUndo
<1>16. ASSUME NEW p \in Procs, Killed(p)  PROVE RulesInv'
  BY <1>16 DEF Killed
<1>17. ASSUME NEW c \in stray, Stray(c)  PROVE RulesInv'
  BY <1>17 DEF NoStray
<1>18. CASE StopService
  BY <1>18 DEF RulesInv, AnswersFor, StopService
<1>19. CASE CleanupNftTable
  <2>1. proc' = proc /\ \A f \in Families : table'[f] \in {table[f], NoTable}
    BY <1>19, FirstIn DEF CleanupNftTable, Delete, BaseInv, TypeOK
  <2>2. ASSUME NEW f \in Families, table'[f] # NoTable
        PROVE  \E x \in Procs : AnswersFor(x, f)'
    <3>1. table'[f] = table[f]
      BY <2>1, <2>2
    <3>2. PICK x \in Procs : AnswersFor(x, f)
      BY <2>2, <3>1 DEF RulesInv
    <3>3. AnswersFor(x, f)'
      BY <2>1, <3>1, <3>2 DEF AnswersFor
    <3>. QED  BY <3>3
  <2>. QED  BY <2>2 DEF RulesInv, NoTable
<1>20. CASE UNCHANGED vars
  BY <1>20 DEF RulesInv, AnswersFor, vars
<1>. QED  BY <1>1, <1>2, <1>3, <1>4, <1>5, <1>6, <1>7, <1>8, <1>9, <1>10,
     <1>11, <1>12, <1>13, <1>14, <1>15, <1>16, <1>17, <1>18, <1>19, <1>20
     DEF Next, Own

(* With one queue number one process at a time is between opening and      *)
(* closing the queue.                                                      *)
LEMMA OnlyHolder ==
  ASSUME BaseInv, OneQueue, NEW p \in Procs, NEW x \in Procs,
         proc[p].pc \in Holding, proc[x].pc \in Holding
  PROVE  p = x
<1>1. proc[p].queue = proc[x].queue
  BY DEF BaseInv, PlaceInv, OneQueue, Alive, Holding, Installing, Looping,
         CommandKinds, Chains
<1>. QED  BY <1>1 DEF BaseInv, HolderInv

LEMMA BuiltStep ==
  ASSUME BaseInv, BuiltInv, NoStray, ~Orphans, OneQueue, [Next]_vars
  PROVE  BuiltInv'
<1>1. ASSUME NEW p \in Procs, Spawn(p)  PROVE BuiltInv'
  BY <1>1
  DEF BuiltInv, Built, Whole, Family, Installing, Looping, CommandKinds,
      Chains, Spawn
<1>2. ASSUME NEW p \in Procs, OpenFails(p)  PROVE BuiltInv'
  BY <1>2
  DEF BuiltInv, Built, Whole, Family, Installing, Looping, CommandKinds,
      Chains, OpenFails
<1>3. ASSUME NEW p \in Procs, OpenQueue(p)  PROVE BuiltInv'
  BY <1>3
  DEF BaseInv, TypeOK, ToldInv, BuiltInv, Built, Whole, Family, Looping,
      OpenQueue
<1>4. ASSUME NEW p \in Procs, CommandSucceeds(p)  PROVE BuiltInv'
  <2>0. PICK F : F = Family(p)
    OBVIOUS
  <2> DEFINE rest == proc[p].left \ {F}
  <2>1. /\ F \in proc[p].left /\ F \in Families /\ proc[p].left \subseteq proc[p].fams
        /\ proc[p] \in ProcType /\ proc[p].queue \in Queues
        /\ proc[p].pc \in CommandKinds
    BY <1>4, <2>0, ProcRecord, FirstIn
    DEF CommandSucceeds, BaseInv, PlaceInv, ProcType, Family, Alive, Installing,
        CommandKinds, Chains
  <2>2. \A x \in Procs \ {p} : proc'[x] = proc[x] /\ proc[x].pc \notin Holding
    <3>1. proc[p].pc \in Holding
      BY <1>4 DEF CommandSucceeds, Holding
    <3>. QED  BY <1>4, <3>1, OnlyHolder
              DEF CommandSucceeds, Advance, BaseInv, TypeOK
  <2>3. ASSUME NEW x \in Procs \ {p}  PROVE Built(x)'
    BY <2>2 DEF Built, Holding, Installing, CommandKinds, Chains
  <2>4. /\ proc'[p].queue = proc[p].queue /\ proc'[p].fams = proc[p].fams
        /\ proc[p].pc = "postrouting" =>
             /\ proc'[p].left = rest
             /\ proc'[p].pc = IF rest = {} THEN "signals" ELSE "delete"
        /\ proc[p].pc # "postrouting" =>
             /\ proc'[p].left = proc[p].left
             /\ proc'[p].pc \in Installing
        /\ proc'[p].pc = "postrouting" => proc[p].pc = "prerouting"
    BY <1>4, <2>0, <2>1
    DEF CommandSucceeds, Advance, BaseInv, TypeOK, ProcType,
                            Installing, CommandKinds, Chains
  <2>5. /\ \A f \in Families \ {F} : table'[f] = table[f]
        /\ proc[p].pc \in Chains =>
             /\ table[F] \in TableType
             /\ table'[F] = [queue |-> table[F].queue,
                             hooks |-> table[F].hooks \union {proc[p].pc}]
    BY <1>4, <2>0, <2>1, EffectCases DEF CommandSucceeds, BaseInv
  <2>6. \A f \in proc[p].fams \ proc[p].left : Whole(p, f)'
    BY <1>4, <2>0, <2>1, <2>4, <2>5
    DEF CommandSucceeds, BuiltInv, Built, Whole, ProcType
  <2>7. ASSUME proc[p].pc = "postrouting"  PROVE Built(p)'
    <3>1. /\ "prerouting" \in table[F].hooks /\ proc[p].pc \in Chains
          /\ table[F].queue = proc[p].queue /\ table[F].hooks \subseteq Chains
      BY <2>0, <2>1, <2>5, <2>7
      DEF BuiltInv, Built, OneQueue, TableType, Chains
    <3>2. table[F].hooks \union {"postrouting"} = Chains
      BY <3>1 DEF Chains
    <3>3. Whole(p, F)'
      BY <2>4, <2>5, <2>7, <3>1, <3>2 DEF Whole
    <3>4. \A f \in proc[p].fams \ rest : Whole(p, f)'
      BY <2>6, <3>3
    <3>5. CASE rest = {}
      <4>1. /\ proc'[p].pc = "signals"
            /\ \A f \in proc'[p].fams : Whole(p, f)'
        BY <2>4, <2>7, <3>4, <3>5
      <4>. QED  BY <4>1 DEF Built, Installing, CommandKinds, Chains
    <3>6. CASE rest # {}
      <4>1. /\ proc'[p].pc = "delete"
            /\ \A f \in proc'[p].fams \ proc'[p].left : Whole(p, f)'
        BY <2>4, <2>7, <3>4, <3>6
      <4>. QED  BY <4>1 DEF Built, Looping
    <3>. QED  BY <3>5, <3>6
  <2>8. ASSUME proc[p].pc # "postrouting"  PROVE Built(p)'
    <3>1. proc'[p].pc = "postrouting" => "prerouting" \in table'[F].hooks
      BY <2>4, <2>5 DEF Chains
    <3>2. Family(p)' = F
      BY <2>0, <2>4, <2>8 DEF Family
    <3>3. proc'[p].pc \notin Looping \union {"signals"}
      BY <2>4, <2>8 DEF Installing, Looping, CommandKinds, Chains
    <3>4. \A f \in proc'[p].fams \ proc'[p].left : Whole(p, f)'
      BY <2>4, <2>6, <2>8
    <3>. QED  BY <3>1, <3>2, <3>3, <3>4 DEF Built
  <2>9. Built(p)'
    BY <2>7, <2>8
  <2>. QED  BY <2>3, <2>9 DEF BuiltInv
<1>5. ASSUME NEW p \in Procs, CommandFails(p)  PROVE BuiltInv'
  <2>1. /\ table' = table /\ proc[p] \in ProcType
        /\ \A x \in Procs \ {p} : proc'[x] = proc[x]
        /\ proc'[p].queue = proc[p].queue /\ proc'[p].fams = proc[p].fams
    BY <1>5 DEF BaseInv, TypeOK, ProcType, CommandFails, Advance, Leave
  <2>2. \/ proc'[p].pc = "undo"
        \/ /\ proc[p].pc = "delete" /\ proc'[p].pc = "create"
           /\ proc'[p].left = proc[p].left
    BY <1>5, <2>1 DEF CommandFails, Advance, Leave, BaseInv, TypeOK, ProcType
  <2>3. Built(p)'
    BY <2>1, <2>2
    DEF Built, BuiltInv, Whole, Family, Installing, Looping, CommandKinds,
        Chains
  <2>4. ASSUME NEW x \in Procs \ {p}  PROVE Built(x)'
    BY <2>1 DEF BuiltInv, Built, Whole, Family
  <2>. QED  BY <2>3, <2>4 DEF BuiltInv
<1>6. ASSUME NEW p \in Procs, SetSignals(p)  PROVE BuiltInv'
  BY <1>6, ProcRecord
  DEF BaseInv, TypeOK, HolderInv, ToldInv, ProcType, Looping, SetSignals
<1>7. ASSUME NEW p \in Procs, SetSignalsFails(p)  PROVE BuiltInv'
  BY <1>7, DaemonAssumption
  DEF BaseInv, TypeOK, PlaceInv, HolderInv, BuiltInv, Built, OneQueue, Holding,
      Installing, Looping, CommandKinds, Chains, Alive, SetSignalsFails, Leave
<1>8. ASSUME NEW p \in Procs, Test(p)  PROVE BuiltInv'
  BY <1>8, ProcRecord
  DEF BaseInv, TypeOK, PlaceInv, HolderInv, ToldInv, AskedInv, BuiltInv, Built,
      Whole, Family, ProcType, TableType, Looping, Test, Leave
<1>9. ASSUME NEW p \in Procs, EnterRecv(p)  PROVE BuiltInv'
  BY <1>9
  DEF BuiltInv, Built, Whole, Family, Installing, Looping, CommandKinds,
      Chains, EnterRecv
<1>10. ASSUME NEW p \in Procs, Undo(p)  PROVE BuiltInv'
  BY <1>10, DaemonAssumption, ProcRecord
  DEF BaseInv, TypeOK, PlaceInv, HolderInv, ToldInv, AskedInv, BuiltInv, Built,
      OneQueue, Whole, Family, ProcType, NoTable, TableType, initScript,
      Holding, Installing, Looping, CommandKinds, Chains, Alive, Undo,
      DropFamily, Delete
<1>11. ASSUME NEW p \in Procs, Close(p)  PROVE BuiltInv'
  BY <1>11
  DEF BuiltInv, Built, Whole, Family, Installing, Looping, CommandKinds,
      Chains, Close
<1>12. ASSUME NEW p \in Procs, Receive(p)  PROVE BuiltInv'
  BY <1>12, ProcRecord
  DEF BaseInv, TypeOK, PlaceInv, HolderInv, BuiltInv, Built, OneQueue, Whole,
      Holding, Installing, Looping, CommandKinds, Chains, Alive, Receive
<1>13. ASSUME NEW p \in Procs, ReceiveFails(p)  PROVE BuiltInv'
  <2>1. /\ table' = table /\ proc[p] \in ProcType
        /\ \A x \in Procs \ {p} : proc'[x] = proc[x]
        /\ proc'[p].queue = proc[p].queue /\ proc'[p].fams = proc[p].fams
    BY <1>13, ProcRecord DEF BaseInv, TypeOK, ProcType, ReceiveFails, Leave
  <2>2. \/ proc'[p].pc = "undo"
        \/ /\ proc[p].pc = "recv" /\ proc'[p].pc = "test"
           /\ proc'[p].exit = proc[p].exit
    BY <1>13, <2>1 DEF ReceiveFails, Leave, BaseInv, TypeOK, ProcType
  <2>3. Built(p)'
    BY <2>1, <2>2
    DEF Built, BuiltInv, Whole, Family, Installing, Looping, CommandKinds,
        Chains
  <2>4. ASSUME NEW x \in Procs \ {p}  PROVE Built(x)'
    BY <2>1 DEF BuiltInv, Built, Whole, Family
  <2>. QED  BY <2>3, <2>4 DEF BuiltInv
<1>14. ASSUME NEW p \in Procs, Tell(p)  PROVE BuiltInv'
  <2>1. /\ table' = table /\ proc[p] \in ProcType
        /\ \A x \in Procs \ {p} : proc'[x] = proc[x]
        /\ proc'[p].queue = proc[p].queue /\ proc'[p].fams = proc[p].fams
    BY <1>14, ProcRecord DEF BaseInv, TypeOK, ProcType, Tell
  <2>2. /\ proc'[p].exit
        /\ proc'[p].pc \in Looping \union {"undo", "close", "dead"}
    BY <1>14, <2>1 DEF Tell, BaseInv, TypeOK, ToldInv, ProcType, Looping
  <2>3. Built(p)'
    BY <2>1, <2>2
    DEF Built, BuiltInv, Whole, Family, Installing, Looping, CommandKinds,
        Chains
  <2>4. ASSUME NEW x \in Procs \ {p}  PROVE Built(x)'
    BY <2>1 DEF BuiltInv, Built, Whole, Family
  <2>. QED  BY <2>3, <2>4 DEF BuiltInv
<1>15. ASSUME NEW p \in Procs, TellInUndo(p)  PROVE BuiltInv'
  BY <1>15 DEF TellInUndo
<1>16. ASSUME NEW p \in Procs, Killed(p)  PROVE BuiltInv'
  BY <1>16, DaemonAssumption, ProcRecord
  DEF BaseInv, TypeOK, PlaceInv, HolderInv, ToldInv, AskedInv, BuiltInv, Built,
      OneQueue, Whole, Family, ProcType, NoTable, TableType, initScript,
      Holding, Installing, Looping, CommandKinds, Chains, Alive, Killed,
      Command
<1>17. ASSUME NEW c \in stray, Stray(c)  PROVE BuiltInv'
  BY <1>17 DEF NoStray
<1>18. CASE StopService
  BY <1>18 DEF BuiltInv, Built, Whole, Family, StopService
<1>19. CASE CleanupNftTable
  BY <1>19
  DEF BaseInv, ToldInv, AskedInv, BuiltInv, Built, Installing, Looping,
      CommandKinds, Chains, Alive, CleanupNftTable
<1>20. CASE UNCHANGED vars
  BY <1>20 DEF BuiltInv, Built, Whole, Family, vars
<1>. QED  BY <1>1, <1>2, <1>3, <1>4, <1>5, <1>6, <1>7, <1>8, <1>9, <1>10,
     <1>11, <1>12, <1>13, <1>14, <1>15, <1>16, <1>17, <1>18, <1>19, <1>20
     DEF Next, Own

LEMMA GoneStep ==
  ASSUME BaseInv, GoneInv, NoStray, ~Orphans, "delete" \notin NftFaults, [Next]_vars
  PROVE  GoneInv'
<1>1. ASSUME NEW p \in Procs, Spawn(p)  PROVE GoneInv'
  BY <1>1 DEF GoneInv, Spawn
<1>2. ASSUME NEW p \in Procs, OpenFails(p)  PROVE GoneInv'
  BY <1>2 DEF GoneInv, initScript, OpenFails
<1>3. ASSUME NEW p \in Procs, OpenQueue(p)  PROVE GoneInv'
  BY <1>3 DEF GoneInv, initScript, OpenQueue
<1>4. ASSUME NEW p \in Procs, CommandSucceeds(p)  PROVE GoneInv'
  BY <1>4
  DEF BaseInv, ToldInv, AskedInv, GoneInv, initScript, Installing, Looping,
      CommandKinds, Chains, Alive, CommandSucceeds
<1>5. ASSUME NEW p \in Procs, CommandFails(p)  PROVE GoneInv'
  BY <1>5 DEF GoneInv, initScript, CommandFails
<1>6. ASSUME NEW p \in Procs, SetSignals(p)  PROVE GoneInv'
  BY <1>6 DEF GoneInv, initScript, SetSignals
<1>7. ASSUME NEW p \in Procs, SetSignalsFails(p)  PROVE GoneInv'
  BY <1>7 DEF GoneInv, initScript, SetSignalsFails
<1>8. ASSUME NEW p \in Procs, Test(p)  PROVE GoneInv'
  BY <1>8 DEF GoneInv, initScript, Test
<1>9. ASSUME NEW p \in Procs, EnterRecv(p)  PROVE GoneInv'
  BY <1>9 DEF GoneInv, initScript, EnterRecv
<1>10. ASSUME NEW p \in Procs, Undo(p)  PROVE GoneInv'
  BY <1>10 DEF BaseInv, TypeOK, GoneInv, initScript, Undo, Delete
<1>11. ASSUME NEW p \in Procs, Close(p)  PROVE GoneInv'
  BY <1>11 DEF GoneInv, initScript, Close
<1>12. ASSUME NEW p \in Procs, Receive(p)  PROVE GoneInv'
  BY <1>12 DEF GoneInv, initScript, Receive
<1>13. ASSUME NEW p \in Procs, ReceiveFails(p)  PROVE GoneInv'
  BY <1>13 DEF GoneInv, initScript, ReceiveFails
<1>14. ASSUME NEW p \in Procs, Tell(p)  PROVE GoneInv'
  BY <1>14 DEF GoneInv, initScript, Tell
<1>15. ASSUME NEW p \in Procs, TellInUndo(p)  PROVE GoneInv'
  BY <1>15 DEF TellInUndo
<1>16. ASSUME NEW p \in Procs, Killed(p)  PROVE GoneInv'
  BY <1>16 DEF GoneInv, initScript, Killed
<1>17. ASSUME NEW c \in stray, Stray(c)  PROVE GoneInv'
  BY <1>17 DEF NoStray
<1>18. CASE StopService
  BY <1>18 DEF GoneInv, StopService
<1>19. CASE CleanupNftTable
  BY <1>19 DEF BaseInv, TypeOK, GoneInv, CleanupNftTable, Delete
<1>20. CASE UNCHANGED vars
  BY <1>20 DEF GoneInv, vars
<1>. QED  BY <1>1, <1>2, <1>3, <1>4, <1>5, <1>6, <1>7, <1>8, <1>9, <1>10,
     <1>11, <1>12, <1>13, <1>14, <1>15, <1>16, <1>17, <1>18, <1>19, <1>20
     DEF Next, Own

---------------------------------------------------------------------------
(* The theorems.                                                           *)

LEMMA BaseInitial ==
  ASSUME Init
  PROVE  BaseInv /\ NoStray /\ RulesInv /\ BuiltInv /\ GoneInv
<1>1. TypeOK
  <2>1. NewProc \in ProcType
    BY DaemonAssumption DEF NewProc, ProcType
  <2>. QED  BY <2>1 DEF Init, TypeOK
<1>2. PlaceInv /\ HolderInv /\ ToldInv /\ AskedInv
  BY DEF Init, NewProc, PlaceInv, HolderInv, ToldInv, AskedInv, Alive, Holding,
         Installing, Looping, CommandKinds, Chains
<1>3. NoStray /\ RulesInv /\ BuiltInv /\ GoneInv
  BY DEF Init, NewProc, NoStray, RulesInv, BuiltInv, Built, GoneInv,
         Installing, Looping, CommandKinds, Chains
<1>. QED  BY <1>1, <1>2, <1>3 DEF BaseInv

LEMMA BaseStep ==
  ASSUME BaseInv, [Next]_vars
  PROVE  BaseInv'
BY TypeStep, PlaceStep, HolderStep, ToldStep, AskedStep DEF BaseInv

LEMMA BaseAlways == Spec => []BaseInv
BY BaseInitial, BaseStep, PTL DEF Spec

(* Every variable keeps its type, and no path round the packet loop takes  *)
(* the error count past its limit.                                         *)
THEOREM DaemonTypeCorrect == Spec => []TypeOK
<1>1. BaseInv => TypeOK
  BY DEF BaseInv
<1>. QED  BY <1>1, BaseAlways, PTL

(* Rules go before the queue: a table never sends packets to a queue that  *)
(* nobody is bound to, also after a set-up that failed half-way, with any  *)
(* number of processes and queue numbers, if no process is killed, no      *)
(* command outlives the wait for it and no delete fails.                   *)
THEOREM RulesBeforeQueue ==
  ASSUME ~Kills, ~Orphans, "delete" \notin NftFaults
  PROVE  Spec => []TablesHaveReader
<1> DEFINE I == BaseInv /\ NoStray /\ RulesInv
<1>1. Init => I
  BY BaseInitial
<1>2. I /\ [Next]_vars => I'
  BY BaseStep, NoStrayStep, RulesStep
<1>3. I => TablesHaveReader
  <2>1. SUFFICES ASSUME I, NEW f \in Families, table[f] # NoTable
                 PROVE  reader[table[f].queue] # NoProc
    BY DEF TablesHaveReader
  <2>2. PICK p \in Procs : AnswersFor(p, f)
    BY <2>1 DEF RulesInv
  <2>3. reader[table[f].queue] = p
    BY <2>1, <2>2 DEF AnswersFor, BaseInv, HolderInv
  <2>. QED  BY <2>3, DaemonAssumption
<1>. QED  BY <1>1, <1>2, <1>3, PTL DEF Spec

(* A listening process has its tables whole, whatever its predecessors,    *)
(* its successors and the init script do, when all have the same queue     *)
(* number; commands may fail and processes be killed, as long as no        *)
(* command outlives the wait for it.                                       *)
THEOREM ListenersIntercept ==
  ASSUME ~Orphans, OneQueue
  PROVE  Spec => []ListenerIntercepts
<1> DEFINE I == BaseInv /\ NoStray /\ BuiltInv
<1>1. Init => I
  BY BaseInitial
<1>2. I /\ [Next]_vars => I'
  BY BaseStep, NoStrayStep, BuiltStep
<1>3. I => ListenerIntercepts
  BY DEF BuiltInv, Built, Whole, ListenerIntercepts
<1>. QED  BY <1>1, <1>2, <1>3, PTL DEF Spec

(* Once the init script has deleted the tables none is made until the next *)
(* process starts, in whatever state it found the processes, with any      *)
(* queue numbers and with kills.                                           *)
THEOREM NothingAfterStop ==
  ASSUME ~Orphans, "delete" \notin NftFaults
  PROVE  Spec => []StopLeavesNoTable
<1> DEFINE I == BaseInv /\ NoStray /\ GoneInv /\ (cleaned => script = {})
<1>1. Init => I
  BY BaseInitial DEF Init
<1>2. I /\ [Next]_vars => I'
  <2>1. ASSUME [Next]_vars, cleaned => script = {}
        PROVE  (cleaned => script = {})'
    BY <2>1 DEF Next, Own, vars, initScript, Spawn, OpenFails, OpenQueue,
                CommandSucceeds, CommandFails, SetSignals, SetSignalsFails,
                Test, EnterRecv, Undo, Close, Receive, ReceiveFails, Tell,
                TellInUndo, Killed, Stray, StopService, CleanupNftTable
  <2>. QED  BY <2>1, BaseStep, NoStrayStep, GoneStep
<1>3. I => StopLeavesNoTable
  BY DEF GoneInv, StopLeavesNoTable
<1>. QED  BY <1>1, <1>2, <1>3, PTL DEF Spec

---------------------------------------------------------------------------
(* Every step is a step of Interception, or changes nothing it sees.       *)

Seen ==
  /\ Diverted \in [Families -> SUBSET Chains]
  /\ Wanted \in [Families -> SUBSET Chains]

(* Interception with what is proved of it.                                 *)
Shown == INSTANCE Interception_proofs WITH
  Traffic <- Chains, Crashes <- MayCrash,
  holders <- Holders, diverted <- Diverted, wanted <- Wanted

LEMMA OthersDoNotServe ==
  ASSUME BaseInv, OneQueue, NEW p \in Procs, NEW x \in Procs,
         proc[p].pc \in Holding, Serves(x)
  PROVE  x = p
BY OnlyHolder DEF Serves, Holding

LEMMA NobodyServes ==
  ASSUME \A x \in Procs : ~Serves(x)
  PROVE  Wanted = Interceptor!NoTraffic
BY DEF Wanted, Served, Interceptor!NoTraffic

LEMMA NobodyServesNext ==
  ASSUME \A x \in Procs : ~Serves(x)'
  PROVE  Wanted' = Interceptor!NoTraffic
BY DEF Wanted, Served, Interceptor!NoTraffic

LEMMA SomebodyServes ==
  ASSUME BaseInv, NEW p \in Procs, Serves(p)
  PROVE  Wanted # Interceptor!NoTraffic
<1>1. PICK f \in Families : f \in proc[p].fams
  BY DEF BaseInv, TypeOK, ProcType, PlaceInv, Serves, Looping, Alive
<1>2. Wanted[f] = Chains
  BY <1>1 DEF Wanted, Served
<1>. QED  BY <1>1, <1>2 DEF Interceptor!NoTraffic, Chains

LEMMA WantedKept ==
  ASSUME \A x \in Procs : Serves(x)' <=> Serves(x),
         \A x \in Procs : Serves(x) => proc'[x].fams = proc[x].fams
  PROVE  Wanted' = Wanted
<1>1. \A f \in Families : Served(f)' <=> Served(f)
  BY DEF Served
<1>. QED  BY <1>1 DEF Wanted

LEMMA SeenTyped ==
  ASSUME TypeOK'
  PROVE  Seen'
BY DEF TypeOK, TableType, NoTable, Diverted, Wanted, Seen

(* A process that does something else than begin to serve.                 *)
LEMMA AloneStep ==
  ASSUME BaseInv, Seen', OneQueue, NEW p \in Procs,
         reader' = reader, table' = table,
         \A x \in Procs \ {p} : proc'[x] = proc[x],
         Serves(p)' => Serves(p),
         Serves(p) => proc'[p].fams = proc[p].fams
  PROVE  [Interceptor!Next]_(Interceptor!vars)
<1>1. Holders' = Holders /\ Diverted' = Diverted
  BY DEF Holders, Diverted
<1>2. \A x \in Procs \ {p} : Serves(x)' <=> Serves(x)
  BY DEF Serves
<1>3. CASE Serves(p) /\ ~Serves(p)'
  <2>1. Wanted # Interceptor!NoTraffic
    BY <1>3, SomebodyServes
  <2>2. proc[p].pc \in Holding
    BY <1>3 DEF Serves, Holding
  <2>3. \A x \in Procs : ~Serves(x)'
    BY <1>2, <1>3, <2>2, OthersDoNotServe
  <2>4. Wanted' = Interceptor!NoTraffic
    BY <2>3, NobodyServesNext
  <2>. QED
    BY <1>1, <2>1, <2>4 DEF Seen, Interceptor!Next, Interceptor!Change, Interceptor!Rest
<1>4. CASE Serves(p)' <=> Serves(p)
  <2>1. /\ \A x \in Procs : Serves(x)' <=> Serves(x)
        /\ \A x \in Procs : Serves(x) => proc'[x].fams = proc[x].fams
    BY <1>2, <1>4
  <2>2. Wanted' = Wanted
    BY <2>1, WantedKept
  <2>. QED  BY <1>1, <2>2 DEF Interceptor!vars
<1>. QED  BY <1>3, <1>4

(* The hooks of one family become fewer while nobody serves.               *)
LEMMA SpareStep ==
  ASSUME Seen', NEW f \in Families, reader' = reader,
         \A x \in Procs : ~Serves(x) /\ ~Serves(x)',
         table'[f].hooks \subseteq table[f].hooks,
         \A g \in Families \ {f} : table'[g] = table[g]
  PROVE  [Interceptor!Next]_(Interceptor!vars)
<1>1. Holders' = Holders
  BY DEF Holders
<1>2. Wanted = Interceptor!NoTraffic /\ Wanted' = Interceptor!NoTraffic
  BY NobodyServes, NobodyServesNext
<1>3. /\ Diverted'[f] \subseteq Diverted[f]
      /\ \A g \in Families \ {f} : Diverted'[g] = Diverted[g]
  BY DEF Diverted
<1>4. Interceptor!Spare(f)
  BY <1>1, <1>2, <1>3 DEF Interceptor!Spare, Interceptor!Elsewhere
<1>. QED
  BY <1>4 DEF Seen, Interceptor!Next, Interceptor!Change

LEMMA OpenQueueTakes ==
  ASSUME BaseInv, Seen', OneQueue, NEW p \in Procs, OpenQueue(p)
  PROVE  [Interceptor!Next]_(Interceptor!vars)
<1>1. /\ proc[p].queue \in Queues /\ reader[proc[p].queue] = NoProc
      /\ reader \in [Queues -> Procs \union {NoProc}]
      /\ reader' = [reader EXCEPT ![proc[p].queue] = p]
      /\ table' = table
      /\ proc' = [proc EXCEPT ![p].pc = "delete", ![p].left = proc[p].fams]
      /\ proc[p].pc = "open"
  BY DEF OpenQueue, BaseInv, PlaceInv, TypeOK, Alive
<1>2. /\ \A q \in Queues : reader[q] = NoProc
      /\ \A q \in Queues : reader'[q] = p
  BY <1>1 DEF OneQueue
<1>3. Holders = {} /\ Holders' = {p}
  BY <1>1, <1>2, DaemonAssumption DEF Holders
<1>4. \A x \in Procs : Serves(x)' <=> Serves(x)
  BY <1>1 DEF Serves, Looping, BaseInv, TypeOK, ProcType
<1>5. \A x \in Procs : Serves(x) => proc'[x].fams = proc[x].fams
  BY <1>1 DEF BaseInv, TypeOK, ProcType
<1>6. Wanted' = Wanted /\ Diverted' = Diverted
  BY <1>1, <1>4, <1>5, WantedKept DEF Diverted
<1>7. Interceptor!Take(p)
  BY <1>3, <1>6 DEF Interceptor!Take
<1>. QED
  BY <1>7 DEF Seen, Interceptor!Next, Interceptor!Change

LEMMA CommandDiverts ==
  ASSUME BaseInv, Seen', OneQueue, NEW p \in Procs, CommandSucceeds(p)
  PROVE  [Interceptor!Next]_(Interceptor!vars)
<1>0. PICK F : F = Family(p)
  OBVIOUS
<1>1. /\ proc[p].pc \in CommandKinds /\ proc[p].queue \in Queues
      /\ F \in Families /\ reader' = reader
      /\ CanSucceed(proc[p].pc, F) /\ Effect(proc[p].pc, F, proc[p].queue)
      /\ \A x \in Procs \ {p} : proc'[x] = proc[x]
      /\ proc'[p].pc \in Installing \union {"signals"}
  BY <1>0, ProcRecord
  DEF CommandSucceeds, Advance, BaseInv, PlaceInv, TypeOK, ProcType, Alive,
      Installing, CommandKinds, Chains
<1>2. \A x \in Procs : ~Serves(x) /\ ~Serves(x)'
  <2>1. ~Serves(p) /\ ~Serves(p)' /\ proc[p].pc \in Holding
    BY <1>1 DEF Serves, Looping, Holding, Installing, CommandKinds, Chains
  <2>2. \A x \in Procs \ {p} : ~Serves(x)
    BY <2>1, OthersDoNotServe
  <2>. QED  BY <1>1, <2>1, <2>2 DEF Serves
<1>3. /\ \A g \in Families \ {F} : table'[g] = table[g]
      /\ proc[p].pc = "delete" => table'[F] = NoTable
      /\ proc[p].pc = "create" =>
           table'[F] = IF table[F] = NoTable
                         THEN [queue |-> proc[p].queue, hooks |-> {}]
                         ELSE table[F]
      /\ proc[p].pc \in Chains =>
           table'[F] = [queue |-> table[F].queue,
                        hooks |-> table[F].hooks \union {proc[p].pc}]
  BY <1>1, EffectCases DEF BaseInv
<1>4. CASE proc[p].pc \in {"delete", "create"}
  <2>1. table'[F].hooks \subseteq table[F].hooks
    BY <1>3, <1>4 DEF NoTable
  <2>. QED  BY <1>1, <1>2, <1>3, <2>1, SpareStep
<1>5. CASE proc[p].pc \in Chains
  <2>1. /\ Diverted[F] \subseteq Diverted'[F]
        /\ \A g \in Families \ {F} : Diverted'[g] = Diverted[g]
    BY <1>1, <1>3, <1>5 DEF Diverted
  <2>2. /\ Wanted = Interceptor!NoTraffic
        /\ Wanted' = Interceptor!NoTraffic
    BY <1>2, NobodyServes, NobodyServesNext
  <2>3. Interceptor!Met(Wanted', Diverted')
    BY <2>2 DEF Interceptor!Met, Interceptor!NoTraffic
  <2>4. Holders # {} /\ Holders' = Holders
    BY <1>1 DEF Holders, BaseInv, HolderInv, Holding, Installing
  <2>5. Interceptor!Divert(F)
    BY <2>1, <2>2, <2>3, <2>4 DEF Interceptor!Divert, Interceptor!Elsewhere
  <2>. QED
    BY <1>1, <2>5 DEF Seen, Interceptor!Next, Interceptor!Change
<1>. QED  BY <1>1, <1>4, <1>5 DEF CommandKinds

LEMMA SignalsServe ==
  ASSUME BaseInv, Seen', BuiltInv, OneQueue, NEW p \in Procs, SetSignals(p)
  PROVE  [Interceptor!Next]_(Interceptor!vars)
<1>1. /\ proc[p].pc = "signals" /\ reader' = reader /\ table' = table
      /\ \A x \in Procs \ {p} : proc'[x] = proc[x]
      /\ proc'[p].fams = proc[p].fams /\ proc'[p].exit = proc[p].exit
  BY DEF SetSignals, BaseInv, TypeOK, ProcType
<1>2. proc[p].pc \in Holding /\ ~Serves(p)
  BY <1>1 DEF Holding, Serves, Looping
<1>3. \A x \in Procs : ~Serves(x)
  BY <1>2, OthersDoNotServe
<1>4. \A x \in Procs \ {p} : ~Serves(x)'
  BY <1>1, <1>3 DEF Serves
<1>5. ~proc[p].exit
  BY <1>1 DEF BaseInv, ToldInv, Looping
<1>6. \A f \in proc[p].fams : Whole(p, f)
  BY <1>1, <1>5 DEF BuiltInv, Built
<1>7. ASSUME NEW f \in Families, Wanted'[f] # {}
      PROVE  Diverted'[f] = Wanted'[f]
  <2>1. Served(f)' /\ Wanted'[f] = Chains
    BY <1>7 DEF Wanted
  <2>2. f \in proc[p].fams
    BY <1>1, <1>4, <2>1 DEF Served
  <2>3. table'[f].hooks = Chains
    BY <1>1, <1>6, <2>2 DEF Whole
  <2>. QED  BY <2>1, <2>3 DEF Diverted
<1>8. Interceptor!Met(Wanted', Diverted')
  BY <1>7 DEF Interceptor!Met
<1>9. /\ Holders # {} /\ Holders' = Holders
      /\ Diverted' = Diverted /\ Wanted = Interceptor!NoTraffic
  BY <1>1, <1>2, <1>3, NobodyServes
  DEF Holders, Diverted, BaseInv, HolderInv, PlaceInv, Alive
<1>10. \A f \in Families : Interceptor!Divert(f)
  BY <1>8, <1>9 DEF Interceptor!Divert, Interceptor!Elsewhere
<1>. QED
  BY <1>10 DEF Seen, Interceptor!Next, Interceptor!Change, Families

LEMMA UndoSpares ==
  ASSUME BaseInv, Seen', OneQueue, NEW p \in Procs, Undo(p)
  PROVE  [Interceptor!Next]_(Interceptor!vars)
<1>0. PICK F : F = Family(p)
  OBVIOUS
<1>1. /\ proc[p].pc = "undo" /\ F \in Families /\ reader' = reader
      /\ \A x \in Procs \ {p} : proc'[x] = proc[x]
      /\ proc'[p].pc \in {"undo", "close"}
      /\ table' = [table EXCEPT ![F] = NoTable] \/ table' = table
  BY <1>0, ProcRecord DEF Undo, DropFamily, Delete, BaseInv, TypeOK, ProcType
<1>2. \A x \in Procs : ~Serves(x) /\ ~Serves(x)'
  <2>1. ~Serves(p) /\ ~Serves(p)' /\ proc[p].pc \in Holding
    BY <1>1 DEF Serves, Looping, Holding
  <2>2. \A x \in Procs \ {p} : ~Serves(x)
    BY <2>1, OthersDoNotServe
  <2>. QED  BY <1>1, <2>1, <2>2 DEF Serves
<1>3. /\ table'[F].hooks \subseteq table[F].hooks
      /\ \A g \in Families \ {F} : table'[g] = table[g]
  BY <1>1 DEF BaseInv, TypeOK, NoTable
<1>. QED  BY <1>1, <1>2, <1>3, SpareStep

(* A queue is given back: with no kills and no failing deletes, after the  *)
(* tables.                                                                 *)
LEMMA CloseReleases ==
  ASSUME BaseInv, Seen', OneQueue, MayCrash \/ RulesInv,
         NEW p \in Procs, Close(p)
  PROVE  [Interceptor!Next]_(Interceptor!vars)
<1>1. /\ proc[p].pc = "close" /\ table' = table /\ proc[p].queue \in Queues
      /\ reader \in [Queues -> Procs \union {NoProc}]
      /\ reader[proc[p].queue] = p
      /\ reader' = [reader EXCEPT ![proc[p].queue] = NoProc]
      /\ \A x \in Procs \ {p} : proc'[x] = proc[x]
      /\ proc'[p].pc = "dead"
  BY DEF Close, BaseInv, PlaceInv, HolderInv, TypeOK, ProcType, Alive, Holding
<1>2. Holders # {} /\ Holders' = {}
  <2>1. \A q \in Queues : reader'[q] = NoProc
    BY <1>1 DEF OneQueue
  <2>. QED  BY <1>1, <2>1, DaemonAssumption DEF Holders
<1>3. proc[p].pc \in Holding /\ ~Serves(p) /\ ~Serves(p)'
  BY <1>1 DEF Holding, Serves, Looping
<1>4. \A x \in Procs : ~Serves(x)'
  <2>1. \A x \in Procs \ {p} : ~Serves(x)
    BY <1>3, OthersDoNotServe
  <2>. QED  BY <1>1, <1>3, <2>1 DEF Serves
<1>5. Wanted' = Interceptor!NoTraffic /\ Diverted' = Diverted
  BY <1>1, <1>4, NobodyServesNext DEF Diverted
<1>6. MayCrash \/ Diverted = Interceptor!NoTraffic
  <2>1. ASSUME RulesInv, NEW f \in Families  PROVE table[f] = NoTable
    <3>1. SUFFICES ASSUME table[f] # NoTable  PROVE FALSE
      OBVIOUS
    <3>2. PICK x \in Procs : AnswersFor(x, f)
      BY <2>1, <3>1 DEF RulesInv
    <3>3. x = p
      BY <1>3, <3>2, OnlyHolder DEF AnswersFor
    <3>. QED  BY <1>1, <3>2, <3>3 DEF AnswersFor
  <2>. QED  BY <2>1 DEF Diverted, NoTable, Interceptor!NoTraffic
<1>7. Interceptor!Release
  BY <1>2, <1>5, <1>6 DEF Interceptor!Release
<1>. QED
  BY <1>7 DEF Seen, Interceptor!Next, Interceptor!Change

LEMMA KilledReleases ==
  ASSUME BaseInv, Seen', OneQueue, NEW p \in Procs, Killed(p)
  PROVE  [Interceptor!Next]_(Interceptor!vars)
<1>1. /\ Kills /\ table' = table
      /\ reader \in [Queues -> Procs \union {NoProc}]
      /\ reader' = [q \in Queues |-> IF reader[q] = p THEN NoProc ELSE reader[q]]
      /\ \A x \in Procs \ {p} : proc'[x] = proc[x]
      /\ proc'[p].pc = "dead"
  BY DEF Killed, BaseInv, TypeOK, ProcType
<1>2. CASE \E q \in Queues : reader[q] = p
  <2>1. \A q \in Queues : reader[q] = p /\ reader'[q] = NoProc
    BY <1>1, <1>2 DEF OneQueue
  <2>2. Holders # {} /\ Holders' = {}
    BY <1>2, <2>1, DaemonAssumption DEF Holders
  <2>3. ASSUME NEW x \in Procs, Serves(x)'  PROVE FALSE
    <3>1. x # p /\ Serves(x)
      BY <1>1, <2>3 DEF Serves, Looping
    <3>2. proc[x].queue \in Queues /\ reader[proc[x].queue] = x
      BY <3>1 DEF Serves, BaseInv, PlaceInv, HolderInv, Holding, Looping, Alive
    <3>. QED  BY <2>1, <3>1, <3>2
  <2>4. Wanted' = Interceptor!NoTraffic /\ Diverted' = Diverted
    BY <1>1, <2>3, NobodyServesNext DEF Diverted
  <2>5. Interceptor!Release
    BY <1>1, <2>2, <2>4 DEF Interceptor!Release, MayCrash
  <2>. QED
    BY <2>5 DEF Seen, Interceptor!Next, Interceptor!Change
<1>3. CASE \A q \in Queues : reader[q] # p
  <2>1. reader' = reader
    BY <1>1, <1>3
  <2>2. ~Serves(p) /\ ~Serves(p)'
    BY <1>1, <1>3
    DEF Serves, BaseInv, PlaceInv, HolderInv, Holding, Looping, Alive
  <2>. QED  BY <1>1, <2>1, <2>2, AloneStep
<1>. QED  BY <1>2, <1>3

LEMMA ScriptSpares ==
  ASSUME BaseInv, Seen', CleanupNftTable
  PROVE  [Interceptor!Next]_(Interceptor!vars)
<1>0. PICK F : F = First(script)
  OBVIOUS
<1>1. /\ script # {} /\ F \in Families /\ reader' = reader /\ proc' = proc
      /\ table' = [table EXCEPT ![F] = NoTable] \/ table' = table
  BY <1>0, FirstIn DEF CleanupNftTable, Delete, BaseInv, TypeOK
<1>2. \A x \in Procs : ~Serves(x) /\ ~Serves(x)'
  BY <1>1 DEF Serves, BaseInv, AskedInv, Alive, Looping
<1>3. /\ table'[F].hooks \subseteq table[F].hooks
      /\ \A g \in Families \ {F} : table'[g] = table[g]
  BY <1>1 DEF BaseInv, TypeOK, NoTable
<1>. QED  BY <1>1, <1>2, <1>3, SpareStep

(* The steps before and within the set-up that change no table.            *)
LEMMA QuietSetup ==
  ASSUME BaseInv, NEW p \in Procs
  PROVE  Spawn(p) \/ OpenFails(p) \/ CommandFails(p) =>
           /\ reader' = reader /\ table' = table
           /\ \A x \in Procs \ {p} : proc'[x] = proc[x]
           /\ proc[p].pc \notin Looping /\ proc'[p].pc \notin Looping
<1>0. proc \in [Procs -> ProcType]
  BY DEF BaseInv, TypeOK
<1>1. ASSUME Spawn(p)
      PROVE  /\ reader' = reader /\ table' = table
             /\ \A x \in Procs \ {p} : proc'[x] = proc[x]
             /\ proc[p].pc = "new" /\ proc'[p].pc = "open"
  BY <1>0, <1>1 DEF Spawn, ProcType
<1>2. ASSUME OpenFails(p)
      PROVE  /\ reader' = reader /\ table' = table
             /\ \A x \in Procs \ {p} : proc'[x] = proc[x]
             /\ proc[p].pc = "open" /\ proc'[p].pc = "dead"
  BY <1>0, <1>2 DEF OpenFails, ProcType
<1>3. ASSUME CommandFails(p)
      PROVE  /\ reader' = reader /\ table' = table
             /\ \A x \in Procs \ {p} : proc'[x] = proc[x]
             /\ proc[p].pc \in Installing /\ proc'[p].pc \in {"create", "undo"}
  BY <1>0, <1>3 DEF CommandFails, Advance, Leave, ProcType
<1>. QED
  BY <1>1, <1>2, <1>3 DEF Looping, Installing, CommandKinds, Chains

(* The steps of the loop change no table and bring nobody into the loop.   *)
LEMMA QuietLoop ==
  ASSUME BaseInv, NEW p \in Procs
  PROVE  \/ SetSignalsFails(p) \/ Test(p) \/ EnterRecv(p)
         \/ Receive(p) \/ ReceiveFails(p) \/ Tell(p)
         => /\ reader' = reader /\ table' = table
            /\ \A x \in Procs \ {p} : proc'[x] = proc[x]
            /\ proc'[p].fams = proc[p].fams
            /\ proc'[p].pc \in Looping => proc[p].pc \in Looping
            /\ ~proc'[p].exit => ~proc[p].exit
<1> DEFINE Goal ==
      /\ reader' = reader /\ table' = table
      /\ \A x \in Procs \ {p} : proc'[x] = proc[x]
      /\ proc'[p].fams = proc[p].fams
      /\ proc'[p].pc \in Looping => proc[p].pc \in Looping
      /\ ~proc'[p].exit => ~proc[p].exit
<1>0. proc \in [Procs -> ProcType]
  BY DEF BaseInv, TypeOK
<1>1. SetSignalsFails(p) => Goal
  BY <1>0 DEF SetSignalsFails, Leave, ProcType, Looping
<1>2. Test(p) => Goal
  BY <1>0 DEF Test, Leave, ProcType, Looping
<1>3. EnterRecv(p) => Goal
  BY <1>0 DEF EnterRecv, ProcType, Looping
<1>4. Receive(p) => Goal
  BY <1>0 DEF Receive, ProcType, Looping
<1>5. ReceiveFails(p) => Goal
  BY <1>0 DEF ReceiveFails, Leave, ProcType, Looping
<1>6. Tell(p) => Goal
  BY <1>0 DEF Tell, ProcType, Looping
<1>. QED  BY <1>1, <1>2, <1>3, <1>4, <1>5, <1>6

LEMMA InterceptionStep ==
  ASSUME BaseInv, Seen', BuiltInv, NoStray, ~Orphans, OneQueue,
         MayCrash \/ RulesInv, [Next]_vars
  PROVE  [Interceptor!Next]_(Interceptor!vars)
<1> DEFINE Goal == [Interceptor!Next]_(Interceptor!vars)
<1>1. ASSUME NEW p \in Procs, Spawn(p) \/ OpenFails(p) \/ CommandFails(p)
      PROVE  Goal
  BY <1>1, QuietSetup, AloneStep DEF Serves
<1>2. ASSUME NEW p \in Procs,
             \/ SetSignalsFails(p) \/ Test(p) \/ EnterRecv(p)
             \/ Receive(p) \/ ReceiveFails(p) \/ Tell(p)
      PROVE  Goal
  BY <1>2, QuietLoop, AloneStep DEF Serves
<1>3. CASE StopService \/ UNCHANGED vars
  <2>1. proc' = proc /\ reader' = reader /\ table' = table
    BY <1>3 DEF StopService, vars
  <2>2. Wanted' = Wanted /\ Diverted' = Diverted /\ Holders' = Holders
    BY <2>1, WantedKept DEF Serves, Diverted, Holders
  <2>. QED  BY <2>2 DEF Interceptor!vars
<1>4. ASSUME NEW p \in Procs, TellInUndo(p)  PROVE Goal
  BY <1>4 DEF TellInUndo
<1>5. ASSUME NEW c \in stray  PROVE Goal
  BY <1>5 DEF NoStray
<1>. QED
  BY <1>1, <1>2, <1>3, <1>4, <1>5, OpenQueueTakes, CommandDiverts,
     SignalsServe, UndoSpares, CloseReleases, KilledReleases, ScriptSpares
  DEF Next, Own

(* The daemon keeps the promise of Interception: its queue has one reader, *)
(* rules are added for a reader only, what a process diverts stays as it   *)
(* is while the process serves, and unless a process is killed or a delete *)
(* fails the queue is given back after the rules.  For processes with the  *)
(* same queue number, without orphans.                                     *)
THEOREM DaemonIntercepts ==
  ASSUME ~Orphans, OneQueue
  PROVE  Spec => InterceptionKept
<1> DEFINE I == BaseInv /\ NoStray /\ BuiltInv /\ (MayCrash \/ RulesInv)
<1>1. Init => I /\ Interceptor!Init
  <2>1. ASSUME Init  PROVE Interceptor!Init
    <3>1. Holders = {}
      BY <2>1, DaemonAssumption DEF Init, Holders
    <3>2. Diverted = Interceptor!NoTraffic
      BY <2>1 DEF Init, Diverted, NoTable, Interceptor!NoTraffic
    <3>3. Wanted = Interceptor!NoTraffic
      BY <2>1, NobodyServes DEF Init, NewProc, Serves, Looping
    <3>. QED  BY <3>1, <3>2, <3>3 DEF Interceptor!Init
  <2>. QED  BY <2>1, BaseInitial
<1>2. I /\ [Next]_vars => I'
  <2>1. ASSUME I, [Next]_vars, ~MayCrash  PROVE RulesInv'
    BY <2>1, RulesStep DEF MayCrash
  <2>2. MayCrash' = MayCrash
    BY DEF MayCrash
  <2>. QED  BY <2>1, <2>2, BaseStep, NoStrayStep, BuiltStep
<1>3. I /\ I' /\ [Next]_vars => [Interceptor!Next]_(Interceptor!vars)
  BY InterceptionStep, SeenTyped DEF BaseInv
<1>. QED
  BY <1>1, <1>2, <1>3, PTL DEF Spec, InterceptionKept, Interceptor!Spec

(* So all that follows from Interception holds of the daemon: the queue    *)
(* has one reader, who has its traffic, and there is no traffic without a  *)
(* reader unless a process may crash (mainfun.c:436-512).                  *)
COROLLARY DaemonPromise ==
  ASSUME ~Orphans, OneQueue
  PROVE  Spec => []Interceptor!Promise
<1>1. Interceptor!Init => Shown!Init
  BY DEF Interceptor!Init, Shown!Init, Interceptor!NoTraffic, Shown!NoTraffic
<1>2. [Interceptor!Next]_(Interceptor!vars) => [Shown!Next]_(Shown!vars)
  <2>1. ASSUME NEW p, Interceptor!Take(p)  PROVE Shown!Take(p)
    BY <2>1 DEF Interceptor!Take, Shown!Take
  <2>2. ASSUME NEW f, Interceptor!Divert(f)  PROVE Shown!Divert(f)
    BY <2>2
    DEF Interceptor!Divert, Shown!Divert, Interceptor!NoTraffic,
        Shown!NoTraffic, Interceptor!Elsewhere, Shown!Elsewhere,
        Interceptor!Met, Shown!Met
  <2>3. ASSUME NEW f, Interceptor!Spare(f)  PROVE Shown!Spare(f)
    BY <2>3
    DEF Interceptor!Spare, Shown!Spare, Interceptor!NoTraffic,
        Shown!NoTraffic, Interceptor!Elsewhere, Shown!Elsewhere
  <2>4. Interceptor!Rest => Shown!Rest
    BY DEF Interceptor!Rest, Shown!Rest, Interceptor!NoTraffic,
           Shown!NoTraffic
  <2>5. Interceptor!Release => Shown!Release
    BY DEF Interceptor!Release, Shown!Release, Interceptor!NoTraffic,
           Shown!NoTraffic
  <2>. QED
    BY <2>1, <2>2, <2>3, <2>4, <2>5
    DEF Interceptor!Next, Shown!Next, Interceptor!vars, Shown!vars,
        Interceptor!Change, Shown!Change
<1>3. Shown!Promise => Interceptor!Promise
  BY DEF Interceptor!Promise, Shown!Promise, Interceptor!NoTraffic,
         Shown!NoTraffic, Interceptor!Met, Shown!Met
<1>4. Shown!Spec => []Shown!Promise
  BY Shown!PromiseKept
<1>. QED
  BY <1>1, <1>2, <1>3, <1>4, DaemonIntercepts, PTL
  DEF InterceptionKept, Interceptor!Spec, Shown!Spec

---------------------------------------------------------------------------
(* Progress of a process that is set up or is to end.                      *)

Count(fams) ==
  (IF "ip" \in fams THEN 1 ELSE 0) + (IF "ip6" \in fams THEN 1 ELSE 0)

(* The steps of its own a process has before it, at most, until it reads   *)
(* packets or is gone.                                                     *)
StepsLeft(r) ==
  CASE r.pc = "open" -> 13
    [] r.pc = "delete" -> 4 + 4 * Count(r.left)
    [] r.pc = "create" -> 3 + 4 * Count(r.left)
    [] r.pc = "prerouting" -> 2 + 4 * Count(r.left)
    [] r.pc = "postrouting" -> 1 + 4 * Count(r.left)
    [] r.pc = "signals" -> 4
    [] r.pc = "test" /\ r.exit -> 4
    [] r.pc = "undo" -> 1 + Count(r.left)
    [] r.pc = "close" -> 1
    [] OTHER -> 0

Distance(p) == StepsLeft(proc[p])

(* A process that was told to end is on its way unless it is in the gap    *)
(* between the test of the flag and recv, or in recv after that gap.       *)
UnderWay(p) ==
  \/ proc[p].pc \in Installing \union {"open", "signals", "undo", "close"}
  \/ proc[p].pc = "test" /\ proc[p].exit

Arrived(p) ==
  \/ proc[p].pc = "dead"
  \/ proc[p].pc \in Looping /\ ~proc[p].exit

(* Nothing takes a process that is under way farther away, each step of    *)
(* its own brings it nearer, it leaves its way for its goal only, and once *)
(* told to end it stays told.                                              *)
Proceeds(p) ==
  UnderWay(p) =>
    /\ IF Own(p) THEN Distance(p)' < Distance(p)
                 ELSE Distance(p)' <= Distance(p)
    /\ UnderWay(p)' \/ Arrived(p)'
    /\ proc[p].exit => proc'[p].exit

LEMMA CountLeft ==
  ASSUME TypeOK, NEW p \in Procs
  PROVE  /\ Count(proc[p].left) \in 0 .. 2 /\ Count(proc[p].fams) \in 0 .. 2
         /\ proc[p].left # {} =>
              /\ Count(proc[p].left) \in 1 .. 2
              /\ Count(proc[p].left \ {Family(p)}) = Count(proc[p].left) - 1
              /\ proc[p].left \ {Family(p)} = {} <=> Count(proc[p].left) = 1
<1>1. proc[p].left \in SUBSET {"ip", "ip6"}
  BY DEF TypeOK, ProcType, Families
<1>2. Family(p) = IF "ip" \in proc[p].left THEN "ip" ELSE "ip6"
  BY DEF Family, First
<1>. QED  BY <1>1, <1>2 DEF Count

LEMMA LeaveProceeds ==
  ASSUME TypeOK, NEW p \in Procs, Leave(p)
  PROVE  /\ proc'[p].pc = "undo" /\ proc'[p].exit = proc[p].exit
         /\ Distance(p)' \in 1 .. 3
<1>1. /\ proc'[p].pc = "undo" /\ proc'[p].exit = proc[p].exit
      /\ proc'[p].left = proc[p].fams
  BY DEF Leave, TypeOK, ProcType
<1>2. Distance(p)' = 1 + Count(proc[p].fams)
  BY <1>1 DEF Distance, StepsLeft
<1>3. Count(proc[p].fams) \in 0 .. 2
  BY CountLeft
<1>4. Distance(p)' \in 1 .. 3
  BY <1>2, <1>3
<1>. QED  BY <1>1, <1>4

LEMMA AdvanceProceeds ==
  ASSUME TypeOK, PlaceInv, NEW p \in Procs, proc[p].pc \in Installing, Advance(p)
  PROVE  /\ proc'[p].pc \in Installing \union {"signals"}
         /\ proc'[p].exit = proc[p].exit
         /\ Distance(p)' < Distance(p)
<1>. DEFINE n == Count(proc[p].left)
            rest == proc[p].left \ {Family(p)}
<1>1. /\ n \in 1 .. 2 /\ Count(rest) = n - 1 /\ (rest = {} <=> n = 1)
  BY CountLeft DEF PlaceInv
<1>2. proc \in [Procs -> ProcType]
  BY DEF TypeOK
<1>. HIDE DEF n
<1>3. CASE proc[p].pc = "delete"
  <2>1. proc'[p] = [proc[p] EXCEPT !.pc = "create"]
    BY <1>2, <1>3 DEF Advance
  <2>2. proc'[p].pc = "create" /\ UNCHANGED <<proc[p].left, proc[p].exit>>
    BY <1>2, <2>1 DEF ProcType
  <2>3. Distance(p) = 4 + 4 * n /\ Distance(p)' = 3 + 4 * n
    BY <1>3, <2>2 DEF Distance, StepsLeft, n
  <2>. QED  BY <1>1, <2>2, <2>3 DEF Installing, CommandKinds
<1>4. CASE proc[p].pc = "create"
  <2>1. proc'[p] = [proc[p] EXCEPT !.pc = "prerouting"]
    BY <1>2, <1>4 DEF Advance
  <2>2. proc'[p].pc = "prerouting" /\ UNCHANGED <<proc[p].left, proc[p].exit>>
    BY <1>2, <2>1 DEF ProcType
  <2>3. Distance(p) = 3 + 4 * n /\ Distance(p)' = 2 + 4 * n
    BY <1>4, <2>2 DEF Distance, StepsLeft, n
  <2>. QED  BY <1>1, <2>2, <2>3 DEF Installing, CommandKinds, Chains
<1>5. CASE proc[p].pc = "prerouting"
  <2>1. proc'[p] = [proc[p] EXCEPT !.pc = "postrouting"]
    BY <1>2, <1>5 DEF Advance
  <2>2. proc'[p].pc = "postrouting" /\ UNCHANGED <<proc[p].left, proc[p].exit>>
    BY <1>2, <2>1 DEF ProcType
  <2>3. Distance(p) = 2 + 4 * n /\ Distance(p)' = 1 + 4 * n
    BY <1>5, <2>2 DEF Distance, StepsLeft, n
  <2>. QED  BY <1>1, <2>2, <2>3 DEF Installing, CommandKinds, Chains
<1>6. CASE proc[p].pc = "postrouting"
  <2>1. proc'[p] = [proc[p] EXCEPT
          !.pc = IF rest = {} THEN "signals" ELSE "delete", !.left = rest]
    BY <1>2, <1>6 DEF Advance
  <2>2. /\ proc'[p].pc = IF rest = {} THEN "signals" ELSE "delete"
        /\ proc'[p].left = rest /\ proc'[p].exit = proc[p].exit
    BY <1>2, <2>1 DEF ProcType
  <2>3. Distance(p) = 1 + 4 * n
    BY <1>6 DEF Distance, StepsLeft, n
  <2>4. Distance(p)' = IF rest = {} THEN 4 ELSE 4 + 4 * Count(rest)
    BY <2>2 DEF Distance, StepsLeft
  <2>5. Distance(p)' < Distance(p)
    BY <1>1, <2>3, <2>4
  <2>. QED  BY <2>2, <2>5 DEF Installing, CommandKinds
<1>. QED  BY <1>3, <1>4, <1>5, <1>6 DEF Installing, CommandKinds, Chains

LEMMA DistanceBounds ==
  ASSUME TypeOK, PlaceInv, NEW p \in Procs
  PROVE  /\ Distance(p) \in 0 .. 13
         /\ UnderWay(p) => Distance(p) >= 1
         /\ proc[p].pc \in Installing => Distance(p) >= 5
         /\ proc[p].pc = "open" => Distance(p) = 13
         /\ proc[p].pc = "signals" => Distance(p) = 4
         /\ proc[p].pc = "test" /\ proc[p].exit => Distance(p) = 4
<1>1. Count(proc[p].left) \in 0 .. 2
  BY CountLeft
<1>2. proc[p].pc \in Installing => Count(proc[p].left) \in 1 .. 2
  BY CountLeft DEF PlaceInv
<1>. QED
  BY <1>1, <1>2
  DEF Distance, StepsLeft, UnderWay, Installing, CommandKinds, Chains

(* A family of the clean-up is done with.                                  *)
LEMMA DropProceeds ==
  ASSUME TypeOK, PlaceInv, NEW p \in Procs, proc[p].pc = "undo",
         proc'[p].left = proc[p].left \ {Family(p)},
         proc'[p].pc = IF proc'[p].left = {} THEN "close" ELSE "undo"
  PROVE  Distance(p)' < Distance(p)
<1>. DEFINE n == Count(proc[p].left)
<1>1. /\ n \in 1 .. 2 /\ Count(proc'[p].left) = n - 1
      /\ (proc'[p].left = {} <=> n = 1)
  BY CountLeft DEF PlaceInv
<1>2. Distance(p) = 1 + n
  BY DEF Distance, StepsLeft
<1>3. Distance(p)' = IF proc'[p].left = {} THEN 1 ELSE 1 + Count(proc'[p].left)
  BY DEF Distance, StepsLeft
<1>. HIDE DEF n
<1>. QED  BY <1>1, <1>2, <1>3

(* A step of its own.                                                      *)
LEMMA OwnProceeds ==
  ASSUME TypeOK, PlaceInv, ToldInv, NEW p \in Procs, UnderWay(p), Own(p)
  PROVE  /\ Distance(p)' < Distance(p)
         /\ UnderWay(p)' \/ Arrived(p)'
         /\ proc[p].exit => proc'[p].exit
<1>1. proc \in [Procs -> ProcType]
  BY DEF TypeOK
<1>2. CASE CommandSucceeds(p)
  <2>1. proc[p].pc \in Installing /\ Advance(p)
    BY <1>2 DEF CommandSucceeds
  <2>. QED  BY <2>1, AdvanceProceeds DEF UnderWay
<1>3. CASE CommandFails(p)
  <2>1. proc[p].pc \in Installing /\ (Advance(p) \/ Leave(p))
    BY <1>3 DEF CommandFails
  <2>2. CASE Advance(p)
    BY <2>1, <2>2, AdvanceProceeds DEF UnderWay
  <2>3. CASE Leave(p)
    <3>1. Distance(p) >= 5 /\ Distance(p) \in Nat
      BY <2>1, DistanceBounds
    <3>. QED  BY <2>3, <3>1, LeaveProceeds DEF UnderWay
  <2>. QED  BY <2>1, <2>2, <2>3
<1>4. CASE OpenFails(p)
  <2>1. proc[p].pc = "open" /\ proc'[p].pc = "dead" /\ proc'[p].exit = proc[p].exit
    BY <1>1, <1>4 DEF OpenFails, ProcType
  <2>. QED  BY <2>1 DEF Distance, StepsLeft, Arrived
<1>5. CASE OpenQueue(p)
  <2>1. /\ proc[p].pc = "open" /\ proc'[p].pc = "delete"
        /\ proc'[p].left = proc[p].fams /\ proc'[p].exit = proc[p].exit
    BY <1>1, <1>5 DEF OpenQueue, ProcType
  <2>2. Distance(p) = 13 /\ Distance(p)' = 4 + 4 * Count(proc[p].fams)
    BY <2>1 DEF Distance, StepsLeft
  <2>3. Count(proc[p].fams) \in 0 .. 2
    BY CountLeft
  <2>4. Distance(p)' < Distance(p)
    BY <2>2, <2>3
  <2>. QED  BY <2>1, <2>4 DEF UnderWay, Installing, CommandKinds
<1>6. CASE SetSignals(p)
  <2>1. /\ proc[p].pc = "signals" /\ proc'[p].pc = "test"
        /\ proc'[p].exit = proc[p].exit /\ ~proc[p].exit
    BY <1>1, <1>6 DEF SetSignals, ProcType, ToldInv, Looping
  <2>. QED  BY <2>1 DEF Distance, StepsLeft, Arrived, Looping
<1>7. CASE SetSignalsFails(p)
  <2>1. proc[p].pc = "signals" /\ Leave(p)
    BY <1>7 DEF SetSignalsFails
  <2>. QED  BY <2>1, LeaveProceeds, DistanceBounds DEF UnderWay
<1>8. CASE Test(p)
  <2>1. proc[p].pc = "test" /\ proc[p].exit /\ Leave(p)
    BY <1>8 DEF Test, UnderWay, Installing, CommandKinds, Chains
  <2>. QED  BY <2>1, LeaveProceeds, DistanceBounds DEF UnderWay
<1>9. CASE EnterRecv(p)
  BY <1>9 DEF EnterRecv, UnderWay, Installing, CommandKinds, Chains
<1>10. CASE Undo(p)
  <2>1. /\ proc[p].pc = "undo" /\ proc'[p].left = proc[p].left \ {Family(p)}
        /\ proc'[p].pc = IF proc'[p].left = {} THEN "close" ELSE "undo"
        /\ proc'[p].exit = proc[p].exit
    BY <1>1, <1>10 DEF Undo, DropFamily, ProcType
  <2>. QED  BY <2>1, DropProceeds DEF UnderWay
<1>11. CASE Close(p)
  <2>1. proc[p].pc = "close" /\ proc'[p].pc = "dead" /\ proc'[p].exit = proc[p].exit
    BY <1>1, <1>11 DEF Close, ProcType
  <2>. QED  BY <2>1 DEF Distance, StepsLeft, Arrived
<1>. QED
  BY <1>2, <1>3, <1>4, <1>5, <1>6, <1>7, <1>8, <1>9, <1>10, <1>11 DEF Own

(* Signals, kills, and the steps of others.                                *)
LEMMA OthersLetProceed ==
  ASSUME TypeOK, PlaceInv, ToldInv, NEW p \in Procs, UnderWay(p), [Next]_vars,
         ~Own(p)
  PROVE  /\ Distance(p)' <= Distance(p)
         /\ UnderWay(p)' \/ Arrived(p)'
         /\ proc[p].exit => proc'[p].exit
<1>. DEFINE Goal == /\ Distance(p)' <= Distance(p)
                    /\ UnderWay(p)' \/ Arrived(p)'
                    /\ proc[p].exit => proc'[p].exit
<1>1. proc \in [Procs -> ProcType] /\ Distance(p) \in Nat /\ Distance(p) >= 1
  BY DistanceBounds DEF TypeOK
<1>2. CASE proc'[p] = proc[p]
  <2>1. Distance(p)' = Distance(p) /\ UnderWay(p)'
    BY <1>2 DEF Distance, UnderWay
  <2>. QED  BY <1>1, <1>2, <2>1
<1>3. ASSUME NEW q \in Procs, q # p,
             \/ Spawn(q) \/ Own(q) \/ Receive(q) \/ ReceiveFails(q)
             \/ Tell(q) \/ TellInUndo(q) \/ Killed(q)
      PROVE  proc'[p] = proc[p]
  <2>1. Spawn(q) \/ OpenFails(q) \/ OpenQueue(q) \/ SetSignals(q)
          => proc'[p] = proc[p]
    BY <1>1, <1>3 DEF Spawn, OpenFails, OpenQueue, SetSignals
  <2>2. Leave(q) \/ Advance(q) => proc'[p] = proc[p]
    BY <1>1, <1>3 DEF Leave, Advance
  <2>3. EnterRecv(q) \/ Receive(q) \/ Tell(q) \/ TellInUndo(q) \/ Killed(q)
          => proc'[p] = proc[p]
    BY <1>1, <1>3 DEF EnterRecv, Receive, Tell, TellInUndo, Killed
  <2>4. Undo(q) \/ Close(q) => proc'[p] = proc[p]
    BY <1>1, <1>3 DEF Undo, DropFamily, Close
  <2>5. CommandSucceeds(q) \/ CommandFails(q) \/ SetSignalsFails(q)
          => Leave(q) \/ Advance(q)
    BY DEF CommandSucceeds, CommandFails, SetSignalsFails
  <2>6. Test(q) \/ ReceiveFails(q) => proc'[p] = proc[p]
    BY <1>1, <1>3, <2>2 DEF Test, ReceiveFails
  <2>. QED  BY <1>3, <2>1, <2>2, <2>3, <2>4, <2>5, <2>6 DEF Own
<1>4. CASE Spawn(p) \/ Receive(p) \/ ReceiveFails(p)
  BY <1>4
  DEF Spawn, Receive, ReceiveFails, UnderWay, Installing, CommandKinds, Chains
<1>5. CASE Tell(p)
  <2>1. proc[p].pc # "recv" /\ proc[p].handles
    BY <1>5 DEF Tell, UnderWay, Installing, CommandKinds, Chains
  <2>2. proc[p].pc \in {"test", "undo", "close"}
    BY <1>5, <2>1
    DEF Tell, Alive, ToldInv, UnderWay, Looping, Installing, CommandKinds, Chains
  <2>3. /\ UNCHANGED <<proc[p].pc, proc[p].left>> /\ proc'[p].exit
    BY <1>1, <1>5, <2>1 DEF Tell, ProcType
  <2>4. Distance(p)' = Distance(p) /\ UnderWay(p)'
    BY <2>2, <2>3
    DEF UnderWay, Distance, StepsLeft, Installing, CommandKinds, Chains
  <2>. QED  BY <1>1, <2>3, <2>4
<1>6. CASE TellInUndo(p)
  <2>1. /\ proc[p].pc = "undo" /\ proc'[p].left = proc[p].left \ {Family(p)}
        /\ proc'[p].pc = IF proc'[p].left = {} THEN "close" ELSE "undo"
        /\ proc'[p].exit
    BY <1>1, <1>6 DEF TellInUndo, ProcType
  <2>2. Distance(p)' < Distance(p) /\ Count(proc'[p].left) \in Nat
    BY <2>1, DropProceeds DEF Count
  <2>3. Distance(p)' \in Nat
    BY <2>1, <2>2 DEF Distance, StepsLeft
  <2>. QED  BY <1>1, <2>1, <2>2, <2>3 DEF UnderWay
<1>7. CASE Killed(p)
  <2>1. proc'[p].pc = "dead" /\ proc'[p].exit = proc[p].exit
    BY <1>1, <1>7 DEF Killed, ProcType
  <2>2. Distance(p)' = 0
    BY <2>1 DEF Distance, StepsLeft
  <2>. QED  BY <1>1, <2>1, <2>2 DEF Arrived
<1>8. CASE (\E c \in stray : Stray(c)) \/ StopService \/ CleanupNftTable
             \/ UNCHANGED vars
  BY <1>2, <1>8 DEF Stray, StopService, CleanupNftTable, vars
<1>. QED
  BY <1>2, <1>3, <1>4, <1>5, <1>6, <1>7, <1>8 DEF Next

(* Whatever fails and whoever deletes its tables, a process that is set up *)
(* comes to read packets or to its end, and one that was told to end, with *)
(* the gap aside, comes to its end: in at most 13 steps of its own, none   *)
(* of which is ever undone.  That it takes them is the fairness of the     *)
(* runs (SetupEnds, ToldEnds).                                             *)
THEOREM ProcessesProceed ==
  Spec => /\ [][\A p \in Procs : Proceeds(p)]_vars
          /\ [](\A p \in Procs : UnderWay(p) => Distance(p) \in 1 .. 13)
<1>1. BaseInv /\ [Next]_vars => \A p \in Procs : Proceeds(p)
  BY OwnProceeds, OthersLetProceed DEF BaseInv, Proceeds
<1>2. BaseInv => \A p \in Procs : UnderWay(p) => Distance(p) \in 1 .. 13
  BY DistanceBounds DEF BaseInv
<1>. QED  BY <1>1, <1>2, BaseAlways, PTL DEF Spec
=============================================================================
