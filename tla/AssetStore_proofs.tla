-------------------------- MODULE AssetStore_proofs --------------------------
(***************************************************************************)
(* What holds of the uploaded logos and of the web root, for any number of *)
(* requests, files, images and templates.  The invariant Inv has a part    *)
(* for the requests (Uploads), one that holds until a request is signalled *)
(* (Alone: the lock admits one request, whose quota check stays good and   *)
(* whose candidate is what it carries), and one for the service (Service). *)
(***************************************************************************)
EXTENDS AssetStore, TLAPS

Checked == {"copy", "activate"}

Record ==
  [pc : Steps \union {"idle"}, name : Names \union {Nothing},
   posted : Images \union {Nothing}, data : Images \union {Nothing},
   held : BOOLEAN, tmp : BOOLEAN]

Uploads ==
  \A r \in Requests :
    /\ Served(r) => request[r].name \in Names /\ request[r].posted \in Images
    /\ request[r].pc \in Checked => request[r].data \in Proper

(* The parts that a signal puts an end to.                                 *)
OneServed ==
  \A r \in Requests :
    Served(r) => lock /\ \A s \in Requests : Served(s) => s = r

Fits ==
  \A r \in Requests :
    request[r].pc \in Checked =>
      Total([files EXCEPT ![request[r].name] = request[r].data]) <= Quota

OwnData ==
  \A r \in Requests :
    /\ request[r].pc = "isolate" => pending = request[r].posted
    /\ request[r].pc \in Checked \union {"check"} =>
         request[r].data = request[r].posted

Alone == ~signalled => OneServed /\ Fits /\ (~meddled => OwnData)

Cleared ==
  /\ service.pc = "clear" => blocks \subseteq service.todo \union kept
  /\ service.pc \in {"choose", "create", "fill"} => blocks \subseteq kept

Chosen ==
  /\ service.pc = "create" =>
       /\ service.image \in Names \union {Default}
       /\ service.image \in Names => files[service.image] \in Proper
  /\ service.pc \in {"fill", "inject"} => service.image \in Proper \union {Default}
  /\ service.pc = "inject" => site \in Runtimes /\ site.image = service.image

Inv ==
  /\ TypeOK /\ Uploads /\ Alone
  /\ Cleared /\ Chosen /\ ServedChecked /\ BlocksServed

---------------------------------------------------------------------------
LEMMA InitInv == Init => Inv
<1> SUFFICES ASSUME Init PROVE Inv
  OBVIOUS
<1> USE DEF Init
<1>1. Idle \in Record
  BY DEF Idle, Record
<1>2. request \in [Requests -> Record] /\ \A r \in Requests : request[r].pc = "idle"
  BY <1>1 DEF Idle
<1>3. TypeOK
  BY <1>2 DEF TypeOK, Record, Resting
<1>4. Uploads /\ Alone
  BY <1>2 DEF Uploads, Alone, OneServed, Fits, OwnData, Checked, Served
<1>5. Cleared /\ Chosen /\ ServedChecked /\ BlocksServed
  BY StoreAssumption
  DEF StoreAssumption, Cleared, Chosen, ServedChecked, BlocksServed, Resting
<1> QED BY <1>3, <1>4, <1>5 DEF Inv

(* What the steps of a request do to the records.                          *)
LEMMA BeginRecord ==
  ASSUME TypeOK, NEW r \in Requests, Begin(r)
  PROVE  /\ request' \in [Requests -> Record]
         /\ request'[r].pc = "helper"
         /\ request'[r].name \in Names /\ request'[r].posted \in Images
         /\ \A s \in Requests \ {r} :
              /\ request'[s].pc = request[s].pc
              /\ request'[s].name = request[s].name
              /\ request'[s].posted = request[s].posted
              /\ request'[s].data = request[s].data
<1>1. PICK n \in Names, i \in Images :
        request' = [s \in Requests |->
          IF s = r THEN [Idle EXCEPT !.pc = "helper", !.name = n, !.posted = i]
          ELSE Lose(s)]
  BY DEF Begin
<1> DEFINE q == [Idle EXCEPT !.pc = "helper", !.name = n, !.posted = i]
<1>2. Idle \in Record
  BY DEF Idle, Record
<1>3. q \in Record /\ q.pc = "helper" /\ q.name = n /\ q.posted = i
  BY <1>2 DEF Record, Steps
<1>4. ASSUME NEW s \in Requests
      PROVE  /\ Lose(s) \in Record
             /\ Lose(s).pc = request[s].pc
             /\ Lose(s).name = request[s].name
             /\ Lose(s).posted = request[s].posted
             /\ Lose(s).data = request[s].data
  <2>1. request[s] \in Record
    BY DEF TypeOK, Record
  <2> QED BY <2>1 DEF Lose, Record
<1>5. request'[r] = q /\ \A s \in Requests \ {r} : request'[s] = Lose(s)
  BY <1>1
<1> HIDE DEF q
<1>6. request' \in [Requests -> Record]
  BY <1>1, <1>3, <1>4 DEF q
<1> QED BY <1>3, <1>4, <1>5, <1>6

LEMMA IsolateRecord ==
  ASSUME TypeOK, NEW r \in Requests, Isolate(r)
  PROVE  /\ request' \in [Requests -> Record]
         /\ \A s \in Requests \ {r} : request'[s] = request[s]
         /\ request'[r].pc = "check" /\ request'[r].data = pending
         /\ request'[r].name = request[r].name
         /\ request'[r].posted = request[r].posted
<1> DEFINE q == [request[r] EXCEPT !.pc = "check", !.held = TRUE, !.data = pending]
<1>1. request[r] \in Record /\ request \in [Requests -> Record]
  BY DEF TypeOK, Record
<1>2. q \in Record
  BY <1>1, TypeOK, Isolate(r) DEF Record, Steps, TypeOK, Isolate
<1>3. request' = [request EXCEPT ![r] = q]
  BY DEF Isolate
<1>4. request'[r] = q
  BY <1>1, <1>3
<1> QED BY <1>1, <1>2, <1>3, <1>4 DEF Record

LEMMA CopyRecord ==
  ASSUME TypeOK, NEW r \in Requests, Copy(r)
  PROVE  /\ request' \in [Requests -> Record]
         /\ \A s \in Requests \ {r} : request'[s] = request[s]
         /\ request'[r].pc = "activate" /\ request'[r].data = request[r].data
         /\ request'[r].name = request[r].name
         /\ request'[r].posted = request[r].posted
<1> DEFINE q == [request[r] EXCEPT !.pc = "activate", !.tmp = TRUE]
<1>1. request[r] \in Record /\ request \in [Requests -> Record]
  BY DEF TypeOK, Record
<1>2. q \in Record
  BY <1>1 DEF Record, Steps
<1>3. request' = [request EXCEPT ![r] = q]
  BY DEF Copy
<1>4. request'[r] = q
  BY <1>1, <1>3
<1> QED BY <1>1, <1>2, <1>3, <1>4 DEF Record

LEMMA SignalRecord ==
  ASSUME TypeOK, NEW r \in Requests, Signal(r)
  PROVE  /\ request' \in [Requests -> Record]
         /\ \A s \in Requests \ {r} : request'[s] = request[s]
         /\ request'[r].pc = request[r].pc /\ request'[r].data = request[r].data
         /\ request'[r].name = request[r].name
         /\ request'[r].posted = request[r].posted
<1> DEFINE q == [request[r] EXCEPT !.held = FALSE, !.tmp = FALSE]
<1>1. request[r] \in Record /\ request \in [Requests -> Record]
  BY DEF TypeOK, Record
<1>2. q \in Record
  BY <1>1 DEF Record, Steps
<1>3. request' = [request EXCEPT ![r] = q]
  BY DEF Signal, Trap, Lose
<1>4. request'[r] = q
  BY <1>1, <1>3
<1> QED BY <1>1, <1>2, <1>3, <1>4 DEF Record

(* Every step keeps the types.                                             *)
LEMMA TypeNext == Inv /\ [Next]_vars => TypeOK'
<1> SUFFICES ASSUME Inv, [Next]_vars PROVE TypeOK'
  OBVIOUS
<1> USE StoreAssumption DEF StoreAssumption, Inv, TypeOK, Uploads, Chosen, Served, Steps, Checked,
      store, web, vars, Idle, Resting
<1>1. CASE Upload
  <2> SUFFICES ASSUME NEW r \in Requests,
                      Begin(r) \/ Helper(r) \/ Isolate(r) \/ Check(r) \/ Copy(r)
                      \/ Activate(r) \/ Fail(r) \/ Signal(r) \/ Kill(r)
               PROVE  TypeOK'
    BY <1>1 DEF Upload
  <2>1. CASE Begin(r)
    <3>1. request' \in [Requests -> Record]
      BY BeginRecord, <2>1 DEF Record
    <3> QED BY <2>1, <3>1 DEF Begin, Record
  <2>2. CASE Helper(r)
    BY <2>2 DEF Helper
  <2>3. CASE Isolate(r)
    <3>1. request' \in [Requests -> Record]
      BY IsolateRecord, <2>3 DEF Record, Isolate
    <3> QED BY <2>3, <3>1 DEF Isolate, Record
  <2>4. CASE Check(r)
    BY <2>4 DEF Check, Valid
  <2>5. CASE Copy(r)
    <3>1. request' \in [Requests -> Record]
      BY CopyRecord, <2>5 DEF Record
    <3> QED BY <2>5, <3>1 DEF Copy, Record
  <2>6. CASE Activate(r)
    BY <2>6 DEF Activate, Trap
  <2>7. CASE Fail(r)
    BY <2>7 DEF Fail, Trap
  <2>8. CASE Signal(r)
    <3>1. request' \in [Requests -> Record]
      BY SignalRecord, <2>8 DEF Record
    <3> QED BY <2>8, <3>1 DEF Signal, Trap, Record
  <2>9. CASE Kill(r)
    BY <2>9 DEF Kill
  <2> QED BY <2>1, <2>2, <2>3, <2>4, <2>5, <2>6, <2>7, <2>8, <2>9
<1>2. CASE Meddle
  BY <1>2 DEF Meddle
<1>3. CASE Command
  BY <1>3 DEF Command
<1>4. CASE Clear
  BY <1>4 DEF Clear
<1>5. CASE Wipe
  BY <1>5 DEF Wipe, Removed
<1>6. CASE Choose
  BY <1>6 DEF Choose, ValidAsset
<1>7. CASE Create
  BY <1>7 DEF Create, Content
<1>8. CASE Fill
  <2>1. \/ service' = [service EXCEPT !.pc = "inject", !.todo = Templates]
        \/ service' = Resting
    BY <1>8 DEF Fill
  <2>2. service' \in
          [pc : {"idle", "clear", "choose", "create", "fill", "inject"},
           job : {"none", "apply", "stop"}, todo : SUBSET Templates,
           image : Names \union Images \union {Default, Nothing}]
    <3>1. CASE service' = Resting
      BY <3>1
    <3>2. CASE service' = [service EXCEPT !.pc = "inject", !.todo = Templates]
      <4> DEFINE Job == [pc : {"idle", "clear", "choose", "create", "fill", "inject"},
                         job : {"none", "apply", "stop"}, todo : SUBSET Templates,
                         image : Names \union Images \union {Default, Nothing}]
      <4>1. service \in Job
        OBVIOUS
      <4>2. [service EXCEPT !.pc = "inject", !.todo = Templates] \in Job
        BY <4>1
      <4> QED BY <3>2, <4>2
    <3> QED BY <2>1, <3>1, <3>2
  <2>3. site' \in Runtimes \union {Partial, Nothing}
    BY <1>8 DEF Fill, Removed, Runtimes
  <2>4. UNCHANGED <<request, lock, pending, files, signalled, meddled, blocks, kept>>
    BY <1>8 DEF Fill
  <2> QED BY <2>2, <2>3, <2>4
<1>9. CASE Inject
  BY <1>9 DEF Inject
<1>10. CASE ServiceKilled
  BY <1>10 DEF ServiceKilled
<1>11. CASE PowerLoss
  BY <1>11 DEF PowerLoss
<1>12. CASE UNCHANGED vars
  BY <1>12
<1> QED
  BY <1>1, <1>2, <1>3, <1>4, <1>5, <1>6, <1>7, <1>8, <1>9, <1>10, <1>11, <1>12
  DEF Next, Serve

---------------------------------------------------------------------------
(* What one step does to the requests, action by action.                   *)

(* A request that is only dropped or left alone disturbs no other.         *)
LEMMA UploadsNext == Inv /\ [Next]_vars => Uploads'
<1> SUFFICES ASSUME Inv, [Next]_vars PROVE Uploads'
  OBVIOUS
<1> USE StoreAssumption DEF StoreAssumption, Inv, TypeOK, Uploads, Served, Checked, Steps, Idle
<1>1. CASE UNCHANGED request
  BY <1>1
<1>2. CASE PowerLoss
  BY <1>2 DEF PowerLoss
<1>3. ASSUME NEW r \in Requests,
             Begin(r) \/ Helper(r) \/ Isolate(r) \/ Check(r) \/ Copy(r)
             \/ Activate(r) \/ Fail(r) \/ Signal(r) \/ Kill(r)
      PROVE  Uploads'
  <2>1. CASE Begin(r)
    BY <2>1, BeginRecord
  <2>2. CASE Helper(r) \/ Check(r)
    BY <2>2 DEF Helper, Check, Valid
  <2>3. CASE Isolate(r)
    BY <2>3, IsolateRecord DEF Isolate
  <2>4. CASE Copy(r)
    BY <2>4, CopyRecord DEF Copy
  <2>5. CASE Signal(r)
    BY <2>5, SignalRecord
  <2>6. CASE Activate(r) \/ Fail(r) \/ Kill(r)
    BY <2>6 DEF Activate, Fail, Kill, Trap
  <2> QED BY <1>3, <2>1, <2>2, <2>3, <2>4, <2>5, <2>6
<1> QED
  BY <1>1, <1>2, <1>3
  DEF Next, Upload, Serve, Meddle, Command, Clear, Wipe, Choose, Create, Fill,
      Inject, ServiceKilled, store, vars

(* Until a request is signalled, the one served holds the lock.            *)
LEMMA AloneNext == Inv /\ [Next]_vars => Alone'
<1> SUFFICES ASSUME Inv, [Next]_vars, ~signalled'
             PROVE  OneServed' /\ Fits' /\ (~meddled' => OwnData')
  BY DEF Alone
<1> USE StoreAssumption DEF StoreAssumption, Inv, TypeOK, Alone, OneServed, Fits, OwnData, Served,
      Checked, Steps, Idle
<1>1. CASE UNCHANGED store
  BY <1>1 DEF store
<1>2. CASE PowerLoss
  BY <1>2 DEF PowerLoss
<1>3. CASE Meddle
  BY <1>3 DEF Meddle
<1>4. ASSUME NEW r \in Requests,
             Begin(r) \/ Helper(r) \/ Isolate(r) \/ Check(r) \/ Copy(r)
             \/ Activate(r) \/ Fail(r) \/ Signal(r) \/ Kill(r)
      PROVE  OneServed' /\ Fits' /\ (~meddled' => OwnData')
  <2>1. CASE Begin(r)
    <3>1. \A s \in Requests : ~Served(s)
      BY <2>1 DEF Begin
    <3>3. \A s \in Requests : request'[s].pc = IF s = r THEN "helper" ELSE "idle"
      BY <3>1, <2>1, BeginRecord
    <3> QED BY <2>1, <3>3 DEF Begin
  <2>2. CASE Helper(r)
    BY <2>2 DEF Helper
  <2>3. CASE Isolate(r)
    <3>1. /\ request[r].pc = "isolate"
          /\ UNCHANGED <<lock, files, signalled, meddled>>
      BY <2>3 DEF Isolate
    <3>2. /\ \A s \in Requests \ {r} : request[s].pc = "idle"
          /\ lock /\ ~meddled => pending = request[r].posted
      BY <3>1
    <3> QED BY <2>3, <3>1, <3>2, IsolateRecord
  <2>4. CASE Check(r)
    <3>1. /\ request[r].pc = "check"
          /\ Total([files EXCEPT ![request[r].name] = request[r].data]) <= Quota
          /\ request' = [request EXCEPT ![r].pc = "copy"]
          /\ UNCHANGED <<lock, pending, files, signalled, meddled>>
      BY <2>4 DEF Check, Valid
    <3>2. /\ \A s \in Requests \ {r} : request[s].pc = "idle" /\ request'[s].pc = "idle"
          /\ lock /\ request'[r].pc = "copy"
          /\ request'[r].name = request[r].name
          /\ request'[r].data = request[r].data
          /\ request'[r].posted = request[r].posted
      BY <3>1
    <3>3. OneServed'
      BY <3>1, <3>2
    <3>4. Fits'
      BY <3>1, <3>2
    <3>5. ~meddled' => OwnData'
      BY <3>1, <3>2
    <3> QED BY <3>3, <3>4, <3>5
  <2>5. CASE Copy(r)
    <3>1. /\ request[r].pc = "copy"
          /\ UNCHANGED <<lock, pending, files, signalled, meddled>>
      BY <2>5 DEF Copy
    <3>2. \A s \in Requests \ {r} : request[s].pc = "idle"
      BY <3>1
    <3>3. /\ \A s \in Requests \ {r} : request'[s].pc = "idle"
          /\ request'[r].pc = "activate"
          /\ request'[r].name = request[r].name
          /\ request'[r].data = request[r].data
          /\ request'[r].posted = request[r].posted
      BY <2>5, <3>2, CopyRecord
    <3>4. OneServed'
      BY <3>1, <3>3
    <3>5. Fits'
      BY <3>1, <3>3
    <3>6. ~meddled' => OwnData'
      BY <3>1, <3>3
    <3> QED BY <3>4, <3>5, <3>6
  <2>6. CASE Activate(r) \/ Fail(r) \/ Kill(r)
    <3>1. \A s \in Requests : request'[s].pc = "idle"
      BY <2>6 DEF Activate, Fail, Kill, Trap
    <3> QED BY <3>1
  <2>7. CASE Signal(r)
    BY <2>7 DEF Signal
  <2> QED BY <1>4, <2>1, <2>2, <2>3, <2>4, <2>5, <2>6, <2>7
<1> QED
  BY <1>1, <1>2, <1>3, <1>4
  DEF Next, Upload, Serve, Command, Clear, Wipe, Choose, Create, Fill, Inject,
      ServiceKilled, store, vars

---------------------------------------------------------------------------
(* The service, and the one step of a request that concerns it: a file is  *)
(* replaced by a checked one.                                              *)
LEMMA ServiceNext ==
  Inv /\ [Next]_vars => (Cleared /\ Chosen /\ ServedChecked /\ BlocksServed)'
<1> SUFFICES ASSUME Inv, [Next]_vars
             PROVE  (Cleared /\ Chosen /\ ServedChecked /\ BlocksServed)'
  OBVIOUS
<1> USE StoreAssumption DEF StoreAssumption, Inv, TypeOK, Cleared, Chosen, ServedChecked,
      BlocksServed, Resting
<1>1. CASE UNCHANGED <<web, files>>
  BY <1>1 DEF web
<1>2. ASSUME NEW r \in Requests, Activate(r)
      PROVE  (Cleared /\ Chosen /\ ServedChecked /\ BlocksServed)'
  BY <1>2 DEF Activate, Uploads, Served, Checked, web
<1>3. CASE Command
  BY <1>3 DEF Command, store
<1>4. CASE Clear
  BY <1>4 DEF Clear, store
<1>5. CASE Wipe
  BY <1>5 DEF Wipe, Removed, store
<1>6. CASE Choose
  BY <1>6 DEF Choose, ValidAsset, store
<1>7. CASE Create
  BY <1>7 DEF Create, Content, store
<1>8. CASE Fill
  <2>1. \/ /\ \E ok \in BOOLEAN : site' = [image |-> service.image, styled |-> ok]
           /\ service' = [service EXCEPT !.pc = "inject", !.todo = Templates]
        \/ Removed /\ service' = Resting
    BY <1>8 DEF Fill
  <2>2. /\ [service EXCEPT !.pc = "inject", !.todo = Templates].pc = "inject"
        /\ [service EXCEPT !.pc = "inject", !.todo = Templates].image = service.image
        /\ Resting.pc = "idle"
    OBVIOUS
  <2>3. \/ /\ site' \in Runtimes /\ site'.image = service.image
           /\ service'.pc = "inject" /\ service'.image = service.image
        \/ site' \in {site, Partial, Nothing} /\ service'.pc = "idle"
    <3>1. service.image \in Images \union {Default}
      BY <1>8 DEF Fill
    <3>2. ASSUME NEW ok \in BOOLEAN, site' = [image |-> service.image, styled |-> ok]
          PROVE  site' \in Runtimes /\ site'.image = service.image
      BY <3>1, <3>2 DEF Runtimes
    <3>3. Removed => site' \in {site, Partial, Nothing}
      BY DEF Removed
    <3> QED BY <2>1, <2>2, <3>2, <3>3
  <2>4. service.pc = "fill" /\ UNCHANGED <<blocks, kept, files>>
    BY <1>8 DEF Fill, store
  <2>5. blocks \subseteq kept
    BY <2>4
  <2>6. CASE service'.pc = "inject"
    <3>1. /\ site' \in Runtimes /\ site'.image = service.image
          /\ service'.image = service.image
      BY <2>3, <2>6
    <3>2. service.image \in Proper \union {Default}
      BY <2>4
    <3> QED BY <2>4, <2>5, <2>6, <3>1, <3>2
  <2>7. CASE service'.pc = "idle"
    <3>1. site' \in {site, Partial, Nothing}
      BY <2>3, <2>7
    <3> QED BY <2>4, <2>5, <2>7, <3>1
  <2> QED BY <2>3, <2>6, <2>7
<1>9. CASE Inject
  BY <1>9 DEF Inject, store
<1>10. CASE ServiceKilled \/ PowerLoss
  BY <1>10 DEF ServiceKilled, PowerLoss, store
<1>11. Next \/ UNCHANGED vars
  OBVIOUS
<1>12. Upload \/ Meddle \/ UNCHANGED vars =>
         UNCHANGED <<web, files>> \/ \E r \in Requests : Activate(r)
  BY DEF Upload, Meddle, Begin, Helper, Isolate, Check, Copy, Fail, Signal, Kill,
         Trap, web, store, vars
<1> QED
  BY <1>1, <1>2, <1>3, <1>4, <1>5, <1>6, <1>7, <1>8, <1>9, <1>10, <1>11, <1>12
  DEF Next, Serve

---------------------------------------------------------------------------
LEMMA Invariance == Spec => []Inv
<1>1. Inv /\ [Next]_vars => Inv'
  BY TypeNext, UploadsNext, AloneNext, ServiceNext DEF Inv
<1> QED BY InitInv, <1>1, PTL DEF Spec

(* Uploads and the service leave no file of the asset directory half       *)
(* written (upload 255-261), and every variable has its type.              *)
THEOREM StoreTypeCorrect == Spec => []TypeOK
  BY Invariance, PTL DEF Inv

(* The web root serves what has passed the checks (init.d/taoistfuchen     *)
(* 125-158, 236-291), however uploads interleave with the service.         *)
THEOREM OnlyCheckedServed == Spec => []ServedChecked
  BY Invariance, PTL DEF Inv

(* A template names the runtime only while its image and script are whole  *)
(* (293-342); of its style sheet nothing is claimed (268).                 *)
THEOREM BlocksHaveRuntime == Spec => []BlocksServed
  BY Invariance, PTL DEF Inv

(* Only the move at the end of a request changes a file.                   *)
LEMMA OnlyActivate ==
  [Next]_vars /\ files' # files => \E r \in Requests : Activate(r)
  BY DEF Next, Upload, Serve, Begin, Helper, Isolate, Check, Copy, Fail, Signal,
         Kill, Meddle, Command, Clear, Wipe, Choose, Create, Fill, Inject,
         ServiceKilled, PowerLoss, store, vars

(* A file is only ever replaced by an image that has passed the checks     *)
(* (upload 236-261).                                                       *)
THEOREM OnlyCheckedStored == Spec => StoredChecked
<1>1. Inv /\ [Next]_vars =>
        [\A n \in Names : files'[n] # files[n] => files'[n] \in Proper]_vars
  <2> SUFFICES ASSUME Inv, [Next]_vars, NEW n \in Names, files'[n] # files[n]
               PROVE  files'[n] \in Proper
    OBVIOUS
  <2>1. PICK r \in Requests : Activate(r)
    BY OnlyActivate
  <2> QED BY <2>1 DEF Activate, Inv, TypeOK, Uploads, Checked
<1> QED BY Invariance, <1>1, PTL DEF Spec, StoredChecked

(* What a request stores stays within the quota, although the check and    *)
(* the move are steps apart (upload 251-259).                              *)
THEOREM QuotaIsKept == Spec => QuotaKept
<1>1. Inv /\ [Next]_vars =>
        [files' # files => signalled \/ Total(files') <= Quota]_vars
  <2> SUFFICES ASSUME Inv, [Next]_vars, files' # files, ~signalled
               PROVE  Total(files') <= Quota
    OBVIOUS
  <2>1. PICK r \in Requests : Activate(r)
    BY OnlyActivate
  <2>2. /\ files' = [files EXCEPT ![request[r].name] = request[r].data]
        /\ request[r].pc \in Checked
    BY <2>1 DEF Activate, Checked
  <2> QED BY <2>2 DEF Inv, Alone, Fits
<1> QED BY Invariance, <1>1, PTL DEF Spec, QuotaKept

(* A request stores what it carries (upload 189-234).                      *)
THEOREM ContentIsOwn == Spec => OwnContent
<1>1. Inv /\ [Next]_vars =>
        [~signalled /\ ~meddled =>
           \A n \in Names : files'[n] # files[n] =>
             \E r \in Requests :
               request[r].name = n /\ files'[n] = request[r].posted]_vars
  <2> SUFFICES ASSUME Inv, [Next]_vars, ~signalled, ~meddled,
                      NEW n \in Names, files'[n] # files[n]
               PROVE  \E r \in Requests :
                        request[r].name = n /\ files'[n] = request[r].posted
    OBVIOUS
  <2>1. PICK r \in Requests : Activate(r)
    BY OnlyActivate
  <2>2. request[r].data = request[r].posted
    BY <2>1 DEF Activate, Inv, Alone, OwnData, Checked
  <2> QED BY <2>1, <2>2 DEF Activate, Inv, TypeOK
<1> QED BY Invariance, <1>1, PTL DEF Spec, OwnContent
=============================================================================
