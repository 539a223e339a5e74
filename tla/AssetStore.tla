----------------------------- MODULE AssetStore -----------------------------
(***************************************************************************)
(* The directory of uploaded logos and what is made of it: upload requests *)
(* (the CGI script taoistfuchen-upload) that write it, and the Custom Logo *)
(* service (init.d/taoistfuchen) that copies an image from it into the web *)
(* root and hooks it into the templates of the themes.                     *)
(*                                                                         *)
(* Files a request keeps to itself have random names, so that nobody else  *)
(* reads them; the fixed staging path can be written by LuCI's own upload  *)
(* at any time.  One kind of image stands for logos and favicons.          *)
(***************************************************************************)
EXTENDS Naturals, FiniteSets, Functions

CONSTANTS
  Requests,   \* slots for upload requests
  Names,      \* file names
  Images,     \* what a request may carry
  Proper,     \* images that pass the checks
  Default,    \* the built-in image
  Templates,
  Size,       \* size of each image
  Quota,
  Partial,    \* what a copy, set-up or removal under way has left
  Nothing

(* A runtime directory with images and script whole; its style sheet is    *)
(* whole too, or missing, cut or left over from an earlier one.            *)
Runtimes == [image : Images \union {Default}, styled : BOOLEAN]

ASSUME StoreAssumption ==
  /\ Proper \subseteq Images /\ Names # {}
  /\ {Default, Partial, Nothing} \intersect Images = {}
  /\ {Partial, Nothing} \intersect Runtimes = {}
  /\ Default # Partial /\ Default # Nothing /\ Partial # Nothing
  /\ Size \in [Images -> Nat \ {0}] /\ Quota \in Nat

VARIABLES
  request,   \* the requests being served
  lock,      \* does the lock directory exist
  pending,   \* the fixed staging path
  files,     \* the asset directory, with what older releases have left there
  service,   \* the service script at work
  site,      \* the runtime directory in the web root
  blocks,    \* templates that have the block
  kept,      \* templates whose block could not be removed
  signalled, \* some request has been signalled
  meddled    \* the staging path has been written by others

store == <<request, lock, pending, files, signalled, meddled>>
web == <<service, site, blocks, kept>>
vars == <<store, web>>

Steps == {"helper", "isolate", "check", "copy", "activate"}

Idle == [pc |-> "idle", name |-> Nothing, posted |-> Nothing,
         data |-> Nothing, held |-> FALSE, tmp |-> FALSE]

Served(r) == request[r].pc # "idle"

---------------------------------------------------------------------------
(* A request: held tells whether its candidate file is there, data what it *)
(* held, tmp whether its copy beside the destination is there.             *)

(* What the directory would take with this file in its place.              *)
Total(f) ==
  SumFunction([n \in Names |-> IF f[n] \in Images THEN Size[f[n]] ELSE 0])

(* Type, format, dimensions and length of the candidate.                   *)
Valid(r) == request[r].data \in Proper

Lose(r) == [request[r] EXCEPT !.held = FALSE, !.tmp = FALSE]

(* Fault: the lock is not looked at.                                       *)
BeginAnyway(r) ==
  /\ ~Served(r)
  /\ \E n \in Names, i \in Images :
       request' = [request EXCEPT ![r] =
                     [Idle EXCEPT !.pc = "helper", !.name = n, !.posted = i]]
  /\ lock' = TRUE /\ pending' = Nothing
  /\ UNCHANGED <<files, signalled, meddled, web>>

(* Whatever earlier requests have left is removed, and so is what a        *)
(* signalled one still works on.                                           *)
Begin(r) ==
  /\ ~Served(r) /\ ~lock
  /\ \E n \in Names, i \in Images :
       request' = [s \in Requests |->
                     IF s = r
                     THEN [Idle EXCEPT !.pc = "helper", !.name = n, !.posted = i]
                     ELSE Lose(s)]
  /\ lock' = TRUE /\ pending' = Nothing
  /\ UNCHANGED <<files, signalled, meddled, web>>

(* LuCI's upload program stores what the request carries.                  *)
Helper(r) ==
  /\ request[r].pc = "helper"
  /\ pending' = request[r].posted
  /\ request' = [request EXCEPT ![r].pc = "isolate"]
  /\ UNCHANGED <<lock, files, signalled, meddled, web>>

Isolate(r) ==
  /\ request[r].pc = "isolate" /\ pending # Nothing
  /\ request' = [request EXCEPT ![r] =
                  [@ EXCEPT !.pc = "check", !.held = TRUE, !.data = pending]]
  /\ pending' = Nothing
  /\ UNCHANGED <<lock, files, signalled, meddled, web>>

(* Fault: the file is checked where it was stored.                         *)
CheckStaged(r) ==
  /\ request[r].pc = "check" /\ request[r].posted \in Proper
  /\ Total([files EXCEPT ![request[r].name] = request[r].data]) <= Quota
  /\ request' = [request EXCEPT ![r].pc = "copy"]
  /\ UNCHANGED <<lock, pending, files, signalled, meddled, web>>

Check(r) ==
  /\ request[r].pc = "check" /\ request[r].held /\ Valid(r)
  /\ Total([files EXCEPT ![request[r].name] = request[r].data]) <= Quota
  /\ request' = [request EXCEPT ![r].pc = "copy"]
  /\ UNCHANGED <<lock, pending, files, signalled, meddled, web>>

(* Fault: the copy goes to its destination at once.                        *)
CopyInPlace(r) ==
  /\ request[r].pc = "copy" /\ request[r].held
  /\ request' = [request EXCEPT ![r] = [@ EXCEPT !.pc = "activate", !.tmp = TRUE]]
  /\ files' = [files EXCEPT ![request[r].name] = Partial]
  /\ UNCHANGED <<lock, pending, signalled, meddled, web>>

Copy(r) ==
  /\ request[r].pc = "copy" /\ request[r].held
  /\ request' = [request EXCEPT ![r] = [@ EXCEPT !.pc = "activate", !.tmp = TRUE]]
  /\ UNCHANGED <<lock, pending, files, signalled, meddled, web>>

(* The trap runs when the script ends, and whenever it is signalled.       *)
Trap(r, after) ==
  /\ request' = [request EXCEPT ![r] = after]
  /\ lock' = FALSE /\ pending' = Nothing

Activate(r) ==
  /\ request[r].pc = "activate" /\ request[r].tmp
  /\ files' = [files EXCEPT ![request[r].name] = request[r].data]
  /\ Trap(r, Idle)
  /\ UNCHANGED <<signalled, meddled, web>>

(* A check is not passed, a file is gone or a command has failed.          *)
Fail(r) ==
  /\ Served(r) /\ Trap(r, Idle)
  /\ UNCHANGED <<files, signalled, meddled, web>>

(* The script goes on after the trap, without lock and files.              *)
Signal(r) ==
  /\ Served(r) /\ Trap(r, Lose(r))
  /\ signalled' = TRUE
  /\ UNCHANGED <<files, meddled, web>>

(* Killed by the web server: no trap, and the lock stays until a reboot.   *)
Kill(r) ==
  /\ Served(r) /\ request' = [request EXCEPT ![r] = Idle]
  /\ UNCHANGED <<lock, pending, files, signalled, meddled, web>>

(* LuCI's own upload to the staging path.                                  *)
Meddle ==
  /\ pending' \in Images /\ meddled' = TRUE
  /\ UNCHANGED <<request, lock, files, signalled, web>>

---------------------------------------------------------------------------
(* The service: clear the blocks, wipe the runtime, and when enabled make  *)
(* it anew and write the blocks.                                           *)

Resting == [pc |-> "idle", job |-> "none", todo |-> {}, image |-> Nothing]

(* Fault: a start leaves old blocks until it replaces them.                *)
CommandKeeping ==
  /\ service.pc = "idle"
  /\ \E job \in {"apply", "stop"} :
       service' = [pc |-> "clear", job |-> job, image |-> Nothing,
                   todo |-> IF job = "stop" THEN Templates ELSE {}]
  /\ UNCHANGED <<store, site, blocks, kept>>

(* The asset directory may prove unfit, which ends a start at once.        *)
Command ==
  /\ service.pc = "idle"
  /\ \E job \in {"apply", "stop"} :
       service' = [pc |-> "clear", job |-> job, todo |-> Templates,
                   image |-> Nothing]
  /\ UNCHANGED <<store, site, blocks, kept>>

(* A block that cannot be removed is only logged.                          *)
Clear ==
  /\ service.pc = "clear"
  /\ \E t \in service.todo :
       /\ \/ blocks' = blocks \ {t} /\ kept' = kept \ {t}
          \/ t \in blocks /\ kept' = kept \union {t} /\ UNCHANGED blocks
       /\ service' = [service EXCEPT !.todo = @ \ {t}]
  /\ UNCHANGED <<store, site>>

(* The directory is removed file by file, and that some or all of it stays *)
(* is not noticed.                                                         *)
Removed == site' \in {site, Nothing} \/ (site # Nothing /\ site' = Partial)

(* Disabled, a start ends here.                                            *)
Wipe ==
  /\ service.pc = "clear" /\ service.todo = {}
  /\ Removed
  /\ \/ service' = Resting
     \/ service.job = "apply" /\ service' = [service EXCEPT !.pc = "choose"]
  /\ UNCHANGED <<store, blocks, kept>>

(* The service repeats the checks on what it finds.                        *)
ValidAsset(n) == files[n] \in Proper

(* Fault: the configured file is taken as it is.                           *)
ChooseUnchecked ==
  /\ service.pc = "choose"
  /\ \E n \in Names \union {Default} :
       /\ n \in Names => files[n] # Nothing
       /\ service' = [service EXCEPT !.pc = "create", !.image = n]
  /\ UNCHANGED <<store, site, blocks, kept>>

(* The configured file if it passes the checks, or else the built-in one;  *)
(* image holds the name of the file until it is copied.                    *)
Choose ==
  /\ service.pc = "choose"
  /\ \E n \in Names \union {Default} :
       /\ n \in Names => ValidAsset(n)
       /\ service' = [service EXCEPT !.pc = "create", !.image = n]
  /\ UNCHANGED <<store, site, blocks, kept>>

Content(n) == IF n \in Names THEN files[n] ELSE Default

(* The runtime directory is made and filled in several commands.           *)
Create ==
  /\ service.pc = "create"
  /\ site' = Partial
  /\ service' = [service EXCEPT !.pc = "fill", !.image = Content(service.image)]
  /\ UNCHANGED <<store, blocks, kept>>

(* A copy that fails ends the start and the directory is removed.  The     *)
(* style sheet is written last, and nobody asks whether it could be.       *)
Fill ==
  /\ service.pc = "fill"
  /\ \/ /\ \E ok \in BOOLEAN :
             site' = [image |-> service.image, styled |-> ok]
        /\ service' = [service EXCEPT !.pc = "inject", !.todo = Templates]
     \/ Removed /\ service' = Resting
  /\ UNCHANGED <<store, blocks, kept>>

(* The old block is removed first; a template that is missing, has no head *)
(* or belongs to another theme version is left alone.                      *)
Inject ==
  /\ service.pc = "inject"
  /\ \/ \E t \in service.todo :
          /\ \/ blocks' = blocks \union {t} /\ kept' = kept \ {t}
             \/ blocks' = blocks \ {t} /\ kept' = kept \ {t}
             \/ UNCHANGED <<blocks, kept>>
          /\ service' = [service EXCEPT !.todo = @ \ {t}]
     \/ service.todo = {} /\ service' = Resting /\ UNCHANGED <<blocks, kept>>
  /\ UNCHANGED <<store, site>>

ServiceKilled ==
  /\ service.pc # "idle" /\ service' = Resting
  /\ UNCHANGED <<store, site, blocks, kept>>

(* Staging is in memory; assets, runtime and templates are on flash.       *)
PowerLoss ==
  /\ request' = [r \in Requests |-> Idle]
  /\ lock' = FALSE /\ pending' = Nothing /\ service' = Resting
  /\ UNCHANGED <<files, signalled, meddled, site, blocks, kept>>

Init ==
  /\ request = [r \in Requests |-> Idle] /\ lock = FALSE /\ pending = Nothing
  /\ files \in [Names -> Images \union {Nothing}]
  /\ service = Resting /\ site = Nothing
  /\ blocks = {} /\ kept = {}
  /\ signalled = FALSE /\ meddled = FALSE

Upload ==
  \E r \in Requests :
    \/ Begin(r) \/ Helper(r) \/ Isolate(r) \/ Check(r) \/ Copy(r)
    \/ Activate(r) \/ Fail(r) \/ Signal(r) \/ Kill(r)

Serve ==
  Command \/ Clear \/ Wipe \/ Choose \/ Create \/ Fill \/ Inject \/ ServiceKilled

Next == Upload \/ Meddle \/ Serve \/ PowerLoss

Spec == Init /\ [][Next]_vars

---------------------------------------------------------------------------
(* Every variable has its type: uploads and the service never leave a file *)
(* of the asset directory half written.                                    *)
TypeOK ==
  /\ request \in [Requests ->
       [pc : Steps \union {"idle"}, name : Names \union {Nothing},
        posted : Images \union {Nothing}, data : Images \union {Nothing},
        held : BOOLEAN, tmp : BOOLEAN]]
  /\ lock \in BOOLEAN /\ pending \in Images \union {Nothing}
  /\ files \in [Names -> Images \union {Nothing}]
  /\ service \in
       [pc : {"idle", "clear", "choose", "create", "fill", "inject"},
        job : {"none", "apply", "stop"}, todo : SUBSET Templates,
        image : Names \union Images \union {Default, Nothing}]
  /\ site \in Runtimes \union {Partial, Nothing}
  /\ blocks \subseteq Templates /\ kept \subseteq Templates
  /\ signalled \in BOOLEAN /\ meddled \in BOOLEAN

(* Whatever two requests, LuCI's own upload, signals and kills do, a file  *)
(* of the asset directory is only ever replaced as a whole by an image     *)
(* that has passed the checks (upload 236-261).                            *)
StoredChecked ==
  [][\A n \in Names : files'[n] # files[n] => files'[n] \in Proper]_vars

(* The check of the quota and the move are steps apart: the lock keeps     *)
(* what a store leaves within the quota (upload 189-192, 251-259), so long *)
(* as no request has been signalled.                                       *)
QuotaKept == [][files' # files => signalled \/ Total(files') <= Quota]_vars

(* What a request stores is what it carries and not what another one left  *)
(* at the staging path they share (upload 189-234).                        *)
OwnContent ==
  [][~signalled /\ ~meddled =>
       \A n \in Names : files'[n] # files[n] =>
         \E r \in Requests : request[r].name = n /\ files'[n] = request[r].posted]_vars

(* The web root serves a checked image or the built-in one, though the     *)
(* file may be replaced between the check and the copy, and the directory  *)
(* holds files of older releases (init.d/taoistfuchen 125-158, 236-291).   *)
ServedChecked == site \in Runtimes => site.image \in Proper \union {Default}

(* At every moment a template that names the runtime finds the image and   *)
(* the script there whole, but for a block that could not be removed: a    *)
(* page is never left with links to a directory being wiped or filled      *)
(* (293-342), not even when the service is killed there.  Of the style     *)
(* sheet nothing is claimed: 268 does not ask whether it could be written, *)
(* and on a full flash the blocks stand over one that is missing or cut.   *)
BlocksServed == site \in {Partial, Nothing} => blocks \subseteq kept
=============================================================================
