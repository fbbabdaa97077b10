----------------------------- MODULE HostedRestore -----------------------------
(***************************************************************************)
(* Backup and restore of the hosted service: the maintenance gate every    *)
(* writer passes, a backup taken while the service runs, the restore of an *)
(* older state in a world that has moved on, and the recovery in place     *)
(* after processes died.  Sources: db/hosted/maintenance.ts, apps/web/     *)
(* hosted-backup.ts, hosted-recovery.ts, prepareRestore of db/hosted/      *)
(* platform-repositories.ts, the deletion pass of hosted-privacy.ts, and   *)
(* apps/worker/operations.ts.                                              *)
(*                                                                         *)
(* What the service does is modelled as far as a restore can undo it: one  *)
(* tenant, one operation with one paid request, one notification, one      *)
(* login.  A worker may stall, lose its operation to another and go on.    *)
(* The requests of one attempt, stalled senders and the operator's         *)
(* bookings in a running service are in HostedWorkers, HostedDelivery and  *)
(* HostedMeter.                                                            *)
(*                                                                         *)
(* The operator is honest: --writers-stopped is given only when no process *)
(* of the service runs, a backup included, and none is started before the  *)
(* command ends.                                                           *)
(***************************************************************************)
EXTENDS Naturals

CONSTANTS
  Writers,         \* processes of the web server and the worker
  LookupWorks,     \* the notification provider answers lookups
  MaxDeaths,       \* bounds of the model
  MaxRestores

ASSUME RestoreAssumption ==
  /\ LookupWorks \in BOOLEAN
  /\ MaxDeaths \in Nat /\ MaxRestores \in Nat

VARIABLES
  gate,      \* hosted_maintenance: the mode and its owner
  entered,   \* writers registered in hosted_write_activities
  lost,      \* a registration of a process that died is among them
  doing,     \* what each registered writer has taken in hand
  control,   \* the control database, as far as it is modelled
  private,   \* the tenant's database and files
  ledger,    \* the tombstone of the tenant is in the deletion ledger
  backup,    \* the backup process and what it has copied
  saved,     \* the last complete recovery set
  restorer,  \* the operator's restore command
  review,    \* restore-review.json: "none", "clean" or "unresolved"
  world      \* history: what has happened outside the databases

restoreVars == <<gate, entered, lost, doing, control, private, ledger, backup,
                 saved, restorer, review, world>>

Nothing == "nothing"
Running(mode) == gate.mode = mode

\* What a worker that holds its operation is at: claimed; the local claim taken;
\* the request made; the commit allowed; the cost to confirm; to settle.
Executing == {"claimed", "begun", "called", "authorized", "confirming", "settling"}
\* What one that has lost it may still do: record a request it will not make;
\* commit or confirm.
Behind == {"unasked", "late"}

RestoreTypeOK ==
  /\ gate \in [mode: {"open", "draining", "frozen"}, owner: {"nobody", "backup", "restore"}]
  /\ entered \subseteq Writers /\ lost \in BOOLEAN
  /\ doing \in [Writers ->
                 Executing \cup Behind \cup {Nothing, "reconciling", "mail", "recording"}]
  /\ control \in
       [job: {"none", "queued", "retrying", "running", "needs-review", "done", "stopped"},
        cause: {"other", "restored"}, unknown: Nat,
        mail: {"none", "pending", "sending", "accepted", "unknown", "suppressed"}, notice: Nat,
        login: {"valid", "revoked"}, account: {"active", "disabled", "deleting", "deleted"}]
  /\ private \in [result: {"none", "committed", "acked"}, exists: BOOLEAN]
  /\ ledger \in BOOLEAN
  /\ backup.pc \in {"idle", "draining", "control", "tenant", "finish", "done"}
  /\ restorer \in {"idle", "recover", "prepare", "files", "outbox", "settle", "external"}
  /\ review \in {"none", "clean", "unresolved"}
  /\ world \in [requests: Nat, mailed: SUBSET (0 .. MaxRestores), again: BOOLEAN,
                revoked: BOOLEAN, erased: BOOLEAN,
                deaths: 0 .. MaxDeaths, restores: 0 .. MaxRestores]

\* "unknown" counts the recorded attempts of unknown usage.  A notification made
\* anew after a restore is another one: "notice" says which.
NewControl == [job |-> "none", cause |-> "other", unknown |-> 0, mail |-> "none", notice |-> 0,
               login |-> "valid", account |-> "active"]
NewPrivate == [result |-> "none", exists |-> TRUE]
NoSet == [control |-> NewControl, private |-> NewPrivate, complete |-> FALSE]

RestoreInit ==
  /\ gate = [mode |-> "open", owner |-> "nobody"]
  /\ entered = {} /\ lost = FALSE /\ doing = [w \in Writers |-> Nothing]
  /\ control = NewControl /\ private = NewPrivate
  /\ ledger = FALSE
  /\ backup = [pc |-> "idle", set |-> NoSet, instant |-> NoSet]
  /\ saved = NoSet
  /\ restorer = "idle" /\ review = "none"
  /\ world = [requests |-> 0, mailed |-> {}, again |-> FALSE, revoked |-> FALSE,
              erased |-> FALSE, deaths |-> 0, restores |-> 0]

operatorVars == <<backup, saved, restorer, review>>
gateVars == <<gate, entered, lost>>
databaseVars == <<control, private, ledger>>

-----------------------------------------------------------------------------
(* The gate.                                                               *)

EnterWrites(w) ==   \* enter: null unless the gate is open
  /\ w \notin entered /\ Running("open") /\ restorer = "idle" /\ entered' = entered \cup {w}
  /\ UNCHANGED <<gate, lost, doing, control, private, ledger, operatorVars, world>>

LeaveWrites(w) ==   \* release, in the finally block
  /\ w \in entered /\ doing[w] = Nothing /\ entered' = entered \ {w}
  /\ UNCHANGED <<gate, lost, doing, control, private, ledger, operatorVars, world>>

\* A process dies inside: its registration is left in the table.
WriterDies(w) ==
  /\ w \in entered /\ world.deaths < MaxDeaths
  /\ entered' = entered \ {w} /\ lost' = TRUE /\ doing' = [doing EXCEPT ![w] = Nothing]
  /\ world' = [world EXCEPT !.deaths = @ + 1]
  /\ UNCHANGED <<gate, control, private, ledger, operatorVars>>

FreezesAtOnce == Running("draining")   \* Mutant: activities are not counted.

CanFreeze == Running("draining") /\ entered = {} /\ ~lost

-----------------------------------------------------------------------------
(* The service.                                                            *)

Takes(w, what) == doing' = [doing EXCEPT ![w] = what]
Free(w) == w \in entered /\ doing[w] = Nothing
Alone(what) == \A w \in Writers : doing[w] # what
Serves == control.account = "active"
Kept == control.account \in {"active", "disabled"}   \* an owner who is kept out, or not

NeverNoticed(what) == what   \* Mutant: who lost the operation goes on as if not.

\* The operation goes to another worker; who had it finds that out at the next
\* authorization or write under the fence.
Overtaken(what) ==
  IF what \in {"authorized", "confirming"} THEN "late" ELSE IF what = "begun" THEN "unasked"
  ELSE IF what \in Executing \cup {"reconciling"} THEN Nothing ELSE what

Handed(w, what) == [v \in Writers |-> IF v = w THEN what ELSE Overtaken(doing[v])]

\* finishHostedJobTool settles a result and makes its notification, except
\* for an operation that the restore itself has taken out of execution.
Settled(c) ==
  IF c.mail = "none" /\ c.cause # "restored" /\ c.account = "active"
  THEN [c EXCEPT !.job = "done", !.mail = "pending", !.notice = world.restores]
  ELSE [c EXCEPT !.job = "done"]

\* An operation of which the restored state knows nothing can only be entered
\* again as another one, which the model does not follow.
Submit(w) ==
  /\ Free(w) /\ Serves /\ control.job = "none" /\ world.requests = 0
  /\ control' = [control EXCEPT !.job = "queued"]
  /\ UNCHANGED <<gateVars, doing, private, ledger, operatorVars, world>>

\* What ends an attempt writes its own reason over the earlier one.
Becomes(state) == [control EXCEPT !.job = state, !.cause = "other"]

\* The sweep before each claim, and the cancellations: what was never tried is
\* stopped, what was tried and may not go on is left for review.
SweepOperation(w) ==
  /\ Free(w)
  /\ \/ control.job = "queued" /\ control' = Becomes("stopped")
     \/ control.job = "retrying" /\ ~Serves /\ control' = Becomes("needs-review")
  /\ UNCHANGED <<gateVars, doing, private, ledger, operatorVars, world>>

\* A claim, of an operation whose lease has lapsed too; one past its deadline is
\* only to be reconciled from now on.
ClaimOperation(w) ==
  /\ Free(w) /\ Serves /\ control.job \in {"queued", "retrying", "running"}
  /\ \E cause \in {control.cause, "other"} :
       control' = [control EXCEPT !.job = "running", !.cause = cause]
  /\ doing' = Handed(w, "claimed")
  /\ UNCHANGED <<gateVars, private, ledger, operatorVars, world>>

\* The claim in the tenant's database, which ends an earlier worker's, then the
\* checks before the request: a deadline or cancellation, an unknown attempt.
BeginOperation(w) ==
  /\ doing[w] = "claimed" /\ Kept
  /\ IF private.result # "none" THEN Takes(w, "settling") /\ UNCHANGED control
     ELSE LET after(what) == [v \in Writers |-> IF v = w THEN what
                                ELSE IF doing[v] = "late" THEN Nothing ELSE doing[v]]
          IN \/ control' = Becomes("stopped") /\ doing' = after(Nothing)
             \/ /\ control.unknown > 0
                /\ control' = Becomes("needs-review") /\ doing' = after(Nothing)
             \/ control.unknown = 0 /\ doing' = after("begun") /\ UNCHANGED control
  /\ UNCHANGED <<gateVars, private, ledger, operatorVars, world>>

Recorded(n) == control' = [control EXCEPT !.unknown = n]

Request(w) ==   \* recorded as unknown, then made
  /\ doing[w] = "begun" /\ Recorded(control.unknown + 1) /\ Takes(w, "called")
  /\ world' = [world EXCEPT !.requests = @ + 1]
  /\ UNCHANGED <<gateVars, private, ledger, operatorVars>>

\* Recorded after the operation was lost; the call itself is then refused.
RecordUnasked(w) ==
  /\ doing[w] = "unasked" /\ Recorded(control.unknown + 1) /\ Takes(w, Nothing)
  /\ UNCHANGED <<gateVars, private, ledger, operatorVars, world>>

AllowCommit(w) ==
  /\ doing[w] = "called" /\ Kept /\ Takes(w, "authorized")
  /\ UNCHANGED <<gateVars, databaseVars, operatorVars, world>>

CommitResult(w) ==
  /\ doing[w] \in {"authorized", "late"} /\ private.result = "none"
  /\ private' = [private EXCEPT !.result = "committed"]
  /\ Takes(w, IF doing[w] = "late" THEN "late" ELSE "confirming")
  /\ UNCHANGED <<gateVars, control, ledger, operatorVars, world>>

\* With fixtures the cost is known to be nothing; otherwise it stays unknown.
ConfirmCost(w) ==
  /\ doing[w] \in {"confirming", "late"} /\ private.result # "none"
  /\ \E n \in {control.unknown, control.unknown - 1} : n \in Nat /\ Recorded(n)
  /\ Takes(w, IF doing[w] = "late" THEN Nothing ELSE "settling")
  /\ UNCHANGED <<gateVars, private, ledger, operatorVars, world>>

LeaveLate(w) ==
  /\ doing[w] \in Behind /\ Takes(w, Nothing)
  /\ UNCHANGED <<gateVars, databaseVars, operatorVars, world>>

SettleResult(w) ==   \* of the worker, or of the reconciliation of the outbox
  /\ doing[w] \in {"settling", "reconciling"} /\ Kept /\ private.result = "committed"
  /\ control' = Settled(control) /\ Takes(w, Nothing)
  /\ UNCHANGED <<gateVars, private, ledger, operatorVars, world>>

\* The catch block.  A receipt or a cost that cannot be read is taken for none.
\* A retry is refused while a cost is unknown and when the account is leaving;
\* attempts that are used up, a passed deadline and a permanent error stop the
\* operation: in review if the tenant's database was never claimed.
GiveUpOperation(w) ==
  /\ doing[w] \in Executing /\ Takes(w, Nothing)
  /\ \/ UNCHANGED control   \* the lease is lost, or the write itself fails
     \/ \E committed \in {private.result # "none", FALSE}, uncertain \in {control.unknown > 0, FALSE} :
          IF ~committed /\ uncertain THEN control' = Becomes("needs-review")
          ELSE \/ control.unknown = 0 /\ Kept /\ control' = Becomes("retrying")
               \/ /\ ~committed
                  /\ control' = Becomes(IF doing[w] = "claimed" THEN "needs-review" ELSE "stopped")
  /\ UNCHANGED <<gateVars, private, ledger, operatorVars, world>>

\* reconcileHostedTenantOutbox: a result no run has settled is settled here.
SettlesFromOutbox(c) == c.job \in {"retrying", "running", "needs-review"}

ClaimForReconciliation(w) ==
  /\ Free(w) /\ Kept /\ private.result = "committed" /\ SettlesFromOutbox(control)
  /\ control' = [control EXCEPT !.job = "running"] /\ doing' = Handed(w, "reconciling")
  /\ UNCHANGED <<gateVars, private, ledger, operatorVars, world>>

ReconciliationFails(w) ==
  /\ doing[w] = "reconciling" /\ Takes(w, Nothing)
  /\ UNCHANGED <<gateVars, databaseVars, operatorVars, world>>

AcknowledgeResult(w) ==
  /\ Free(w) /\ Kept /\ private.result = "committed" /\ control.job = "done"
  /\ private' = [private EXCEPT !.result = "acked"]
  /\ UNCHANGED <<gateVars, doing, control, ledger, operatorVars, world>>

SendNotice(w) ==
  /\ Free(w) /\ Kept /\ control.mail = "pending"
  /\ control' = [control EXCEPT !.mail = "sending"] /\ Takes(w, "mail")
  /\ UNCHANGED <<gateVars, private, ledger, operatorVars, world>>

HandNotice(w) ==
  /\ doing[w] = "mail" /\ Takes(w, "recording")
  /\ world' = [world EXCEPT !.mailed = @ \cup {control.notice},
                            !.again = @ \/ control.notice \in world.mailed]
  /\ UNCHANGED <<gateVars, control, private, ledger, operatorVars>>

RecordNotice(w) ==
  /\ doing[w] = "recording" /\ Takes(w, Nothing)
  /\ \E state \in {"accepted", "unknown"} : control' = [control EXCEPT !.mail = state]
  /\ UNCHANGED <<gateVars, private, ledger, operatorVars, world>>

SuppressNotice(w) ==   \* expired, or the owner is gone: found before it is handed over
  /\ doing[w] = "mail" /\ Takes(w, Nothing)
  /\ control' = [control EXCEPT !.mail = "suppressed"]
  /\ UNCHANGED <<gateVars, private, ledger, operatorVars, world>>

\* A lookup finds an attempt of unknown outcome; what it did not find is said
\* to have failed.
LookedUp(otherwise) ==
  [control EXCEPT !.mail = IF control.notice \in world.mailed THEN "accepted" ELSE otherwise]

ReconcileNotice(w) ==
  /\ Free(w) /\ Kept /\ Alone("mail") /\ Alone("recording")
  /\ \/ control.mail = "sending" /\ control' = [control EXCEPT !.mail = "unknown"]
     \/ control.mail = "unknown" /\ LookupWorks /\ control' = LookedUp("pending")
  /\ UNCHANGED <<gateVars, doing, private, ledger, operatorVars, world>>

KeptLogin(c) == c   \* Mutant: sessions are kept.

EndedLogin(c) == [c EXCEPT !.login = "revoked"]

LogOut(w) ==
  /\ Free(w) /\ control.login = "valid" /\ control' = EndedLogin(control)
  /\ world' = [world EXCEPT !.revoked = TRUE]
  /\ UNCHANGED <<gateVars, doing, private, ledger, operatorVars>>

\* set_hosted_user_status: the administrator keeps an owner out, or no longer.
LoginEnds ==
  world' = [world EXCEPT !.revoked = @ \/ control.login = "valid"]

DisableOwner(w) ==
  /\ Free(w) /\ Serves /\ LoginEnds
  /\ control' = EndedLogin([control EXCEPT !.account = "disabled"])
  /\ UNCHANGED <<gateVars, doing, private, ledger, operatorVars>>

EnableOwner(w) ==
  /\ Free(w) /\ control.account = "disabled"
  /\ control' = [control EXCEPT !.account = "active"]
  /\ UNCHANGED <<gateVars, doing, private, ledger, operatorVars, world>>

\* What was tried before is not cancelled, the sweep finds it.
BeginErasure(w) ==
  /\ Free(w) /\ Serves /\ LoginEnds
  /\ control' = EndedLogin([control EXCEPT !.account = "deleting",
       !.job = IF @ = "queued" THEN "stopped" ELSE @,
       !.mail = IF @ = "pending" THEN "suppressed" ELSE @])
  /\ UNCHANGED <<gateVars, doing, private, ledger, operatorVars>>

\* The deletion pass: the tombstone leaves the data root before the files go,
\* and the files before the control data.
KeepTombstone(w) ==
  /\ Free(w) /\ control.account = "deleting" /\ ~ledger
  /\ \A v \in Writers : doing[v] = Nothing
  /\ ledger' = TRUE
  /\ control' = [control EXCEPT
       !.job = IF @ = "running" THEN "stopped" ELSE @,
       !.mail = IF @ = "sending" THEN "unknown" ELSE @]
  /\ UNCHANGED <<gateVars, doing, private, operatorVars, world>>

Erased(c) == [c EXCEPT !.account = "deleted", !.job = "stopped", !.mail = "suppressed"]
NoFiles == [result |-> "none", exists |-> FALSE]

EraseFiles(w) ==
  /\ Free(w) /\ control.account = "deleting" /\ ledger
  /\ \A v \in Writers : doing[v] = Nothing
  /\ private' = NoFiles /\ world' = [world EXCEPT !.erased = TRUE]
  /\ UNCHANGED <<gateVars, doing, control, ledger, operatorVars>>

FinishErasure(w) ==
  /\ Free(w) /\ control.account = "deleting" /\ ledger /\ ~private.exists
  /\ control' = Erased(control)
  /\ UNCHANGED <<gateVars, doing, private, ledger, operatorVars, world>>

WriterStep(w) ==
  \/ Submit(w) \/ SweepOperation(w) \/ ClaimOperation(w) \/ BeginOperation(w) \/ Request(w)
  \/ RecordUnasked(w) \/ AllowCommit(w) \/ CommitResult(w) \/ ConfirmCost(w) \/ LeaveLate(w)
  \/ SettleResult(w) \/ GiveUpOperation(w)
  \/ ClaimForReconciliation(w) \/ ReconciliationFails(w) \/ AcknowledgeResult(w)
  \/ SendNotice(w) \/ HandNotice(w) \/ RecordNotice(w) \/ SuppressNotice(w) \/ ReconcileNotice(w)
  \/ LogOut(w)
  \/ BeginErasure(w) \/ KeepTombstone(w) \/ EraseFiles(w) \/ FinishErasure(w)

-----------------------------------------------------------------------------
(* createHostedBackup; one backup is taken.                                *)

BackupAt(pc) == backup.pc = pc
BackupGoes(pc) == backup' = [backup EXCEPT !.pc = pc]

BeginBackup ==
  /\ BackupAt("idle") /\ Running("open") /\ restorer = "idle" /\ BackupGoes("draining")
  /\ gate' = [mode |-> "draining", owner |-> "backup"]
  /\ UNCHANGED <<entered, lost, doing, databaseVars, saved, restorer, review, world>>

BackupTimesOut ==
  /\ BackupAt("draining") /\ (entered # {} \/ lost) /\ BackupGoes("finish")
  /\ UNCHANGED <<gateVars, doing, databaseVars, saved, restorer, review, world>>

FreezeForBackup ==
  /\ BackupAt("draining") /\ CanFreeze /\ gate.owner = "backup"
  /\ gate' = [gate EXCEPT !.mode = "frozen"]
  /\ backup' = [backup EXCEPT !.pc = "control",
                  !.instant = [control |-> control, private |-> private, complete |-> TRUE]]
  /\ UNCHANGED <<entered, lost, doing, databaseVars, saved, restorer, review, world>>

CopyControl ==
  /\ BackupAt("control")
  /\ backup' = [backup EXCEPT !.pc = "tenant", !.set.control = control]
  /\ UNCHANGED <<gateVars, doing, databaseVars, saved, restorer, review, world>>

CopyTenant ==   \* and the manifest, which makes the set complete
  /\ BackupAt("tenant")
  /\ backup' = [backup EXCEPT !.pc = "finish", !.set.private = private]
  /\ saved' = [backup.set EXCEPT !.private = private, !.complete = TRUE]
  /\ UNCHANGED <<gateVars, doing, databaseVars, restorer, review, world>>

FinishBackup ==   \* the finally block
  /\ BackupAt("finish") /\ BackupGoes("done")
  /\ gate' = IF gate.owner = "backup" THEN [mode |-> "open", owner |-> "nobody"] ELSE gate
  /\ UNCHANGED <<entered, lost, doing, databaseVars, saved, restorer, review, world>>

BackupDies ==
  /\ backup.pc \notin {"idle", "done"} /\ world.deaths < MaxDeaths /\ BackupGoes("done")
  /\ world' = [world EXCEPT !.deaths = @ + 1]
  /\ UNCHANGED <<gateVars, doing, databaseVars, saved, restorer, review>>

BackupStep ==
  \/ BeginBackup \/ BackupTimesOut \/ FreezeForBackup \/ CopyControl \/ CopyTenant \/ FinishBackup

-----------------------------------------------------------------------------
(* The operator's commands.                                                *)

AllStopped == entered = {} /\ backup.pc \in {"idle", "done"} /\ restorer = "idle"

RestoredGate == [mode |-> "frozen", owner |-> "backup"]

\* restore: the set is copied to a new data root, gate included; the service
\* that is given up never runs again.
RestoreSet ==
  /\ AllStopped /\ saved.complete /\ world.restores < MaxRestores
  /\ control' = saved.control /\ private' = saved.private
  /\ gate' = RestoredGate /\ lost' = FALSE
  /\ restorer' = "recover" /\ review' = "none"
  /\ world' = [world EXCEPT !.restores = @ + 1]
  /\ UNCHANGED <<entered, doing, ledger, backup, saved>>

\* recover-stopped-writers: the same in place, for what dead processes left.
RecoverInPlace ==
  /\ AllStopped /\ restorer' = "recover"
  /\ UNCHANGED <<gateVars, doing, databaseVars, backup, saved, review, world>>

\* A new owner of the gate, whose report is not written yet.
RecoverStoppedWriters ==
  /\ restorer = "recover" /\ restorer' = "prepare" /\ review' = "none"
  /\ gate' = [mode |-> "frozen", owner |-> "restore"] /\ lost' = FALSE
  /\ UNCHANGED <<entered, doing, databaseVars, backup, saved, world>>

\* reconcile: once more over a prepared restore, whose owner is kept.
ReconcileAgain ==
  /\ AllStopped /\ gate = [mode |-> "frozen", owner |-> "restore"] /\ restorer' = "prepare"
  /\ lost' = FALSE
  /\ UNCHANGED <<gate, entered, doing, databaseVars, backup, saved, review, world>>

\* What prepareRestore makes of the control database, tombstones last.
Tried == {"running", "retrying"}
NotTaken(c) == [c EXCEPT !.job = IF @ = "queued" THEN "stopped" ELSE @]

StoppedOperation(c) ==
  [NotTaken(c) EXCEPT !.job = IF @ \in Tried THEN "needs-review" ELSE @,
                      !.cause = IF c.job \in Tried THEN "restored" ELSE @]

StoppedNotice(c) ==
  [c EXCEPT !.mail = IF @ = "sending" THEN "unknown" ELSE IF @ = "pending" THEN "suppressed" ELSE @]

Prepared(c) == EndedLogin(StoppedNotice(StoppedOperation(c)))

PrepareRestore ==
  /\ restorer = "prepare" /\ restorer' = "files"
  /\ control' = IF ledger THEN Erased(Prepared(control)) ELSE Prepared(control)
  /\ UNCHANGED <<gateVars, doing, private, ledger, backup, saved, review, world>>

RemoveErasedFiles ==
  /\ restorer = "files" /\ restorer' = "outbox"
  /\ private' = IF control.account = "deleted" THEN NoFiles ELSE private
  /\ UNCHANGED <<gateVars, doing, control, ledger, backup, saved, review, world>>

\* The results of the tenant's outbox are settled as the service would settle
\* them, then the report is written.
RestorerGoes(from, to) == restorer = from /\ restorer' = to

TakeRestored ==
  /\ RestorerGoes("outbox", "settle")
  /\ Kept /\ private.result = "committed" /\ SettlesFromOutbox(control)
  /\ control' = [control EXCEPT !.job = "running"]
  /\ UNCHANGED <<gateVars, doing, private, ledger, backup, saved, review, world>>

SettleRestored ==
  /\ RestorerGoes("settle", "outbox") /\ control' = Settled(control)
  /\ UNCHANGED <<gateVars, doing, private, ledger, backup, saved, review, world>>

AcknowledgeRestored ==
  /\ RestorerGoes("outbox", "outbox")
  /\ Kept /\ private.result = "committed" /\ control.job = "done"
  /\ private' = [private EXCEPT !.result = "acked"]
  /\ UNCHANGED <<gateVars, doing, control, ledger, backup, saved, review, world>>

\* A result stays where its operation was given up, or is not there to settle it.
ResultLeft ==
  /\ Kept /\ private.result = "committed"
  /\ ~SettlesFromOutbox(control) /\ control.job # "done"

WriteReport ==
  /\ RestorerGoes("outbox", "idle") /\ (Kept /\ private.result = "committed" => ResultLeft)
  /\ review' = IF ResultLeft THEN "unresolved" ELSE "clean"
  /\ UNCHANGED <<gateVars, doing, databaseVars, backup, saved, world>>

RestorerDies ==
  /\ restorer # "idle" /\ world.deaths < MaxDeaths /\ restorer' = "idle"
  /\ world' = [world EXCEPT !.deaths = @ + 1]
  /\ UNCHANGED <<gateVars, doing, databaseVars, backup, saved, review>>

\* reconcile-external, of notifications only: one of which the provider knows
\* nothing is pending until it is suppressed; payments are left out.
Prepares == AllStopped /\ gate = [mode |-> "frozen", owner |-> "restore"] /\ ~lost

AskProvider ==
  /\ Prepares /\ control.mail = "unknown" /\ LookupWorks
  /\ control' = LookedUp("pending") /\ restorer' = "external"
  /\ UNCHANGED <<gateVars, doing, private, ledger, backup, saved, review, world>>

SuppressUnaccepted ==
  /\ RestorerGoes("external", "idle")
  /\ control' = [control EXCEPT !.mail = IF @ = "pending" THEN "suppressed" ELSE @]
  /\ UNCHANGED <<gateVars, doing, private, ledger, backup, saved, review, world>>

\* The operator books what the provider charged for each attempt.
BookCost ==
  /\ Prepares /\ control.unknown > 0 /\ Recorded(0)
  /\ UNCHANGED <<gateVars, doing, private, ledger, operatorVars, world>>

PendingReviews ==   \* Mutant: a job in review counts as pending.
  \/ control.job \in {"queued", "retrying", "running", "needs-review"}
  \/ control.unknown > 0 \/ control.mail \in {"sending", "unknown"}

Unresolved ==   \* the summary's counts
  \/ control.job \in {"queued", "retrying", "running"} \/ control.unknown > 0
  \/ control.mail \in {"sending", "unknown"} \/ control.account = "deleting"

Resume ==
  /\ AllStopped /\ gate = [mode |-> "frozen", owner |-> "restore"]
  /\ review = "clean" /\ ~Unresolved
  /\ gate' = [mode |-> "open", owner |-> "nobody"]
  /\ UNCHANGED <<entered, lost, doing, databaseVars, operatorVars, world>>

RestorerStep ==
  \/ RecoverStoppedWriters \/ PrepareRestore \/ RemoveErasedFiles
  \/ TakeRestored \/ SettleRestored \/ AcknowledgeRestored \/ WriteReport
  \/ SuppressUnaccepted

OperatorStep ==
  \/ RestoreSet \/ RecoverInPlace \/ ReconcileAgain \/ RestorerStep \/ RestorerDies
  \/ AskProvider \/ BookCost \/ Resume

RestoreNext ==
  \/ \E w \in Writers :
       \/ EnterWrites(w) \/ LeaveWrites(w) \/ WriterDies(w) \/ WriterStep(w)
       \/ DisableOwner(w) \/ EnableOwner(w)
  \/ BackupStep \/ BackupDies \/ OperatorStep

RestoreSpec == RestoreInit /\ [][RestoreNext]_restoreVars

\* Processes and commands go on once begun, an activity is finite (one tick, one
\* request), and an operator sees to a gate that stays shut: stopped writers
\* are recovered, the restore reconciled, costs booked, the provider asked, service
\* resumed.
RestoreFairness ==
  /\ \A w \in Writers : WF_restoreVars(WriterStep(w)) /\ SF_restoreVars(LeaveWrites(w))
  /\ WF_restoreVars(~BackupAt("idle") /\ BackupStep) /\ WF_restoreVars(RestorerStep)
  /\ WF_restoreVars(~Running("open") /\ gate.owner = "backup" /\ RecoverInPlace)
  /\ WF_restoreVars(review = "none" /\ ReconcileAgain)
  /\ SF_restoreVars(AskProvider \/ BookCost \/ Resume)

FairRestore == RestoreSpec /\ RestoreFairness

-----------------------------------------------------------------------------
(* What a restore may not do.                                              *)

\* A recovery set is one instant of the two databases, taken while nobody was
\* in the middle of a write (createHostedBackup, the gate).
SetIsOneInstant == saved.complete => saved = backup.instant

\* A restore makes no notification anew, says docs/runbooks/
\* hosted-personal-subscription.md:192; the code does, of an operation that was
\* in review when the backup was taken (prepareRestore, finishHostedJobTool).
NoNoticeAnew == \A m, n \in world.mailed : m = n

HeldReview ==
  /\ saved.complete /\ saved.private.result = "committed"
  /\ saved.control.job = "needs-review" /\ saved.control.cause # "restored"

\* A restore repeats nothing else that has left the databases, however old the
\* state is and whoever stalled, was overtaken or died: the paid request of an
\* operation is made once, no notification is handed over twice, and none is made
\* anew unless the set holds a result whose operation waits for review.
NothingRepeated ==
  /\ world.requests <= 1 /\ ~world.again
  /\ NoNoticeAnew \/ HeldReview

\* Who has been erased stays erased, and a session that was ended stays
\* ended, when an older state is put into service.
NothingRevived ==
  Running("open") =>
    /\ world.erased => control.account # "active"
    /\ world.revoked => control.login # "valid"

\* What no command resolves: a deletion begun before the backup, a result whose
\* operation has been given up, a notification nobody can be asked about.
Unresolvable ==
  \/ control.account = "deleting" \/ ResultLeft
  \/ control.mail \in {"sending", "unknown"} /\ ~LookupWorks

\* Whichever of the processes, the backup or the restore dies, and whenever, the
\* gate does not stay shut, unless the state keeps something no command resolves
\* (recoverStoppedWriters, resumeHostedRestoredService).
ServiceReopens == <>[](~Running("open")) => <>[]Unresolvable
================================================================================
