------------------------- MODULE HostedRestore_proofs -------------------------
(* Theorems about HostedRestore, for any set of writers and any number of     *)
(* deaths and restores, with their proofs.                                    *)
EXTENDS HostedRestore, TLAPS

-----------------------------------------------------------------------------
(* The inductive invariant.                                                  *)

JobStates == {"none", "queued", "retrying", "running", "needs-review", "done", "stopped"}
MailStates == {"none", "pending", "sending", "accepted", "unknown", "suppressed"}
InHand == Executing \cup Behind \cup {Nothing, "reconciling", "mail", "recording"}
Live == {"queued", "retrying", "running"}

ControlRecord ==
  [job: JobStates, cause: {"other", "restored"}, unknown: Nat, mail: MailStates, notice: Nat,
   login: {"valid", "revoked"}, account: {"active", "disabled", "deleting", "deleted"}]
PrivateRecord == [result: {"none", "committed", "acked"}, exists: BOOLEAN]
SetRecord == [control: ControlRecord, private: PrivateRecord, complete: BOOLEAN]
BackupPCs == {"idle", "draining", "control", "tenant", "finish", "done"}
WorldRecord ==
  [requests: Nat, mailed: SUBSET Nat, again: BOOLEAN, revoked: BOOLEAN, erased: BOOLEAN,
   deaths: 0 .. MaxDeaths, restores: 0 .. MaxRestores]

Typed ==
  /\ gate \in [mode: {"open", "draining", "frozen"}, owner: {"nobody", "backup", "restore"}]
  /\ entered \subseteq Writers /\ lost \in BOOLEAN
  /\ doing \in [Writers -> InHand]
  /\ control \in ControlRecord /\ private \in PrivateRecord
  /\ ledger \in BOOLEAN
  /\ backup \in [pc: BackupPCs, set: SetRecord, instant: SetRecord]
  /\ saved \in SetRecord
  /\ restorer \in {"idle", "recover", "prepare", "files", "outbox", "settle", "external"}
  /\ review \in {"none", "clean", "unresolved"}
  /\ world \in WorldRecord

\* Who may be where: writers act only when they are registered, none is while
\* the gate is frozen or a command runs, and the backup holds the gate.
BackupRuns == backup.pc \notin {"idle", "done"}
RestoreGate == gate = [mode |-> "frozen", owner |-> "restore"]

Exclusive ==
  /\ \A w \in Writers : doing[w] # Nothing => w \in entered
  /\ Running("frozen") \/ restorer # "idle" => entered = {}
  /\ restorer # "idle" => ~BackupRuns
  /\ BackupRuns => gate.owner = "backup" /\ ~Running("open")
  /\ backup.pc \in {"control", "tenant"} => Running("frozen")
  /\ restorer \notin {"idle", "recover"} => RestoreGate

\* The copies of a backup, while they are made and after.
OneInstant ==
  /\ backup.pc \in {"idle", "draining", "control", "tenant"} => ~saved.complete
  /\ backup.pc \in {"control", "tenant"} =>
       /\ backup.instant = [control |-> control, private |-> private, complete |-> TRUE]
       /\ backup.pc = "tenant" => backup.set.control = control
  /\ SetIsOneInstant

\* What a state of the databases owes to what has been done, however old it is.
OwedToWorld(c, p) ==
  /\ p.result # "none" => world.requests > 0
  /\ c.mail \notin {"none", "suppressed"} => world.requests > 0
  /\ c.notice <= world.restores

Owed ==
  /\ OwedToWorld(control, private) /\ OwedToWorld(saved.control, saved.private)
  /\ \A s \in {backup.set, backup.instant} : OwedToWorld(s.control, s.private)
  /\ world.mailed # {} => world.requests > 0
  /\ \A n \in world.mailed : n <= world.restores
  /\ world.erased => ledger

\* The state in service: nothing in it leads to a second request or notification.
InService == Running("frozen") => BackupRuns
Quiet == \A w \in Writers : doing[w] = Nothing

Safe ==
  /\ world.requests > 0 /\ control.unknown = 0 /\ private.result = "none" /\ Kept
       => control.job \notin Live
  /\ control.mail = "pending" => control.notice \notin world.mailed
  /\ control.mail = "none" /\ world.mailed # {} =>
       /\ Quiet /\ control.job \notin Live
       /\ Kept /\ private.result = "committed" => control.job # "needs-review"
  /\ ledger => ~Kept /\ Quiet
  /\ world.revoked => control.login # "valid"

\* What writers are in the middle of.
Holds(what) == what \in Executing \cup {"reconciling"}
Sends(what) == what \in {"mail", "recording"}

InTheMiddle ==
  \A w \in Writers :
    /\ Holds(doing[w]) => control.job = "running"
    /\ doing[w] = "begun" => world.requests = 0
    /\ doing[w] \in {"called", "authorized", "confirming", "late"} => world.requests > 0
    /\ Sends(doing[w]) => control.mail = "sending"
    /\ doing[w] = "mail" => control.notice \notin world.mailed
    /\ \A v \in Writers \ {w} :
         ~(Holds(doing[w]) /\ Holds(doing[v])) /\ ~(Sends(doing[w]) /\ Sends(doing[v]))

\* Notifications: one is told from another by when it was made, and as long as no
\* set holds a reviewed result, a state knows the one that was handed over.
NoticesTold ==
  /\ control.mail = "none" => world.restores \notin world.mailed
  /\ saved.complete /\ saved.control.mail # "none" =>
       control.mail # "none" /\ control.notice = saved.control.notice

Mailed(c) == c.mail \notin {"none", "suppressed"} => world.mailed \subseteq {c.notice}

NoticesKnown ==
  ~HeldReview =>
    /\ NoNoticeAnew
    /\ Mailed(control) /\ (saved.complete => Mailed(saved.control))
    /\ (/\ control.mail = "none" /\ world.mailed # {}
        /\ Kept /\ private.result = "committed"
        /\ control.job = "needs-review" \/ restorer = "settle")
       => control.cause = "restored"

\* A restored state after prepareRestore, of which the summary says the rest.
AfterPrepare == RestoreGate /\ (review = "clean" \/ restorer \in {"files", "outbox", "settle"})

PreparedOK ==
  /\ control.job \in Live => restorer = "settle"
  /\ control.mail # "sending" /\ control.login # "valid"
  /\ control.mail = "pending" => control.notice \notin world.mailed
  /\ ledger => control.account = "deleted"

\* A result that is taken to be settled is there; a clean report leaves none.
ReportTrue ==
  /\ restorer = "settle" => Kept /\ private.result = "committed" /\ control.job = "running"
  /\ RestoreGate /\ review = "clean" => ~(Kept /\ private.result = "committed")

RestoreInv ==
  /\ Typed /\ Exclusive /\ OneInstant /\ Owed /\ InTheMiddle
  /\ NoticesTold /\ NoticesKnown /\ ReportTrue
  /\ world.requests <= 1 /\ ~world.again
  /\ InService => Safe
  /\ AfterPrepare => PreparedOK
-----------------------------------------------------------------------------
(* What prepareRestore makes of a control database.                          *)

LEMMA StoppedOperationFields ==
  ASSUME NEW c \in ControlRecord
  PROVE  /\ StoppedOperation(c) \in ControlRecord
         /\ StoppedOperation(c).job \notin Live
         /\ StoppedOperation(c).job = "needs-review" =>
              c.job = "needs-review" \/ StoppedOperation(c).cause = "restored"
         /\ c.cause = "restored" => StoppedOperation(c).cause = "restored"
         /\ StoppedOperation(c).unknown = c.unknown /\ StoppedOperation(c).mail = c.mail
         /\ StoppedOperation(c).notice = c.notice /\ StoppedOperation(c).account = c.account
<1>. DEFINE d == NotTaken(c)
<1>1. /\ d \in ControlRecord /\ d.job # "queued"
      /\ d.job = "needs-review" => c.job = "needs-review"
      /\ d.cause = c.cause /\ d.unknown = c.unknown
      /\ d.notice = c.notice /\ d.account = c.account /\ d.mail = c.mail
  BY DEF NotTaken, ControlRecord, JobStates
<1>2. StoppedOperation(c) =
        [d EXCEPT !.job = IF d.job \in Tried THEN "needs-review" ELSE d.job,
                  !.cause = IF c.job \in Tried THEN "restored" ELSE d.cause]
  BY DEF StoppedOperation
<1>3. d.job \in Tried <=> c.job \in Tried
  BY DEF NotTaken, ControlRecord, JobStates, Tried
<1>. HIDE DEF d
<1>4. CASE d.job \in Tried
  BY <1>1, <1>2, <1>3, <1>4 DEF ControlRecord, JobStates, Live, Tried
<1>5. CASE d.job \notin Tried
  <2>1. StoppedOperation(c) = [d EXCEPT !.job = d.job, !.cause = d.cause]
    BY <1>2, <1>3, <1>5
  <2>. QED BY <1>1, <1>5, <2>1 DEF ControlRecord, JobStates, Live, Tried
<1>. QED BY <1>4, <1>5

LEMMA ErasedFields ==
  ASSUME NEW c \in ControlRecord
  PROVE  /\ Erased(c) \in ControlRecord
         /\ Erased(c).job = "stopped" /\ Erased(c).mail = "suppressed"
         /\ Erased(c).account = "deleted"
         /\ Erased(c).unknown = c.unknown /\ Erased(c).notice = c.notice
         /\ Erased(c).login = c.login
BY DEF Erased, ControlRecord, JobStates, MailStates

LEMMA PreparedFields ==
  ASSUME NEW c \in ControlRecord
  PROVE  /\ Prepared(c) \in ControlRecord
         /\ Prepared(c).job \notin Live /\ Prepared(c).mail \notin {"pending", "sending"}
         /\ Prepared(c).login # "valid" /\ Prepared(c).unknown = c.unknown
         /\ Prepared(c).notice = c.notice /\ Prepared(c).account = c.account
         /\ c.mail = "pending" => Prepared(c).mail = "suppressed"
         /\ c.mail = "sending" => Prepared(c).mail = "unknown"
         /\ Prepared(c).job = "needs-review" =>
              Prepared(c).cause = "restored" \/ (c.job = "needs-review" /\ c.cause # "restored")
         /\ c.mail \notin {"pending", "sending"} => Prepared(c).mail = c.mail
<1>. DEFINE d == StoppedOperation(c)
            e == StoppedNotice(d)
<1>1. /\ d \in ControlRecord /\ d.job \notin Live /\ d.unknown = c.unknown
      /\ d.notice = c.notice /\ d.account = c.account /\ d.mail = c.mail
      /\ d.job = "needs-review" =>
           d.cause = "restored" \/ (c.job = "needs-review" /\ c.cause # "restored")
  BY StoppedOperationFields
<1>2. /\ e \in ControlRecord /\ e.mail \notin {"pending", "sending"}
      /\ e.job = d.job /\ e.cause = d.cause /\ e.unknown = d.unknown
      /\ e.notice = d.notice /\ e.account = d.account
      /\ d.mail = "pending" => e.mail = "suppressed"
      /\ d.mail = "sending" => e.mail = "unknown"
      /\ d.mail \notin {"pending", "sending"} => e.mail = d.mail
  <2>. HIDE DEF d
  <2>. QED BY <1>1 DEF StoppedNotice, ControlRecord, MailStates
<1>3. Prepared(c) = EndedLogin(e)
  BY DEF Prepared
<1>. HIDE DEF d, e
<1>4. /\ EndedLogin(e) \in ControlRecord /\ EndedLogin(e).login # "valid"
      /\ EndedLogin(e).job = e.job /\ EndedLogin(e).cause = e.cause
      /\ EndedLogin(e).unknown = e.unknown /\ EndedLogin(e).notice = e.notice
      /\ EndedLogin(e).account = e.account /\ EndedLogin(e).mail = e.mail
  BY <1>2 DEF EndedLogin, ControlRecord
<1>. QED BY <1>1, <1>2, <1>3, <1>4

-----------------------------------------------------------------------------
(* What a writer does.                                                       *)

Acts(w) == WriterStep(w) \/ DisableOwner(w) \/ EnableOwner(w)

\* The invariant without what it says of single states: all that the typing
\* and the place of a writer's step rest on.
WriterFrame(w) ==
  /\ w \in entered /\ UNCHANGED <<gateVars, operatorVars>>
  /\ doing' \in [Writers -> InHand]
  /\ \A v \in Writers : doing'[v] # Nothing => v = w \/ doing[v] # Nothing
  /\ control' \in ControlRecord /\ private' \in PrivateRecord /\ ledger' \in BOOLEAN
  /\ world' \in WorldRecord

\* Who takes an operation over leaves nobody else in possession of it.
LEMMA HandedOver ==
  ASSUME Typed, NEW w \in Writers, NEW what \in InHand
  PROVE  /\ Handed(w, what) \in [Writers -> InHand] /\ Handed(w, what)[w] = what
         /\ \A v \in Writers \ {w} :
              /\ ~Holds(Handed(w, what)[v]) /\ Handed(w, what)[v] # "begun"
              /\ Handed(w, what)[v] \in {Nothing, "unasked", "late", doing[v]}
              /\ Handed(w, what)[v] = "late" => doing[v] \in {"authorized", "confirming", "late"}
              /\ Handed(w, what)[v] # Nothing => doing[v] # Nothing
              /\ Sends(Handed(w, what)[v]) => Handed(w, what)[v] = doing[v]
<1>1. \A v \in Writers : Overtaken(doing[v]) \in InHand
  BY DEF Typed, Overtaken, InHand, Executing, Behind, Nothing
<1>2. \A v \in Writers \ {w} : Handed(w, what)[v] = Overtaken(doing[v])
  BY DEF Handed
<1>3. \A d \in InHand :
        /\ ~Holds(Overtaken(d)) /\ Overtaken(d) \in {Nothing, "unasked", "late", d}
        /\ Overtaken(d) # "begun"
        /\ Overtaken(d) = "late" => d \in {"authorized", "confirming", "late"}
        /\ Overtaken(d) # Nothing => d # Nothing
        /\ Sends(Overtaken(d)) => Overtaken(d) = d
  BY DEF Overtaken, Holds, Sends, InHand, Executing, Behind, Nothing
<1>4. \A v \in Writers : doing[v] \in InHand
  BY DEF Typed
<1>5. Handed(w, what) \in [Writers -> InHand] /\ Handed(w, what)[w] = what
  BY <1>1 DEF Handed
<1>. QED BY <1>2, <1>3, <1>4, <1>5

\* The local claim takes what an overtaken worker could still have committed.
LEMMA Begins ==
  ASSUME Typed, NEW w \in Writers, BeginOperation(w)
  PROVE  /\ doing' \in [Writers -> InHand]
         /\ \A v \in Writers \ {w} : doing'[v] \in {doing[v], Nothing}
         /\ \/ private.result # "none" /\ doing'[w] = "settling" /\ UNCHANGED control
            \/ private.result = "none" /\ doing'[w] = Nothing
               /\ (control' = Becomes("stopped") \/ control' = Becomes("needs-review"))
            \/ /\ private.result = "none" /\ doing'[w] = "begun"
               /\ control.unknown = 0 /\ UNCHANGED control
<1>. USE DEF Typed, BeginOperation, Takes, InHand, Executing, Behind, Nothing
<1>1. CASE private.result # "none"
  BY <1>1
<1>2. CASE private.result = "none"
  <2>. DEFINE after(what) == [v \in Writers |-> IF v = w THEN what
                                ELSE IF doing[v] = "late" THEN Nothing ELSE doing[v]]
  <2>1. \/ control' = Becomes("stopped") /\ doing' = after(Nothing)
        \/ control' = Becomes("needs-review") /\ doing' = after(Nothing)
        \/ control.unknown = 0 /\ doing' = after("begun") /\ UNCHANGED control
    BY <1>2
  <2>2. /\ after(Nothing) \in [Writers -> InHand] /\ after(Nothing)[w] = Nothing
        /\ \A v \in Writers \ {w} : after(Nothing)[v] \in {doing[v], Nothing}
    OBVIOUS
  <2>3. /\ after("begun") \in [Writers -> InHand] /\ after("begun")[w] = "begun"
        /\ \A v \in Writers \ {w} : after("begun")[v] \in {doing[v], Nothing}
    OBVIOUS
  <2>. HIDE DEF after
  <2>. QED BY <1>2, <2>1, <2>2, <2>3
<1>. QED BY <1>1, <1>2

\* The changes of a control record that keep it one.
LEMMA ControlChanges ==
  ASSUME control \in ControlRecord, world \in WorldRecord
  PROVE  /\ \A state \in JobStates : Becomes(state) \in ControlRecord
         /\ \A state \in MailStates : [control EXCEPT !.mail = state] \in ControlRecord
         /\ \A n \in Nat : [control EXCEPT !.unknown = n] \in ControlRecord
         /\ Settled(control) \in ControlRecord
         /\ LookedUp("pending") \in ControlRecord
<1>. USE DEF ControlRecord
<1>1. \A state \in JobStates : Becomes(state) \in ControlRecord
  BY DEF Becomes
<1>2. Settled(control) \in ControlRecord
  <2>1. world.restores \in Nat
    BY RestoreAssumption DEF WorldRecord
  <2>2. [control EXCEPT !.job = "done", !.mail = "pending", !.notice = world.restores]
          \in ControlRecord
    BY <2>1 DEF JobStates, MailStates
  <2>3. [control EXCEPT !.job = "done"] \in ControlRecord
    BY DEF JobStates
  <2>. QED BY <2>2, <2>3 DEF Settled
<1>3. LookedUp("pending") \in ControlRecord
  BY DEF LookedUp, MailStates
<1>. QED BY <1>1, <1>2, <1>3

LEMMA LoginEnded ==
  ASSUME world \in WorldRecord, LoginEnds
  PROVE  /\ world' \in WorldRecord /\ (world'.revoked <=> world.revoked \/ control.login = "valid")
         /\ world'.requests = world.requests /\ world'.mailed = world.mailed
         /\ world'.again = world.again /\ world'.restores = world.restores
         /\ world'.erased = world.erased
<1>1. (world.revoked \/ control.login = "valid") \in BOOLEAN
  BY DEF WorldRecord
<1>. QED BY <1>1 DEF LoginEnds, WorldRecord

LEMMA WriterActs ==
  ASSUME Typed, Exclusive, NEW w \in Writers, Acts(w)
  PROVE  WriterFrame(w)
<1>. USE DEF Typed, Exclusive, WriterFrame, gateVars, operatorVars, databaseVars, Free, Takes,
             Nothing, InHand, Executing, Behind
<1>0. doing = [doing EXCEPT ![w] = doing[w]] /\ doing[w] \in InHand
  OBVIOUS
<1>. USE DEF JobStates, MailStates
<1>1. CASE Submit(w) \/ SweepOperation(w)
  <2>1. control' \in ControlRecord
    BY <1>1, ControlChanges DEF Submit, SweepOperation, ControlRecord
  <2>. QED BY <1>0, <1>1, <2>1 DEF Submit, SweepOperation
<1>2. CASE ClaimOperation(w)
  <2>1. control' \in ControlRecord
    <3>1. PICK cause \in {control.cause, "other"} :
            control' = [control EXCEPT !.job = "running", !.cause = cause]
      BY <1>2 DEF ClaimOperation
    <3>2. cause \in {"other", "restored"}
      BY DEF ControlRecord
    <3>. QED BY <3>1, <3>2 DEF ControlRecord
  <2>. QED BY <1>0, <1>2, <2>1, HandedOver DEF ClaimOperation
<1>3. CASE BeginOperation(w)
  <2>1. control' \in ControlRecord
    BY <1>3, Begins, ControlChanges
  <2>. QED BY <1>0, <1>3, <2>1, Begins DEF BeginOperation
<1>4. CASE Request(w)
  <2>1. control' \in ControlRecord
    BY <1>4 DEF Request, Recorded, ControlRecord
  <2>2. world' \in WorldRecord
    BY <1>4 DEF Request, WorldRecord
  <2>. QED BY <1>0, <1>4, <2>1, <2>2 DEF Request
<1>5. CASE RecordUnasked(w) \/ ConfirmCost(w)
  <2>1. control' \in ControlRecord
    BY <1>5 DEF RecordUnasked, ConfirmCost, Recorded, ControlRecord
  <2>. QED BY <1>0, <1>5, <2>1 DEF RecordUnasked, ConfirmCost
<1>6. CASE AllowCommit(w) \/ CommitResult(w) \/ LeaveLate(w)
  BY <1>0, <1>6 DEF AllowCommit, CommitResult, LeaveLate, PrivateRecord
<1>7. CASE SettleResult(w)
  BY <1>0, <1>7, ControlChanges DEF SettleResult
<1>8. CASE GiveUpOperation(w)
  <2>1. control' \in ControlRecord
    BY <1>8, ControlChanges DEF GiveUpOperation
  <2>. QED BY <1>0, <1>8, <2>1 DEF GiveUpOperation
<1>9. CASE ClaimForReconciliation(w)
  <2>1. control' \in ControlRecord
    BY <1>9 DEF ClaimForReconciliation, ControlRecord
  <2>. QED BY <1>0, <1>9, <2>1, HandedOver DEF ClaimForReconciliation
<1>10. CASE ReconciliationFails(w) \/ AcknowledgeResult(w)
  BY <1>0, <1>10 DEF ReconciliationFails, AcknowledgeResult, PrivateRecord
<1>11. CASE SendNotice(w) \/ RecordNotice(w) \/ SuppressNotice(w) \/ ReconcileNotice(w)
  <2>1. control' \in ControlRecord
    BY <1>11, ControlChanges DEF SendNotice, RecordNotice, SuppressNotice, ReconcileNotice
  <2>. QED BY <1>0, <1>11, <2>1 DEF SendNotice, RecordNotice, SuppressNotice, ReconcileNotice
<1>12. CASE HandNotice(w)
  <2>1. (world.again \/ control.notice \in world.mailed) \in BOOLEAN
    BY DEF WorldRecord
  <2>2. world' \in WorldRecord
    <3>1. /\ world' = [world EXCEPT !.mailed = world.mailed \cup {control.notice},
                                   !.again = world.again \/ control.notice \in world.mailed]
          /\ world.mailed \cup {control.notice} \in SUBSET Nat
      BY <1>12 DEF HandNotice, WorldRecord, ControlRecord
    <3>. QED BY <2>1, <3>1 DEF WorldRecord
  <2>. QED BY <1>0, <1>12, <2>2 DEF HandNotice
<1>13. CASE LogOut(w)
  <2>1. control' \in ControlRecord
    BY <1>13 DEF LogOut, EndedLogin, ControlRecord
  <2>2. world' \in WorldRecord
    BY <1>13 DEF LogOut, WorldRecord
  <2>. QED BY <1>0, <1>13, <2>1, <2>2 DEF LogOut
<1>14. CASE DisableOwner(w) \/ BeginErasure(w)
  <2>1. control' \in ControlRecord
    BY <1>14 DEF DisableOwner, BeginErasure, EndedLogin, ControlRecord
  <2>. QED BY <1>0, <1>14, <2>1, LoginEnded DEF DisableOwner, BeginErasure
<1>15. CASE EnableOwner(w)
  BY <1>0, <1>15 DEF EnableOwner, ControlRecord
<1>16. CASE KeepTombstone(w)
  <2>1. control' \in ControlRecord
    BY <1>16 DEF KeepTombstone, ControlRecord
  <2>. QED BY <1>0, <1>16, <2>1 DEF KeepTombstone
<1>17. CASE EraseFiles(w)
  BY <1>0, <1>17 DEF EraseFiles, NoFiles, PrivateRecord, WorldRecord
<1>18. CASE FinishErasure(w)
  <2>1. control' \in ControlRecord
    BY <1>18, ErasedFields DEF FinishErasure
  <2>. QED BY <1>0, <1>18, <2>1 DEF FinishErasure
<1>. QED
  BY <1>1, <1>2, <1>3, <1>4, <1>5, <1>6, <1>7, <1>8, <1>9, <1>10, <1>11, <1>12, <1>13, <1>14,
     <1>15, <1>16, <1>17, <1>18
  DEF Acts, WriterStep

-----------------------------------------------------------------------------
(* Types, and who may be where.                                              *)

\* What the restore command's own steps leave alone.
LEMMA RestorerActs ==
  ASSUME Typed, Exclusive, RestorerStep
  PROVE  /\ restorer # "idle" /\ entered = {} /\ ~BackupRuns
         /\ UNCHANGED <<entered, doing, ledger, backup, saved, world>>
         /\ restorer = "recover" =>
              restorer' = "prepare" /\ gate' = [mode |-> "frozen", owner |-> "restore"]
         /\ restorer # "recover" => UNCHANGED gate /\ restorer' # "recover"
BY DEF RestorerStep, RecoverStoppedWriters, PrepareRestore, RemoveErasedFiles, TakeRestored,
       SettleRestored, AcknowledgeRestored, WriteReport, SuppressUnaccepted, RestorerGoes,
       gateVars, databaseVars, Exclusive

LEMMA RestorerKeepsTypes ==
  ASSUME Typed, RestorerStep
  PROVE  control' \in ControlRecord /\ private' \in PrivateRecord
<1>. USE DEF Typed, databaseVars
<1>1. CASE RecoverStoppedWriters \/ WriteReport
  BY <1>1 DEF RecoverStoppedWriters, WriteReport
<1>2. CASE PrepareRestore
  <2>1. Prepared(control) \in ControlRecord
    BY PreparedFields
  <2>2. Erased(Prepared(control)) \in ControlRecord
    BY <2>1, ErasedFields
  <2>. QED BY <1>2, <2>1, <2>2 DEF PrepareRestore
<1>3. CASE RemoveErasedFiles
  BY <1>3 DEF RemoveErasedFiles, NoFiles, PrivateRecord
<1>4. CASE TakeRestored
  BY <1>4 DEF TakeRestored, ControlRecord, JobStates
<1>5. CASE SettleRestored
  BY <1>5, ControlChanges DEF SettleRestored
<1>6. CASE AcknowledgeRestored
  BY <1>6 DEF AcknowledgeRestored, PrivateRecord
<1>7. CASE SuppressUnaccepted
  BY <1>7 DEF SuppressUnaccepted, ControlRecord, MailStates
<1>. QED BY <1>1, <1>2, <1>3, <1>4, <1>5, <1>6, <1>7 DEF RestorerStep

LEMMA TypedStep ==
  ASSUME Typed, Exclusive, [RestoreNext]_restoreVars
  PROVE  Typed'
<1>. USE DEF Typed, gateVars, operatorVars, databaseVars, BackupGoes, BackupPCs
<1>1. CASE UNCHANGED restoreVars
  BY <1>1 DEF restoreVars
<1>2. CASE \E w \in Writers : Acts(w)
  BY <1>2, WriterActs DEF WriterFrame
<1>3. CASE \E w \in Writers : EnterWrites(w) \/ LeaveWrites(w)
  BY <1>3 DEF EnterWrites, LeaveWrites
<1>4. ASSUME NEW w \in Writers, WriterDies(w)
      PROVE  Typed'
  <2>1. world' \in WorldRecord
    BY <1>4, RestoreAssumption DEF WriterDies, WorldRecord
  <2>2. doing' \in [Writers -> InHand]
    BY <1>4 DEF WriterDies, InHand
  <2>3. entered' \subseteq Writers /\ lost' \in BOOLEAN
    BY <1>4 DEF WriterDies
  <2>. QED BY <1>4, <2>1, <2>2, <2>3 DEF WriterDies
<1>5. CASE BeginBackup
  BY <1>5 DEF BeginBackup
<1>6. CASE BackupTimesOut
  BY <1>6 DEF BackupTimesOut
<1>7. CASE FreezeForBackup
  BY <1>7 DEF FreezeForBackup, SetRecord
<1>8. CASE CopyControl
  BY <1>8 DEF CopyControl, SetRecord
<1>9. CASE CopyTenant
  BY <1>9 DEF CopyTenant, SetRecord
<1>10. CASE FinishBackup
  BY <1>10 DEF FinishBackup
<1>11. CASE BackupDies
  <2>1. world' \in WorldRecord
    BY <1>11, RestoreAssumption DEF BackupDies, WorldRecord
  <2>. QED BY <1>11, <2>1 DEF BackupDies
<1>12. CASE RestoreSet
  <2>1. world' \in WorldRecord
    BY <1>12, RestoreAssumption DEF RestoreSet, WorldRecord
  <2>2. control' \in ControlRecord /\ private' \in PrivateRecord
    BY <1>12 DEF RestoreSet, SetRecord
  <2>3. lost' \in BOOLEAN
    BY <1>12 DEF RestoreSet
  <2>. QED BY <1>12, <2>1, <2>2, <2>3 DEF RestoreSet, RestoredGate
<1>13. CASE RecoverInPlace \/ ReconcileAgain
  BY <1>13 DEF RecoverInPlace, ReconcileAgain
<1>14. CASE RestorerStep
  <2>1. /\ restorer' \in {"idle", "prepare", "files", "outbox", "settle"}
        /\ review' \in {"none", "clean", "unresolved"} /\ lost' \in BOOLEAN
    BY <1>14 DEF RestorerStep, RecoverStoppedWriters, PrepareRestore, RemoveErasedFiles,
                 TakeRestored, SettleRestored, AcknowledgeRestored, WriteReport,
                 SuppressUnaccepted, RestorerGoes
  <2>2. /\ UNCHANGED <<entered, doing, ledger, backup, saved, world>>
        /\ gate' = gate \/ gate' = [mode |-> "frozen", owner |-> "restore"]
    BY <1>14, RestorerActs
  <2>. QED BY <1>14, <2>1, <2>2, RestorerKeepsTypes
<1>15. CASE RestorerDies
  <2>1. world' \in WorldRecord
    BY <1>15, RestoreAssumption DEF RestorerDies, WorldRecord
  <2>. QED BY <1>15, <2>1 DEF RestorerDies
<1>16. CASE AskProvider
  <2>1. control' \in ControlRecord
    BY <1>16, ControlChanges DEF AskProvider
  <2>. QED BY <1>16, <2>1 DEF AskProvider
<1>17. CASE BookCost
  <2>1. control' \in ControlRecord
    BY <1>17 DEF BookCost, Recorded, ControlRecord
  <2>. QED BY <1>17, <2>1 DEF BookCost
<1>18. CASE Resume
  BY <1>18 DEF Resume
<1>. QED
  BY <1>1, <1>2, <1>3, <1>4, <1>5, <1>6, <1>7, <1>8, <1>9, <1>10, <1>11, <1>12, <1>13,
     <1>14, <1>15, <1>16, <1>17, <1>18
  DEF RestoreNext, Acts, BackupStep, OperatorStep

\* Nobody writes while the gate is frozen or a command runs.
LEMMA ExclusiveStep ==
  ASSUME Typed, Exclusive, [RestoreNext]_restoreVars
  PROVE  Exclusive'
<1>. USE DEF Exclusive, RestoreGate, gateVars, operatorVars, databaseVars, BackupGoes, BackupAt,
             BackupRuns, Running, BackupPCs
<1>1. CASE UNCHANGED restoreVars
  BY <1>1 DEF restoreVars
<1>2. ASSUME NEW w \in Writers, Acts(w)
      PROVE  Exclusive'
  BY <1>2, WriterActs DEF WriterFrame, Typed
<1>3. ASSUME NEW w \in Writers, EnterWrites(w) \/ LeaveWrites(w) \/ WriterDies(w)
      PROVE  Exclusive'
  BY <1>3 DEF EnterWrites, LeaveWrites, WriterDies, Typed, InHand, Nothing
<1>4. CASE BeginBackup \/ BackupTimesOut
  BY <1>4 DEF BeginBackup, BackupTimesOut, Typed
<1>5. CASE FreezeForBackup
  BY <1>5 DEF FreezeForBackup, CanFreeze, Typed
<1>6. CASE CopyControl \/ CopyTenant
  BY <1>6 DEF CopyControl, CopyTenant, Typed
<1>7. CASE FinishBackup \/ BackupDies
  BY <1>7 DEF FinishBackup, BackupDies, Typed
<1>8. CASE RestoreSet \/ RecoverInPlace \/ ReconcileAgain
  BY <1>8 DEF RestoreSet, RestoredGate, RecoverInPlace, ReconcileAgain, AllStopped, Typed
<1>9. CASE RestorerStep
  BY <1>9, RestorerActs DEF Typed
<1>10. CASE RestorerDies \/ AskProvider \/ BookCost \/ Resume
  BY <1>10 DEF RestorerDies, AskProvider, BookCost, Prepares, Resume, AllStopped, Typed
<1>. QED
  BY <1>1, <1>2, <1>3, <1>4, <1>5, <1>6, <1>7, <1>8, <1>9, <1>10
  DEF RestoreNext, Acts, BackupStep, OperatorStep

-----------------------------------------------------------------------------
(* The set is one instant.                                                   *)

\* While the copies are made nothing moves that they are made of.
LEMMA InstantStep ==
  ASSUME Typed, Exclusive, OneInstant, [RestoreNext]_restoreVars
  PROVE  OneInstant'
<1>. USE DEF OneInstant, SetIsOneInstant, gateVars, operatorVars, databaseVars, BackupGoes,
             BackupAt, BackupPCs
<1>1. CASE UNCHANGED restoreVars
  BY <1>1 DEF restoreVars
<1>2. ASSUME NEW w \in Writers, Acts(w)
      PROVE  OneInstant'
  <2>1. WriterFrame(w)
    BY <1>2, WriterActs
  <2>2. backup.pc \notin {"control", "tenant"}
    BY <2>1 DEF WriterFrame, Exclusive, Running
  <2>. QED BY <2>1, <2>2 DEF WriterFrame
<1>3. ASSUME NEW w \in Writers, EnterWrites(w) \/ LeaveWrites(w) \/ WriterDies(w)
      PROVE  OneInstant'
  BY <1>3 DEF EnterWrites, LeaveWrites, WriterDies
<1>4. CASE BeginBackup \/ BackupTimesOut
  BY <1>4 DEF BeginBackup, BackupTimesOut, Typed
<1>5. CASE FreezeForBackup
  BY <1>5 DEF FreezeForBackup, Typed
<1>6. CASE CopyControl
  BY <1>6 DEF CopyControl, Typed, SetRecord
<1>7. CASE CopyTenant
  <2>1. backup'.instant = [control |-> control, private |-> private, complete |-> TRUE]
    BY <1>7 DEF CopyTenant, Typed, SetRecord
  <2>2. saved' = [control |-> control, private |-> private, complete |-> TRUE]
    BY <1>7 DEF CopyTenant, Typed, SetRecord
  <2>3. backup'.pc = "finish"
    BY <1>7 DEF CopyTenant, Typed
  <2>. QED BY <2>1, <2>2, <2>3
<1>8. CASE FinishBackup \/ BackupDies
  BY <1>8 DEF FinishBackup, BackupDies, Typed
<1>9. CASE RestoreSet \/ RecoverInPlace \/ ReconcileAgain
  BY <1>9 DEF RestoreSet, RecoverInPlace, ReconcileAgain, AllStopped
<1>10. CASE RestorerStep
  BY <1>10, RestorerActs DEF BackupRuns
<1>11. CASE RestorerDies \/ AskProvider \/ BookCost \/ Resume
  BY <1>11 DEF RestorerDies, AskProvider, BookCost, Prepares, Resume, AllStopped, Exclusive,
               BackupRuns
<1>. QED
  BY <1>1, <1>2, <1>3, <1>4, <1>5, <1>6, <1>7, <1>8, <1>9, <1>10, <1>11
  DEF RestoreNext, Acts, BackupStep, OperatorStep

-----------------------------------------------------------------------------
(* What old states owe to the world.                                         *)

\* What has been done is not undone.
WorldGoesOn ==
  /\ world'.requests >= world.requests /\ world'.restores >= world.restores
  /\ world.erased => world'.erased

\* A step after which the databases owe no more than before it.
OwesNoMore ==
  /\ UNCHANGED <<ledger, backup, saved, world>>
  /\ private'.result # "none" => private.result # "none"
  /\ control'.notice = control.notice
  /\ \/ control'.mail \in {control.mail, "none", "suppressed"}
     \/ control.mail \in {"pending", "sending", "unknown"}

LEMMA OwedStep ==
  ASSUME Typed, Exclusive, OneInstant, Owed, InTheMiddle, ReportTrue,
         [RestoreNext]_restoreVars
  PROVE  Owed' /\ WorldGoesOn
<1>. USE DEF Owed, OwedToWorld, WorldGoesOn, gateVars, operatorVars, databaseVars, BackupGoes
<1>0. /\ world.requests \in Nat /\ world.restores \in Nat /\ world.mailed \in SUBSET Nat
      /\ control \in ControlRecord /\ private \in PrivateRecord /\ doing \in [Writers -> InHand]
  BY RestoreAssumption DEF Typed, WorldRecord
<1>1. CASE UNCHANGED restoreVars
  BY <1>0, <1>1 DEF restoreVars
<1>2. CASE OwesNoMore
  BY <1>0, <1>2 DEF OwesNoMore
<1>. USE DEF ControlRecord, PrivateRecord
<1>3. ASSUME control' = Settled(control), world.requests > 0,
             UNCHANGED <<private, ledger, backup, saved, world>>
      PROVE  Owed' /\ WorldGoesOn
  <2>1. OwedToWorld(control', private')
    <3>1. control'.notice \in {control.notice, world.restores}
      BY <1>0, <1>3 DEF Settled
    <3>. QED BY <1>0, <1>3, <3>1
  <2>. QED BY <1>0, <1>3, <2>1
<1>4. ASSUME NEW w \in Writers, Acts(w)
      PROVE  Owed' /\ WorldGoesOn
  <2>. USE <1>0 DEF Free, Takes, InTheMiddle, Nothing, OwesNoMore
  <2>1. CASE Submit(w) \/ SweepOperation(w) \/ ClaimOperation(w) \/ RecordUnasked(w)
    BY <1>2, <2>1 DEF Submit, SweepOperation, ClaimOperation, RecordUnasked, Recorded, Becomes
  <2>2. CASE BeginOperation(w)
    BY <1>2, <2>2, Begins DEF Typed, BeginOperation, Becomes
  <2>3. CASE Request(w)
    BY <2>3 DEF Request, Recorded, Typed, WorldRecord
  <2>4. CASE AllowCommit(w) \/ ConfirmCost(w) \/ LeaveLate(w) \/ GiveUpOperation(w)
    BY <1>2, <2>4 DEF AllowCommit, ConfirmCost, LeaveLate, GiveUpOperation, Recorded, Becomes
  <2>5. CASE CommitResult(w)
    BY <2>5 DEF CommitResult
  <2>6. CASE SettleResult(w)
    BY <1>3, <2>6 DEF SettleResult
  <2>7. CASE ClaimForReconciliation(w) \/ ReconciliationFails(w) \/ AcknowledgeResult(w)
    BY <1>2, <2>7 DEF ClaimForReconciliation, ReconciliationFails, AcknowledgeResult
  <2>8. CASE SendNotice(w) \/ SuppressNotice(w) \/ ReconcileNotice(w)
    BY <1>2, <2>8 DEF SendNotice, SuppressNotice, ReconcileNotice, LookedUp
  <2>9. CASE RecordNotice(w)
    <3>1. /\ control'.notice = control.notice /\ UNCHANGED <<private, ledger, backup, saved, world>>
          /\ control.mail = "sending"
      BY <2>9 DEF RecordNotice, Sends
    <3>. QED BY <1>2, <3>1
  <2>10. CASE HandNotice(w)
    <3>1. /\ UNCHANGED <<control, private, ledger, backup, saved>> /\ world.requests > 0
          /\ UNCHANGED <<world.requests, world.restores, world.erased>>
          /\ world'.mailed = world.mailed \cup {control.notice} /\ control.notice <= world.restores
      BY <2>10 DEF HandNotice, Typed, WorldRecord, Sends
    <3>. QED BY <3>1
  <2>11. CASE LogOut(w) \/ DisableOwner(w) \/ BeginErasure(w)
    <3>1. /\ UNCHANGED <<private, ledger, backup, saved>>
          /\ UNCHANGED <<world.requests, world.mailed, world.restores, world.erased>>
      BY <2>11, LoginEnded DEF LogOut, DisableOwner, BeginErasure, Typed, WorldRecord
    <3>2. /\ control'.notice = control.notice
          /\ control'.mail \in {control.mail, "suppressed"}
      BY <2>11 DEF LogOut, DisableOwner, BeginErasure, EndedLogin
    <3>. QED BY <3>1, <3>2
  <2>12. CASE EnableOwner(w) \/ FinishErasure(w)
    BY <1>2, <2>12 DEF EnableOwner, FinishErasure, Erased
  <2>13. CASE KeepTombstone(w)
    BY <2>13 DEF KeepTombstone
  <2>14. CASE EraseFiles(w)
    <3>1. /\ UNCHANGED <<control, ledger, backup, saved>> /\ private' = NoFiles
          /\ UNCHANGED <<world.requests, world.mailed, world.restores>> /\ ledger
      BY <2>14 DEF EraseFiles, Typed, WorldRecord
    <3>2. OwedToWorld(control', private')
      BY <3>1 DEF NoFiles
    <3>3. world.erased => world'.erased
      BY <2>14 DEF EraseFiles, Typed, WorldRecord
    <3>. QED BY <3>1, <3>2, <3>3
  <2>. QED
    BY <1>4, <2>1, <2>2, <2>3, <2>4, <2>5, <2>6, <2>7, <2>8, <2>9, <2>10, <2>11, <2>12,
       <2>13, <2>14
    DEF Acts, WriterStep
<1>5. ASSUME NEW w \in Writers, EnterWrites(w) \/ LeaveWrites(w) \/ WriterDies(w)
      PROVE  Owed' /\ WorldGoesOn
  BY <1>0, <1>5 DEF EnterWrites, LeaveWrites, WriterDies, Typed, WorldRecord
<1>6. CASE BeginBackup \/ BackupTimesOut \/ FinishBackup \/ BackupDies
  BY <1>0, <1>6 DEF BeginBackup, BackupTimesOut, FinishBackup, BackupDies, Typed, WorldRecord
<1>7. CASE FreezeForBackup \/ CopyControl
  <2>1. /\ OwedToWorld(backup.set.control, backup.set.private)
        /\ OwedToWorld(backup.instant.control, backup.instant.private)
    OBVIOUS
  <2>2. /\ OwedToWorld(backup'.set.control, backup'.set.private)
        /\ OwedToWorld(backup'.instant.control, backup'.instant.private)
    <3>1. CASE FreezeForBackup
      BY <3>1, <2>1 DEF FreezeForBackup, Typed
    <3>2. CASE CopyControl
      BY <3>2, <2>1 DEF CopyControl, Typed, SetRecord
    <3>. QED BY <1>7, <3>1, <3>2
  <2>3. UNCHANGED <<control, private, ledger, saved, world>>
    BY <1>7 DEF FreezeForBackup, CopyControl
  <2>. QED BY <1>0, <2>2, <2>3
<1>8. CASE CopyTenant
  BY <1>0, <1>8 DEF CopyTenant, OneInstant, Typed, SetRecord
<1>9. CASE RestoreSet
  <2>1. /\ UNCHANGED <<ledger, backup, saved>>
        /\ control' = saved.control /\ private' = saved.private
        /\ UNCHANGED <<world.requests, world.mailed, world.erased>>
        /\ world'.restores = world.restores + 1
    BY <1>0, <1>9 DEF RestoreSet, Typed, WorldRecord
  <2>2. saved.control.notice \in Nat /\ backup.set.control.notice \in Nat
        /\ backup.instant.control.notice \in Nat
    BY DEF Typed, SetRecord
  <2>. QED BY <1>0, <2>1, <2>2
<1>10. CASE \/ RecoverInPlace \/ ReconcileAgain \/ RecoverStoppedWriters \/ WriteReport
            \/ RestorerDies \/ Resume
  BY <1>0, <1>10 DEF RecoverInPlace, ReconcileAgain, RecoverStoppedWriters, WriteReport,
                     RestorerDies, Resume, Typed, WorldRecord
<1>11. CASE PrepareRestore
  <2>1. control' = Prepared(control) \/ control' = Erased(Prepared(control))
    BY <1>11 DEF PrepareRestore
  <2>2. OwesNoMore
    BY <1>0, <1>11, <2>1, PreparedFields, ErasedFields DEF PrepareRestore, OwesNoMore, MailStates
  <2>. QED BY <1>2, <2>2
<1>12. CASE RemoveErasedFiles \/ TakeRestored \/ AcknowledgeRestored \/ SuppressUnaccepted
  BY <1>0, <1>2, <1>12 DEF RemoveErasedFiles, TakeRestored, AcknowledgeRestored, SuppressUnaccepted,
                     RestorerGoes, NoFiles, OwesNoMore
<1>13. CASE SettleRestored
  BY <1>3, <1>13 DEF SettleRestored, RestorerGoes, ReportTrue
<1>14. CASE AskProvider \/ BookCost
  BY <1>0, <1>2, <1>14 DEF AskProvider, BookCost, LookedUp, Recorded, OwesNoMore
<1>. QED
  BY <1>1, <1>4, <1>5, <1>6, <1>7, <1>8, <1>9, <1>10, <1>11, <1>12, <1>13, <1>14
  DEF RestoreNext, Acts, BackupStep, OperatorStep, RestorerStep

-----------------------------------------------------------------------------
(* A writer's step in service.                                               *)

LEMMA WriterServes ==
  ASSUME RestoreInv, NEW w \in Writers, Acts(w)
  PROVE  /\ Safe /\ restorer = "idle" /\ w \in entered
         /\ world.requests \in Nat /\ world.restores \in Nat /\ world.mailed \in SUBSET Nat
         /\ control \in ControlRecord /\ private \in PrivateRecord /\ control.unknown \in Nat
         /\ \A v \in Writers : doing[v] \in InHand
<1>1. Typed /\ Exclusive /\ (InService => Safe) /\ WriterFrame(w)
  BY WriterActs DEF RestoreInv
<1>2. InService /\ restorer = "idle" /\ w \in entered
  BY <1>1 DEF WriterFrame, Exclusive, InService
<1>. QED BY <1>1, <1>2, RestoreAssumption DEF Typed, WorldRecord, ControlRecord

\* Nobody comes into possession of anything, and what is possessed stays.
NothingTaken(w) ==
  /\ \A v \in Writers \ {w} : doing'[v] \in {doing[v], Nothing}
  /\ doing'[w] \in {doing[w], Nothing}
  /\ world'.requests = world.requests /\ world'.mailed = world.mailed
  /\ control.job = "running" =>
       control'.job = "running" \/ Quiet \/ (Holds(doing[w]) /\ doing'[w] = Nothing)
  /\ control.mail = "sending" =>
       control'.mail = "sending" \/ (\A v \in Writers : ~Sends(doing[v]))
         \/ (Sends(doing[w]) /\ doing'[w] = Nothing)
  /\ control'.notice = control.notice \/ control.mail = "none"

LEMMA Taken ==
  ASSUME Typed, NEW w \in Writers, NEW what, Takes(w, what)
  PROVE  doing'[w] = what /\ \A v \in Writers \ {w} : doing'[v] = doing[v]
BY DEF Typed, Takes

LEMMA WriterKeepsMiddle ==
  ASSUME RestoreInv, NEW w \in Writers, Acts(w)
  PROVE  InTheMiddle'
<1>1. Safe /\ InTheMiddle /\ Typed
  BY WriterServes DEF RestoreInv
<1>2. \A v \in Writers : doing[v] \in InHand
  BY WriterServes
<1>. USE DEF Nothing
<1>3. CASE NothingTaken(w)
  BY <1>1, <1>2, <1>3 DEF NothingTaken, InTheMiddle, Quiet, Holds, Sends, Executing
<1>. USE WriterServes DEF ControlRecord
<1>4. CASE Submit(w) \/ SweepOperation(w)
  BY <1>1, <1>3, <1>4 DEF Submit, SweepOperation, Becomes, NothingTaken
<1>5. CASE RecordUnasked(w) \/ LeaveLate(w) \/ ReconciliationFails(w)
  BY <1>1, <1>3, <1>5, Taken DEF RecordUnasked, LeaveLate, ReconciliationFails,
                          Recorded, NothingTaken, databaseVars
<1>6. CASE AcknowledgeResult(w)
  BY <1>1, <1>3, <1>6 DEF AcknowledgeResult, NothingTaken
<1>7. CASE SettleResult(w)
  <2>1. /\ control.mail = "sending" => control'.mail = "sending"
        /\ control'.notice = control.notice \/ control.mail = "none"
    BY <1>7 DEF SettleResult, Settled
  <2>2. doing[w] \in {"settling", "reconciling"} /\ Takes(w, Nothing) /\ world' = world
    BY <1>7 DEF SettleResult
  <2>. QED BY <1>1, <1>3, <2>1, <2>2, Taken DEF NothingTaken, Holds, Executing
<1>8. CASE GiveUpOperation(w)
  BY <1>1, <1>3, <1>8, Taken DEF GiveUpOperation, Becomes, NothingTaken, Holds
<1>9. CASE RecordNotice(w) \/ SuppressNotice(w)
  <2>1. /\ control'.job = control.job /\ control'.notice = control.notice /\ world' = world
        /\ Sends(doing[w]) /\ Takes(w, Nothing)
    BY <1>9 DEF RecordNotice, SuppressNotice, Sends
  <2>. QED BY <1>1, <1>3, <2>1, Taken DEF NothingTaken
<1>10. CASE ReconcileNotice(w)
  BY <1>1, <1>3, <1>10 DEF ReconcileNotice, LookedUp, Alone, Sends, NothingTaken
<1>11. CASE LogOut(w) \/ DisableOwner(w) \/ EnableOwner(w) \/ BeginErasure(w)
  <2>1. world'.requests = world.requests /\ world'.mailed = world.mailed
    BY <1>1, <1>11, LoginEnded
    DEF LogOut, DisableOwner, EnableOwner, BeginErasure, Typed, WorldRecord
  <2>2. /\ control.job = "running" => control'.job = "running"
        /\ control.mail = "sending" => control'.mail = "sending"
        /\ control'.notice = control.notice /\ doing' = doing
    BY <1>11 DEF LogOut, DisableOwner, EnableOwner, BeginErasure, EndedLogin
  <2>. QED BY <1>3, <2>1, <2>2 DEF NothingTaken
<1>12. CASE KeepTombstone(w) \/ EraseFiles(w) \/ FinishErasure(w)
  <2>1. doing' = doing /\ Quiet /\ world'.requests = world.requests /\ world'.mailed = world.mailed
    BY <1>1, <1>12 DEF KeepTombstone, EraseFiles, FinishErasure, Quiet, Safe, Typed, WorldRecord
  <2>2. control'.notice = control.notice
    BY <1>12 DEF KeepTombstone, EraseFiles, FinishErasure, Erased
  <2>. QED BY <1>1, <1>3, <2>1, <2>2 DEF NothingTaken, Quiet, Sends
<1>13. CASE ClaimOperation(w) \/ ClaimForReconciliation(w)
  <2>1. PICK what \in {"claimed", "reconciling"} : doing' = Handed(w, what)
    BY <1>13 DEF ClaimOperation, ClaimForReconciliation
  <2>2. /\ what \in InHand /\ ~Sends(what)
        /\ what \notin {"begun", "called", "authorized", "confirming", "late", "mail"}
    BY DEF InHand, Executing, Sends
  <2>3. /\ control'.job = "running" /\ control'.mail = control.mail
        /\ control'.notice = control.notice /\ world' = world
    BY <1>13 DEF ClaimOperation, ClaimForReconciliation
  <2>. HIDE DEF Nothing
  <2>4. /\ doing'[w] = what
        /\ \A v \in Writers \ {w} :
             /\ ~Holds(doing'[v]) /\ doing'[v] # "begun"
             /\ doing'[v] \in {Nothing, "unasked", "late", doing[v]}
             /\ doing'[v] = "late" => doing[v] \in {"authorized", "confirming", "late"}
             /\ Sends(doing'[v]) => doing'[v] = doing[v]
    BY <1>1, <2>1, <2>2, HandedOver
  <2>5. \A v \in Writers \ {w} :
          /\ doing'[v] \in {"called", "authorized", "confirming", "late"} => world.requests > 0
          /\ Sends(doing'[v]) => control.mail = "sending"
          /\ doing'[v] = "mail" => control.notice \notin world.mailed
    BY <1>1, <2>4 DEF InTheMiddle, Holds, Sends, Executing, Nothing
  <2>6. \A u \in Writers : \A v \in Writers \ {u} :
          ~(Holds(doing'[u]) /\ Holds(doing'[v])) /\ ~(Sends(doing'[u]) /\ Sends(doing'[v]))
    BY <1>1, <2>2, <2>4 DEF InTheMiddle
  <2>. QED BY <2>2, <2>3, <2>4, <2>5, <2>6 DEF InTheMiddle
<1>14. CASE BeginOperation(w)
  <2>1. /\ control'.job = control.job \/ doing'[w] = Nothing
        /\ control'.mail = control.mail /\ control'.notice = control.notice /\ world' = world
        /\ doing[w] = "claimed" /\ doing'[w] \in {"settling", "begun", Nothing}
        /\ \A v \in Writers \ {w} : doing'[v] \in {doing[v], Nothing}
        /\ doing'[w] = "begun" => private.result = "none" /\ control.unknown = 0 /\ Kept
    BY <1>1, <1>14, Begins DEF BeginOperation, Becomes
  <2>2. doing'[w] = "begun" => world.requests = 0
    BY <1>1, <2>1 DEF InTheMiddle, Safe, Holds, Executing, Live
  <2>. QED BY <1>1, <2>1, <2>2 DEF InTheMiddle, Holds, Sends, Executing
<1>15. CASE Request(w)
  <2>1. /\ control'.job = control.job /\ control'.mail = control.mail
        /\ control'.notice = control.notice /\ world'.requests = world.requests + 1
        /\ world'.mailed = world.mailed /\ doing[w] = "begun"
    BY <1>1, <1>15 DEF Request, Recorded, Typed, WorldRecord
  <2>2. doing'[w] = "called" /\ \A v \in Writers \ {w} : doing'[v] = doing[v]
    BY <1>1, <1>15, Taken DEF Request
  <2>. QED BY <1>1, <2>1, <2>2 DEF InTheMiddle, Holds, Sends, Executing
<1>16. CASE AllowCommit(w) \/ CommitResult(w) \/ ConfirmCost(w)
  <2>1. /\ control'.job = control.job /\ control'.mail = control.mail
        /\ control'.notice = control.notice /\ world' = world
        /\ \A v \in Writers \ {w} : doing'[v] = doing[v]
    BY <1>1, <1>16, Taken DEF AllowCommit, CommitResult, ConfirmCost, Recorded, databaseVars
  <2>2. \/ doing[w] = "called" /\ doing'[w] = "authorized"
        \/ doing[w] = "authorized" /\ doing'[w] = "confirming"
        \/ doing[w] = "confirming" /\ doing'[w] = "settling"
        \/ doing[w] = "late" /\ doing'[w] \in {"late", Nothing}
    BY <1>1, <1>16, Taken DEF AllowCommit, CommitResult, ConfirmCost
  <2>. QED BY <1>1, <2>1, <2>2 DEF InTheMiddle, Holds, Sends, Executing
<1>17. CASE SendNotice(w)
  <2>1. /\ control'.job = control.job /\ control'.mail = "sending" /\ control.mail = "pending"
        /\ control'.notice = control.notice /\ world' = world
        /\ doing'[w] = "mail" /\ \A v \in Writers \ {w} : doing'[v] = doing[v]
    BY <1>1, <1>17, Taken DEF SendNotice
  <2>. QED BY <1>1, <2>1 DEF InTheMiddle, Safe, Holds, Sends, Executing
<1>18. CASE HandNotice(w)
  <2>1. /\ control' = control /\ world'.requests = world.requests
        /\ doing[w] = "mail" /\ doing'[w] = "recording"
        /\ \A v \in Writers \ {w} : doing'[v] = doing[v]
    BY <1>1, <1>18, Taken DEF HandNotice, Typed, WorldRecord
  <2>. QED BY <1>1, <2>1 DEF InTheMiddle, Holds, Sends, Executing
<1>. QED
  BY <1>4, <1>5, <1>6, <1>7, <1>8, <1>9, <1>10, <1>11, <1>12, <1>13, <1>14, <1>15, <1>16,
     <1>17, <1>18
  DEF Acts, WriterStep

LEMMA WriterKeepsSafe ==
  ASSUME RestoreInv, NEW w \in Writers, Acts(w)
  PROVE  Safe'
<1>1. Safe /\ InTheMiddle /\ Typed /\ Owed /\ NoticesTold
  BY WriterServes DEF RestoreInv
<1>. USE WriterServes DEF ControlRecord, Nothing, Kept, Quiet
<1>2. CASE Submit(w)
  <2>1. control.job = "none" /\ world.requests = 0 /\ world.mailed = {}
    BY <1>1, <1>2 DEF Submit, Owed
  <2>2. /\ UNCHANGED <<doing, private, ledger, world>>
        /\ control' = [control EXCEPT !.job = "queued"]
    BY <1>2 DEF Submit
  <2>. QED BY <1>1, <2>1, <2>2 DEF Safe
<1>3. CASE SweepOperation(w)
  <2>1. /\ UNCHANGED <<doing, private, ledger, world>> /\ control.job \in Live
        /\ control' = Becomes("stopped") \/ control' = Becomes("needs-review")
    BY <1>3 DEF SweepOperation, Live
  <2>. QED BY <1>1, <2>1 DEF Safe, Becomes, Live
<1>4. CASE ClaimOperation(w)
  <2>1. /\ UNCHANGED <<private, ledger, world>> /\ control.job \in Live
        /\ control'.mail = control.mail /\ control'.notice = control.notice
        /\ control'.unknown = control.unknown /\ control'.login = control.login
        /\ control'.account = control.account /\ control.account = "active"
    BY <1>4 DEF ClaimOperation, Live, Serves
  <2>. QED BY <1>1, <2>1 DEF Safe
\* Of a process in the middle of something: there is no tombstone, and if
\* anything was handed over, the notification is recorded.
<1>5. ASSUME doing[w] # Nothing, UNCHANGED <<ledger, world>>,
             control'.login = control.login, control'.account = control.account,
             control'.mail = "pending" => control'.notice \notin world.mailed,
             control'.mail = "none" => control.mail = "none",
             \/ control'.job \notin Live \/ control'.unknown > 0 \/ private'.result # "none"
             \/ /\ control'.job \in Live => control.job \in Live
                /\ control'.unknown = control.unknown /\ private'.result = private.result
      PROVE  Safe'
  BY <1>1, <1>5 DEF Safe
<1>6. CASE BeginOperation(w)
  <2>1. /\ UNCHANGED <<private, ledger, world>> /\ doing[w] = "claimed"
        /\ control' = control \/ control' = Becomes("stopped") \/ control' = Becomes("needs-review")
    BY <1>1, <1>6, Begins DEF BeginOperation
  <2>. QED BY <1>1, <1>5, <2>1 DEF Becomes, Safe, Live
<1>7. CASE Request(w)
  <2>1. /\ UNCHANGED <<private, ledger>> /\ doing[w] = "begun" /\ control'.unknown > 0
        /\ control'.job = control.job /\ control'.mail = control.mail
        /\ control'.notice = control.notice /\ control'.login = control.login
        /\ control'.account = control.account
        /\ world'.mailed = world.mailed /\ world'.revoked = world.revoked
    BY <1>1, <1>7 DEF Request, Recorded, Typed, WorldRecord
  <2>. QED BY <1>1, <2>1 DEF Safe
<1>8. CASE RecordUnasked(w)
  <2>1. /\ UNCHANGED <<private, ledger, world>> /\ doing[w] = "unasked" /\ control'.unknown > 0
        /\ control'.mail = control.mail /\ control'.notice = control.notice
        /\ control'.login = control.login /\ control'.account = control.account
    BY <1>8 DEF RecordUnasked, Recorded
  <2>. QED BY <1>1, <1>5, <2>1 DEF Safe
<1>9. CASE AllowCommit(w) \/ LeaveLate(w) \/ ReconciliationFails(w)
  <2>1. UNCHANGED <<control, private, ledger, world>> /\ doing[w] # Nothing
    BY <1>9 DEF AllowCommit, LeaveLate, ReconciliationFails, databaseVars, Behind
  <2>. QED BY <1>1, <1>5, <2>1 DEF Safe
<1>10. CASE CommitResult(w)
  <2>1. UNCHANGED <<control, ledger, world>> /\ private'.result # "none" /\ doing[w] # Nothing
    BY <1>10 DEF CommitResult, PrivateRecord
  <2>. QED BY <1>1, <1>5, <2>1 DEF Safe
<1>11. CASE ConfirmCost(w)
  <2>1. /\ UNCHANGED <<private, ledger, world>> /\ private.result # "none" /\ doing[w] # Nothing
        /\ control'.mail = control.mail /\ control'.notice = control.notice
        /\ control'.login = control.login /\ control'.account = control.account
    BY <1>11 DEF ConfirmCost, Recorded
  <2>. QED BY <1>1, <1>5, <2>1 DEF Safe
<1>12. CASE SettleResult(w)
  <2>1. /\ UNCHANGED <<private, ledger, world>> /\ doing[w] # Nothing /\ control' = Settled(control)
    BY <1>12 DEF SettleResult
  <2>2. /\ control'.job = "done" /\ control'.login = control.login
        /\ control'.account = control.account
        /\ \/ control'.mail = control.mail /\ control'.notice = control.notice
           \/ control.mail = "none" /\ control'.mail = "pending" /\ control'.notice = world.restores
    BY <2>1 DEF Settled
  <2>. QED BY <1>1, <1>5, <2>1, <2>2 DEF Safe, NoticesTold, Live
<1>13. CASE GiveUpOperation(w)
  <2>1. /\ UNCHANGED <<private, ledger, world>> /\ doing[w] \in Executing
        /\ \/ control' = control \/ control' = Becomes("needs-review")
           \/ control' = Becomes("retrying") \/ control' = Becomes("stopped")
    BY <1>13 DEF GiveUpOperation
  <2>2. control.job = "running"
    BY <1>1, <2>1 DEF InTheMiddle, Holds
  <2>. QED BY <1>1, <1>5, <2>1, <2>2 DEF Becomes, Safe, Live, Executing
<1>14. CASE RecordNotice(w) \/ SuppressNotice(w)
  <2>1. /\ UNCHANGED <<private, ledger, world>> /\ doing[w] # Nothing
        /\ control'.mail \in {"accepted", "unknown", "suppressed"}
        /\ control'.job = control.job /\ control'.unknown = control.unknown
        /\ control'.login = control.login /\ control'.account = control.account
    BY <1>14 DEF RecordNotice, SuppressNotice
  <2>. QED BY <1>5, <2>1
<1>15. CASE HandNotice(w)
  <2>1. /\ UNCHANGED <<control, private, ledger>> /\ doing[w] = "mail"
        /\ world'.requests = world.requests /\ world'.revoked = world.revoked
        /\ world'.mailed = world.mailed \cup {control.notice}
    BY <1>1, <1>15 DEF HandNotice, Typed, WorldRecord
  <2>2. control.mail = "sending"
    BY <1>1, <2>1 DEF InTheMiddle, Sends
  <2>. QED BY <1>1, <2>1, <2>2 DEF Safe
\* Of a free process.
<1>16. CASE ClaimForReconciliation(w)
  <2>1. /\ UNCHANGED <<private, ledger, world>> /\ Kept /\ private.result = "committed"
        /\ SettlesFromOutbox(control)
        /\ control'.mail = control.mail /\ control'.notice = control.notice
        /\ control'.login = control.login /\ control'.account = control.account
    BY <1>16 DEF ClaimForReconciliation
  <2>2. control.mail = "none" => world.mailed = {}
    BY <1>1, <2>1 DEF Safe, SettlesFromOutbox, Live
  <2>. QED BY <1>1, <2>1, <2>2 DEF Safe
<1>17. CASE AcknowledgeResult(w)
  <2>1. UNCHANGED <<doing, control, ledger, world>> /\ private'.result = "acked"
    BY <1>17 DEF AcknowledgeResult, PrivateRecord
  <2>. QED BY <1>1, <2>1 DEF Safe
<1>18. CASE SendNotice(w)
  <2>1. /\ UNCHANGED <<private, ledger, world>> /\ control.mail = "pending" /\ Kept
        /\ control' = [control EXCEPT !.mail = "sending"]
    BY <1>18 DEF SendNotice
  <2>. QED BY <1>1, <2>1 DEF Safe
<1>19. CASE ReconcileNotice(w)
  <2>1. /\ UNCHANGED <<doing, private, ledger, world>>
        /\ control' = [control EXCEPT !.mail = "unknown"] \/ control' = LookedUp("pending")
    BY <1>19 DEF ReconcileNotice
  <2>. QED BY <1>1, <2>1 DEF Safe, LookedUp
<1>20. CASE LogOut(w)
  <2>1. /\ UNCHANGED <<doing, private, ledger>> /\ control' = EndedLogin(control)
        /\ world'.requests = world.requests /\ world'.mailed = world.mailed
    BY <1>1, <1>20 DEF LogOut, Typed, WorldRecord
  <2>. QED BY <1>1, <2>1 DEF Safe, EndedLogin
<1>21. CASE DisableOwner(w) \/ BeginErasure(w)
  <2>1. /\ UNCHANGED <<doing, private, ledger>> /\ Kept
        /\ world'.requests = world.requests /\ world'.mailed = world.mailed
        /\ control'.login = "revoked" /\ control'.notice = control.notice
        /\ control'.unknown = control.unknown /\ control'.mail \in {control.mail, "suppressed"}
        /\ control'.job \in {control.job, "stopped"}
    BY <1>1, <1>21, LoginEnded DEF DisableOwner, BeginErasure, EndedLogin, Serves, Typed
  <2>. QED BY <1>1, <2>1 DEF Safe, Live
<1>22. CASE EnableOwner(w)
  <2>1. /\ UNCHANGED <<doing, private, ledger, world>> /\ Kept
        /\ control' = [control EXCEPT !.account = "active"]
    BY <1>22 DEF EnableOwner
  <2>. QED BY <1>1, <2>1 DEF Safe
<1>23. CASE KeepTombstone(w)
  <2>1. /\ UNCHANGED <<doing, private, world>> /\ ~Kept /\ Quiet
        /\ control'.login = control.login /\ control'.account = control.account
        /\ control'.notice = control.notice
        /\ control'.mail \in {control.mail, "unknown"} /\ control'.job \in {control.job, "stopped"}
    BY <1>23 DEF KeepTombstone
  <2>. QED BY <1>1, <2>1 DEF Safe, Live
<1>24. CASE EraseFiles(w)
  <2>1. /\ UNCHANGED <<doing, control, ledger>> /\ ~Kept /\ private' = NoFiles
        /\ world'.requests = world.requests /\ world'.mailed = world.mailed
        /\ world'.revoked = world.revoked
    BY <1>1, <1>24 DEF EraseFiles, Typed, WorldRecord
  <2>. QED BY <1>1, <2>1 DEF Safe
<1>25. CASE FinishErasure(w)
  <2>1. /\ UNCHANGED <<doing, private, ledger, world>> /\ ledger /\ control' = Erased(control)
    BY <1>25 DEF FinishErasure
  <2>. QED BY <1>1, <2>1, ErasedFields DEF Safe, Live
<1>. QED
  BY <1>2, <1>3, <1>4, <1>6, <1>7, <1>8, <1>9, <1>10, <1>11, <1>12, <1>13, <1>14, <1>15,
     <1>16, <1>17, <1>18, <1>19, <1>20, <1>21, <1>22, <1>23, <1>24, <1>25
  DEF Acts, WriterStep

\* What a notification is known by is kept where it is not made.
LEMMA WriterKeepsNotices ==
  ASSUME RestoreInv, NEW w \in Writers, Acts(w)
  PROVE  /\ NoticesTold' /\ NoticesKnown' /\ ReportTrue'
         /\ world'.requests <= 1 /\ ~world'.again
<1>1. /\ Safe /\ Safe' /\ InTheMiddle /\ Typed /\ Owed /\ NoticesTold /\ NoticesKnown
      /\ UNCHANGED <<saved, restorer, gate>> /\ world.requests <= 1 /\ ~world.again
  BY WriterServes, WriterKeepsSafe, WriterActs
  DEF RestoreInv, WriterFrame, operatorVars, gateVars
<1>. USE WriterServes DEF ControlRecord, Nothing
<1>2. ReportTrue'
  BY <1>1 DEF ReportTrue, RestoreInv, Exclusive, RestoreGate, Running
\* Nothing is handed over, and a notification is made only where there is none.
<1>3. ASSUME world'.requests = world.requests, world'.mailed = world.mailed,
             world'.again = world.again, world'.restores = world.restores,
             control'.mail = "none" => control.mail = "none",
             control.mail = "suppressed" => control'.mail = "suppressed",
             \/ /\ control'.notice = control.notice
                /\ control.mail = "none" => control'.mail \in {"none", "suppressed"}
             \/ control.mail = "none" /\ world.mailed = {}
      PROVE  /\ NoticesTold' /\ NoticesKnown'
             /\ world'.requests <= 1 /\ ~world'.again
  <2>1. NoticesTold'
    BY <1>1, <1>3 DEF NoticesTold
  <2>2. ASSUME ~HeldReview'
        PROVE  NoNoticeAnew' /\ Mailed(control)' /\ (saved.complete => Mailed(saved.control))'
    BY <1>1, <1>3, <2>2 DEF NoticesKnown, HeldReview, Mailed, NoNoticeAnew
  <2>3. (/\ control.mail = "none" /\ world.mailed # {}
         /\ Kept /\ private.result = "committed"
         /\ control.job = "needs-review" \/ restorer = "settle")' => FALSE
    BY <1>1 DEF Safe
  <2>. QED BY <1>1, <1>3, <2>1, <2>2, <2>3 DEF NoticesKnown
<1>4. CASE HandNotice(w)
  <2>1. /\ UNCHANGED <<control, private>> /\ world'.requests = world.requests
        /\ world'.restores = world.restores /\ doing[w] = "mail"
        /\ world'.mailed = world.mailed \cup {control.notice}
        /\ world'.again <=> world.again \/ control.notice \in world.mailed
    BY <1>1, <1>4 DEF HandNotice, Typed, WorldRecord
  <2>2. control.mail = "sending" /\ control.notice \notin world.mailed
    BY <1>1, <2>1 DEF InTheMiddle, Sends
  <2>3. NoticesTold'
    BY <1>1, <2>1, <2>2 DEF NoticesTold
  <2>4. NoticesKnown'
    <3>1. ASSUME ~HeldReview
          PROVE  world.mailed \subseteq {control.notice}
      BY <1>1, <2>2, <3>1 DEF NoticesKnown, Mailed
    <3>2. ASSUME ~HeldReview
          PROVE  world'.mailed = {control.notice}
      BY <2>1, <3>1, <3>2
    <3>. QED BY <1>1, <2>1, <2>2, <3>2 DEF NoticesKnown, NoticesTold, Mailed, NoNoticeAnew, HeldReview
  <2>. QED BY <1>1, <1>2, <2>1, <2>2, <2>3, <2>4
<1>5. CASE Request(w)
  <2>1. /\ UNCHANGED private /\ world'.requests = world.requests + 1
        /\ world'.restores = world.restores /\ doing[w] = "begun"
        /\ world'.mailed = world.mailed /\ world'.again = world.again
        /\ control'.mail = control.mail /\ control'.notice = control.notice
    BY <1>1, <1>5 DEF Request, Recorded, Typed, WorldRecord
  <2>2. world.requests = 0 /\ world.mailed = {}
    BY <1>1, <2>1 DEF InTheMiddle, Owed
  <2>. QED BY <1>1, <1>2, <2>1, <2>2 DEF NoticesTold, NoticesKnown, Mailed, NoNoticeAnew
<1>6. CASE SettleResult(w)
  <2>1. world' = world /\ doing[w] # Nothing /\ control' = Settled(control)
    BY <1>6 DEF SettleResult
  <2>2. control.mail = "none" => world.mailed = {}
    BY <1>1, <2>1 DEF Safe, Quiet
  <2>. QED BY <1>2, <1>3, <2>1, <2>2 DEF Settled
<1>7. CASE \/ Submit(w) \/ SweepOperation(w) \/ ClaimOperation(w) \/ RecordUnasked(w)
           \/ AllowCommit(w) \/ CommitResult(w) \/ ConfirmCost(w) \/ LeaveLate(w)
           \/ GiveUpOperation(w) \/ ClaimForReconciliation(w) \/ ReconciliationFails(w)
           \/ AcknowledgeResult(w)
  <2>1. world' = world /\ control'.mail = control.mail /\ control'.notice = control.notice
    BY <1>7 DEF Submit, SweepOperation, ClaimOperation, RecordUnasked, AllowCommit, CommitResult,
                ConfirmCost, LeaveLate, GiveUpOperation, ClaimForReconciliation,
                ReconciliationFails, AcknowledgeResult, Becomes, Recorded, databaseVars
  <2>. QED BY <1>2, <1>3, <2>1
<1>8. CASE BeginOperation(w)
  <2>1. world' = world /\ control'.mail = control.mail /\ control'.notice = control.notice
    BY <1>1, <1>8, Begins DEF BeginOperation, Becomes
  <2>. QED BY <1>2, <1>3, <2>1
<1>9. CASE SendNotice(w) \/ RecordNotice(w) \/ SuppressNotice(w) \/ ReconcileNotice(w)
  <2>1. world' = world /\ control'.notice = control.notice
    BY <1>9 DEF SendNotice, RecordNotice, SuppressNotice, ReconcileNotice, LookedUp
  <2>2. /\ control'.mail # "none" /\ control.mail # "none"
        /\ control.mail = "suppressed" => control'.mail = "suppressed"
    BY <1>1, <1>9 DEF SendNotice, RecordNotice, SuppressNotice, ReconcileNotice, LookedUp,
                      InTheMiddle, Sends
  <2>. QED BY <1>2, <1>3, <2>1, <2>2
<1>10. CASE \/ LogOut(w) \/ DisableOwner(w) \/ EnableOwner(w)
            \/ BeginErasure(w) \/ KeepTombstone(w) \/ EraseFiles(w) \/ FinishErasure(w)
  <2>1. /\ world'.requests = world.requests /\ world'.mailed = world.mailed
        /\ world'.again = world.again /\ world'.restores = world.restores
    BY <1>1, <1>10, LoginEnded
    DEF LogOut, DisableOwner, EnableOwner, BeginErasure, KeepTombstone, EraseFiles, FinishErasure,
        Typed, WorldRecord
  <2>2. /\ control'.notice = control.notice
        /\ \/ control'.mail \in {control.mail, "suppressed"}
           \/ control.mail = "sending" /\ control'.mail = "unknown"
    <3>1. CASE KeepTombstone(w)
      BY <3>1 DEF KeepTombstone
    <3>2. CASE FinishErasure(w)
      BY <3>2, ErasedFields DEF FinishErasure
    <3>. QED
      BY <1>10, <3>1, <3>2 DEF LogOut, DisableOwner, EnableOwner, BeginErasure, EraseFiles, EndedLogin
  <2>. QED BY <1>2, <1>3, <2>1, <2>2
<1>. QED
  BY <1>4, <1>5, <1>6, <1>7, <1>8, <1>9, <1>10 DEF Acts, WriterStep

-----------------------------------------------------------------------------
(* Every step.                                                               *)

\* Only Resume puts another state into service than the one that is there.
LEMMA SafeStep ==
  ASSUME RestoreInv, [RestoreNext]_restoreVars
  PROVE  InTheMiddle' /\ (InService => Safe)'
<1>. USE DEF gateVars, operatorVars, databaseVars, BackupGoes, BackupAt, Running, Quiet, Kept
<1>0. Typed /\ Exclusive /\ InTheMiddle /\ (InService => Safe)
  BY DEF RestoreInv
<1>1. CASE UNCHANGED restoreVars
  BY <1>0, <1>1 DEF restoreVars, InTheMiddle, Safe, InService, BackupRuns
<1>2. CASE \E w \in Writers : Acts(w)
  BY <1>2, WriterKeepsMiddle, WriterKeepsSafe
<1>3. CASE \E w \in Writers : EnterWrites(w) \/ LeaveWrites(w)
  BY <1>0, <1>3 DEF EnterWrites, LeaveWrites, InTheMiddle, Safe, InService, BackupRuns
<1>4. ASSUME NEW w \in Writers, WriterDies(w)
      PROVE  InTheMiddle' /\ (InService => Safe)'
  <2>1. /\ UNCHANGED <<gate, backup, control, private, ledger>>
        /\ UNCHANGED <<world.requests, world.mailed, world.revoked>>
        /\ \A v \in Writers : doing'[v] \in {doing[v], Nothing}
    BY <1>0, <1>4 DEF WriterDies, Typed, WorldRecord
  <2>. QED
    BY <1>0, <2>1 DEF InTheMiddle, Safe, InService, BackupRuns, Nothing, Holds, Sends, Executing
<1>5. CASE BackupStep \/ BackupDies
  <2>1. /\ UNCHANGED <<doing, control, private, ledger>>
        /\ UNCHANGED <<world.requests, world.mailed, world.revoked>>
    BY <1>0, <1>5 DEF BackupStep, BeginBackup, BackupTimesOut, FreezeForBackup, CopyControl,
                      CopyTenant, FinishBackup, BackupDies, Typed, WorldRecord
  <2>2. InService' => InService
    BY <1>0, <1>5 DEF BackupStep, BeginBackup, BackupTimesOut, FreezeForBackup, CopyControl,
                      CopyTenant, FinishBackup, BackupDies, Typed, InService, BackupRuns
  <2>. QED BY <1>0, <2>1, <2>2 DEF InTheMiddle, Safe
\* Nobody is in the middle of anything, and the state is not in service.
<1>6. ASSUME entered = {}, doing' = doing, ~InService'
      PROVE  InTheMiddle' /\ (InService => Safe)'
  BY <1>0, <1>6 DEF InTheMiddle, Exclusive, Nothing, Holds, Sends, Executing
<1>7. CASE RestoreSet
  BY <1>0, <1>6, <1>7 DEF RestoreSet, RestoredGate, AllStopped, InService, BackupRuns
<1>8. CASE RecoverInPlace \/ ReconcileAgain
  BY <1>0, <1>8
  DEF RecoverInPlace, ReconcileAgain, InTheMiddle, Safe, InService, BackupRuns
<1>9. CASE RestorerStep
  <2>1. gate'.mode = "frozen"
    BY <1>0, <1>9, RestorerActs DEF Exclusive, RestoreGate, Typed
  <2>. QED BY <1>0, <1>6, <1>9, <2>1, RestorerActs DEF InService, BackupRuns
<1>10. CASE RestorerDies
  <2>1. /\ UNCHANGED <<gate, backup, doing, control, private, ledger>>
        /\ UNCHANGED <<world.requests, world.mailed, world.revoked>>
    BY <1>0, <1>10 DEF RestorerDies, Typed, WorldRecord
  <2>. QED BY <1>0, <2>1 DEF InTheMiddle, Safe, InService, BackupRuns
<1>11. CASE AskProvider \/ BookCost
  BY <1>0, <1>6, <1>11 DEF AskProvider, BookCost, Prepares, AllStopped, InService, BackupRuns
<1>12. CASE Resume
  <2>1. PreparedOK /\ Owed /\ ReportTrue /\ RestoreGate /\ Quiet /\ restorer = "idle"
    BY <1>0, <1>12 DEF Resume, AllStopped, AfterPrepare, RestoreGate, RestoreInv, Exclusive
  <2>2. UNCHANGED <<doing, control, private, ledger, world>> /\ ~Unresolved /\ review = "clean"
    BY <1>12 DEF Resume
  <2>3. Safe
    BY <2>1, <2>2 DEF PreparedOK, ReportTrue, Unresolved, Owed, Live, Safe
  <2>. QED BY <1>0, <2>2, <2>3 DEF InTheMiddle, Safe
<1>. QED
  BY <1>1, <1>2, <1>3, <1>4, <1>5, <1>7, <1>8, <1>9, <1>10, <1>11, <1>12
  DEF RestoreNext, Acts, OperatorStep

\* A report is true of what it was written about.
LEMMA ReportStep ==
  ASSUME RestoreInv, [RestoreNext]_restoreVars
  PROVE  ReportTrue'
<1>. USE DEF gateVars, operatorVars, databaseVars, BackupGoes, BackupAt, Running, Kept, RestorerGoes
<1>0. Typed /\ Exclusive /\ ReportTrue
  BY DEF RestoreInv
<1>1. CASE UNCHANGED restoreVars
  BY <1>0, <1>1 DEF restoreVars, ReportTrue, RestoreGate
<1>2. CASE \E w \in Writers : Acts(w)
  BY <1>2, WriterKeepsNotices
<1>3. CASE \E w \in Writers : EnterWrites(w) \/ LeaveWrites(w) \/ WriterDies(w)
  BY <1>0, <1>3 DEF EnterWrites, LeaveWrites, WriterDies, ReportTrue, RestoreGate
<1>4. CASE BackupStep \/ BackupDies
  BY <1>0, <1>4 DEF BackupStep, BeginBackup, BackupTimesOut, FreezeForBackup, CopyControl,
                    CopyTenant, FinishBackup, BackupDies, Typed, Exclusive, BackupRuns,
                    ReportTrue, RestoreGate
<1>5. CASE RestoreSet \/ RecoverStoppedWriters \/ Resume
  BY <1>0, <1>5 DEF RestoreSet, RestoredGate, RecoverStoppedWriters, Resume, AllStopped,
                    ReportTrue, RestoreGate, Typed
<1>6. CASE RecoverInPlace \/ ReconcileAgain \/ RestorerDies \/ BookCost
  BY <1>0, <1>6 DEF RecoverInPlace, ReconcileAgain, RestorerDies, BookCost, Prepares, AllStopped,
                    Recorded, ReportTrue, RestoreGate, Typed, ControlRecord
<1>7. CASE PrepareRestore
  <2>1. control'.account \in {control.account, "deleted"} /\ restorer' = "files"
        /\ UNCHANGED <<gate, private, review>>
    <3>1. Prepared(control) \in ControlRecord /\ Prepared(control).account = control.account
      BY <1>0, PreparedFields DEF Typed
    <3>. QED BY <1>7, <3>1, ErasedFields DEF PrepareRestore
  <2>. QED BY <1>0, <2>1 DEF ReportTrue, RestoreGate
<1>8. CASE RemoveErasedFiles \/ AcknowledgeRestored
  BY <1>0, <1>8 DEF RemoveErasedFiles, AcknowledgeRestored, NoFiles, ReportTrue, RestoreGate,
                    Typed, PrivateRecord
<1>9. CASE TakeRestored
  BY <1>0, <1>9 DEF TakeRestored, ReportTrue, RestoreGate, Typed, ControlRecord
<1>10. CASE SettleRestored
  <2>1. control'.account = control.account
    BY <1>0, <1>10 DEF SettleRestored, Settled, Typed, ControlRecord
  <2>. QED BY <1>0, <1>10, <2>1 DEF SettleRestored, ReportTrue, RestoreGate
<1>11. CASE WriteReport
  BY <1>0, <1>11 DEF WriteReport, ResultLeft, ReportTrue, RestoreGate
<1>12. CASE AskProvider \/ SuppressUnaccepted
  BY <1>0, <1>12 DEF AskProvider, SuppressUnaccepted, LookedUp, ReportTrue, RestoreGate,
                     Typed, ControlRecord
<1>. QED
  BY <1>1, <1>2, <1>3, <1>4, <1>5, <1>6, <1>7, <1>8, <1>9, <1>10, <1>11, <1>12
  DEF RestoreNext, Acts, OperatorStep, RestorerStep

\* What prepareRestore leaves stays so until service resumes.
LEMMA PreparedStep ==
  ASSUME RestoreInv, [RestoreNext]_restoreVars
  PROVE  (AfterPrepare => PreparedOK)'
<1>. USE DEF gateVars, operatorVars, databaseVars, BackupGoes, BackupAt, Running, RestorerGoes
<1>0. Typed /\ Exclusive /\ ReportTrue /\ NoticesTold /\ (AfterPrepare => PreparedOK)
  BY DEF RestoreInv
<1>1. CASE UNCHANGED restoreVars
  BY <1>0, <1>1 DEF restoreVars, AfterPrepare, RestoreGate, PreparedOK
<1>2. ASSUME NEW w \in Writers, Acts(w)
      PROVE  ~AfterPrepare'
  BY <1>0, <1>2, WriterActs DEF WriterFrame, Exclusive, AfterPrepare, RestoreGate
<1>3. ASSUME NEW w \in Writers, EnterWrites(w) \/ LeaveWrites(w) \/ WriterDies(w)
      PROVE  (AfterPrepare => PreparedOK)'
  BY <1>0, <1>3 DEF EnterWrites, LeaveWrites, WriterDies, AfterPrepare, RestoreGate, PreparedOK,
                    Exclusive, Typed, WorldRecord
<1>4. CASE BackupStep \/ BackupDies
  BY <1>0, <1>4 DEF BackupStep, BeginBackup, BackupTimesOut, FreezeForBackup, CopyControl,
                    CopyTenant, FinishBackup, BackupDies, Typed, Exclusive, BackupRuns,
                    AfterPrepare, RestoreGate
<1>5. CASE RestoreSet \/ RecoverStoppedWriters \/ Resume
  BY <1>5 DEF RestoreSet, RestoredGate, RecoverStoppedWriters, Resume, AfterPrepare, RestoreGate
<1>6. CASE RecoverInPlace \/ ReconcileAgain
  BY <1>0, <1>6 DEF RecoverInPlace, ReconcileAgain, AllStopped, AfterPrepare, RestoreGate, PreparedOK
<1>7. CASE PrepareRestore
  <2>1. Prepared(control) \in ControlRecord
    BY <1>0, PreparedFields DEF Typed
  <2>2. PreparedOK'
    BY <1>0, <1>7, <2>1, PreparedFields, ErasedFields DEF PrepareRestore, PreparedOK, Typed, Live
  <2>. QED BY <2>2
<1>8. CASE RemoveErasedFiles \/ AcknowledgeRestored \/ WriteReport
  BY <1>0, <1>8 DEF RemoveErasedFiles, AcknowledgeRestored, WriteReport, Exclusive, AfterPrepare,
                    PreparedOK
<1>9. CASE TakeRestored \/ SettleRestored
  <2>1. PreparedOK /\ world' = world /\ ledger' = ledger /\ control \in ControlRecord
    BY <1>0, <1>9 DEF TakeRestored, SettleRestored, Exclusive, AfterPrepare, Typed
  <2>2. CASE TakeRestored
    BY <2>1, <2>2 DEF TakeRestored, PreparedOK, ControlRecord
  <2>3. CASE SettleRestored
    <3>1. /\ control'.job = "done" /\ control'.login = control.login
          /\ control'.account = control.account
          /\ \/ control'.mail = control.mail /\ control'.notice = control.notice
             \/ control.mail = "none" /\ control'.mail = "pending" /\ control'.notice = world.restores
      BY <2>1, <2>3 DEF SettleRestored, Settled, ControlRecord
    <3>. QED BY <1>0, <2>1, <3>1 DEF PreparedOK, NoticesTold, Live
  <2>. QED BY <1>9, <2>2, <2>3
<1>10. CASE RestorerDies
  <2>1. /\ UNCHANGED <<gate, review, control, private, ledger, world.mailed>> /\ restorer' = "idle"
    BY <1>0, <1>10 DEF RestorerDies, Typed, WorldRecord
  <2>. QED BY <1>0, <2>1 DEF AfterPrepare, RestoreGate, PreparedOK, ReportTrue
<1>11. CASE AskProvider \/ SuppressUnaccepted \/ BookCost
  BY <1>0, <1>11 DEF AskProvider, SuppressUnaccepted, BookCost, Prepares, AllStopped, Recorded,
                     LookedUp, AfterPrepare, RestoreGate, PreparedOK, Typed, ControlRecord
<1>. QED
  BY <1>1, <1>2, <1>3, <1>4, <1>5, <1>6, <1>7, <1>8, <1>9, <1>10, <1>11
  DEF RestoreNext, Acts, OperatorStep, RestorerStep

\* A restore makes a notification anew only of a result that the set held in review.
LEMMA NoticesStep ==
  ASSUME RestoreInv, [RestoreNext]_restoreVars
  PROVE  NoticesTold' /\ NoticesKnown' /\ world'.requests <= 1 /\ ~world'.again
<1>. USE DEF gateVars, operatorVars, databaseVars, BackupGoes, BackupAt, RestorerGoes
<1>0. /\ Typed /\ Exclusive /\ OneInstant /\ Owed /\ NoticesTold /\ NoticesKnown /\ ReportTrue
      /\ world.requests <= 1 /\ ~world.again /\ (AfterPrepare => PreparedOK)
  BY DEF RestoreInv
<1>1. CASE UNCHANGED restoreVars
  BY <1>0, <1>1 DEF restoreVars, NoticesTold, NoticesKnown, Mailed, NoNoticeAnew, HeldReview, Kept
<1>2. CASE \E w \in Writers : Acts(w)
  BY <1>2, WriterKeepsNotices
<1>3. control \in ControlRecord /\ private \in PrivateRecord /\ saved \in SetRecord
      /\ world.restores \in Nat /\ world.mailed \in SUBSET Nat
  BY <1>0, RestoreAssumption DEF Typed, WorldRecord
\* The set, and what has been handed over, stay.
<1>4. ASSUME saved' = saved, world'.mailed = world.mailed, world'.requests = world.requests,
             world'.again = world.again, world'.restores = world.restores,
             control'.notice = control.notice,
             \/ control'.mail \in {control.mail, "suppressed"}
             \/ control.mail \notin {"none", "suppressed"} /\ control'.mail # "none",
             (/\ ~HeldReview /\ control.mail = "none" /\ world.mailed # {}
              /\ Kept' /\ private'.result = "committed"
              /\ control'.job = "needs-review" \/ restorer' = "settle")
             => control'.cause = "restored"
      PROVE  NoticesTold' /\ NoticesKnown' /\ world'.requests <= 1 /\ ~world'.again
  BY <1>0, <1>4 DEF NoticesTold, NoticesKnown, Mailed, NoNoticeAnew, HeldReview
<1>. USE DEF Kept
\* Of the state only what is not asked about changes.
<1>5. ASSUME UNCHANGED <<saved, control, private>>,
             restorer' = restorer \/ restorer' # "settle",
             UNCHANGED <<world.requests, world.mailed, world.again, world.restores>>
      PROVE  NoticesTold' /\ NoticesKnown' /\ world'.requests <= 1 /\ ~world'.again
  BY <1>0, <1>4, <1>5 DEF NoticesKnown
<1>6. CASE \E w \in Writers : EnterWrites(w) \/ LeaveWrites(w) \/ WriterDies(w)
  BY <1>0, <1>5, <1>6 DEF EnterWrites, LeaveWrites, WriterDies, Typed, WorldRecord
<1>7. CASE \/ BeginBackup \/ BackupTimesOut \/ FreezeForBackup \/ CopyControl \/ FinishBackup
           \/ BackupDies
  BY <1>0, <1>5, <1>7 DEF BeginBackup, BackupTimesOut, FreezeForBackup, CopyControl, FinishBackup,
                          BackupDies, Typed, WorldRecord
<1>8. CASE CopyTenant
  <2>1. /\ saved' = [control |-> control, private |-> private, complete |-> TRUE]
        /\ UNCHANGED <<control, private, restorer, world>> /\ restorer = "idle"
    BY <1>0, <1>8 DEF CopyTenant, OneInstant, Exclusive, BackupRuns, Typed, SetRecord
  <2>2. ~saved.complete
    BY <1>0, <1>8 DEF CopyTenant, OneInstant
  <2>3. ~HeldReview
    BY <2>2 DEF HeldReview
  <2>. QED BY <1>0, <2>1, <2>3 DEF NoticesTold, NoticesKnown, Mailed, NoNoticeAnew, HeldReview
<1>9. CASE RestoreSet
  <2>1. /\ control' = saved.control /\ private' = saved.private /\ saved' = saved /\ saved.complete
        /\ UNCHANGED <<world.requests, world.mailed, world.again>>
        /\ world'.restores = world.restores + 1 /\ restorer' = "recover"
    BY <1>0, <1>9 DEF RestoreSet, Typed, WorldRecord
  <2>2. world'.restores \notin world'.mailed
    BY <1>0, <1>3, <2>1 DEF Owed
  <2>. QED BY <1>0, <2>1, <2>2 DEF NoticesTold, NoticesKnown, Mailed, NoNoticeAnew, HeldReview
<1>10. CASE \/ RecoverInPlace \/ ReconcileAgain \/ RecoverStoppedWriters \/ WriteReport
            \/ RestorerDies \/ Resume
  BY <1>0, <1>5, <1>10 DEF RecoverInPlace, ReconcileAgain, RecoverStoppedWriters, WriteReport,
                           RestorerDies, Resume, Typed, WorldRecord
<1>11. CASE PrepareRestore
  <2>1. /\ UNCHANGED <<private, saved, world>> /\ restorer' = "files"
        /\ control' = Prepared(control) \/ control' = Erased(Prepared(control))
    BY <1>11 DEF PrepareRestore
  <2>2. Prepared(control) \in ControlRecord
    BY <1>3, PreparedFields
  <2>3. CASE control' = Erased(Prepared(control))
    <3>1. control'.mail = "suppressed" /\ control'.account = "deleted" /\ control'.notice = control.notice
      BY <1>3, <2>2, <2>3, PreparedFields, ErasedFields
    <3>. QED BY <1>4, <2>1, <3>1
  <2>4. CASE control' = Prepared(control)
    <3>1. /\ control'.notice = control.notice /\ control'.account = control.account
          /\ \/ control'.mail \in {control.mail, "suppressed"}
             \/ control.mail = "sending" /\ control'.mail # "none"
      BY <1>3, <2>4, PreparedFields
    <3>2. control'.job = "needs-review" =>
            \/ control'.cause = "restored"
            \/ control.job = "needs-review" /\ control.cause # "restored"
      BY <1>3, <2>4, PreparedFields
    <3>. QED BY <1>0, <1>4, <2>1, <3>1, <3>2 DEF NoticesKnown
  <2>. QED BY <2>1, <2>3, <2>4
<1>12. CASE RemoveErasedFiles \/ AcknowledgeRestored
  <2>1. /\ UNCHANGED <<control, saved, world>> /\ restorer' = "outbox"
        /\ private'.result = "committed" => private' = private
    BY <1>3, <1>12 DEF RemoveErasedFiles, AcknowledgeRestored, NoFiles, PrivateRecord
  <2>. QED BY <1>0, <1>4, <2>1 DEF NoticesKnown
<1>13. CASE TakeRestored
  <2>1. /\ UNCHANGED <<private, saved, world>> /\ Kept /\ private.result = "committed"
        /\ control'.mail = control.mail /\ control'.notice = control.notice
        /\ control'.cause = control.cause /\ SettlesFromOutbox(control)
    BY <1>3, <1>13 DEF TakeRestored, ControlRecord
  <2>2. control.job = "needs-review"
    BY <1>0, <1>13, <2>1
    DEF TakeRestored, SettlesFromOutbox, Exclusive, AfterPrepare, PreparedOK, Live
  <2>. QED BY <1>0, <1>4, <2>1, <2>2 DEF NoticesKnown
<1>14. CASE SettleRestored
  <2>1. /\ UNCHANGED <<private, saved, world>> /\ restorer = "settle" /\ restorer' = "outbox"
        /\ control' = Settled(control) /\ control'.job = "done"
    BY <1>3, <1>14 DEF SettleRestored, Settled, ControlRecord
  <2>2. CASE control'.mail = control.mail /\ control'.notice = control.notice
    BY <1>4, <2>1, <2>2
  <2>3. CASE ~(control'.mail = control.mail /\ control'.notice = control.notice)
    <3>1. /\ control.mail = "none" /\ control.cause # "restored"
          /\ control'.mail = "pending" /\ control'.notice = world.restores
      BY <1>3, <2>1, <2>3 DEF Settled, ControlRecord
    <3>2. ~HeldReview => world.mailed = {}
      BY <1>0, <2>1, <3>1 DEF NoticesKnown, ReportTrue
    <3>. QED BY <1>0, <2>1, <3>1, <3>2 DEF NoticesTold, NoticesKnown, Mailed, NoNoticeAnew, HeldReview
  <2>. QED BY <2>2, <2>3
<1>15. CASE AskProvider \/ SuppressUnaccepted \/ BookCost
  <2>1. /\ UNCHANGED <<private, saved, world>> /\ restorer' \in {restorer, "idle", "external"}
        /\ control'.notice = control.notice /\ control'.job = control.job
        /\ control'.cause = control.cause /\ control'.account = control.account
    BY <1>3, <1>15 DEF AskProvider, SuppressUnaccepted, BookCost, LookedUp, Recorded, ControlRecord
  <2>2. \/ control'.mail \in {control.mail, "suppressed"}
        \/ control.mail = "unknown" /\ control'.mail # "none"
    BY <1>3, <1>15 DEF AskProvider, SuppressUnaccepted, BookCost, LookedUp, Recorded, ControlRecord
  <2>. QED BY <1>0, <1>4, <2>1, <2>2 DEF NoticesKnown
<1>. QED
  BY <1>1, <1>2, <1>6, <1>7, <1>8, <1>9, <1>10, <1>11, <1>12, <1>13, <1>14, <1>15
  DEF RestoreNext, Acts, BackupStep, OperatorStep, RestorerStep

-----------------------------------------------------------------------------
(* The theorems.                                                             *)

LEMMA InitRestored == RestoreInit => RestoreInv
<1>. SUFFICES ASSUME RestoreInit
              PROVE  RestoreInv
  OBVIOUS
<1>. USE DEF RestoreInit, NewControl, NewPrivate, NoSet, Running, BackupRuns
<1>1. Typed
  <2>1. control \in ControlRecord /\ private \in PrivateRecord
    BY DEF ControlRecord, PrivateRecord, JobStates, MailStates
  <2>2. NoSet \in SetRecord
    BY <2>1 DEF SetRecord
  <2>3. world \in WorldRecord
    BY RestoreAssumption DEF WorldRecord
  <2>4. backup \in [pc: BackupPCs, set: SetRecord, instant: SetRecord] /\ saved \in SetRecord
    BY <2>2 DEF BackupPCs
  <2>5. doing \in [Writers -> InHand] /\ entered \subseteq Writers
    BY DEF InHand
  <2>. QED BY <2>1, <2>3, <2>4, <2>5 DEF Typed
<1>2. Exclusive /\ OneInstant /\ InTheMiddle
  BY DEF Exclusive, OneInstant, SetIsOneInstant, InTheMiddle, Nothing, Holds, Sends, Executing
<1>3. Owed /\ NoticesTold /\ NoticesKnown
  BY DEF Owed, OwedToWorld, NoticesTold, NoticesKnown, NoNoticeAnew, Mailed
<1>4. Safe /\ ~AfterPrepare /\ ReportTrue
  BY DEF Safe, AfterPrepare, RestoreGate, ReportTrue
<1>. QED BY <1>1, <1>2, <1>3, <1>4 DEF RestoreInv

LEMMA RestoreStep == RestoreInv /\ [RestoreNext]_restoreVars => RestoreInv'
<1>. SUFFICES ASSUME RestoreInv, [RestoreNext]_restoreVars
              PROVE  RestoreInv'
  OBVIOUS
<1>1. Typed /\ Exclusive /\ OneInstant /\ Owed /\ InTheMiddle /\ ReportTrue
  BY DEF RestoreInv
<1>2. Typed' /\ Exclusive' /\ OneInstant' /\ Owed'
  BY <1>1, TypedStep, ExclusiveStep, InstantStep, OwedStep
<1>3. InTheMiddle' /\ (InService => Safe)' /\ ReportTrue' /\ (AfterPrepare => PreparedOK)'
  BY SafeStep, ReportStep, PreparedStep
<1>4. NoticesTold' /\ NoticesKnown' /\ (world.requests <= 1 /\ ~world.again)'
  BY NoticesStep
<1>. QED BY <1>2, <1>3, <1>4 DEF RestoreInv

LEMMA RestoreInvHolds == RestoreSpec => []RestoreInv
  BY InitRestored, RestoreStep, PTL DEF RestoreSpec

\* Types, with the bounds of what has happened outside.
THEOREM RestoreTyped == RestoreSpec => []RestoreTypeOK
<1>1. RestoreInv => RestoreTypeOK
  <2>. SUFFICES ASSUME RestoreInv
                PROVE  RestoreTypeOK
    OBVIOUS
  <2>1. Typed /\ world.mailed \in SUBSET (0 .. MaxRestores)
    BY RestoreAssumption DEF RestoreInv, Typed, Owed, WorldRecord
  <2>2. world \in [requests: Nat, mailed: SUBSET (0 .. MaxRestores), again: BOOLEAN,
                   revoked: BOOLEAN, erased: BOOLEAN,
                   deaths: 0 .. MaxDeaths, restores: 0 .. MaxRestores]
    BY <2>1 DEF Typed, WorldRecord
  <2>. QED
    BY <2>1, <2>2 DEF Typed, RestoreTypeOK, ControlRecord, PrivateRecord, JobStates, MailStates,
                      InHand, BackupPCs
<1>. QED BY <1>1, RestoreInvHolds, PTL

\* A complete recovery set is the state of both databases at one instant,
\* however many writers there are and whoever dies while it is copied.
THEOREM SetsAreConsistent == RestoreSpec => []SetIsOneInstant
<1>1. RestoreInv => SetIsOneInstant
  BY DEF RestoreInv, OneInstant
<1>. QED BY <1>1, RestoreInvHolds, PTL

\* However old the state is that is restored, and however often, and whoever
\* stalls or is overtaken, an operation asks the provider once and no notification
\* is handed over twice; and one is made anew only of a result whose operation the
\* recovery set holds in review for another reason than a restore.
THEOREM DoneOnce == RestoreSpec => []NothingRepeated
<1>1. RestoreInv => NothingRepeated
  BY DEF RestoreInv, NothingRepeated, NoticesKnown
<1>. QED BY <1>1, RestoreInvHolds, PTL

\* No deleted account and no ended session is in service after a restore.
THEOREM StaysErased == RestoreSpec => []NothingRevived
<1>1. RestoreInv => NothingRevived
  BY DEF RestoreInv, NothingRevived, InService, Safe, Owed, Running, Kept
<1>. QED BY <1>1, RestoreInvHolds, PTL
=============================================================================
