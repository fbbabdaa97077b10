------------------------- MODULE HostedWorkers_proofs -------------------------
(* Theorems about HostedWorkers, for any number of workers, operations,       *)
(* tenants and periods, with their proofs.  Every step of the protocol is a   *)
(* step of HostedJobs or leaves the ledger alone, so what HostedJobs_proofs   *)
(* shows of the ledger is used here as it stands.                             *)
EXTENDS HostedWorkers, HostedJobs_proofs

-----------------------------------------------------------------------------
(* The inductive invariant.                                                  *)

IsBusy(w) == worker[w] # Idle
Forfeit(j) == StatusOf(j) \in {"deleting", "deleted"}

\* The copies of a worker lag behind what they were copied from, and a worker of
\* the reconciliation pass has no local lease.
Copies(w) ==
  LET j == Op(w) IN
  /\ worker[w].fence <= job[j].fence /\ worker[w].fence <= MaxFence
  /\ worker[w].localFence <= localLease[j].fence
  /\ worker[w].fence > 0 => job[j].attempt > 0
  /\ worker[w].reconciling => /\ worker[w].localFence = 0 /\ worker[w].opened
                              /\ worker[w].pc \in {"reclaiming", "settling", "finishing", "acking"}
  /\ worker[w].fence = 0 => worker[w].reconciling /\ worker[w].pc \in {"reclaiming", "acking"}
  /\ worker[w].pc = "reclaiming" => worker[w].fence = 0
  /\ worker[w].localFence > 0 => worker[w].opened

LocalPCs == {"examine", "blocked", "recording", "calling", "called", "committing"}
SettlePCs == {"confirming", "settling", "finishing", "acking", "reclaiming"}

\* An open runtime keeps the tenant's directory where it is.
Inside(w) ==
  LET j == Op(w) IN
  /\ worker[w].opened => deletion[TenantOf[j]] = "none"
  /\ worker[w].pc \in LocalPCs => worker[w].localFence > 0
  /\ worker[w].pc \in SettlePCs => worker[w].opened /\ Committed(j)
  /\ worker[w].pc = "opened" => worker[w].opened
  /\ worker[w].pc = "acking" => j \in inbox \/ Forfeit(j)
  /\ worker[w].pc = "confirming" => ConfirmsUsage

\* Before its commit a worker that holds one of the two leases finds no result,
\* and one that may commit finds the units held.
Alone(w) ==
  LET j == Op(w) IN
  /\ worker[w].pc \in LocalPCs
       /\ (LocalFenceValid(j, worker[w].localFence) \/ HoldsFence(j, worker[w].fence))
       => ~Committed(j)
  /\ worker[w].pc = "committing" /\ LocalFenceValid(j, worker[w].localFence) => Held(j)

\* A worker that looked for usage before its call saw every call there was.
Calls(w) ==
  LET j == Op(w) IN
  /\ worker[w].pc \in {"recording", "calling"} /\ HoldsFence(j, worker[w].fence) => called[j] = {}
  /\ worker[w].pc \in {"calling", "called", "committing", "confirming"} =>
       worker[w].fence \in unknownUsage[j]

\* What a worker in the catch block has read still holds, as long as it could
\* give the units back.
ReliableReceipt == "receipt" \notin FailingReads
ReliableUsage == ~ConfirmsUsage /\ "usage" \notin FailingReads

MayRelease(w) == HoldsFence(Op(w), worker[w].fence) /\ worker[w].localFence > 0

Reads(w) ==
  LET j == Op(w) IN
  MayRelease(w) =>
    /\ worker[w].pc \in {"counting", "resolving"} /\ ReliableReceipt /\ ~worker[w].committed =>
         ~Committed(j) \/ Forfeit(j)
    /\ worker[w].pc = "resolving" /\ ReliableUsage /\ ~worker[w].uncertain => ~Committed(j)

\* Two workers on one operation have different fences, and one that was
\* authorized to commit before the other took over has the older local lease.
Apart(v, w) ==
  /\ worker[v].fence > 0 => worker[v].fence # worker[w].fence
  /\ worker[v].localFence > 0 => worker[v].localFence # worker[w].localFence
  /\ worker[v].pc = "committing" /\ worker[w].fence > worker[v].fence /\ worker[w].localFence > 0
       => worker[w].localFence > worker[v].localFence

Sound(j) ==
  /\ outbox[j] # "none" => Committed(j)
  /\ outbox[j] = "acknowledged" => j \in inbox \/ Forfeit(j)
  /\ Committed(j) => job[j].attempt > 0
  /\ called[j] \subseteq unknownUsage[j]
  /\ \A a, b \in called[j] : a = b
  /\ ~ConfirmsUsage /\ Committed(j) => unknownUsage[j] # {}

\* A job that runs was claimed, and only the deletion of its tenant makes its
\* generation an old one.
Claimant(j) ==
  /\ job[j].state = "none" => job[j].attempt = 0
  /\ job[j].state # "none" => GenerationCurrent(j) \/ Forfeit(j)
  /\ job[j].state = "running" => job[j].fence \in 1 .. MaxFence /\ job[j].attempt > 0

\* Units are given back only where there is no receipt, if the catch block can
\* tell (see UnverifiedIsNotAbsent).
NoFalseRelease ==
  ReliableReceipt \/ ReliableUsage =>
    \A j \in Jobs : reservation[j].state = "released" /\ Committed(j) => Forfeit(j)

Closings == \A t \in Tenants : deletion[t] # "none" => tenant[t].status \in {"deleting", "deleted"}

ProtocolInv ==
  /\ \A w \in Workers : IsBusy(w) =>
       Copies(w) /\ Inside(w) /\ Alone(w) /\ Calls(w) /\ Reads(w)
  /\ \A v, w \in Workers : v # w /\ IsBusy(v) /\ IsBusy(w) /\ Op(v) = Op(w) => Apart(v, w)
  /\ \A j \in Jobs : Sound(j) /\ Claimant(j)
  /\ Closings /\ NoFalseRelease

WorkersInv == WorkersTypeOK /\ LedgerInv /\ ProtocolInv

-----------------------------------------------------------------------------
(* What any step of the ledger does to one job.                              *)

GoesOn(old, new) ==
  /\ old.attempt <= new.attempt /\ old.fence <= new.fence /\ new.generation = old.generation
  /\ new.state = "none" <=> old.state = "none"
  /\ new.state = "none" => new.attempt = old.attempt
  /\ new.state = "running" =>
       \/ old.state = "running" /\ new.fence = old.fence
       \/ new.fence > old.fence /\ new.fence <= MaxFence /\ new.attempt > 0

\* Every record the ledger writes for a job goes on from the one before it.
LEMMA RecordsGoOn ==
  ASSUME NEW old \in JobRecord, old.state # "none"
  PROVE  /\ GoesOn(old, old)
         /\ \A state \in JobStates \ {"none", "running"}, kind \in {"other", "receipt-reconciliation"} :
              GoesOn(old, [ClearLease(old) EXCEPT !.state = state, !.errorKind = kind])
         /\ GoesOn(old, [ClearLease(old) EXCEPT !.cancelled = TRUE,
                                                 !.errorKind = "receipt-reconciliation"])
         /\ GoesOn(old, [ClearLease(old) EXCEPT !.state = "cancelled", !.fence = @ + 1, !.errorKind = "other"])
         /\ GoesOn(old, [old EXCEPT !.state = "queued"])
         /\ GoesOn(old, [old EXCEPT !.cancelled = TRUE])
         /\ GoesOn(old, [old EXCEPT !.lease = "lapsed"])
         /\ \A kind \in {"other", "receipt-reconciliation"} :
              old.fence < MaxFence => GoesOn(old, Claimed(old, kind))
<1>. USE DEF GoesOn, ClearLease, JobRecord, JobStates
<1>0. MaxFence \in Nat
  BY ConstantsAssumption
<1>1. GoesOn(old, old)
  OBVIOUS
<1>2. ASSUME NEW state \in JobStates \ {"none", "running"}, NEW kind \in {"other", "receipt-reconciliation"}
      PROVE  GoesOn(old, [ClearLease(old) EXCEPT !.state = state, !.errorKind = kind])
  OBVIOUS
<1>3. GoesOn(old, [ClearLease(old) EXCEPT !.cancelled = TRUE,
                                          !.errorKind = "receipt-reconciliation"])
  OBVIOUS
<1>4. GoesOn(old, [ClearLease(old) EXCEPT !.state = "cancelled", !.fence = @ + 1, !.errorKind = "other"])
  OBVIOUS
<1>5. GoesOn(old, [old EXCEPT !.state = "queued"])
  OBVIOUS
<1>6. GoesOn(old, [old EXCEPT !.cancelled = TRUE])
  OBVIOUS
<1>7. GoesOn(old, [old EXCEPT !.lease = "lapsed"])
  OBVIOUS
<1>8. ASSUME NEW kind \in {"other", "receipt-reconciliation"}, old.fence < MaxFence
      PROVE  GoesOn(old, Claimed(old, kind))
  BY <1>0, <1>8 DEF Claimed
<1>. QED BY <1>1, <1>2, <1>3, <1>4, <1>5, <1>6, <1>7, <1>8

LEMMA CancelGoesOn ==
  ASSUME JobsTypeOK, NEW k \in Jobs
  PROVE  GoesOn(job[k], CancelledJob(k)) /\ GoesOn(job[k], SweptJob(k))
<1>1. job[k] \in JobRecord
  BY DEF JobsTypeOK
<1>2. /\ Pending(k) => job[k].state # "none"
      /\ Stale(k) => Pending(k)
      /\ GoesOn(job[k], job[k])
  BY <1>1 DEF Pending, Stale, GoesOn, JobRecord
<1>3. GoesOn(job[k], CancelledJob(k))
  <2>1. "cancelled" \in JobStates \ {"none", "running"}
    BY DEF JobStates
  <2>. HIDE DEF GoesOn
  <2>. QED BY <1>1, <1>2, <2>1, RecordsGoOn DEF CancelledJob
<1>4. GoesOn(job[k], SweptJob(k))
  <2>1. "needs-review" \in JobStates \ {"none", "running"}
    BY DEF JobStates
  <2>. QED BY <1>1, <1>2, <1>3, <2>1, RecordsGoOn DEF SweptJob
<1>. QED BY <1>3, <1>4

Accepted(k) ==
  /\ job[k].state = "none" /\ job'[k].state = "preparing" /\ job'[k].fence = 0
  /\ job'[k].attempt = 0 /\ job'[k].generation = tenant[TenantOf[k]].generation
  /\ tenant[TenantOf[k]].status = "active" /\ UNCHANGED tenant

LEMMA PrepareAccepts ==
  ASSUME JobsTypeOK, NEW j \in Jobs, PrepareReservedJob(j)
  PROVE  Accepted(j)
<1>. DEFINE fresh == [NoJob EXCEPT !.state = "preparing",
                                   !.generation = tenant[TenantOf[j]].generation]
<1>1. /\ fresh.state = "preparing" /\ fresh.fence = 0 /\ fresh.attempt = 0
      /\ fresh.generation = tenant[TenantOf[j]].generation
  BY DEF NoJob
<1>2. job' = [job EXCEPT ![j] = fresh]
  BY DEF PrepareReservedJob
<1>. HIDE DEF fresh
<1>3. job'[j] = fresh
  BY <1>2 DEF JobsTypeOK
<1>. QED BY <1>1, <1>3 DEF PrepareReservedJob, Accepted, tenancyVars

LEMMA JobsGoOn ==
  ASSUME LedgerInv, [JobsNext]_jobsVars, NEW k \in Jobs
  PROVE  GoesOn(job[k], job'[k]) \/ Accepted(k)
<1>0. JobsTypeOK /\ \A j \in Jobs : job[j] \in JobRecord
  BY DEF LedgerInv, JobsTypeOK
<1>1. job'[k] = job[k] => GoesOn(job[k], job'[k])
  BY <1>0 DEF GoesOn, JobRecord
<1>2. \A S : CancelPending(S) => GoesOn(job[k], job'[k])
  BY <1>0, <1>1, CancelGoesOn DEF CancelPending
<1>3. ASSUME NEW j \in Jobs, NEW record, job' = [job EXCEPT ![j] = record], GoesOn(job[j], record)
      PROVE  GoesOn(job[k], job'[k])
  BY <1>0, <1>1, <1>3 DEF JobsTypeOK
<1>4. job' = [j \in Jobs |-> SweptJob(j)] => GoesOn(job[k], job'[k])
  BY <1>0, CancelGoesOn
<1>5. ASSUME NEW j \in Jobs, JobStep(j)
      PROVE  GoesOn(job[k], job'[k]) \/ Accepted(k)
  <2>1. CASE PrepareReservedJob(j)
    <3>1. job' = [job EXCEPT ![j] = [NoJob EXCEPT !.state = "preparing",
                                                  !.generation = tenant[TenantOf[j]].generation]]
      BY <2>1 DEF PrepareReservedJob
    <3>2. CASE k # j
      BY <1>0, <1>1, <3>1, <3>2 DEF JobsTypeOK
    <3>3. CASE k = j
      BY <1>0, <2>1, <3>3, PrepareAccepts
    <3>. QED BY <3>2, <3>3
  <2>2. CASE ActivatePreparedJob(j)
    BY <1>0, <1>2, <1>3, <2>2, RecordsGoOn DEF ActivatePreparedJob
  <2>3. CASE CancelPendingJob(j)
    BY <1>2, <2>3 DEF CancelPendingJob
  <2>4. CASE RequestCancellation(j)
    BY <1>0, <1>2, <1>3, <2>4, RecordsGoOn DEF RequestCancellation
  <2>5. CASE ClaimJob(j)
    <3>1. CASE k # j
      BY <1>0, <2>5, <3>1, CancelGoesOn DEF ClaimJob
    <3>2. CASE k = j
      <4>1. SweptJob(j).state \in {"queued", "running"}
        BY <2>5 DEF ClaimJob, Claimable, Waiting
      <4>2. SweptJob(j) = job[j]
        BY <1>0, <4>1, SweptFields
      <4>3. PICK kind \in {"other", "receipt-reconciliation"} : job'[j] = Claimed(job[j], kind)
        BY <1>0, <2>5, <4>2 DEF ClaimJob, JobRecord
      <4>4. job[j].state # "none"
        BY <4>1, <4>2
      <4>. QED BY <1>0, <2>5, <3>2, <4>3, <4>4, RecordsGoOn DEF ClaimJob
    <3>. QED BY <3>1, <3>2
  <2>6. CASE ClaimJobForReconciliation(j)
    BY <1>0, <1>3, <2>6, RecordsGoOn DEF ClaimJobForReconciliation, Reconcilable
  <2>7. CASE LeaseLapses(j)
    BY <1>0, <1>3, <2>7, RecordsGoOn DEF LeaseLapses, Leased
  <2>8. CASE DeadlinePasses(j)
    BY <1>1, <2>8 DEF DeadlinePasses, ledgerVars
  <2>. QED BY <1>5, <2>1, <2>2, <2>3, <2>4, <2>5, <2>6, <2>7, <2>8 DEF JobStep
<1>6. ASSUME NEW j \in Jobs, NEW fence \in Fences, AttemptStep(j, fence)
      PROVE  GoesOn(job[k], job'[k])
  <2>1. PICK state \in {"succeeded", "partial", "queued", "failed", "cancelled", "needs-review"} :
          job' = [job EXCEPT ![j] = [ClearLease(@) EXCEPT !.state = state, !.errorKind = "other"]]
    BY <1>6 DEF AttemptStep, FinishJobAndSettle, RetryJob, StopJob, Results
  <2>2. state \in JobStates \ {"none", "running"}
    BY DEF JobStates
  <2>3. job' = [job EXCEPT ![j] = [ClearLease(job[j]) EXCEPT !.state = state, !.errorKind = "other"]]
    BY <1>0, <2>1 DEF JobsTypeOK
  <2>4. job[j].state # "none"
    <3>1. job[j].state = "none" => reservation[j].state = "none"
      BY DEF LedgerInv, JobAgrees
    <3>. QED BY <1>6, <3>1 DEF AttemptStep, FinishJobAndSettle, Settleable, RetryJob, Retryable,
                               ValidFence, Leased, StopJob, HoldsFence
  <2>. QED BY <1>0, <1>3, <2>2, <2>3, <2>4, RecordsGoOn
<1>7. ASSUME NEW t \in Tenants, TenantStep(t)
      PROVE  GoesOn(job[k], job'[k])
  <2>1. CASE SuspendTenant(t)
    BY <1>2, <2>1 DEF SuspendTenant
  <2>2. CASE ResumeTenant(t) \/ \E status \in {"active", "disabled"} : SetUserStatus(t, status)
    BY <1>1, <2>2 DEF ResumeTenant, SetUserStatus, ledgerVars
  <2>3. CASE BeginDeletion(t)
    BY <1>0, <1>1, <2>3, CancelGoesOn, RecordsGoOn DEF BeginDeletion
  <2>4. CASE CompleteDeletion(t)
    BY <1>0, <1>1, <2>4, RecordsGoOn DEF CompleteDeletion
  <2>. QED BY <1>7, <2>1, <2>2, <2>3, <2>4 DEF TenantStep
<1>8. CASE ClaimNothing
  BY <1>4, <1>8 DEF ClaimNothing
<1>9. CASE \E p \in Periods : RevokePeriod(p) \/ PeriodTurns(p)
  BY <1>1, <1>2, <1>9 DEF RevokePeriod, PeriodTurns, ledgerVars
<1>10. CASE UNCHANGED jobsVars
  BY <1>1, <1>10 DEF jobsVars, ledgerVars
<1>. QED BY <1>5, <1>6, <1>7, <1>8, <1>9, <1>10 DEF JobsNext

\* What any step of the ledger does to a tenant and to the inbox.
TenantStays(t) ==
  /\ tenant[t].status \in {"deleting", "deleted"} => tenant'[t].status \in {"deleting", "deleted"}
  /\ \/ tenant'[t].generation = tenant[t].generation
     \/ tenant'[t].status \in {"deleting", "deleted"}

LEMMA TenantGoesOn ==
  ASSUME LedgerInv, [JobsNext]_jobsVars
  PROVE  /\ \A t \in Tenants : TenantStays(t)
         /\ \A k \in Jobs : /\ Forfeit(k) => Forfeit(k)'
                            /\ TenantStays(TenantOf[k])
                            /\ k \in inbox => k \in inbox' \/ Forfeit(k)'
<1>0. /\ TenantOf \in [Jobs -> Tenants]
      /\ tenant \in [Tenants -> [status: TenantStates, generation: Nat]]
  BY ConstantsAssumption DEF ConstantsAssumption, LedgerInv, JobsTypeOK
<1>. DEFINE Kept == \A k \in Jobs : k \in inbox => k \in inbox' \/ Forfeit(k)'
            Stay == \A t \in Tenants : TenantStays(t)
<1>1. UNCHANGED tenant /\ inbox \subseteq inbox' => Stay /\ Kept
  BY DEF TenantStays
<1>2. ASSUME NEW t \in Tenants, TenantStep(t)
      PROVE  Stay /\ Kept
  <2>1. CASE SuspendTenant(t)
    BY <1>0, <2>1 DEF SuspendTenant, TenantStays
  <2>2. CASE ResumeTenant(t)
    BY <1>0, <2>2 DEF ResumeTenant, TenantStays, ledgerVars
  <2>3. CASE \E status \in {"active", "disabled"} : SetUserStatus(t, status)
    BY <1>1, <2>3 DEF SetUserStatus, ledgerVars
  <2>4. CASE BeginDeletion(t)
    BY <1>0, <2>4 DEF BeginDeletion, TenantStays
  <2>5. CASE CompleteDeletion(t)
    <3>1. tenant' = [tenant EXCEPT ![t].status = "deleted"] /\ inbox' = inbox \ JobsOf(t)
      BY <2>5 DEF CompleteDeletion
    <3>2. tenant'[t].status = "deleted"
      BY <1>0, <3>1
    <3>3. Kept
      BY <3>1, <3>2 DEF JobsOf, Forfeit, StatusOf
    <3>. QED BY <1>0, <3>1, <3>2, <3>3 DEF TenantStays
  <2>. QED BY <1>2, <2>1, <2>2, <2>3, <2>4, <2>5 DEF TenantStep
<1>3. ASSUME NEW j \in Jobs, JobStep(j)
      PROVE  UNCHANGED <<tenant, inbox>>
  BY <1>3 DEF JobStep, PrepareReservedJob, ActivatePreparedJob, CancelPendingJob,
              RequestCancellation, ClaimJob, ClaimJobForReconciliation, LeaseLapses,
              DeadlinePasses, tenancyVars, ledgerVars
<1>4. ASSUME NEW j \in Jobs, NEW fence \in Fences, AttemptStep(j, fence)
      PROVE  UNCHANGED tenant /\ inbox \subseteq inbox'
  BY <1>4 DEF AttemptStep, FinishJobAndSettle, RetryJob, StopJob, tenancyVars
<1>5. ClaimNothing => UNCHANGED <<tenant, inbox>>
  BY DEF ClaimNothing, tenancyVars
<1>6. ASSUME NEW p \in Periods, RevokePeriod(p) \/ PeriodTurns(p)
      PROVE  UNCHANGED <<tenant, inbox>>
  BY <1>6 DEF RevokePeriod, PeriodTurns, ledgerVars
<1>7. UNCHANGED jobsVars => UNCHANGED <<tenant, inbox>>
  BY DEF jobsVars, tenancyVars, ledgerVars
<1>8. Stay /\ Kept
  BY <1>1, <1>2, <1>3, <1>4, <1>5, <1>6, <1>7 DEF JobsNext
<1>9. Stay => \A k \in Jobs : (Forfeit(k) => Forfeit(k)') /\ TenantStays(TenantOf[k])
  BY <1>0 DEF TenantStays, Forfeit, StatusOf
<1>. QED BY <1>8, <1>9

-----------------------------------------------------------------------------
(* Every step of the protocol is a step of the ledger or leaves it alone.    *)

LEMMA BusyFields ==
  ASSUME WorkersTypeOK, NEW w \in Workers
  PROVE  /\ worker[w].pc # "idle" => IsBusy(w)
         /\ IsBusy(w) => /\ worker[w] \in Busy /\ Op(w) \in Jobs /\ worker[w].pc \in PCs
                         /\ worker[w].fence \in Nat /\ worker[w].localFence \in Nat
                         /\ TenantOf[Op(w)] \in Tenants
<1>1. worker[w] \in {Idle} \cup Busy
  BY DEF WorkersTypeOK
<1>2. Idle.pc = "idle"
  BY DEF Idle
<1>. QED BY <1>1, <1>2, ConstantsAssumption DEF IsBusy, Busy, Op, ConstantsAssumption

LEMMA AttemptStopIsStep ==
  ASSUME WorkersInv, NEW w \in Workers, IsBusy(w), NEW stopped \in BOOLEAN,
         NEW outcome \in {"failed", "cancelled", "needs-review"},
         AttemptStop(w, outcome, stopped)
  PROVE  [JobsNext]_jobsVars
<1>1. Op(w) \in Jobs /\ MaxFence \in Nat
  BY BusyFields, ConstantsAssumption DEF WorkersInv, ConstantsAssumption
<1>2. CASE HoldsFence(Op(w), worker[w].fence)
  <2>1. Claimant(Op(w))
    BY <1>1 DEF WorkersInv, ProtocolInv
  <2>2. worker[w].fence \in Fences
    BY <1>1, <1>2, <2>1 DEF Claimant, HoldsFence, Fences
  <2>3. StopJob(Op(w), worker[w].fence, outcome, stopped)
    BY <1>2 DEF AttemptStop
  <2>. QED BY <1>1, <2>2, <2>3 DEF JobsNext, AttemptStep
<1>3. CASE ~HoldsFence(Op(w), worker[w].fence)
  BY <1>3 DEF AttemptStop
<1>. QED BY <1>2, <1>3

LEMMA IsLedgerStep ==
  ASSUME WorkersInv, [WorkersNext]_workersVars
  PROVE  [JobsNext]_jobsVars
<1>0. WorkersTypeOK /\ MaxFence \in Nat
  BY ConstantsAssumption DEF WorkersInv, ConstantsAssumption
<1>1. ASSUME NEW w \in Workers, WorkerStep(w)
      PROVE  [JobsNext]_jobsVars
  <2>1. CASE CheckTenant(w) \/ OpenRuntime(w) \/ ClaimLocal(w) \/ ReadUsage(w) \/ RecordUsage(w)
             \/ CallProvider(w) \/ AuthorizeCommit(w) \/ HeartbeatLost(w) \/ Commit(w)
             \/ ConfirmUsage(w) \/ ReadOutbox(w) \/ Acknowledge(w) \/ InspectReceipt(w)
             \/ InspectUsage(w)
    BY <2>1 DEF CheckTenant, OpenRuntime, ClaimLocal, ReadUsage, RecordUsage, CallProvider,
                AuthorizeCommit, HeartbeatLost, Commit, ConfirmUsage, ReadOutbox, Acknowledge,
                InspectReceipt, InspectUsage
  <2>2. CASE StopWithoutReceipt(w)
    <3>1. IsBusy(w)
      BY <1>0, <2>2, BusyFields DEF StopWithoutReceipt, At
    <3>2. (IF worker[w].stop = "cancelled" THEN "cancelled" ELSE "failed")
            \in {"failed", "cancelled", "needs-review"}
      OBVIOUS
    <3>. QED BY <2>2, <3>1, <3>2, AttemptStopIsStep DEF StopWithoutReceipt
  <2>3. CASE StopForReview(w)
    <3>1. IsBusy(w)
      BY <1>0, <2>3, BusyFields DEF StopForReview, At
    <3>. QED BY <2>3, <3>1, AttemptStopIsStep DEF StopForReview
  <2>4. CASE Finish(w)
    <3>1. IsBusy(w) /\ Op(w) \in Jobs /\ worker[w].fence \in Nat
      BY <1>0, <2>4, BusyFields DEF Finish, At
    <3>2. worker[w].fence \in Fences /\ Committed(Op(w))
      <4>1. Copies(w) /\ Inside(w) /\ worker[w].pc = "finishing"
        BY <2>4, <3>1 DEF WorkersInv, ProtocolInv, Finish, At
      <4>. QED BY <1>0, <3>1, <4>1 DEF Copies, Inside, SettlePCs, Fences
    <3>3. receipt[Op(w)] \in Results
      BY <1>0, <3>1, <3>2, WorkersAssumption
      DEF WorkersAssumption, WorkersTypeOK, ExecutionTypeOK, Committed, Results
    <3>4. CASE FinishJobAndSettle(Op(w), worker[w].fence, receipt[Op(w)])
      BY <3>1, <3>2, <3>3, <3>4 DEF JobsNext, AttemptStep
    <3>. QED BY <2>4, <3>4 DEF Finish
  <2>5. CASE Resolve(w)
    <3>1. IsBusy(w) /\ Op(w) \in Jobs
      BY <1>0, <2>5, BusyFields DEF Resolve, At
    <3>2. ASSUME NEW known \in BOOLEAN, RetryJob(Op(w), worker[w].fence, known)
          PROVE  [JobsNext]_jobsVars
      <4>1. Claimant(Op(w))
        BY <3>1 DEF WorkersInv, ProtocolInv
      <4>2. worker[w].fence \in Fences
        BY <1>0, <3>1, <3>2, <4>1
        DEF RetryJob, Retryable, ValidFence, Leased, Claimant, Fences
      <4>. QED BY <3>1, <3>2, <4>2 DEF JobsNext, AttemptStep
    <3>3. UsageKnown(Op(w)) \in BOOLEAN /\ (worker[w].localFence > 0) \in BOOLEAN
      BY DEF UsageKnown
    <3>4. (IF worker[w].localFence > 0 THEN "failed" ELSE "needs-review")
            \in {"failed", "cancelled", "needs-review"}
      OBVIOUS
    <3>. QED BY <2>5, <3>1, <3>2, <3>3, <3>4, AttemptStopIsStep DEF Resolve
  <2>6. CASE Reclaim(w)
    <3>1. Op(w) \in Jobs
      BY <1>0, <2>6, BusyFields DEF Reclaim, At
    <3>. QED BY <2>6, <3>1 DEF Reclaim, JobsNext, JobStep
  <2>. QED BY <1>1, <2>1, <2>2, <2>3, <2>4, <2>5, <2>6 DEF WorkerStep
<1>2. ASSUME NEW w \in Workers, Claim(w) \/ Fault(w) \/ Crash(w)
      PROVE  [JobsNext]_jobsVars
  BY <1>2 DEF Claim, Fault, Crash, JobsNext, JobStep
<1>3. ASSUME NEW w \in Workers, NEW j \in Jobs, ReconcileEvent(w, j)
      PROVE  [JobsNext]_jobsVars
  BY <1>3 DEF ReconcileEvent
<1>4. ASSUME NEW j \in Jobs, SubmitStep(j) \/ Change(j) \/ Lapse(j) \/ LocalLapse(j)
      PROVE  [JobsNext]_jobsVars
  BY <1>4 DEF SubmitStep, Prepare, PersistRequest, Activate, ExpirePreparing, Change, Lapse,
              LocalLapse, JobsNext, JobStep
<1>5. ASSUME NEW j \in Jobs, StopDeleting(j)
      PROVE  [JobsNext]_jobsVars
  <2>1. Claimant(j) /\ job[j].state = "running"
    BY <1>5 DEF WorkersInv, ProtocolInv, StopDeleting
  <2>2. job[j].fence \in Fences
    BY <1>0, <2>1 DEF Claimant, Fences
  <2>. QED BY <1>5, <2>2 DEF StopDeleting, JobsNext, AttemptStep
<1>6. ASSUME NEW t \in Tenants, DeletionStep(t) \/ Suspension(t) \/ OwnerDisabled(t)
                                \/ Administration(t)
      PROVE  [JobsNext]_jobsVars
  BY <1>6 DEF DeletionStep, DrainTenant, RemoveTenant, FinishDeletion, Suspension,
              OwnerDisabled, Administration, JobsNext, TenantStep
<1>7. ASSUME NEW p \in Periods, PeriodChange(p)
      PROVE  [JobsNext]_jobsVars
  BY <1>7 DEF PeriodChange, JobsNext
<1>8. Sweep \/ RecoverStoppedWriters \/ UNCHANGED workersVars => [JobsNext]_jobsVars
  BY DEF Sweep, RecoverStoppedWriters, workersVars, JobsNext
<1>. QED BY <1>1, <1>2, <1>3, <1>4, <1>5, <1>6, <1>7, <1>8 DEF WorkersNext

-----------------------------------------------------------------------------
(* Where a step takes a worker.                                              *)

OthersStay(w) ==
  /\ worker' \in [Workers -> {Idle} \cup Busy]
  /\ \A v \in Workers \ {w} : worker'[v] = worker[v]

Leaves(w) == OthersStay(w) /\ worker'[w] = Idle

Goes(w, pc) ==
  /\ OthersStay(w)
  /\ worker'[w] \in Busy /\ worker'[w].pc = pc
  /\ worker'[w].op = worker[w].op /\ worker'[w].fence = worker[w].fence
  /\ worker'[w].localFence = worker[w].localFence
  /\ worker'[w].reconciling = worker[w].reconciling

Keeps(w) ==
  /\ worker'[w].opened = worker[w].opened
  /\ worker'[w].committed = worker[w].committed
  /\ worker'[w].uncertain = worker[w].uncertain

Thrown(w) ==
  \/ Leaves(w)
  \/ Goes(w, "caught") /\ Keeps(w) /\ ~worker[w].reconciling

LEMMA OnlyMoves ==
  ASSUME WorkersTypeOK, NEW w \in Workers, NEW new \in {Idle} \cup Busy,
         worker' = [worker EXCEPT ![w] = new]
  PROVE  OthersStay(w) /\ worker'[w] = new
<1>1. worker \in [Workers -> {Idle} \cup Busy]
  BY DEF WorkersTypeOK
<1>. QED BY <1>1 DEF OthersStay

LEMMA GotoGoes ==
  ASSUME WorkersTypeOK, NEW w \in Workers, IsBusy(w), NEW pc \in PCs, Goto(w, pc)
  PROVE  Goes(w, pc) /\ Keeps(w)
<1>. DEFINE new == [worker[w] EXCEPT !.pc = pc]
<1>1. worker \in [Workers -> {Idle} \cup Busy] /\ worker[w] \in Busy
  BY BusyFields DEF WorkersTypeOK
<1>2. worker' = [worker EXCEPT ![w] = new]
  BY DEF Goto
<1>3. /\ new \in Busy /\ new.pc = pc /\ new.op = worker[w].op /\ new.fence = worker[w].fence
      /\ new.localFence = worker[w].localFence /\ new.reconciling = worker[w].reconciling
      /\ new.opened = worker[w].opened /\ new.committed = worker[w].committed
      /\ new.uncertain = worker[w].uncertain
  BY <1>1 DEF Busy
<1>. HIDE DEF new
<1>. QED BY <1>2, <1>3, OnlyMoves DEF Goes, Keeps

LEMMA DoneLeaves ==
  ASSUME WorkersTypeOK, NEW w \in Workers, Done(w)
  PROVE  Leaves(w)
<1>1. worker \in [Workers -> {Idle} \cup Busy] /\ worker' = [worker EXCEPT ![w] = Idle]
  BY DEF WorkersTypeOK, Done
<1>. QED BY <1>1 DEF Leaves, OthersStay

LEMMA ThrowThrows ==
  ASSUME WorkersTypeOK, NEW w \in Workers, IsBusy(w), Throw(w)
  PROVE  Thrown(w)
<1>1. CASE worker[w].reconciling
  BY <1>1, DoneLeaves DEF Throw, Thrown
<1>2. CASE ~worker[w].reconciling
  <2>1. "caught" \in PCs
    BY DEF PCs
  <2>. QED BY <1>2, <2>1, GotoGoes DEF Throw, Thrown
<1>. QED BY <1>1, <1>2

\* The moves that change more of a worker than where it is.
LEMMA OpenGoes ==
  ASSUME WorkersTypeOK, NEW w \in Workers, IsBusy(w),
         worker' = [worker EXCEPT ![w].pc = "opened", ![w].opened = TRUE]
  PROVE  Goes(w, "opened") /\ worker'[w].opened = TRUE
<1>. DEFINE new == [worker[w] EXCEPT !.pc = "opened", !.opened = TRUE]
<1>1. worker \in [Workers -> {Idle} \cup Busy] /\ worker[w] \in Busy
  BY BusyFields DEF WorkersTypeOK
<1>2. worker' = [worker EXCEPT ![w] = new]
  BY <1>1
<1>3. /\ new \in Busy /\ new.pc = "opened" /\ new.op = worker[w].op
      /\ new.fence = worker[w].fence /\ new.localFence = worker[w].localFence
      /\ new.reconciling = worker[w].reconciling /\ new.opened = TRUE
  BY <1>1 DEF Busy, PCs
<1>. HIDE DEF new
<1>. QED BY <1>2, <1>3, OnlyMoves DEF Goes

LEMMA LocalClaimGoes ==
  ASSUME WorkersTypeOK, NEW w \in Workers, IsBusy(w), NEW fence \in Nat,
         worker' = [worker EXCEPT ![w].pc = "examine", ![w].localFence = fence]
  PROVE  /\ OthersStay(w) /\ worker'[w] \in Busy /\ worker'[w].pc = "examine"
         /\ worker'[w].op = worker[w].op /\ worker'[w].fence = worker[w].fence
         /\ worker'[w].localFence = fence /\ worker'[w].reconciling = worker[w].reconciling
         /\ worker'[w].opened = worker[w].opened
<1>. DEFINE new == [worker[w] EXCEPT !.pc = "examine", !.localFence = fence]
<1>1. worker \in [Workers -> {Idle} \cup Busy] /\ worker[w] \in Busy
  BY BusyFields DEF WorkersTypeOK
<1>2. worker' = [worker EXCEPT ![w] = new]
  BY <1>1
<1>3. /\ new \in Busy /\ new.pc = "examine" /\ new.op = worker[w].op
      /\ new.fence = worker[w].fence /\ new.localFence = fence
      /\ new.reconciling = worker[w].reconciling /\ new.opened = worker[w].opened
  BY <1>1 DEF Busy, PCs
<1>. HIDE DEF new
<1>. QED BY <1>2, <1>3, OnlyMoves

LEMMA ReceiptReadGoes ==
  ASSUME WorkersTypeOK, NEW w \in Workers, IsBusy(w), NEW answer \in BOOLEAN,
         worker' = [worker EXCEPT ![w].pc = "counting", ![w].committed = answer]
  PROVE  /\ Goes(w, "counting") /\ worker'[w].opened = worker[w].opened
         /\ worker'[w].committed = answer
<1>. DEFINE new == [worker[w] EXCEPT !.pc = "counting", !.committed = answer]
<1>1. worker \in [Workers -> {Idle} \cup Busy] /\ worker[w] \in Busy
  BY BusyFields DEF WorkersTypeOK
<1>2. worker' = [worker EXCEPT ![w] = new]
  BY <1>1
<1>3. /\ new \in Busy /\ new.pc = "counting" /\ new.op = worker[w].op
      /\ new.fence = worker[w].fence /\ new.localFence = worker[w].localFence
      /\ new.reconciling = worker[w].reconciling /\ new.opened = worker[w].opened
      /\ new.committed = answer
  BY <1>1 DEF Busy, PCs
<1>. HIDE DEF new
<1>. QED BY <1>2, <1>3, OnlyMoves DEF Goes

LEMMA UsageReadGoes ==
  ASSUME WorkersTypeOK, NEW w \in Workers, IsBusy(w), NEW answer \in BOOLEAN,
         worker' = [worker EXCEPT ![w].pc = "resolving", ![w].uncertain = answer]
  PROVE  /\ Goes(w, "resolving") /\ worker'[w].opened = worker[w].opened
         /\ worker'[w].committed = worker[w].committed /\ worker'[w].uncertain = answer
<1>. DEFINE new == [worker[w] EXCEPT !.pc = "resolving", !.uncertain = answer]
<1>1. worker \in [Workers -> {Idle} \cup Busy] /\ worker[w] \in Busy
  BY BusyFields DEF WorkersTypeOK
<1>2. worker' = [worker EXCEPT ![w] = new]
  BY <1>1
<1>3. /\ new \in Busy /\ new.pc = "resolving" /\ new.op = worker[w].op
      /\ new.fence = worker[w].fence /\ new.localFence = worker[w].localFence
      /\ new.reconciling = worker[w].reconciling /\ new.opened = worker[w].opened
      /\ new.committed = worker[w].committed /\ new.uncertain = answer
  BY <1>1 DEF Busy, PCs
<1>. HIDE DEF new
<1>. QED BY <1>2, <1>3, OnlyMoves DEF Goes

LEMMA FaultGoes ==
  ASSUME WorkersTypeOK, NEW w \in Workers, IsBusy(w), NEW answer \in BOOLEAN,
         worker' = [worker EXCEPT ![w].pc = "caught", ![w].permanent = answer]
  PROVE  Goes(w, "caught") /\ Keeps(w)
<1>. DEFINE new == [worker[w] EXCEPT !.pc = "caught", !.permanent = answer]
<1>1. worker \in [Workers -> {Idle} \cup Busy] /\ worker[w] \in Busy
  BY BusyFields DEF WorkersTypeOK
<1>2. worker' = [worker EXCEPT ![w] = new]
  BY <1>1
<1>3. /\ new \in Busy /\ new.pc = "caught" /\ new.op = worker[w].op
      /\ new.fence = worker[w].fence /\ new.localFence = worker[w].localFence
      /\ new.reconciling = worker[w].reconciling /\ new.opened = worker[w].opened
      /\ new.committed = worker[w].committed /\ new.uncertain = worker[w].uncertain
  BY <1>1 DEF Busy, PCs
<1>. HIDE DEF new
<1>. QED BY <1>2, <1>3, OnlyMoves DEF Goes, Keeps

LEMMA ReclaimGoes ==
  ASSUME WorkersTypeOK, NEW w \in Workers, IsBusy(w), NEW fence \in Nat,
         worker' = [worker EXCEPT ![w].pc = "settling", ![w].fence = fence]
  PROVE  /\ OthersStay(w) /\ worker'[w] \in Busy /\ worker'[w].pc = "settling"
         /\ worker'[w].op = worker[w].op /\ worker'[w].fence = fence
         /\ worker'[w].localFence = worker[w].localFence
         /\ worker'[w].reconciling = worker[w].reconciling
         /\ worker'[w].opened = worker[w].opened
<1>. DEFINE new == [worker[w] EXCEPT !.pc = "settling", !.fence = fence]
<1>1. worker \in [Workers -> {Idle} \cup Busy] /\ worker[w] \in Busy
  BY BusyFields DEF WorkersTypeOK
<1>2. worker' = [worker EXCEPT ![w] = new]
  BY <1>1
<1>3. /\ new \in Busy /\ new.pc = "settling" /\ new.op = worker[w].op
      /\ new.fence = fence /\ new.localFence = worker[w].localFence
      /\ new.reconciling = worker[w].reconciling /\ new.opened = worker[w].opened
  BY <1>1 DEF Busy, PCs
<1>. HIDE DEF new
<1>. QED BY <1>2, <1>3, OnlyMoves

LEMMA StartGoes ==
  ASSUME WorkersTypeOK, NEW w \in Workers, NEW j \in Jobs, NEW fence \in Nat,
         NEW stop \in {"no", "failed", "cancelled"},
         worker' = [worker EXCEPT ![w] = Started(j, fence, stop)]
  PROVE  /\ OthersStay(w) /\ worker'[w] \in Busy /\ worker'[w].pc = "claimed"
         /\ worker'[w].op = j /\ worker'[w].fence = fence
         /\ worker'[w].localFence = 0 /\ worker'[w].reconciling = FALSE
         /\ worker'[w].opened = FALSE
<1>. DEFINE new == Started(j, fence, stop)
<1>1. worker' = [worker EXCEPT ![w] = new]
  OBVIOUS
<1>2. /\ new \in Busy /\ new.pc = "claimed" /\ new.op = j
      /\ new.fence = fence /\ new.localFence = 0
      /\ new.reconciling = FALSE /\ new.opened = FALSE
  BY DEF Busy, PCs, Started
<1>. HIDE DEF new
<1>. QED BY <1>1, <1>2, OnlyMoves

LEMMA EventGoes ==
  ASSUME WorkersTypeOK, NEW w \in Workers, NEW j \in Jobs, NEW pc \in {"acking", "reclaiming"},
         worker' = [worker EXCEPT ![w] = [Started(j, 0, "no") EXCEPT
                      !.pc = pc, !.opened = TRUE, !.reconciling = TRUE]]
  PROVE  /\ OthersStay(w) /\ worker'[w] \in Busy /\ worker'[w].pc = pc
         /\ worker'[w].op = j /\ worker'[w].fence = 0
         /\ worker'[w].localFence = 0 /\ worker'[w].reconciling = TRUE
         /\ worker'[w].opened = TRUE
<1>. DEFINE new == [Started(j, 0, "no") EXCEPT !.pc = pc, !.opened = TRUE, !.reconciling = TRUE]
<1>1. worker' = [worker EXCEPT ![w] = new]
  OBVIOUS
<1>2. /\ new \in Busy /\ new.pc = pc /\ new.op = j
      /\ new.fence = 0 /\ new.localFence = 0
      /\ new.reconciling = TRUE /\ new.opened = TRUE
  BY DEF Busy, PCs, Started
<1>. HIDE DEF new
<1>. QED BY <1>1, <1>2, OnlyMoves

LEMMA ExecutionTyped ==
  ASSUME WorkersInv, [WorkersNext]_workersVars
  PROVE  ExecutionTypeOK'
<1>0. ExecutionTypeOK /\ Operations = Jobs /\ WorkersTypeOK
  BY WorkersAssumption DEF WorkersInv, WorkersTypeOK, WorkersAssumption
<1>1. UNCHANGED executionVars => ExecutionTypeOK'
  BY <1>0 DEF ExecutionTypeOK, executionVars
<1>2. ASSUME NEW o \in Operations, PutExecutionRequest(o)
      PROVE  ExecutionTypeOK'
  BY <1>0, <1>2 DEF PutExecutionRequest, ExecutionTypeOK
<1>3. ASSUME NEW o \in Operations, ClaimExecution(o)
      PROVE  ExecutionTypeOK'
  BY <1>0, <1>3 DEF ClaimExecution, ExecutionTypeOK
<1>4. ASSUME NEW o \in Operations, NEW fence, NEW r \in Results, CommitResult(o, fence, r)
      PROVE  ExecutionTypeOK'
  BY <1>0, <1>4 DEF CommitResult, ExecutionTypeOK, Results
<1>5. ASSUME NEW o \in Operations, AckOutbox(o)
      PROVE  ExecutionTypeOK'
  BY <1>0, <1>5 DEF AckOutbox, ExecutionTypeOK
<1>6. ASSUME NEW o \in Operations, LocalLeaseLapses(o)
      PROVE  ExecutionTypeOK'
  BY <1>0, <1>6 DEF LocalLeaseLapses, ExecutionTypeOK
<1>7. ASSUME NEW S, RemoveRows(S)
      PROVE  ExecutionTypeOK'
  BY <1>0, <1>7 DEF RemoveRows, ExecutionTypeOK, NoLocalLease
<1>8. ASSUME NEW w \in Workers, WorkerStep(w)
      PROVE  ExecutionTypeOK'
  <2>1. worker[w].pc # "idle" => Op(w) \in Operations
    BY <1>0, BusyFields
  <2>2. CASE ClaimLocal(w)
    BY <1>1, <1>3, <2>1, <2>2 DEF ClaimLocal, At
  <2>3. CASE Commit(w)
    BY <1>1, <1>4, <2>1, <2>3 DEF Commit, At
  <2>4. CASE Acknowledge(w)
    BY <1>1, <1>5, <2>1, <2>4 DEF Acknowledge, At
  <2>5. CASE UNCHANGED executionVars
    BY <1>1, <2>5
  <2>. QED BY <1>8, <2>2, <2>3, <2>4, <2>5
           DEF WorkerStep, CheckTenant, OpenRuntime, StopWithoutReceipt, ReadUsage,
               StopForReview, RecordUsage, CallProvider, AuthorizeCommit, HeartbeatLost,
               ConfirmUsage, ReadOutbox, Finish, InspectReceipt, InspectUsage, Resolve, Reclaim
<1>9. ASSUME NEW j \in Jobs, PersistRequest(j) \/ LocalLapse(j)
      PROVE  ExecutionTypeOK'
  BY <1>0, <1>2, <1>6, <1>9 DEF PersistRequest, LocalLapse
<1>10. ASSUME NEW t \in Tenants, RemoveTenant(t)
       PROVE  ExecutionTypeOK'
  BY <1>7, <1>10 DEF RemoveTenant
<1>11. \/ \E w \in Workers : WorkerStep(w)
       \/ \E j \in Jobs : PersistRequest(j) \/ LocalLapse(j)
       \/ \E t \in Tenants : RemoveTenant(t)
       \/ UNCHANGED executionVars
  BY DEF WorkersNext, Claim, Fault, Crash, ReconcileEvent, SubmitStep, Prepare, Activate,
         ExpirePreparing, StopDeleting, Change, Lapse, DeletionStep, DrainTenant,
         FinishDeletion, Suspension, OwnerDisabled, Administration, PeriodChange, Sweep,
         RecoverStoppedWriters, workersVars
<1>. QED BY <1>1, <1>8, <1>9, <1>10, <1>11

\* Where each action of a worker takes it.
WhereTo(w) ==
  LET j == Op(w) IN
  /\ CheckTenant(w) => (Goes(w, "checked") /\ Keeps(w)) \/ Thrown(w)
  /\ OpenRuntime(w) =>
       \/ RuntimeOpen(TenantOf[j]) /\ Goes(w, "opened") /\ worker'[w].opened = TRUE
       \/ Thrown(w)
  /\ ClaimLocal(w) =>
       \/ Thrown(w) /\ UNCHANGED executionVars
       \/ Committed(j) /\ Goes(w, "settling") /\ Keeps(w) /\ UNCHANGED executionVars
       \/ /\ ClaimExecution(j) /\ OthersStay(w) /\ worker'[w] \in Busy
          /\ worker'[w].pc = "examine" /\ worker'[w].op = j
          /\ worker'[w].fence = worker[w].fence /\ worker'[w].localFence = localLease'[j].fence
          /\ worker'[w].reconciling = worker[w].reconciling
          /\ worker'[w].opened = worker[w].opened
  /\ ReadUsage(w) =>
       Goes(w, IF UsageKnown(j) THEN "recording" ELSE "blocked") /\ Keeps(w)
  /\ RecordUsage(w) => Goes(w, "calling") /\ Keeps(w)
  /\ CallProvider(w) =>
       \/ Thrown(w) /\ UNCHANGED called
       \/ /\ AttemptCurrent(w) /\ Goes(w, "called") /\ Keeps(w)
          /\ called' = [called EXCEPT ![j] = @ \cup {worker[w].fence}]
  /\ AuthorizeCommit(w) =>
       Thrown(w) \/ (AttemptCurrent(w) /\ Goes(w, "committing") /\ Keeps(w))
  /\ Commit(w) =>
       \/ Thrown(w) /\ UNCHANGED executionVars
       \/ /\ Committed(j) \/ LocalFenceValid(j, worker[w].localFence)
          /\ \E r \in Results : CommitResult(j, worker[w].localFence, r)
          /\ Goes(w, IF ConfirmsUsage THEN "confirming" ELSE "settling") /\ Keeps(w)
  /\ ConfirmUsage(w) => Goes(w, "settling") /\ Keeps(w)
  /\ ReadOutbox(w) => (Goes(w, "finishing") /\ Keeps(w)) \/ Thrown(w)
  /\ Finish(w) =>
       \/ Goes(w, "acking") /\ Keeps(w) /\ j \in inbox /\ UNCHANGED jobsVars
       \/ Goes(w, "acking") /\ Keeps(w) /\ FinishJobAndSettle(j, worker[w].fence, receipt[j])
       \/ Thrown(w) /\ UNCHANGED jobsVars
  /\ Acknowledge(w) => Thrown(w)
  /\ InspectReceipt(w) =>
       /\ Goes(w, "counting") /\ worker'[w].opened = worker[w].opened
       /\ worker'[w].committed
            \in Answers("receipt", worker[w].opened /\ Readable(j) /\ Committed(j))
  /\ InspectUsage(w) =>
       /\ Goes(w, "resolving") /\ worker'[w].opened = worker[w].opened
       /\ worker'[w].committed = worker[w].committed
       /\ worker'[w].uncertain \in Answers("usage", ~UsageKnown(j))
  /\ Reclaim(w) =>
       \/ /\ ClaimJobForReconciliation(j) /\ OthersStay(w) /\ worker'[w] \in Busy
          /\ worker'[w].pc = "settling" /\ worker'[w].op = j
          /\ worker'[w].fence = job'[j].fence
          /\ worker'[w].localFence = worker[w].localFence
          /\ worker'[w].reconciling = worker[w].reconciling
          /\ worker'[w].opened = worker[w].opened
       \/ Leaves(w) /\ UNCHANGED jobsVars
  /\ StopWithoutReceipt(w) \/ StopForReview(w) \/ HeartbeatLost(w) \/ Resolve(w) => Leaves(w)

LEMMA StepMoves ==
  ASSUME WorkersInv, JobsTypeOK', ExecutionTypeOK', NEW w \in Workers, WorkerStep(w)
  PROVE  IsBusy(w) /\ WhereTo(w)
<1>0. WorkersTypeOK /\ IsBusy(w) /\ Op(w) \in Jobs
  <2>1. WorkersTypeOK
    BY DEF WorkersInv
  <2>2. IsBusy(w)
    BY <2>1, BusyFields
    DEF WorkerStep, CheckTenant, OpenRuntime, ClaimLocal, StopWithoutReceipt, ReadUsage,
        StopForReview, RecordUsage, CallProvider, AuthorizeCommit, HeartbeatLost, Commit,
        ConfirmUsage, ReadOutbox, Finish, Acknowledge, InspectReceipt, InspectUsage, Resolve,
        Reclaim, At, IsIdle, IsBusy
  <2>. QED BY <2>1, <2>2, BusyFields
<1>1. CheckTenant(w) => (Goes(w, "checked") /\ Keeps(w)) \/ Thrown(w)
  BY <1>0, GotoGoes, ThrowThrows DEF CheckTenant, PCs
<1>2. OpenRuntime(w) =>
        \/ RuntimeOpen(TenantOf[Op(w)]) /\ Goes(w, "opened") /\ worker'[w].opened = TRUE
        \/ Thrown(w)
  BY <1>0, OpenGoes, ThrowThrows DEF OpenRuntime
<1>3. ASSUME ClaimLocal(w)
      PROVE  \/ Thrown(w) /\ UNCHANGED executionVars
             \/ /\ Committed(Op(w)) /\ Goes(w, "settling") /\ Keeps(w)
                /\ UNCHANGED executionVars
             \/ /\ ClaimExecution(Op(w)) /\ OthersStay(w) /\ worker'[w] \in Busy
                /\ worker'[w].pc = "examine" /\ worker'[w].op = Op(w)
                /\ worker'[w].fence = worker[w].fence
                /\ worker'[w].localFence = localLease'[Op(w)].fence
                /\ worker'[w].reconciling = worker[w].reconciling
                /\ worker'[w].opened = worker[w].opened
  <2>1. localLease'[Op(w)].fence \in Nat
    BY <1>0, WorkersAssumption DEF WorkersAssumption, ExecutionTypeOK
  <2>2. "settling" \in PCs
    BY DEF PCs
  <2>3. CASE Throw(w) /\ UNCHANGED executionVars
    BY <1>0, <2>3, ThrowThrows
  <2>4. CASE Committed(Op(w)) /\ Goto(w, "settling") /\ UNCHANGED executionVars
    BY <1>0, <2>2, <2>4, GotoGoes
  <2>5. CASE /\ ClaimExecution(Op(w))
             /\ worker' = [worker EXCEPT ![w].pc = "examine",
                                         ![w].localFence = localLease'[Op(w)].fence]
    BY <1>0, <2>1, <2>5, LocalClaimGoes DEF Op
  <2>. QED BY <1>3, <2>3, <2>4, <2>5 DEF ClaimLocal
<1>4. ReadUsage(w) =>
        Goes(w, IF UsageKnown(Op(w)) THEN "recording" ELSE "blocked") /\ Keeps(w)
  <2>1. (IF UsageKnown(Op(w)) THEN "recording" ELSE "blocked") \in PCs
    BY DEF PCs
  <2>. QED BY <1>0, <2>1, GotoGoes DEF ReadUsage
<1>5. RecordUsage(w) => Goes(w, "calling") /\ Keeps(w)
  BY <1>0, GotoGoes DEF RecordUsage, PCs
<1>6. CallProvider(w) =>
        \/ Thrown(w) /\ UNCHANGED called
        \/ /\ AttemptCurrent(w) /\ Goes(w, "called") /\ Keeps(w)
           /\ called' = [called EXCEPT ![Op(w)] = @ \cup {worker[w].fence}]
  BY <1>0, GotoGoes, ThrowThrows, DoneLeaves DEF CallProvider, Refused, Thrown, PCs
<1>7. AuthorizeCommit(w) =>
        Thrown(w) \/ (AttemptCurrent(w) /\ Goes(w, "committing") /\ Keeps(w))
  <2>1. Refused(w) => Thrown(w)
    BY <1>0, ThrowThrows, DoneLeaves DEF Refused, Thrown
  <2>2. Goto(w, "committing") => Goes(w, "committing") /\ Keeps(w)
    BY <1>0, GotoGoes DEF PCs
  <2>. QED BY <2>1, <2>2 DEF AuthorizeCommit
<1>8. Commit(w) =>
        \/ Thrown(w) /\ UNCHANGED executionVars
        \/ /\ Committed(Op(w)) \/ LocalFenceValid(Op(w), worker[w].localFence)
           /\ \E r \in Results : CommitResult(Op(w), worker[w].localFence, r)
           /\ Goes(w, IF ConfirmsUsage THEN "confirming" ELSE "settling") /\ Keeps(w)
  <2>1. (IF ConfirmsUsage THEN "confirming" ELSE "settling") \in PCs
    BY DEF PCs
  <2>. QED BY <1>0, <2>1, GotoGoes, ThrowThrows DEF Commit
<1>9. ConfirmUsage(w) => Goes(w, "settling") /\ Keeps(w)
  BY <1>0, GotoGoes DEF ConfirmUsage, PCs
<1>10. ReadOutbox(w) => (Goes(w, "finishing") /\ Keeps(w)) \/ Thrown(w)
  BY <1>0, GotoGoes, ThrowThrows DEF ReadOutbox, PCs
<1>11. Finish(w) =>
         \/ Goes(w, "acking") /\ Keeps(w) /\ Op(w) \in inbox /\ UNCHANGED jobsVars
         \/ /\ Goes(w, "acking") /\ Keeps(w)
            /\ FinishJobAndSettle(Op(w), worker[w].fence, receipt[Op(w)])
         \/ Thrown(w) /\ UNCHANGED jobsVars
  BY <1>0, GotoGoes, ThrowThrows, DoneLeaves DEF Finish, Thrown, PCs
<1>12. Acknowledge(w) => Thrown(w)
  BY <1>0, ThrowThrows, DoneLeaves DEF Acknowledge, Thrown
<1>13. ASSUME InspectReceipt(w)
       PROVE  /\ Goes(w, "counting") /\ worker'[w].opened = worker[w].opened
              /\ worker'[w].committed
                   \in Answers("receipt",
                               worker[w].opened /\ Readable(Op(w)) /\ Committed(Op(w)))
  <2>1. PICK answer \in Answers("receipt",
                                worker[w].opened /\ Readable(Op(w)) /\ Committed(Op(w))) :
          worker' = [worker EXCEPT ![w].pc = "counting", ![w].committed = answer]
    BY <1>13 DEF InspectReceipt
  <2>2. answer \in BOOLEAN
    BY DEF Answers
  <2>. QED BY <1>0, <2>1, <2>2, ReceiptReadGoes
<1>14. ASSUME InspectUsage(w)
       PROVE  /\ Goes(w, "resolving") /\ worker'[w].opened = worker[w].opened
              /\ worker'[w].committed = worker[w].committed
              /\ worker'[w].uncertain \in Answers("usage", ~UsageKnown(Op(w)))
  <2>1. PICK answer \in Answers("usage", ~UsageKnown(Op(w))) :
          worker' = [worker EXCEPT ![w].pc = "resolving", ![w].uncertain = answer]
    BY <1>14 DEF InspectUsage
  <2>2. answer \in BOOLEAN
    BY DEF Answers
  <2>. QED BY <1>0, <2>1, <2>2, UsageReadGoes
<1>15. ASSUME Reclaim(w)
       PROVE  \/ /\ ClaimJobForReconciliation(Op(w)) /\ OthersStay(w) /\ worker'[w] \in Busy
                 /\ worker'[w].pc = "settling" /\ worker'[w].op = Op(w)
                 /\ worker'[w].fence = job'[Op(w)].fence
                 /\ worker'[w].localFence = worker[w].localFence
                 /\ worker'[w].reconciling = worker[w].reconciling
                 /\ worker'[w].opened = worker[w].opened
              \/ Leaves(w) /\ UNCHANGED jobsVars
  <2>1. job'[Op(w)].fence \in Nat
    BY <1>0 DEF JobsTypeOK, JobRecord
  <2>. QED BY <1>0, <1>15, <2>1, ReclaimGoes, DoneLeaves DEF Reclaim, Op
<1>16. StopWithoutReceipt(w) \/ StopForReview(w) \/ HeartbeatLost(w) \/ Resolve(w) => Leaves(w)
  BY <1>0, DoneLeaves DEF StopWithoutReceipt, StopForReview, HeartbeatLost, Resolve
<1>. QED BY <1>0, <1>1, <1>2, <1>3, <1>4, <1>5, <1>6, <1>7, <1>8, <1>9, <1>10, <1>11, <1>12,
            <1>13, <1>14, <1>15, <1>16 DEF WhereTo

\* The same of the actions that are not steps of a run.
LEMMA OtherMoves ==
  ASSUME WorkersInv, JobsTypeOK', NEW w \in Workers
  PROVE  /\ Claim(w) =>
              /\ worker[w] = Idle /\ OthersStay(w) /\ worker'[w] \in Busy
              /\ \E j \in Jobs : /\ ClaimJob(j) /\ worker'[w].op = j
                                 /\ worker'[w].fence = job'[j].fence
              /\ worker'[w].pc = "claimed" /\ worker'[w].localFence = 0
              /\ worker'[w].reconciling = FALSE /\ worker'[w].opened = FALSE
         /\ Fault(w) => IsBusy(w) /\ Thrown(w)
         /\ Crash(w) => IsBusy(w) /\ Leaves(w)
         /\ \A j \in Jobs : ReconcileEvent(w, j) =>
              /\ worker[w] = Idle /\ OthersStay(w) /\ worker'[w] \in Busy
              /\ worker'[w].op = j /\ worker'[w].fence = 0 /\ worker'[w].localFence = 0
              /\ worker'[w].reconciling = TRUE /\ worker'[w].opened = TRUE
              /\ worker'[w].pc = IF job[j].state \in Results THEN "acking" ELSE "reclaiming"
<1>0. WorkersTypeOK
  BY DEF WorkersInv
<1>1. ASSUME Claim(w)
      PROVE  /\ worker[w] = Idle /\ OthersStay(w) /\ worker'[w] \in Busy
             /\ \E j \in Jobs : /\ ClaimJob(j) /\ worker'[w].op = j
                                /\ worker'[w].fence = job'[j].fence
             /\ worker'[w].pc = "claimed" /\ worker'[w].localFence = 0
             /\ worker'[w].reconciling = FALSE /\ worker'[w].opened = FALSE
  <2>. DEFINE Stop(j) == IF job'[j].cancelled THEN "cancelled"
                         ELSE IF job'[j].errorKind = "receipt-reconciliation"
                              THEN "failed" ELSE "no"
  <2>1. PICK j \in Jobs :
          ClaimJob(j) /\ worker' = [worker EXCEPT ![w] = Started(j, job'[j].fence, Stop(j))]
    BY <1>1 DEF Claim
  <2>2. job'[j].fence \in Nat
    BY DEF JobsTypeOK, JobRecord
  <2>3. Stop(j) \in {"no", "failed", "cancelled"}
    OBVIOUS
  <2>4. worker[w] = Idle
    BY <1>1 DEF Claim, IsIdle
  <2>. HIDE DEF Stop
  <2>. QED BY <1>0, <2>1, <2>2, <2>3, <2>4, StartGoes
<1>2. ASSUME Fault(w)
      PROVE  IsBusy(w) /\ Thrown(w)
  <2>1. IsBusy(w)
    BY <1>2 DEF Fault, IsIdle, IsBusy
  <2>2. CASE worker[w].reconciling
    BY <1>0, <1>2, <2>1, <2>2, DoneLeaves DEF Fault, Thrown
  <2>3. CASE ~worker[w].reconciling
    <3>. DEFINE building == worker[w].pc \in {"calling", "called", "committing"}
    <3>1. PICK permanent \in {FALSE, building} :
            worker' = [worker EXCEPT ![w].pc = "caught", ![w].permanent = permanent]
      BY <1>2, <2>3 DEF Fault
    <3>2. building \in BOOLEAN
      OBVIOUS
    <3>. HIDE DEF building
    <3>3. permanent \in BOOLEAN
      BY <3>2
    <3>. QED BY <1>0, <2>1, <2>3, <3>1, <3>3, FaultGoes DEF Thrown
  <2>. QED BY <2>1, <2>2, <2>3
<1>3. Crash(w) => IsBusy(w) /\ Leaves(w)
  BY <1>0, DoneLeaves DEF Crash, IsIdle, IsBusy
<1>4. ASSUME NEW j \in Jobs, ReconcileEvent(w, j)
      PROVE  /\ worker[w] = Idle /\ OthersStay(w) /\ worker'[w] \in Busy
             /\ worker'[w].op = j /\ worker'[w].fence = 0 /\ worker'[w].localFence = 0
             /\ worker'[w].reconciling = TRUE /\ worker'[w].opened = TRUE
             /\ worker'[w].pc = IF job[j].state \in Results THEN "acking" ELSE "reclaiming"
  <2>1. worker' = [worker EXCEPT ![w] =
          [Started(j, 0, "no") EXCEPT
             !.pc = IF job[j].state \in Results THEN "acking" ELSE "reclaiming",
             !.opened = TRUE, !.reconciling = TRUE]]
    BY <1>4 DEF ReconcileEvent
  <2>2. (IF job[j].state \in Results THEN "acking" ELSE "reclaiming") \in {"acking", "reclaiming"}
    OBVIOUS
  <2>3. worker[w] = Idle
    BY <1>4 DEF ReconcileEvent, IsIdle
  <2>. QED BY <1>0, <2>1, <2>2, <2>3, EventGoes
<1>. QED BY <1>1, <1>2, <1>3, <1>4

LEMMA OneMoves ==
  ASSUME WorkersInv, JobsTypeOK', ExecutionTypeOK', [WorkersNext]_workersVars
  PROVE  UNCHANGED worker \/ \E w \in Workers : OthersStay(w)
<1>1. ASSUME NEW w \in Workers, WorkerStep(w)
      PROVE  OthersStay(w)
  <2>1. WhereTo(w)
    BY <1>1, StepMoves
  <2>. QED BY <1>1, <2>1 DEF WhereTo, WorkerStep, Goes, Thrown, Leaves
<1>2. ASSUME NEW w \in Workers, Claim(w) \/ Fault(w) \/ Crash(w)
      PROVE  OthersStay(w)
  BY <1>2, OtherMoves DEF Thrown, Leaves, Goes
<1>3. ASSUME NEW w \in Workers, NEW j \in Jobs, ReconcileEvent(w, j)
      PROVE  OthersStay(w)
  BY <1>3, OtherMoves
<1>. QED BY <1>1, <1>2, <1>3
         DEF WorkersNext, SubmitStep, Prepare, PersistRequest, Activate, ExpirePreparing,
             StopDeleting, Change, Lapse, LocalLapse, DeletionStep, DrainTenant, RemoveTenant,
             FinishDeletion, Suspension, OwnerDisabled, Administration, PeriodChange, Sweep,
             RecoverStoppedWriters, workersVars, processVars

OtherTyped ==
  /\ unknownUsage \in [Jobs -> SUBSET Nat] /\ called \in [Jobs -> SUBSET Nat]
  /\ deletion \in [Tenants -> {"none", "drained", "removed"}]
  /\ abandoned \subseteq Tenants /\ disturbances \in 0 .. MaxDisturbances

LEMMA WorkersStepTyped ==
  ASSUME WorkersInv, [WorkersNext]_workersVars
  PROVE  WorkersTypeOK'
<1>0. WorkersTypeOK /\ MaxDisturbances \in Nat
  BY WorkersAssumption DEF WorkersInv, WorkersAssumption
<1>1. JobsTypeOK' /\ ExecutionTypeOK'
  BY <1>0, IsLedgerStep, NextTyped, ExecutionTyped DEF WorkersTypeOK
<1>2. worker' \in [Workers -> {Idle} \cup Busy]
  BY <1>0, <1>1, OneMoves DEF OthersStay, WorkersTypeOK
<1>3. OtherTyped'
  <2>0. OtherTyped
    BY <1>0 DEF WorkersTypeOK, OtherTyped
  <2>1. UNCHANGED otherVars => OtherTyped'
    BY <2>0 DEF OtherTyped, otherVars
  <2>2. Disturb => disturbances' \in 0 .. MaxDisturbances
    BY <1>0, <2>0 DEF Disturb, OtherTyped
  <2>3. ASSUME NEW w \in Workers, WorkerStep(w)
        PROVE  OtherTyped'
    <3>1. IsBusy(w) /\ Op(w) \in Jobs /\ worker[w].fence \in Nat
      BY <1>0, <1>1, <2>3, StepMoves, BusyFields
    <3>2. CASE RecordUsage(w)
      BY <2>0, <3>1, <3>2 DEF RecordUsage, OtherTyped
    <3>3. CASE CallProvider(w)
      BY <2>0, <3>1, <3>3 DEF CallProvider, Refused, OtherTyped
    <3>4. CASE ConfirmUsage(w)
      BY <2>0, <3>1, <3>4 DEF ConfirmUsage, OtherTyped
    <3>5. CASE AuthorizeCommit(w)
      BY <2>1, <3>5 DEF AuthorizeCommit, Refused, otherVars
    <3>. QED BY <2>1, <2>3, <3>2, <3>3, <3>4, <3>5
             DEF WorkerStep, CheckTenant, OpenRuntime, ClaimLocal, StopWithoutReceipt, ReadUsage,
                 StopForReview, HeartbeatLost, Commit, ReadOutbox, Finish, Acknowledge,
                 InspectReceipt, InspectUsage, Resolve, Reclaim
  <2>4. ASSUME NEW w \in Workers, Fault(w) \/ Crash(w)
        PROVE  OtherTyped'
    <3>1. Crash(w) => TenantOf[Op(w)] \in Tenants
      BY <1>0, BusyFields DEF Crash, IsIdle, IsBusy
    <3>. QED BY <2>0, <2>2, <2>4, <3>1 DEF Fault, Crash, OtherTyped
  <2>5. ASSUME NEW t \in Tenants, DrainTenant(t) \/ RemoveTenant(t)
        PROVE  OtherTyped'
    BY <2>0, <2>5 DEF DrainTenant, RemoveTenant, OtherTyped
  <2>6. RecoverStoppedWriters => OtherTyped'
    BY <2>0 DEF RecoverStoppedWriters, OtherTyped
  <2>7. ASSUME NEW j \in Jobs, Lapse(j) \/ LocalLapse(j)
        PROVE  OtherTyped'
    BY <2>0, <2>2, <2>7 DEF Lapse, LocalLapse, OtherTyped
  <2>8. ASSUME NEW t \in Tenants, Suspension(t) \/ OwnerDisabled(t)
        PROVE  OtherTyped'
    BY <2>0, <2>2, <2>8 DEF Suspension, OwnerDisabled, OtherTyped
  <2>9. \/ \E w \in Workers : WorkerStep(w) \/ Fault(w) \/ Crash(w)
        \/ \E t \in Tenants : \/ DrainTenant(t) \/ RemoveTenant(t)
                              \/ Suspension(t) \/ OwnerDisabled(t)
        \/ \E j \in Jobs : Lapse(j) \/ LocalLapse(j)
        \/ RecoverStoppedWriters
        \/ UNCHANGED otherVars
    BY DEF WorkersNext, Claim, ReconcileEvent, SubmitStep, Prepare, PersistRequest, Activate,
           ExpirePreparing, StopDeleting, Change, DeletionStep, FinishDeletion, Administration,
           PeriodChange, Sweep, workersVars, processVars, otherVars
  <2>. QED BY <2>1, <2>3, <2>4, <2>5, <2>6, <2>7, <2>8, <2>9
<1>. QED BY <1>1, <1>2, <1>3 DEF WorkersTypeOK, OtherTyped

-----------------------------------------------------------------------------
(* What a step does around an operation, and which worker's move it takes.   *)

Moving(v, k) == IsBusy(v) /\ Op(v) = k /\ worker'[v] # worker[v]

LeaseGoesOn(k) ==
  \/ localLease'[k] = localLease[k]
  \/ localLease'[k].fence > localLease[k].fence
  \/ localLease'[k].fence = localLease[k].fence /\ localLease'[k].state = "lapsed"
  \/ localLease'[k] = NoLocalLease /\ Drained(TenantOf[k])

ReceiptGoesOn(k) ==
  \/ receipt'[k] = receipt[k] /\ outbox'[k] = outbox[k]
  \/ /\ receipt'[k] = receipt[k] /\ outbox[k] # "none" /\ outbox'[k] = "acknowledged"
     /\ UNCHANGED jobsVars
     /\ \E v \in Workers : Moving(v, k) /\ At(v, "acking")
  \/ /\ ~Committed(k) /\ receipt'[k] \in Results /\ outbox'[k] = "pending"
     /\ UNCHANGED <<jobsVars, unknownUsage, called>>
     /\ \E v \in Workers : /\ Moving(v, k) /\ At(v, "committing")
                           /\ LocalFenceValid(k, worker[v].localFence)
  \/ /\ receipt'[k] = "none" /\ outbox'[k] = "none" /\ UNCHANGED jobsVars
     /\ Drained(TenantOf[k])

UsageGoesOn(k) ==
  \/ called'[k] = called[k] /\ unknownUsage[k] \subseteq unknownUsage'[k]
  \/ \E v \in Workers :
       /\ Moving(v, k) /\ At(v, "calling") /\ HoldsFence(k, worker[v].fence)
       /\ called'[k] = called[k] \cup {worker[v].fence} /\ unknownUsage'[k] = unknownUsage[k]
  \/ \E v \in Workers :
       /\ Moving(v, k) /\ At(v, "confirming")
       /\ called'[k] = called[k] \ {worker[v].fence}
       /\ unknownUsage'[k] = unknownUsage[k] \ {worker[v].fence}

DirectoryGoesOn(t) ==
  \/ deletion'[t] = deletion[t]
  \/ Drained(t) /\ tenant[t].status \in {"deleting", "deleted"}

LEMMA LeaseAround ==
  ASSUME WorkersInv, [WorkersNext]_workersVars, NEW k \in Jobs
  PROVE  LeaseGoesOn(k)
<1>0. /\ WorkersTypeOK /\ Operations = Jobs
      /\ localLease \in [Jobs -> [fence: Nat, state: {"none", "live", "lapsed"}]]
  BY WorkersAssumption DEF WorkersInv, WorkersTypeOK, ExecutionTypeOK, WorkersAssumption
<1>1. UNCHANGED localLease => LeaseGoesOn(k)
  BY DEF LeaseGoesOn
<1>2. ASSUME NEW j \in Jobs, ClaimExecution(j)
      PROVE  LeaseGoesOn(k)
  BY <1>0, <1>2 DEF ClaimExecution, LeaseGoesOn
<1>3. ASSUME NEW j \in Jobs, LocalLapse(j)
      PROVE  LeaseGoesOn(k)
  BY <1>0, <1>3 DEF LocalLapse, LocalLeaseLapses, LeaseGoesOn
<1>4. ASSUME NEW t \in Tenants, RemoveTenant(t)
      PROVE  LeaseGoesOn(k)
  BY <1>0, <1>4 DEF RemoveTenant, RemoveRows, JobsOf, LeaseGoesOn
<1>5. ASSUME NEW w \in Workers, WorkerStep(w)
      PROVE  LeaseGoesOn(k)
  <2>1. CASE ClaimLocal(w)
    <3>1. Op(w) \in Jobs
      BY <1>0, <2>1, BusyFields DEF ClaimLocal, At
    <3>2. UNCHANGED executionVars \/ ClaimExecution(Op(w))
      BY <2>1 DEF ClaimLocal
    <3>. QED BY <1>1, <1>2, <3>1, <3>2 DEF executionVars
  <2>2. CASE Commit(w)
    BY <1>1, <2>2 DEF Commit, CommitResult, executionVars
  <2>3. CASE Acknowledge(w)
    BY <1>1, <2>3 DEF Acknowledge, AckOutbox, executionVars
  <2>4. CASE UNCHANGED executionVars
    BY <1>1, <2>4 DEF executionVars
  <2>. QED BY <1>5, <2>1, <2>2, <2>3, <2>4
           DEF WorkerStep, CheckTenant, OpenRuntime, StopWithoutReceipt, ReadUsage,
               StopForReview, RecordUsage, CallProvider, AuthorizeCommit, HeartbeatLost,
               ConfirmUsage, ReadOutbox, Finish, InspectReceipt, InspectUsage, Resolve, Reclaim
<1>6. ASSUME NEW j \in Jobs, PersistRequest(j)
      PROVE  LeaseGoesOn(k)
  BY <1>1, <1>6 DEF PersistRequest, PutExecutionRequest
<1>7. \/ \E w \in Workers : WorkerStep(w)
      \/ \E j \in Jobs : PersistRequest(j) \/ LocalLapse(j)
      \/ \E t \in Tenants : RemoveTenant(t)
      \/ UNCHANGED localLease
  BY DEF WorkersNext, Claim, Fault, Crash, ReconcileEvent, SubmitStep, Prepare, Activate,
         ExpirePreparing, StopDeleting, Change, Lapse, DeletionStep, DrainTenant,
         FinishDeletion, Suspension, OwnerDisabled, Administration, PeriodChange, Sweep,
         RecoverStoppedWriters, workersVars, executionVars
<1>. QED BY <1>1, <1>3, <1>4, <1>5, <1>6, <1>7

\* A worker that leaves or changes its place moves.
LEMMA GoingMoves ==
  ASSUME WorkersTypeOK, NEW w \in Workers, IsBusy(w), NEW pc,
         Leaves(w) \/ Goes(w, pc) \/ Thrown(w), worker[w].pc \notin {pc, "caught"}
  PROVE  Moving(w, Op(w))
BY DEF Moving, Leaves, Goes, Thrown, IsBusy

LEMMA ReceiptAround ==
  ASSUME WorkersInv, [WorkersNext]_workersVars, NEW k \in Jobs
  PROVE  ReceiptGoesOn(k)
<1>0. /\ WorkersTypeOK /\ Operations = Jobs /\ JobsTypeOK' /\ ExecutionTypeOK'
      /\ receipt \in [Jobs -> {"none", "succeeded", "partial"}]
      /\ outbox \in [Jobs -> {"none", "pending", "acknowledged"}]
  BY WorkersAssumption, WorkersStepTyped
  DEF WorkersInv, WorkersTypeOK, ExecutionTypeOK, WorkersAssumption
<1>1. UNCHANGED <<receipt, outbox>> => ReceiptGoesOn(k)
  BY DEF ReceiptGoesOn
<1>2. ASSUME NEW w \in Workers, Commit(w)
      PROVE  ReceiptGoesOn(k)
  <2>1. IsBusy(w) /\ WhereTo(w) /\ Op(w) \in Jobs /\ worker[w].pc = "committing"
    <3>1. WorkerStep(w)
      BY <1>2 DEF WorkerStep
    <3>. QED BY <1>0, <1>2, <3>1, StepMoves, BusyFields DEF Commit, At
  <2>2. CASE UNCHANGED executionVars
    BY <1>1, <2>2 DEF executionVars
  <2>3. CASE /\ \E r \in Results : CommitResult(Op(w), worker[w].localFence, r)
             /\ Goes(w, IF ConfirmsUsage THEN "confirming" ELSE "settling")
    <3>1. PICK r \in Results : CommitResult(Op(w), worker[w].localFence, r)
      BY <2>3
    <3>2. CASE Committed(Op(w)) \/ k # Op(w)
      BY <1>0, <1>1, <2>1, <3>1, <3>2 DEF CommitResult, ReceiptGoesOn
    <3>3. CASE ~Committed(Op(w)) /\ k = Op(w)
      <4>1. Moving(w, k)
        BY <1>0, <2>1, <2>3, <3>3, GoingMoves
      <4>2. UNCHANGED <<jobsVars, unknownUsage, called>>
        BY <1>2 DEF Commit, otherVars
      <4>3. /\ LocalFenceValid(k, worker[w].localFence)
            /\ receipt'[k] = r /\ outbox'[k] = "pending"
        BY <1>0, <2>1, <3>1, <3>3 DEF CommitResult
      <4>. QED BY <2>1, <3>3, <4>1, <4>2, <4>3 DEF ReceiptGoesOn, At
    <3>. QED BY <3>2, <3>3
  <2>. QED BY <1>2, <2>1, <2>2, <2>3 DEF WhereTo
<1>3. ASSUME NEW w \in Workers, Acknowledge(w)
      PROVE  ReceiptGoesOn(k)
  <2>1. IsBusy(w) /\ WhereTo(w) /\ Op(w) \in Jobs /\ worker[w].pc = "acking"
    <3>1. WorkerStep(w)
      BY <1>3 DEF WorkerStep
    <3>. QED BY <1>0, <1>3, <3>1, StepMoves, BusyFields DEF Acknowledge, At
  <2>2. CASE UNCHANGED executionVars
    BY <1>1, <2>2 DEF executionVars
  <2>3. CASE AckOutbox(Op(w))
    <3>1. CASE k # Op(w) \/ outbox[k] = "none"
      BY <1>0, <2>1, <2>3, <3>1 DEF AckOutbox, ReceiptGoesOn
    <3>2. CASE k = Op(w) /\ outbox[k] # "none"
      <4>1. Moving(w, k)
        BY <1>0, <1>3, <2>1, <3>2, GoingMoves DEF WhereTo
      <4>2. UNCHANGED jobsVars
        BY <1>3 DEF Acknowledge
      <4>3. receipt'[k] = receipt[k] /\ outbox'[k] = "acknowledged"
        BY <1>0, <2>1, <2>3, <3>2 DEF AckOutbox
      <4>. QED BY <2>1, <3>2, <4>1, <4>2, <4>3 DEF ReceiptGoesOn, At
    <3>. QED BY <3>1, <3>2
  <2>. QED BY <1>3, <2>2, <2>3 DEF Acknowledge
<1>4. ASSUME NEW t \in Tenants, RemoveTenant(t)
      PROVE  ReceiptGoesOn(k)
  BY <1>0, <1>4 DEF RemoveTenant, RemoveRows, JobsOf, ReceiptGoesOn
<1>5. ASSUME NEW w \in Workers, WorkerStep(w), ~Commit(w), ~Acknowledge(w)
      PROVE  UNCHANGED <<receipt, outbox>>
  BY <1>5
  DEF WorkerStep, CheckTenant, OpenRuntime, ClaimLocal, ClaimExecution, StopWithoutReceipt,
      ReadUsage, StopForReview, RecordUsage, CallProvider, AuthorizeCommit, HeartbeatLost,
      ConfirmUsage, ReadOutbox, Finish, InspectReceipt, InspectUsage, Resolve, Reclaim,
      executionVars
<1>6. ASSUME NEW j \in Jobs, PersistRequest(j) \/ LocalLapse(j)
      PROVE  UNCHANGED <<receipt, outbox>>
  BY <1>6 DEF PersistRequest, PutExecutionRequest, LocalLapse, LocalLeaseLapses
<1>7. \/ \E w \in Workers : WorkerStep(w)
      \/ \E j \in Jobs : PersistRequest(j) \/ LocalLapse(j)
      \/ \E t \in Tenants : RemoveTenant(t)
      \/ UNCHANGED <<receipt, outbox>>
  BY DEF WorkersNext, Claim, Fault, Crash, ReconcileEvent, SubmitStep, Prepare, Activate,
         ExpirePreparing, StopDeleting, Change, Lapse, DeletionStep, DrainTenant,
         FinishDeletion, Suspension, OwnerDisabled, Administration, PeriodChange, Sweep,
         RecoverStoppedWriters, workersVars, executionVars
<1>. QED BY <1>1, <1>2, <1>3, <1>4, <1>5, <1>6, <1>7

LEMMA UsageAround ==
  ASSUME WorkersInv, [WorkersNext]_workersVars, NEW k \in Jobs
  PROVE  UsageGoesOn(k)
<1>0. /\ WorkersTypeOK /\ JobsTypeOK' /\ ExecutionTypeOK'
      /\ unknownUsage \in [Jobs -> SUBSET Nat] /\ called \in [Jobs -> SUBSET Nat]
  BY WorkersStepTyped DEF WorkersInv, WorkersTypeOK
<1>1. UNCHANGED <<unknownUsage, called>> => UsageGoesOn(k)
  BY DEF UsageGoesOn
<1>2. ASSUME NEW w \in Workers, WorkerStep(w)
      PROVE  UsageGoesOn(k)
  <2>1. IsBusy(w) /\ WhereTo(w) /\ Op(w) \in Jobs
    BY <1>0, <1>2, StepMoves, BusyFields
  <2>2. CASE RecordUsage(w)
    BY <1>0, <2>1, <2>2 DEF RecordUsage, UsageGoesOn
  <2>3. CASE CallProvider(w)
    <3>1. UNCHANGED unknownUsage /\ worker[w].pc = "calling"
      BY <2>3 DEF CallProvider, At
    <3>2. CASE UNCHANGED called
      BY <1>1, <3>1, <3>2
    <3>3. CASE /\ AttemptCurrent(w) /\ Goes(w, "called")
               /\ called' = [called EXCEPT ![Op(w)] = @ \cup {worker[w].fence}]
      <4>1. CASE k # Op(w)
        BY <1>0, <3>1, <3>3, <4>1 DEF UsageGoesOn
      <4>2. CASE k = Op(w)
        <5>1. Moving(w, k)
          BY <1>0, <2>1, <3>1, <3>3, <4>2, GoingMoves
        <5>2. called'[k] = called[k] \cup {worker[w].fence} /\ HoldsFence(k, worker[w].fence)
          BY <1>0, <2>1, <3>3, <4>2 DEF AttemptCurrent
        <5>. QED BY <3>1, <5>1, <5>2 DEF UsageGoesOn, At
      <4>. QED BY <4>1, <4>2
    <3>. QED BY <2>1, <2>3, <3>2, <3>3 DEF WhereTo
  <2>4. CASE ConfirmUsage(w)
    <3>1. CASE k # Op(w)
      BY <1>0, <2>4, <3>1 DEF ConfirmUsage, UsageGoesOn
    <3>2. CASE k = Op(w)
      <4>1. worker[w].pc = "confirming" /\ Goes(w, "settling")
        BY <2>1, <2>4 DEF WhereTo, ConfirmUsage, At
      <4>2. Moving(w, k)
        BY <1>0, <2>1, <3>2, <4>1, GoingMoves
      <4>3. /\ called'[k] = called[k] \ {worker[w].fence}
            /\ unknownUsage'[k] = unknownUsage[k] \ {worker[w].fence}
        BY <1>0, <2>1, <2>4, <3>2 DEF ConfirmUsage
      <4>. QED BY <4>1, <4>2, <4>3 DEF UsageGoesOn, At
    <3>. QED BY <3>1, <3>2
  <2>5. CASE AuthorizeCommit(w)
    BY <1>1, <2>5 DEF AuthorizeCommit, Refused
  <2>. QED BY <1>1, <1>2, <2>2, <2>3, <2>4, <2>5
           DEF WorkerStep, CheckTenant, OpenRuntime, ClaimLocal, StopWithoutReceipt, ReadUsage,
               StopForReview, HeartbeatLost, Commit, ReadOutbox, Finish, Acknowledge,
               InspectReceipt, InspectUsage, Resolve, Reclaim, otherVars
<1>3. \/ \E w \in Workers : WorkerStep(w)
      \/ UNCHANGED <<unknownUsage, called>>
  BY DEF WorkersNext, Claim, Fault, Crash, ReconcileEvent, SubmitStep, Prepare, PersistRequest,
         Activate, ExpirePreparing, StopDeleting, Change, Lapse, LocalLapse, DeletionStep,
         DrainTenant, RemoveTenant, FinishDeletion, Suspension, OwnerDisabled, Administration,
         PeriodChange, Sweep, RecoverStoppedWriters, workersVars, processVars, otherVars
<1>. QED BY <1>1, <1>2, <1>3

LEMMA DirectoryAround ==
  ASSUME WorkersInv, [WorkersNext]_workersVars, NEW t \in Tenants
  PROVE  DirectoryGoesOn(t)
<1>0. deletion \in [Tenants -> {"none", "drained", "removed"}] /\ Closings
  BY DEF WorkersInv, WorkersTypeOK, ProtocolInv
<1>1. ASSUME NEW u \in Tenants, DrainTenant(u) \/ RemoveTenant(u)
      PROVE  DirectoryGoesOn(t)
  BY <1>0, <1>1 DEF DrainTenant, RemoveTenant, DirectoryGoesOn, Closings
<1>2. ASSUME NEW w \in Workers, WorkerStep(w)
      PROVE  UNCHANGED deletion
  BY <1>2 DEF WorkerStep, CheckTenant, OpenRuntime, ClaimLocal, StopWithoutReceipt, ReadUsage,
              StopForReview, RecordUsage, CallProvider, AuthorizeCommit, HeartbeatLost, Commit,
              ConfirmUsage, ReadOutbox, Finish, Acknowledge, InspectReceipt, InspectUsage,
              Resolve, Reclaim, otherVars
<1>3. \/ \E w \in Workers : WorkerStep(w)
      \/ \E u \in Tenants : DrainTenant(u) \/ RemoveTenant(u)
      \/ UNCHANGED deletion
  BY DEF WorkersNext, Claim, Fault, Crash, ReconcileEvent, SubmitStep, Prepare, PersistRequest,
         Activate, ExpirePreparing, StopDeleting, Change, Lapse, LocalLapse, DeletionStep,
         FinishDeletion, Suspension, OwnerDisabled, Administration, PeriodChange, Sweep,
         RecoverStoppedWriters, workersVars, processVars, otherVars
<1>. QED BY <1>1, <1>2, <1>3 DEF DirectoryGoesOn

\* What became of an operation's units, and by whose move.
UnitsRest(k) ==
  \/ reservation'[k] = reservation[k]
  \/ Held(k) /\ reservation'[k].state = "released" /\ job[k].attempt = 0

Releasing(v) ==
  \/ At(v, "examine")
  \/ At(v, "resolving") /\ ~worker[v].committed /\ ~worker[v].uncertain

UnitsGoOn(k) ==
  \/ reservation'[k] = reservation[k]
  \/ Accepted(k) /\ reservation[k].state = "none" /\ reservation'[k].state = "held"
  \/ /\ Held(k) /\ reservation'[k].state = "captured"
     /\ \E v \in Workers : Moving(v, k) /\ At(v, "finishing")
  \/ /\ Held(k) /\ reservation'[k].state = "released" /\ UNCHANGED executionVars
     /\ \/ job[k].attempt = 0
        \/ Forfeit(k) /\ deletion[TenantOf[k]] # "none"
        \/ \E v \in Workers : Moving(v, k) /\ MayRelease(v) /\ Releasing(v)

LEMMA CancelledUnits ==
  ASSUME LedgerInv, NEW k \in Jobs
  PROVE  /\ CancelledReservation(k) # reservation[k] =>
              Held(k) /\ CancelledReservation(k).state = "released" /\ job[k].attempt = 0
         /\ SweptReservation(k) # reservation[k] =>
              Held(k) /\ SweptReservation(k).state = "released" /\ job[k].attempt = 0
<1>1. JobsTypeOK /\ job[k].attempt \in Nat /\ (Pending(k) => Held(k))
  BY DEF LedgerInv, JobsTypeOK, JobRecord, JobAgrees, Pending, InPlay
<1>2. CancelledReservation(k) # reservation[k] =>
        Held(k) /\ CancelledReservation(k).state = "released" /\ job[k].attempt = 0
  BY <1>1, ReleasedFields DEF CancelledReservation, AwaitsReceipt
<1>. QED BY <1>2 DEF SweptReservation

\* The steps of the ledger that no worker takes with its copy of a job.
LEMMA RestingUnits ==
  ASSUME LedgerInv, NEW k \in Jobs
  PROVE  /\ \A S : CancelPending(S) => UnitsRest(k)
         /\ \A j \in Jobs :
              ActivatePreparedJob(j) \/ CancelPendingJob(j) \/ RequestCancellation(j)
                \/ ClaimJob(j) \/ LeaseLapses(j) \/ DeadlinePasses(j) => UnitsRest(k)
         /\ ClaimNothing => UnitsRest(k)
         /\ \A t \in Tenants : TenantStep(t) /\ ~CompleteDeletion(t) => UnitsRest(k)
         /\ \A p \in Periods : RevokePeriod(p) \/ PeriodTurns(p) => UnitsRest(k)
<1>1. ASSUME NEW S, CancelPending(S)
      PROVE  UnitsRest(k)
  BY <1>1, CancelledUnits DEF CancelPending, UnitsRest
<1>2. UNCHANGED reservation => UnitsRest(k)
  BY DEF UnitsRest
<1>3. (\A i \in Jobs : reservation'[i] = SweptReservation(i)) => UnitsRest(k)
  BY CancelledUnits DEF UnitsRest
<1>4. ASSUME NEW j \in Jobs,
             ActivatePreparedJob(j) \/ CancelPendingJob(j) \/ RequestCancellation(j)
               \/ ClaimJob(j) \/ LeaseLapses(j) \/ DeadlinePasses(j)
      PROVE  UnitsRest(k)
  <2>1. CASE ClaimJob(j)
    BY <1>3, <2>1 DEF ClaimJob
  <2>. QED BY <1>1, <1>2, <1>4, <2>1
           DEF ActivatePreparedJob, CancelPendingJob, RequestCancellation, LeaseLapses,
               DeadlinePasses, ledgerVars
<1>5. ClaimNothing => UnitsRest(k)
  BY <1>3 DEF ClaimNothing
<1>6. ASSUME NEW t \in Tenants, TenantStep(t), ~CompleteDeletion(t)
      PROVE  UnitsRest(k)
  <2>1. BeginDeletion(t) => UnitsRest(k)
    BY CancelledUnits DEF BeginDeletion, UnitsRest
  <2>. QED BY <1>1, <1>2, <1>6, <2>1
           DEF TenantStep, SuspendTenant, ResumeTenant, SetUserStatus, ledgerVars
<1>7. ASSUME NEW p \in Periods, RevokePeriod(p) \/ PeriodTurns(p)
      PROVE  UnitsRest(k)
  BY <1>1, <1>2, <1>7 DEF RevokePeriod, PeriodTurns, ledgerVars
<1>. QED BY <1>1, <1>4, <1>5, <1>6, <1>7

LEMMA StopUnits ==
  ASSUME LedgerInv, NEW k \in Jobs, NEW j \in Jobs, NEW fence, NEW outcome, NEW stopped \in BOOLEAN,
         StopJob(j, fence, outcome, stopped), reservation'[k] # reservation[k]
  PROVE  k = j /\ stopped /\ Held(k) /\ reservation'[k].state = "released"
<1>1. JobsTypeOK /\ reservation \in [Jobs -> ReservationRecord]
  BY DEF LedgerInv, JobsTypeOK
<1>2. reservation' = [reservation EXCEPT ![j] = Released(j)] /\ stopped
  BY DEF StopJob
<1>3. k = j /\ reservation'[k] = Released(k)
  BY <1>1, <1>2
<1>. QED BY <1>1, <1>2, <1>3, ReleasedFields

\* A worker's stop gives units back only if it holds the job and the local lease.
LEMMA AttemptStopUnits ==
  ASSUME WorkersInv, NEW w \in Workers, IsBusy(w), NEW k \in Jobs, NEW outcome,
         NEW stopped \in BOOLEAN, AttemptStop(w, outcome, stopped), Leaves(w),
         stopped => worker[w].localFence > 0 /\ Releasing(w), UNCHANGED executionVars
  PROVE  UnitsGoOn(k)
<1>0. LedgerInv /\ WorkersTypeOK /\ Op(w) \in Jobs
  BY BusyFields DEF WorkersInv
<1>1. CASE reservation'[k] = reservation[k]
  BY <1>1 DEF UnitsGoOn
<1>2. CASE reservation'[k] # reservation[k]
  <2>1. HoldsFence(Op(w), worker[w].fence) /\ StopJob(Op(w), worker[w].fence, outcome, stopped)
    BY <1>2 DEF AttemptStop, jobsVars, ledgerVars
  <2>2. k = Op(w) /\ stopped /\ Held(k) /\ reservation'[k].state = "released"
    BY <1>0, <1>2, <2>1, StopUnits
  <2>3. Moving(w, k)
    BY <2>2 DEF Moving, Leaves, IsBusy
  <2>4. MayRelease(w) /\ Releasing(w)
    BY <2>1, <2>2 DEF MayRelease
  <2>. QED BY <2>2, <2>3, <2>4 DEF UnitsGoOn
<1>. QED BY <1>1, <1>2

LEMMA UnitsAround ==
  ASSUME WorkersInv, [WorkersNext]_workersVars, NEW k \in Jobs
  PROVE  UnitsGoOn(k)
<1>0. LedgerInv /\ WorkersTypeOK /\ JobsTypeOK' /\ ExecutionTypeOK'
  BY WorkersStepTyped DEF WorkersInv, WorkersTypeOK
<1>1. UnitsRest(k) /\ UNCHANGED executionVars => UnitsGoOn(k)
  BY DEF UnitsRest, UnitsGoOn
<1>2. UNCHANGED reservation => UnitsGoOn(k)
  BY DEF UnitsGoOn
<1>3. ASSUME NEW w \in Workers, WorkerStep(w)
      PROVE  UnitsGoOn(k)
  <2>1. IsBusy(w) /\ WhereTo(w) /\ Op(w) \in Jobs /\ Inside(w)
    BY <1>0, <1>3, StepMoves, BusyFields DEF WorkersInv, ProtocolInv
  <2>2. CASE StopWithoutReceipt(w)
    <3>1. worker[w].localFence > 0 /\ Releasing(w)
      BY <2>1, <2>2 DEF StopWithoutReceipt, At, Inside, LocalPCs, Releasing
    <3>2. UNCHANGED executionVars /\ Leaves(w)
      BY <2>1, <2>2 DEF StopWithoutReceipt, WhereTo
    <3>. QED BY <2>1, <2>2, <3>1, <3>2, AttemptStopUnits DEF StopWithoutReceipt
  <2>3. CASE StopForReview(w)
    <3>1. UNCHANGED executionVars /\ Leaves(w)
      BY <2>1, <2>3 DEF StopForReview, WhereTo
    <3>. QED BY <2>1, <2>3, <3>1, AttemptStopUnits DEF StopForReview
  <2>4. CASE Resolve(w)
    <3>1. UNCHANGED executionVars /\ Leaves(w)
      BY <2>1, <2>4 DEF Resolve, WhereTo
    <3>2. CASE AttemptStop(w, "needs-review", FALSE)
      BY <2>1, <3>1, <3>2, AttemptStopUnits
    <3>3. CASE RetryJob(Op(w), worker[w].fence, UsageKnown(Op(w))) \/ UNCHANGED jobsVars
      BY <1>2, <3>3 DEF RetryJob, jobsVars, ledgerVars
    <3>4. CASE /\ ~WantsRetry(w) /\ ~worker[w].uncertain
               /\ AttemptStop(w, IF worker[w].localFence > 0 THEN "failed" ELSE "needs-review",
                              worker[w].localFence > 0)
      <4>1. worker[w].localFence > 0 => Releasing(w)
        BY <2>4, <3>4 DEF WantsRetry, Resolve, Releasing
      <4>2. (worker[w].localFence > 0) \in BOOLEAN
        OBVIOUS
      <4>. QED BY <2>1, <3>1, <3>4, <4>1, <4>2, AttemptStopUnits
    <3>. QED BY <2>4, <3>2, <3>3, <3>4 DEF Resolve
  <2>5. CASE Finish(w)
    <3>1. CASE UNCHANGED jobsVars
      BY <1>2, <3>1 DEF jobsVars, ledgerVars
    <3>2. CASE FinishJobAndSettle(Op(w), worker[w].fence, receipt[Op(w)]) /\ Goes(w, "acking")
      <4>1. CASE k # Op(w) \/ ~Held(k)
        <5>1. reservation \in [Jobs -> ReservationRecord]
          BY <1>0 DEF LedgerInv, JobsTypeOK
        <5>2. reservation'[k] = reservation[k]
          BY <2>1, <3>2, <4>1, <5>1 DEF FinishJobAndSettle
        <5>. QED BY <5>2 DEF UnitsGoOn
      <4>2. CASE k = Op(w) /\ Held(k)
        <5>1. worker[w].pc = "finishing"
          BY <2>5 DEF Finish, At
        <5>2. Moving(w, k)
          BY <1>0, <2>1, <3>2, <4>2, <5>1, GoingMoves
        <5>3. reservation'[k].state = "captured"
          <6>1. /\ reservation \in [Jobs -> ReservationRecord]
                /\ reservation' = [reservation EXCEPT ![k].state = "captured"]
            BY <1>0, <3>2, <4>2 DEF LedgerInv, JobsTypeOK, FinishJobAndSettle
          <6>2. reservation[k] \in [state: {"held", "captured", "released"}, period: Periods]
            BY <4>2, <6>1 DEF Held, ReservationRecord, NoReservation
          <6>. QED BY <6>1, <6>2
        <5>. QED BY <4>2, <5>1, <5>2, <5>3 DEF UnitsGoOn, At
      <4>. QED BY <4>1, <4>2
    <3>. QED BY <2>1, <2>5, <3>1, <3>2 DEF WhereTo
  <2>6. CASE Reclaim(w)
    BY <1>2, <2>6 DEF Reclaim, ClaimJobForReconciliation, jobsVars, ledgerVars
  <2>7. CASE UNCHANGED jobsVars
    BY <1>2, <2>7 DEF jobsVars, ledgerVars
  <2>. QED BY <1>3, <2>2, <2>3, <2>4, <2>5, <2>6, <2>7
           DEF WorkerStep, CheckTenant, OpenRuntime, ClaimLocal, ReadUsage, RecordUsage,
               CallProvider, AuthorizeCommit, HeartbeatLost, Commit, ConfirmUsage, ReadOutbox,
               Acknowledge, InspectReceipt, InspectUsage
<1>4. ASSUME NEW w \in Workers, Claim(w)
      PROVE  UnitsGoOn(k)
  BY <1>0, <1>1, <1>4, RestingUnits DEF Claim
<1>5. ASSUME NEW j \in Jobs, SubmitStep(j) \/ Change(j) \/ Lapse(j)
      PROVE  UnitsGoOn(k)
  <2>1. CASE Prepare(j)
    <3>1. CASE k # j
      BY <1>0, <2>1, <3>1, AcceptFields DEF Prepare, LedgerInv, UnitsGoOn
    <3>2. CASE k = j
      <4>1. Accepted(k) /\ reservation'[k].state = "held" /\ job[k].state = "none"
        BY <1>0, <2>1, <3>2, AcceptFields, PrepareAccepts DEF Prepare, LedgerInv
      <4>2. reservation[k].state = "none"
        BY <1>0, <4>1 DEF LedgerInv, JobAgrees
      <4>. QED BY <4>1, <4>2 DEF UnitsGoOn
    <3>. QED BY <3>1, <3>2
  <2>2. CASE PersistRequest(j)
    BY <1>2, <2>2 DEF PersistRequest, jobsVars, ledgerVars
  <2>3. CASE Activate(j) \/ ExpirePreparing(j) \/ Change(j) \/ Lapse(j)
    <3>1. UnitsRest(k)
      BY <1>0, <2>3, RestingUnits DEF Activate, ExpirePreparing, Change, Lapse
    <3>2. UNCHANGED executionVars
      BY <2>3 DEF Activate, ExpirePreparing, Change, Lapse
    <3>. QED BY <1>1, <3>1, <3>2
  <2>. QED BY <1>5, <2>1, <2>2, <2>3 DEF SubmitStep
<1>6. ASSUME NEW j \in Jobs, StopDeleting(j)
      PROVE  UnitsGoOn(k)
  <2>1. CASE reservation'[k] = reservation[k]
    BY <2>1 DEF UnitsGoOn
  <2>2. CASE reservation'[k] # reservation[k]
    <3>1. k = j /\ Held(k) /\ reservation'[k].state = "released"
      BY <1>0, <1>6, <2>2, StopUnits DEF StopDeleting
    <3>2. Forfeit(k) /\ deletion[TenantOf[k]] # "none"
      BY <1>6, <3>1, ConstantsAssumption
      DEF StopDeleting, WorkersInv, ProtocolInv, Closings, Forfeit, StatusOf, ConstantsAssumption
    <3>3. UNCHANGED executionVars
      BY <1>6 DEF StopDeleting
    <3>. QED BY <3>1, <3>2, <3>3 DEF UnitsGoOn
  <2>. QED BY <2>1, <2>2
<1>7. ASSUME NEW t \in Tenants, FinishDeletion(t)
      PROVE  UnitsGoOn(k)
  <2>1. JobsTypeOK /\ CompleteDeletion(t) /\ deletion[t] = "removed" /\ UNCHANGED executionVars
    BY <1>0, <1>7 DEF LedgerInv, FinishDeletion
  <2>2. CASE TenantOf[k] = t /\ reservation'[k] = Released(k) /\ Held(k)
    <3>1. Forfeit(k) /\ deletion[TenantOf[k]] # "none" /\ reservation'[k].state = "released"
      BY <2>1, <2>2, ReleasedFields DEF CompleteDeletion, Forfeit, StatusOf
    <3>. QED BY <2>1, <2>2, <3>1 DEF UnitsGoOn
  <2>3. CASE reservation'[k] = reservation[k] \/ (reservation'[k] = Released(k) /\ ~Held(k))
    BY <2>1, <2>3, ReleasedFields DEF UnitsGoOn
  <2>. QED BY <2>1, <2>2, <2>3, EraseFields
<1>8. ASSUME NEW t \in Tenants, Suspension(t) \/ OwnerDisabled(t) \/ Administration(t)
      PROVE  UnitsGoOn(k)
  <2>1. TenantStep(t) /\ UNCHANGED executionVars
    BY <1>8 DEF Suspension, OwnerDisabled, Administration, TenantStep
  <2>2. ~CompleteDeletion(t)
    <3>1. tenant \in [Tenants -> [status: TenantStates, generation: Nat]]
      BY <1>0 DEF LedgerInv, JobsTypeOK
    <3>2. CompleteDeletion(t) => tenant'[t].status = "deleted"
      <4>1. CompleteDeletion(t) => tenant' = [tenant EXCEPT ![t].status = "deleted"]
        BY DEF CompleteDeletion
      <4>. QED BY <3>1, <4>1
    <3>3. tenant[t].status # "deleting" \/ tenant'[t].status # "deleted"
      BY <1>8, <3>1 DEF Suspension, OwnerDisabled, Administration, SuspendTenant, ResumeTenant,
                        SetUserStatus, BeginDeletion
    <3>. QED BY <3>2, <3>3 DEF CompleteDeletion
  <2>. QED BY <1>0, <1>1, <2>1, <2>2, RestingUnits
<1>9. ASSUME NEW p \in Periods, PeriodChange(p)
      PROVE  UnitsGoOn(k)
  BY <1>0, <1>1, <1>9, RestingUnits DEF PeriodChange
<1>10. Sweep => UnitsGoOn(k)
  BY <1>0, <1>1, RestingUnits DEF Sweep
<1>11. \/ \E w \in Workers : WorkerStep(w) \/ Claim(w)
       \/ \E j \in Jobs : SubmitStep(j) \/ StopDeleting(j) \/ Change(j) \/ Lapse(j)
       \/ \E t \in Tenants : FinishDeletion(t) \/ Suspension(t) \/ OwnerDisabled(t)
                            \/ Administration(t)
       \/ \E p \in Periods : PeriodChange(p)
       \/ Sweep
       \/ UNCHANGED jobsVars
  BY DEF WorkersNext, Fault, Crash, ReconcileEvent, LocalLapse, DeletionStep, DrainTenant,
         RemoveTenant, RecoverStoppedWriters, workersVars
<1>12. UNCHANGED jobsVars => UnitsGoOn(k)
  BY <1>2 DEF jobsVars, ledgerVars
<1>. QED BY <1>3, <1>4, <1>5, <1>6, <1>7, <1>8, <1>9, <1>10, <1>11, <1>12

-----------------------------------------------------------------------------
(* A worker keeps what it may rely on through the steps of the others.       *)

WorkerInv(w) == Copies(w) /\ Inside(w) /\ Alone(w) /\ Calls(w) /\ Reads(w)

\* Two workers that hold the same operation have the newer lease of one kind
\* together with the newer lease of the other.
LEMMA Rivals ==
  ASSUME WorkersInv, NEW v \in Workers, NEW w \in Workers, v # w, IsBusy(v), IsBusy(w),
         Op(v) = Op(w), At(v, "committing"), LocalFenceValid(Op(v), worker[v].localFence),
         worker[w].localFence > 0
  PROVE  ~LocalFenceValid(Op(w), worker[w].localFence) /\ ~HoldsFence(Op(w), worker[w].fence)
<1>1. /\ Copies(v) /\ Copies(w) /\ Inside(v) /\ Apart(v, w)
      /\ worker[v].fence \in Nat /\ worker[w].fence \in Nat
      /\ worker[v].localFence \in Nat /\ worker[w].localFence \in Nat /\ Op(w) \in Jobs
  BY BusyFields DEF WorkersInv, ProtocolInv
<1>2. /\ localLease[Op(w)].fence \in Nat /\ job[Op(w)].fence \in Nat
  BY <1>1, WorkersAssumption
  DEF WorkersInv, WorkersTypeOK, JobsTypeOK, JobRecord, ExecutionTypeOK, WorkersAssumption
<1>3. worker[v].localFence > 0 /\ worker[v].fence > 0 /\ worker[v].pc = "committing"
  BY <1>1 DEF At, Inside, LocalPCs, Copies
<1>4. /\ localLease[Op(w)].fence = worker[v].localFence
      /\ worker[w].localFence <= localLease[Op(w)].fence
      /\ worker[v].fence <= job[Op(w)].fence
  BY <1>1 DEF LocalFenceValid, Copies
<1>. QED BY <1>1, <1>2, <1>3, <1>4 DEF Apart, LocalFenceValid, HoldsFence

\* What a worker has copied or opened stays where it was.
LEMMA Surroundings ==
  ASSUME WorkersInv, WorkersTypeOK', [WorkersNext]_workersVars,
         NEW w \in Workers, IsBusy(w), NEW j \in Jobs, Op(w) = j
  PROVE  /\ worker[w].fence <= job'[j].fence
         /\ worker[w].fence > 0 => job'[j].attempt > 0
         /\ job'[j].state = "running" /\ job'[j].fence = worker[w].fence
              => HoldsFence(j, worker[w].fence)
         /\ worker[w].localFence <= localLease'[j].fence
         /\ worker[w].localFence > 0 /\ localLease'[j].fence = worker[w].localFence
              /\ localLease'[j].state = "live" => LocalFenceValid(j, worker[w].localFence)
         /\ worker[w].opened => deletion'[TenantOf[j]] = "none"
         /\ worker[w].opened /\ Committed(j) => Committed(j)'
<1>0. /\ LedgerInv /\ WorkersTypeOK /\ JobsTypeOK /\ JobsTypeOK' /\ Copies(w) /\ Inside(w)
      /\ TenantOf[j] \in Tenants
      /\ worker[w].fence \in Nat /\ worker[w].localFence \in Nat
  BY BusyFields DEF WorkersInv, ProtocolInv, WorkersTypeOK
<1>1. /\ job[j].fence \in Nat /\ job'[j].fence \in Nat /\ job[j].attempt \in Nat
      /\ job'[j].attempt \in Nat
      /\ localLease[j].fence \in Nat /\ localLease'[j].fence \in Nat
  BY <1>0, WorkersAssumption
  DEF WorkersTypeOK, JobsTypeOK, JobRecord, ExecutionTypeOK, WorkersAssumption
<1>2. /\ worker[w].fence <= job'[j].fence
      /\ worker[w].fence > 0 => job'[j].attempt > 0
      /\ job'[j].state = "running" /\ job'[j].fence = worker[w].fence
           => HoldsFence(j, worker[w].fence)
  <2>1. CASE GoesOn(job[j], job'[j])
    BY <1>0, <1>1, <2>1 DEF GoesOn, HoldsFence, Copies
  <2>2. CASE Accepted(j)
    <3>1. job[j].fence = 0 /\ job[j].attempt = 0
      BY <1>0, <2>2 DEF Accepted, LedgerInv, JobAgrees, WorkersInv, ProtocolInv, Claimant
    <3>. QED BY <1>0, <1>1, <2>2, <3>1 DEF Accepted, HoldsFence, Copies
  <2>. QED BY <1>0, <2>1, <2>2, JobsGoOn, IsLedgerStep
<1>3. worker[w].opened => ~Drained(TenantOf[j])
  BY DEF Drained, HoldsRuntime, IsIdle, IsBusy
<1>4. worker[w].localFence > 0 => worker[w].opened
  BY <1>0 DEF Copies
<1>5. /\ worker[w].localFence <= localLease'[j].fence
      /\ worker[w].localFence > 0 /\ localLease'[j].fence = worker[w].localFence
           /\ localLease'[j].state = "live" => LocalFenceValid(j, worker[w].localFence)
  <2>1. LeaseGoesOn(j) /\ worker[w].localFence <= localLease[j].fence
    BY <1>0, LeaseAround DEF Copies
  <2>. QED BY <1>0, <1>1, <1>3, <1>4, <2>1 DEF LeaseGoesOn, LocalFenceValid, NoLocalLease
<1>6. worker[w].opened => deletion'[TenantOf[j]] = "none"
  BY <1>0, <1>3, DirectoryAround DEF DirectoryGoesOn, Inside
<1>7. worker[w].opened /\ Committed(j) => Committed(j)'
  BY <1>0, <1>3, ReceiptAround DEF ReceiptGoesOn, Committed, Results
<1>. QED BY <1>2, <1>5, <1>6, <1>7

LEMMA Undisturbed ==
  ASSUME WorkersInv, WorkersTypeOK', [WorkersNext]_workersVars,
         NEW w \in Workers, IsBusy(w), worker'[w] = worker[w]
  PROVE  WorkerInv(w)'
<1>. SUFFICES ASSUME NEW j \in Jobs, Op(w) = j
              PROVE  WorkerInv(w)'
  BY BusyFields DEF WorkersInv
<1>0. /\ LedgerInv /\ WorkersTypeOK
      /\ Copies(w) /\ Inside(w) /\ Alone(w) /\ Calls(w) /\ Reads(w)
      /\ worker[w] \in Busy /\ TenantOf[j] \in Tenants /\ Op(w)' = j
      /\ worker[w].fence \in Nat /\ worker[w].localFence \in Nat
  BY BusyFields DEF WorkersInv, ProtocolInv, WorkersTypeOK, Op
<1>1. /\ worker[w].fence <= job'[j].fence
      /\ worker[w].fence > 0 => job'[j].attempt > 0
      /\ HoldsFence(j, worker[w].fence)' => HoldsFence(j, worker[w].fence)
      /\ worker[w].localFence <= localLease'[j].fence
      /\ worker[w].localFence > 0 /\ LocalFenceValid(j, worker[w].localFence)'
           => LocalFenceValid(j, worker[w].localFence)
      /\ worker[w].opened => deletion'[TenantOf[j]] = "none"
      /\ worker[w].opened /\ Committed(j) => Committed(j)'
  BY Surroundings DEF HoldsFence, LocalFenceValid
<1>2. /\ Forfeit(j) => Forfeit(j)'
      /\ j \in inbox => j \in inbox' \/ Forfeit(j)'
  BY <1>0, TenantGoesOn, IsLedgerStep
<1>3. ASSUME worker[w].localFence > 0,
             LocalFenceValid(j, worker[w].localFence) \/ HoldsFence(j, worker[w].fence),
             ~Committed(j)
      PROVE  ~Committed(j)'
  <2>1. SUFFICES ASSUME Committed(j)' PROVE FALSE
    OBVIOUS
  <2>2. PICK v \in Workers : /\ Moving(v, j) /\ At(v, "committing")
                             /\ LocalFenceValid(j, worker[v].localFence)
    BY <1>0, <1>3, <2>1, ReceiptAround DEF ReceiptGoesOn, Committed
  <2>. QED BY <1>3, <2>2, Rivals DEF Moving
<1>4. ASSUME worker[w].pc = "committing", LocalFenceValid(j, worker[w].localFence)
       PROVE  Held(j)'
  <2>1. /\ Held(j) /\ ~Committed(j) /\ worker[w].localFence > 0 /\ job[j].attempt > 0
        /\ worker[w].opened /\ deletion[TenantOf[j]] = "none"
    BY <1>0, <1>4 DEF Alone, Inside, LocalPCs, Copies
  <2>2. ASSUME NEW v \in Workers, Moving(v, j), At(v, "finishing") PROVE FALSE
    <3>1. Inside(v) /\ Committed(j)
      BY <2>2 DEF WorkersInv, ProtocolInv, Moving, Inside, At, SettlePCs
    <3>. QED BY <2>1, <3>1
  <2>3. ASSUME NEW v \in Workers, Moving(v, j), MayRelease(v) PROVE FALSE
    <3>1. v # w /\ IsBusy(v) /\ Op(v) = j
      BY <2>3 DEF Moving
    <3>. QED BY <1>4, <2>3, <3>1, Rivals DEF MayRelease, At
  <2>. QED BY <1>0, <2>1, <2>2, <2>3, UnitsAround DEF UnitsGoOn, Held
<1>5. Copies(w)'
  BY <1>0, <1>1 DEF Copies, Op
<1>6. Inside(w)'
  BY <1>0, <1>1, <1>2 DEF Inside, Op, SettlePCs
<1>7. Alone(w)'
  <2>1. worker[w].pc \in LocalPCs => worker[w].localFence > 0
    BY <1>0 DEF Inside
  <2>2. worker[w].pc = "committing" => worker[w].pc \in LocalPCs
    BY DEF LocalPCs
  <2>. QED BY <1>0, <1>1, <1>3, <1>4, <2>1, <2>2
           DEF Alone, Op, LocalFenceValid, HoldsFence, Held
<1>8. Calls(w)'
  <2>1. UsageGoesOn(j)
    BY <1>0, UsageAround
  <2>2. ASSUME NEW v \in Workers, Moving(v, j), At(v, "calling"), HoldsFence(j, worker[v].fence),
               worker[w].pc \in {"recording", "calling"}, HoldsFence(j, worker[w].fence)
        PROVE  FALSE
    <3>1. v # w /\ Apart(v, w) /\ Copies(v) /\ worker[v].fence \in Nat
      BY <2>2, BusyFields DEF Moving, WorkersInv, ProtocolInv
    <3>. QED BY <2>2, <3>1 DEF Apart, Copies, HoldsFence, At
  <2>3. ASSUME NEW v \in Workers, Moving(v, j), At(v, "confirming")
        PROVE  worker[v].fence # worker[w].fence
    <3>1. v # w /\ Apart(v, w) /\ Copies(v) /\ worker[v].fence \in Nat
      BY <2>3, BusyFields DEF Moving, WorkersInv, ProtocolInv
    <3>. QED BY <2>3, <3>1 DEF Apart, Copies, At
  <2>4. worker[w].pc \in {"recording", "calling"} /\ HoldsFence(j, worker[w].fence)'
          => called'[j] = {}
    BY <1>0, <1>1, <2>1, <2>2 DEF UsageGoesOn, Calls
  <2>5. worker[w].fence \in unknownUsage[j] => worker[w].fence \in unknownUsage'[j]
    BY <2>1, <2>3 DEF UsageGoesOn
  <2>. QED BY <1>0, <2>4, <2>5 DEF Calls, Op, HoldsFence
<1>9. Reads(w)'
  <2>1. MayRelease(w)' => MayRelease(w)
    BY <1>0, <1>1 DEF MayRelease, HoldsFence
  <2>2. MayRelease(w) /\ ~Committed(j) => ~Committed(j)'
    BY <1>3 DEF MayRelease
  <2>. QED BY <1>0, <1>2, <2>1, <2>2 DEF Reads, Op
<1>. QED BY <1>5, <1>6, <1>7, <1>8, <1>9 DEF WorkerInv

-----------------------------------------------------------------------------
(* What holds of every operation.                                            *)

LEMMA ClaimantKept ==
  ASSUME WorkersInv, WorkersTypeOK', [WorkersNext]_workersVars, NEW k \in Jobs
  PROVE  Claimant(k)'
<1>0. /\ LedgerInv /\ Claimant(k) /\ [JobsNext]_jobsVars /\ MaxFence \in Nat
      /\ job[k].fence \in Nat /\ job'[k].fence \in Nat
      /\ job[k].attempt \in Nat /\ job'[k].attempt \in Nat
  BY IsLedgerStep, ConstantsAssumption
  DEF WorkersInv, WorkersTypeOK, ProtocolInv, JobsTypeOK, JobRecord, ConstantsAssumption
<1>1. CASE GoesOn(job[k], job'[k])
  <2>1. /\ Forfeit(k) => Forfeit(k)'
        /\ tenant'[TenantOf[k]].generation = tenant[TenantOf[k]].generation \/ Forfeit(k)'
    BY <1>0, TenantGoesOn DEF TenantStays, Forfeit, StatusOf
  <2>2. job'[k].state # "none" => GenerationCurrent(k)' \/ Forfeit(k)'
    BY <1>0, <1>1, <2>1 DEF GoesOn, Claimant, GenerationCurrent
  <2>3. job'[k].state = "none" => job'[k].attempt = 0
    BY <1>0, <1>1 DEF GoesOn, Claimant
  <2>4. job'[k].state = "running" => job'[k].fence \in 1 .. MaxFence /\ job'[k].attempt > 0
    BY <1>0, <1>1 DEF GoesOn, Claimant
  <2>. QED BY <2>2, <2>3, <2>4 DEF Claimant
<1>2. CASE Accepted(k)
  BY <1>2 DEF Accepted, Claimant, GenerationCurrent
<1>. QED BY <1>0, <1>1, <1>2, JobsGoOn

\* A result is committed by a worker that has called the provider: its attempt
\* is on record, and its units are held.
LEMMA NewReceipt ==
  ASSUME WorkersInv, [WorkersNext]_workersVars, NEW k \in Jobs, ~Committed(k), Committed(k)'
  PROVE  /\ Held(k) /\ job[k].attempt > 0 /\ unknownUsage[k] # {}
         /\ outbox'[k] = "pending" /\ UNCHANGED <<jobsVars, unknownUsage, called>>
<1>1. PICK v \in Workers : /\ Moving(v, k) /\ At(v, "committing")
                           /\ LocalFenceValid(k, worker[v].localFence)
  BY ReceiptAround DEF ReceiptGoesOn, Committed
<1>2. /\ outbox'[k] = "pending" /\ UNCHANGED <<jobsVars, unknownUsage, called>>
  BY ReceiptAround DEF ReceiptGoesOn, Committed
<1>3. Copies(v) /\ Alone(v) /\ Calls(v) /\ Op(v) = k /\ worker[v].fence \in Nat
  BY <1>1, BusyFields DEF Moving, WorkersInv, ProtocolInv
<1>. QED BY <1>1, <1>2, <1>3 DEF Copies, Alone, Calls, At

LEMMA SoundKept ==
  ASSUME WorkersInv, WorkersTypeOK', [WorkersNext]_workersVars, NEW k \in Jobs
  PROVE  Sound(k)'
<1>0. /\ LedgerInv /\ Sound(k) /\ [JobsNext]_jobsVars
      /\ job[k].attempt \in Nat /\ job'[k].attempt \in Nat
      /\ receipt[k] \in {"none", "succeeded", "partial"}
  BY IsLedgerStep, WorkersAssumption
  DEF WorkersInv, WorkersTypeOK, ProtocolInv, JobsTypeOK, JobRecord, ExecutionTypeOK,
      WorkersAssumption
<1>1. outbox'[k] # "none" => Committed(k)'
  BY <1>0, ReceiptAround DEF ReceiptGoesOn, Committed, Results, Sound
<1>2. outbox'[k] = "acknowledged" => k \in inbox' \/ Forfeit(k)'
  <2>1. ASSUME NEW v \in Workers, Moving(v, k), At(v, "acking")
        PROVE  k \in inbox \/ Forfeit(k)
    BY <2>1 DEF Moving, At, WorkersInv, ProtocolInv, Inside
  <2>2. k \in inbox \/ Forfeit(k) => k \in inbox' \/ Forfeit(k)'
    BY <1>0, TenantGoesOn
  <2>. QED BY <1>0, <2>1, <2>2, ReceiptAround DEF ReceiptGoesOn, Sound
<1>3. Committed(k)' => job'[k].attempt > 0
  <2>1. CASE Committed(k)
    <3>1. job[k].attempt > 0
      BY <1>0, <2>1 DEF Sound
    <3>2. ~Accepted(k)
      BY <3>1 DEF Accepted, WorkersInv, ProtocolInv, Claimant
    <3>3. GoesOn(job[k], job'[k])
      BY <1>0, <3>2, JobsGoOn
    <3>. QED BY <1>0, <3>1, <3>3 DEF GoesOn
  <2>2. CASE ~Committed(k) /\ Committed(k)'
    BY <2>2, NewReceipt DEF jobsVars, ledgerVars
  <2>. QED BY <2>1, <2>2
<1>4. called'[k] \subseteq unknownUsage'[k] /\ \A a, b \in called'[k] : a = b
  <2>1. ASSUME NEW v \in Workers, Moving(v, k), At(v, "calling"), HoldsFence(k, worker[v].fence)
        PROVE  called[k] = {} /\ worker[v].fence \in unknownUsage[k]
    BY <2>1 DEF Moving, At, WorkersInv, ProtocolInv, Calls
  <2>. QED BY <1>0, <2>1, UsageAround DEF UsageGoesOn, Sound
<1>5. ~ConfirmsUsage /\ Committed(k)' => unknownUsage'[k] # {}
  <2>1. ASSUME NEW v \in Workers, Moving(v, k), At(v, "confirming")
        PROVE  ConfirmsUsage
    BY <2>1 DEF Moving, At, WorkersInv, ProtocolInv, Inside
  <2>2. ~ConfirmsUsage /\ unknownUsage[k] # {} => unknownUsage'[k] # {}
    BY <2>1, UsageAround DEF UsageGoesOn
  <2>3. CASE Committed(k)
    BY <1>0, <2>2, <2>3 DEF Sound
  <2>4. CASE ~Committed(k) /\ Committed(k)'
    BY <2>2, <2>4, NewReceipt
  <2>. QED BY <2>3, <2>4
<1>. QED BY <1>1, <1>2, <1>3, <1>4, <1>5 DEF Sound

LEMMA ClosingsKept ==
  ASSUME WorkersInv, [WorkersNext]_workersVars
  PROVE  Closings'
<1>1. \A t \in Tenants : TenantStays(t)
  BY TenantGoesOn, IsLedgerStep DEF WorkersInv
<1>. QED BY <1>1, DirectoryAround DEF TenantStays, DirectoryGoesOn, Closings, WorkersInv, ProtocolInv

LEMMA NoFalseReleaseKept ==
  ASSUME WorkersInv, WorkersTypeOK', [WorkersNext]_workersVars
  PROVE  NoFalseRelease'
<1>. SUFFICES ASSUME ReliableReceipt \/ ReliableUsage, NEW k \in Jobs,
                     reservation'[k].state = "released", Committed(k)'
              PROVE  Forfeit(k)'
  BY DEF NoFalseRelease, ReliableReceipt, ReliableUsage
<1>0. /\ LedgerInv /\ Sound(k) /\ NoFalseRelease /\ (Forfeit(k) => Forfeit(k)')
  BY TenantGoesOn, IsLedgerStep DEF WorkersInv, ProtocolInv
<1>1. CASE ~Committed(k)
  BY <1>1, NewReceipt DEF jobsVars, ledgerVars, Held
<1>2. CASE Committed(k) /\ reservation[k].state = "released"
  BY <1>0, <1>2 DEF NoFalseRelease
<1>3. CASE Committed(k) /\ reservation[k].state # "released"
  <2>1. job[k].attempt > 0
    BY <1>0, <1>3 DEF Sound
  <2>2. ASSUME NEW v \in Workers, Moving(v, k), MayRelease(v), Releasing(v)
        PROVE  Forfeit(k)
    <3>1. Alone(v) /\ Reads(v) /\ Op(v) = k
      BY <2>2 DEF Moving, WorkersInv, ProtocolInv
    <3>2. CASE At(v, "examine")
      BY <1>3, <2>2, <3>1, <3>2 DEF At, Alone, LocalPCs, MayRelease
    <3>3. CASE At(v, "resolving") /\ ~worker[v].committed /\ ~worker[v].uncertain
      BY <1>3, <2>2, <3>1, <3>3 DEF At, Reads
    <3>. QED BY <2>2, <3>2, <3>3 DEF Releasing
  <2>. QED BY <1>0, <1>3, <2>1, <2>2, UnitsAround DEF UnitsGoOn
<1>. QED BY <1>1, <1>2, <1>3

-----------------------------------------------------------------------------
(* The worker that moves.                                                    *)

ApartFromAll(w) ==
  \A v \in Workers \ {w} : IsBusy(v) /\ IsBusy(w) /\ Op(v) = Op(w) => Apart(v, w) /\ Apart(w, v)

Arrived(w) == IsBusy(w) => WorkerInv(w) /\ ApartFromAll(w)

Quiet == UNCHANGED <<jobsVars, executionVars, unknownUsage, called, deletion>>

LEMMA QuietFacts ==
  ASSUME Quiet, NEW j
  PROVE  /\ job' = job /\ reservation' = reservation /\ inbox' = inbox /\ tenant' = tenant
         /\ localLease' = localLease /\ receipt' = receipt /\ outbox' = outbox
         /\ called' = called /\ unknownUsage' = unknownUsage /\ deletion' = deletion
         /\ (Committed(j)' <=> Committed(j)) /\ (Forfeit(j)' <=> Forfeit(j))
         /\ (Held(j)' <=> Held(j))
BY DEF Quiet, jobsVars, tenancyVars, ledgerVars, executionVars, Committed, Forfeit, StatusOf, Held

\* A worker that goes on keeps its copies, and its distance to the others.
LEMMA GoesCopies ==
  ASSUME WorkersInv, WorkersTypeOK', [WorkersNext]_workersVars, NEW w \in Workers, IsBusy(w),
         NEW pc \in PCs \ {"reclaiming"}, Goes(w, pc),
         worker'[w].opened \in {worker[w].opened, TRUE},
         worker[w].pc \notin {"reclaiming", "acking"},
         pc \in {"settling", "finishing", "acking"} \/ ~worker[w].reconciling
  PROVE  /\ Copies(w)'
         /\ pc # "committing" => ApartFromAll(w)'
<1>. SUFFICES ASSUME NEW j \in Jobs, Op(w) = j
              PROVE  Copies(w)' /\ (pc # "committing" => ApartFromAll(w)')
  BY BusyFields DEF WorkersInv
<1>0. /\ Copies(w) /\ Op(w)' = j /\ worker'[w].pc = pc
      /\ worker'[w].fence = worker[w].fence /\ worker'[w].localFence = worker[w].localFence
      /\ worker'[w].reconciling = worker[w].reconciling
  BY DEF WorkersInv, ProtocolInv, Goes, Op
<1>1. /\ worker[w].fence <= job'[j].fence
      /\ worker[w].fence > 0 => job'[j].attempt > 0
      /\ worker[w].localFence <= localLease'[j].fence
  BY Surroundings
<1>2. Copies(w)'
  <2>1. worker[w].fence # 0
    BY <1>0 DEF Copies
  <2>2. worker'[w].reconciling => worker'[w].opened
    BY <1>0 DEF Copies
  <2>3. worker'[w].localFence > 0 => worker'[w].opened
    BY <1>0 DEF Copies
  <2>4. worker'[w].reconciling => worker'[w].localFence = 0 /\ pc \in {"settling", "finishing", "acking"}
    BY <1>0 DEF Copies
  <2>5. worker'[w].fence <= MaxFence
    BY <1>0 DEF Copies
  <2>. QED BY <1>0, <1>1, <2>1, <2>2, <2>3, <2>4, <2>5 DEF Copies
<1>3. ASSUME pc # "committing", NEW v \in Workers \ {w}, IsBusy(v)', Op(v)' = j
      PROVE  Apart(v, w)' /\ Apart(w, v)'
  <2>1. worker'[v] = worker[v]
    BY DEF Goes, OthersStay
  <2>2. IsBusy(v) /\ Op(v) = j
    BY <1>3, <2>1 DEF IsBusy, Op
  <2>3. Apart(v, w) /\ Apart(w, v)
    BY <2>2 DEF WorkersInv, ProtocolInv
  <2>. QED BY <1>0, <1>3, <2>1, <2>3 DEF Apart
<1>. QED BY <1>0, <1>2, <1>3 DEF ApartFromAll

LEMMA ThrownArrives ==
  ASSUME WorkersInv, WorkersTypeOK', [WorkersNext]_workersVars, NEW w \in Workers, IsBusy(w),
         Thrown(w)
  PROVE  Arrived(w)'
<1>1. CASE Leaves(w)
  BY <1>1 DEF Leaves, Arrived, IsBusy
<1>2. CASE Goes(w, "caught") /\ Keeps(w) /\ ~worker[w].reconciling
  <2>. SUFFICES ASSUME NEW j \in Jobs, Op(w) = j
                PROVE  Arrived(w)'
    BY BusyFields DEF WorkersInv
  <2>1. /\ Copies(w) /\ Op(w)' = j /\ worker'[w].pc = "caught"
        /\ worker'[w].fence = worker[w].fence /\ worker'[w].localFence = worker[w].localFence
        /\ worker'[w].reconciling = worker[w].reconciling
        /\ worker'[w].opened = worker[w].opened
    BY <1>2 DEF WorkersInv, ProtocolInv, Goes, Keeps, Op
  <2>2. /\ worker[w].fence <= job'[j].fence
        /\ worker[w].fence > 0 => job'[j].attempt > 0
        /\ worker[w].localFence <= localLease'[j].fence
        /\ worker[w].opened => deletion'[TenantOf[j]] = "none"
    BY Surroundings
  <2>3. Copies(w)'
    BY <1>2, <2>1, <2>2 DEF Copies
  <2>4. Inside(w)' /\ Alone(w)' /\ Calls(w)' /\ Reads(w)'
    BY <2>1, <2>2 DEF Inside, Alone, Calls, Reads, LocalPCs, SettlePCs
  <2>5. ASSUME NEW v \in Workers \ {w}, IsBusy(v)', Op(v)' = j
        PROVE  Apart(v, w)' /\ Apart(w, v)'
    <3>1. worker'[v] = worker[v]
      BY <1>2 DEF Goes, OthersStay
    <3>2. IsBusy(v) /\ Op(v) = j
      BY <2>5, <3>1 DEF IsBusy, Op
    <3>3. Apart(v, w) /\ Apart(w, v)
      BY <3>2 DEF WorkersInv, ProtocolInv
    <3>. QED BY <2>1, <3>1, <3>3 DEF Apart
  <2>. QED BY <2>1, <2>3, <2>4, <2>5 DEF Arrived, WorkerInv, ApartFromAll
<1>. QED BY <1>1, <1>2 DEF Thrown

\* One that goes on under its own copies: what remains is what it knows.
LEMMA GoesArrives ==
  ASSUME WorkersInv, WorkersTypeOK', [WorkersNext]_workersVars, NEW w \in Workers, IsBusy(w),
         NEW pc \in PCs \ {"reclaiming", "committing"}, Goes(w, pc),
         worker'[w].opened \in {worker[w].opened, TRUE},
         worker[w].pc \notin {"reclaiming", "acking"},
         pc \in {"settling", "finishing", "acking"} \/ ~worker[w].reconciling,
         Inside(w)', Alone(w)', Calls(w)', Reads(w)'
  PROVE  Arrived(w)'
BY GoesCopies DEF Arrived, WorkerInv

LEMMA StepArrives ==
  ASSUME WorkersInv, WorkersTypeOK', NEW w \in Workers, WorkerStep(w)
  PROVE  Arrived(w)'
<1>. SUFFICES ASSUME NEW j \in Jobs, Op(w) = j, IsBusy(w)
              PROVE  Arrived(w)'
  BY StepMoves, BusyFields DEF WorkersInv, WorkersTypeOK
<1>0. /\ [WorkersNext]_workersVars /\ WhereTo(w)
      /\ Copies(w) /\ Inside(w) /\ Alone(w) /\ Calls(w) /\ Reads(w) /\ Sound(j) /\ Claimant(j)
      /\ LedgerInv /\ WorkersTypeOK /\ TenantOf[j] \in Tenants /\ worker[w].fence \in Nat
      /\ worker[w].localFence \in Nat
  BY StepMoves, BusyFields DEF WorkersNext, WorkersInv, ProtocolInv, WorkersTypeOK
<1>1. /\ worker[w].fence <= job'[j].fence
      /\ worker[w].fence > 0 => job'[j].attempt > 0
      /\ job'[j].state = "running" /\ job'[j].fence = worker[w].fence
           => HoldsFence(j, worker[w].fence)
      /\ worker[w].localFence <= localLease'[j].fence
      /\ worker[w].localFence > 0 /\ localLease'[j].fence = worker[w].localFence
           /\ localLease'[j].state = "live" => LocalFenceValid(j, worker[w].localFence)
      /\ worker[w].opened => deletion'[TenantOf[j]] = "none"
      /\ worker[w].opened /\ Committed(j) => Committed(j)'
  BY <1>0, Surroundings
<1>2. Thrown(w) \/ Leaves(w) => Arrived(w)'
  BY <1>0, ThrownArrives DEF Thrown
<1>3. ASSUME NEW pc, Goes(w, pc)
      PROVE  /\ Op(w)' = j /\ worker'[w].pc = pc /\ worker'[w].fence = worker[w].fence
             /\ worker'[w].localFence = worker[w].localFence
  BY <1>3 DEF Goes, Op
<1>4. CASE CheckTenant(w) /\ ~Thrown(w)
  <2>1. Goes(w, "checked") /\ Keeps(w) /\ worker[w].pc = "claimed"
    BY <1>0, <1>4 DEF WhereTo, CheckTenant, At
  <2>2. Inside(w)' /\ Alone(w)' /\ Calls(w)' /\ Reads(w)'
    BY <1>1, <1>3, <2>1 DEF Keeps, Inside, Alone, Calls, Reads, LocalPCs, SettlePCs
  <2>3. ~worker[w].reconciling
    BY <1>0, <2>1 DEF Copies
  <2>. QED BY <1>0, <2>1, <2>2, <2>3, GoesArrives DEF Keeps, PCs
<1>5. CASE OpenRuntime(w) /\ ~Thrown(w)
  <2>1. /\ Goes(w, "opened") /\ worker[w].pc = "checked" /\ worker'[w].opened = TRUE
        /\ deletion'[TenantOf[j]] = "none"
    BY <1>0, <1>5 DEF WhereTo, OpenRuntime, At, RuntimeOpen, otherVars
  <2>2. Inside(w)' /\ Alone(w)' /\ Calls(w)' /\ Reads(w)'
    BY <1>3, <2>1 DEF Inside, Alone, Calls, Reads, LocalPCs, SettlePCs
  <2>3. ~worker[w].reconciling
    BY <1>0, <2>1 DEF Copies
  <2>. QED BY <1>0, <2>1, <2>2, <2>3, GoesArrives DEF PCs
<1>6. CASE ReadUsage(w)
  <2>1. /\ \/ Goes(w, "recording") /\ UsageKnown(j)
           \/ Goes(w, "blocked")
        /\ Keeps(w) /\ worker[w].pc = "examine" /\ Quiet
    BY <1>0, <1>6 DEF WhereTo, ReadUsage, At, Quiet, otherVars
  <2>2. called[j] = {} \/ ~UsageKnown(j)
    BY <1>0 DEF Sound, UsageKnown
  <2>3. ~worker[w].reconciling
    BY <1>0, <2>1 DEF Copies
  <2>4. ASSUME NEW pc \in {"recording", "blocked"}, Goes(w, pc), pc = "recording" => UsageKnown(j)
        PROVE  Arrived(w)'
    <3>1. Inside(w)' /\ Reads(w)'
      BY <1>0, <1>1, <1>3, <2>1, <2>4 DEF Keeps, Inside, Reads, LocalPCs, SettlePCs
    <3>2. Alone(w)' /\ Calls(w)'
      BY <1>0, <1>3, <2>1, <2>2, <2>4, QuietFacts
      DEF Alone, Calls, LocalPCs, LocalFenceValid, HoldsFence
    <3>. QED BY <1>0, <2>1, <2>3, <2>4, <3>1, <3>2, GoesArrives DEF Keeps, PCs
  <2>. QED BY <2>1, <2>4
<1>7. CASE RecordUsage(w)
  <2>1. /\ Goes(w, "calling") /\ Keeps(w) /\ worker[w].pc = "recording"
        /\ UNCHANGED <<jobsVars, executionVars, called, deletion>>
        /\ worker[w].fence \in unknownUsage'[j]
    BY <1>0, <1>7 DEF WhereTo, RecordUsage, At, WorkersTypeOK
  <2>2. ~worker[w].reconciling
    BY <1>0, <2>1 DEF Copies
  <2>3. Inside(w)' /\ Reads(w)'
    BY <1>0, <1>1, <1>3, <2>1 DEF Keeps, Inside, Reads, LocalPCs, SettlePCs
  <2>4. job' = job /\ localLease' = localLease /\ receipt' = receipt /\ called' = called
    BY <2>1 DEF jobsVars, ledgerVars, executionVars
  <2>5. Alone(w)' /\ Calls(w)'
    BY <1>0, <1>3, <2>1, <2>4 DEF Alone, Calls, LocalPCs, LocalFenceValid, HoldsFence, Committed
  <2>. QED BY <1>0, <2>1, <2>2, <2>3, <2>5, GoesArrives DEF Keeps, PCs
<1>8. CASE CallProvider(w) /\ ~Thrown(w)
  <2>1. /\ Goes(w, "called") /\ Keeps(w) /\ worker[w].pc = "calling"
        /\ UNCHANGED <<jobsVars, executionVars, unknownUsage, deletion>>
    BY <1>0, <1>8 DEF WhereTo, CallProvider, At
  <2>2. ~worker[w].reconciling
    BY <1>0, <2>1 DEF Copies
  <2>3. Inside(w)' /\ Reads(w)'
    BY <1>0, <1>1, <1>3, <2>1 DEF Keeps, Inside, Reads, LocalPCs, SettlePCs
  <2>4. job' = job /\ localLease' = localLease /\ receipt' = receipt
        /\ unknownUsage' = unknownUsage
    BY <2>1 DEF jobsVars, ledgerVars, executionVars
  <2>5. Alone(w)' /\ Calls(w)'
    BY <1>0, <1>3, <2>1, <2>4 DEF Alone, Calls, LocalPCs, LocalFenceValid, HoldsFence, Committed
  <2>. QED BY <1>0, <2>1, <2>2, <2>3, <2>5, GoesArrives DEF Keeps, PCs
<1>9. CASE ClaimLocal(w) /\ ~Thrown(w)
  <2>1. /\ worker[w].pc = "opened" /\ UNCHANGED <<jobsVars, otherVars>>
        /\ deletion' = deletion /\ job' = job
    BY <1>9 DEF ClaimLocal, At, otherVars, jobsVars, ledgerVars
  <2>2. ~worker[w].reconciling /\ worker[w].opened
    BY <1>0, <2>1 DEF Copies, Inside
  <2>3. CASE Committed(j) /\ Goes(w, "settling") /\ Keeps(w)
    <3>1. Inside(w)'
      BY <1>1, <1>3, <2>2, <2>3 DEF Keeps, Inside, LocalPCs, SettlePCs
    <3>2. Alone(w)' /\ Calls(w)' /\ Reads(w)'
      BY <1>3, <2>3 DEF Alone, Calls, Reads, LocalPCs
    <3>. QED BY <1>0, <2>1, <2>2, <2>3, <3>1, <3>2, GoesArrives DEF Keeps, PCs
  <2>4. CASE /\ ClaimExecution(j) /\ OthersStay(w) /\ worker'[w] \in Busy
             /\ worker'[w].pc = "examine" /\ worker'[w].op = j
             /\ worker'[w].fence = worker[w].fence
             /\ worker'[w].localFence = localLease'[j].fence
             /\ worker'[w].reconciling = worker[w].reconciling
             /\ worker'[w].opened = worker[w].opened
    <3>1. /\ localLease[j].fence \in Nat /\ localLease'[j].fence = localLease[j].fence + 1
          /\ ~Committed(j) /\ ~Committed(j)'
      BY <1>0, <2>4, WorkersAssumption
      DEF WorkersTypeOK, ExecutionTypeOK, WorkersAssumption, ClaimExecution, Committed
    <3>2. Copies(w)'
      BY <1>0, <1>1, <2>1, <2>2, <2>4, <3>1 DEF Copies, Op
    <3>3. Inside(w)' /\ Alone(w)' /\ Calls(w)' /\ Reads(w)'
      BY <1>0, <2>1, <2>2, <2>4, <3>1 DEF Inside, Alone, Calls, Reads, Op, LocalPCs, SettlePCs
    <3>4. ASSUME NEW v \in Workers \ {w}, IsBusy(v)', Op(v)' = j
          PROVE  Apart(v, w)' /\ Apart(w, v)'
      <4>1. worker'[v] = worker[v]
        BY <2>4 DEF OthersStay
      <4>2. IsBusy(v) /\ Op(v) = j
        BY <3>4, <4>1 DEF IsBusy, Op
      <4>3. /\ Apart(v, w) /\ Apart(w, v) /\ worker[v].localFence <= localLease[j].fence
            /\ worker[v].localFence \in Nat
        BY <4>2, BusyFields DEF WorkersInv, ProtocolInv, Copies
      <4>. QED BY <1>0, <2>4, <3>1, <4>1, <4>3 DEF Apart
    <3>5. Op(w)' = j
      BY <2>4 DEF Op
    <3>. QED BY <3>2, <3>3, <3>4, <3>5 DEF Arrived, WorkerInv, ApartFromAll
  <2>. QED BY <1>0, <1>9, <2>3, <2>4 DEF WhereTo
<1>10. CASE AuthorizeCommit(w) /\ ~Thrown(w)
  <2>1. /\ Goes(w, "committing") /\ Keeps(w) /\ worker[w].pc = "called" /\ Quiet
        /\ HoldsFence(j, worker[w].fence)
    BY <1>0, <1>10 DEF WhereTo, AuthorizeCommit, Refused, At, Quiet, AttemptCurrent
  <2>2. ~worker[w].reconciling /\ worker[w].localFence > 0 /\ ~Committed(j)
        /\ worker[w].fence \in unknownUsage[j]
    BY <1>0, <2>1 DEF Copies, Inside, Alone, Calls, LocalPCs
  <2>3. Held(j)
    BY <1>0, <2>1 DEF HoldsFence, LedgerInv, JobAgrees, InPlay
  <2>4. Inside(w)' /\ Reads(w)'
    BY <1>0, <1>1, <1>3, <2>1, <2>2 DEF Keeps, Inside, Reads, LocalPCs, SettlePCs
  <2>5. Alone(w)' /\ Calls(w)'
    BY <1>3, <2>1, <2>2, <2>3, QuietFacts DEF Alone, Calls, LocalPCs
  <2>6. Copies(w)'
    BY <1>0, <2>1, <2>2, GoesCopies DEF Keeps, PCs
  <2>7. ASSUME NEW v \in Workers \ {w}, IsBusy(v)', Op(v)' = j
        PROVE  Apart(v, w)' /\ Apart(w, v)'
    <3>1. worker'[v] = worker[v]
      BY <2>1 DEF Goes, OthersStay
    <3>2. IsBusy(v) /\ Op(v) = j
      BY <2>7, <3>1 DEF IsBusy, Op
    <3>3. /\ Apart(v, w) /\ Apart(w, v) /\ worker[v].fence <= job[j].fence
          /\ worker[v].fence \in Nat
      BY <3>2, BusyFields DEF WorkersInv, ProtocolInv, Copies
    <3>. QED BY <1>0, <1>3, <2>1, <3>1, <3>3 DEF Apart, HoldsFence
  <2>. QED BY <1>3, <2>1, <2>4, <2>5, <2>6, <2>7 DEF Arrived, WorkerInv, ApartFromAll
<1>11. CASE Commit(w) /\ ~Thrown(w)
  <2>1. /\ Goes(w, IF ConfirmsUsage THEN "confirming" ELSE "settling") /\ Keeps(w)
        /\ worker[w].pc = "committing" /\ unknownUsage' = unknownUsage
        /\ \E r \in Results : CommitResult(j, worker[w].localFence, r)
    BY <1>0, <1>11 DEF WhereTo, Commit, At, otherVars
  <2>2. /\ ~worker[w].reconciling /\ worker[w].opened
        /\ worker[w].fence \in unknownUsage[j]
    BY <1>0, <2>1 DEF Copies, Inside, Calls, LocalPCs
  <2>3. Committed(j)'
    BY <1>0, <2>1, WorkersAssumption
    DEF WorkersTypeOK, ExecutionTypeOK, WorkersAssumption, CommitResult, Committed, Results
  <2>4. ASSUME NEW pc \in {"confirming", "settling"}, Goes(w, pc), pc = "confirming" => ConfirmsUsage
        PROVE  Arrived(w)'
    <3>1. Inside(w)' /\ Alone(w)' /\ Reads(w)' /\ Calls(w)'
      BY <1>1, <1>3, <2>1, <2>2, <2>3, <2>4
      DEF Keeps, Inside, Alone, Reads, Calls, LocalPCs, SettlePCs
    <3>. QED BY <1>0, <2>1, <2>2, <2>4, <3>1, GoesArrives DEF Keeps, PCs
  <2>. QED BY <2>1, <2>4
<1>12. CASE ConfirmUsage(w) \/ (ReadOutbox(w) /\ ~Thrown(w)) \/ (Finish(w) /\ ~Thrown(w))
  <2>1. PICK pc \in {"settling", "finishing", "acking"} : Goes(w, pc)
    BY <1>0, <1>12 DEF WhereTo
  <2>2. Keeps(w) /\ worker[w].pc \in {"confirming", "settling", "finishing"}
    BY <1>0, <1>12 DEF WhereTo, ConfirmUsage, ReadOutbox, Finish, At
  <2>3. worker[w].opened /\ Committed(j)
    BY <1>0, <2>2 DEF Inside, SettlePCs
  <2>4. pc = "acking" => j \in inbox'
    <3>1. CASE Finish(w) /\ j \in inbox /\ UNCHANGED jobsVars
      BY <3>1 DEF jobsVars, ledgerVars
    <3>2. CASE Finish(w) /\ FinishJobAndSettle(j, worker[w].fence, receipt[j])
      BY <3>2 DEF FinishJobAndSettle
    <3>3. CASE ConfirmUsage(w) \/ ReadOutbox(w)
      BY <1>0, <1>3, <1>12, <2>1, <3>3 DEF WhereTo, Thrown, Leaves
    <3>. QED BY <1>0, <1>12, <3>1, <3>2, <3>3 DEF WhereTo
  <2>5. Inside(w)' /\ Alone(w)' /\ Reads(w)' /\ Calls(w)'
    BY <1>1, <1>3, <2>1, <2>2, <2>3, <2>4
    DEF Keeps, Inside, Alone, Reads, Calls, LocalPCs, SettlePCs
  <2>. QED BY <1>0, <2>1, <2>2, <2>5, GoesArrives DEF Keeps, PCs
<1>13. CASE InspectReceipt(w)
  <2>1. /\ Goes(w, "counting") /\ worker'[w].opened = worker[w].opened
        /\ worker'[w].committed \in Answers("receipt", worker[w].opened /\ Readable(j) /\ Committed(j))
        /\ worker[w].pc = "caught" /\ Quiet
    BY <1>0, <1>13 DEF WhereTo, InspectReceipt, At, Quiet, otherVars
  <2>2. ~worker[w].reconciling
    BY <1>0, <2>1 DEF Copies
  <2>3. Inside(w)' /\ Alone(w)' /\ Calls(w)'
    BY <1>1, <1>3, <2>1 DEF Inside, Alone, Calls, LocalPCs, SettlePCs
  <2>4. ASSUME HoldsFence(j, worker[w].fence), worker[w].opened, ~Forfeit(j)
        PROVE  Readable(j)
    <3>1. StatusOf(j) \in {"active", "suspended", "deleting", "deleted"}
      BY <1>0 DEF WorkersTypeOK, JobsTypeOK, StatusOf, TenantStates
    <3>. QED BY <1>0, <2>4, <3>1 DEF Claimant, HoldsFence, Forfeit, Readable
  <2>5. ReliableReceipt /\ ~worker'[w].committed =>
          ~(worker[w].opened /\ Readable(j) /\ Committed(j))
    BY <2>1 DEF Answers, ReliableReceipt
  <2>6. Reads(w)'
    BY <1>0, <1>3, <2>1, <2>4, <2>5, QuietFacts DEF Reads, MayRelease, HoldsFence, Copies
  <2>. QED BY <1>0, <2>1, <2>2, <2>3, <2>6, GoesArrives DEF PCs
<1>14. CASE InspectUsage(w)
  <2>1. /\ Goes(w, "resolving") /\ worker'[w].opened = worker[w].opened
        /\ worker'[w].committed = worker[w].committed
        /\ worker'[w].uncertain \in Answers("usage", ~UsageKnown(j))
        /\ worker[w].pc = "counting" /\ Quiet
    BY <1>0, <1>14 DEF WhereTo, InspectUsage, At, Quiet, otherVars
  <2>2. ~worker[w].reconciling
    BY <1>0, <2>1 DEF Copies
  <2>3. Inside(w)' /\ Alone(w)' /\ Calls(w)'
    BY <1>1, <1>3, <2>1 DEF Inside, Alone, Calls, LocalPCs, SettlePCs
  <2>4. ReliableUsage /\ ~worker'[w].uncertain => ~Committed(j)
    BY <1>0, <2>1 DEF Answers, ReliableUsage, UsageKnown, Sound
  <2>5. Reads(w)'
    BY <1>0, <1>3, <2>1, <2>4, QuietFacts DEF Reads, MayRelease, HoldsFence
  <2>. QED BY <1>0, <2>1, <2>2, <2>3, <2>5, GoesArrives DEF PCs
<1>15. CASE Reclaim(w) /\ ~Leaves(w)
  <2>1. /\ ClaimJobForReconciliation(j) /\ OthersStay(w) /\ worker'[w] \in Busy
        /\ worker'[w].pc = "settling" /\ worker'[w].op = j
        /\ worker'[w].fence = job'[j].fence
        /\ worker'[w].localFence = worker[w].localFence
        /\ worker'[w].reconciling = worker[w].reconciling
        /\ worker'[w].opened = worker[w].opened
        /\ worker[w].pc = "reclaiming"
    BY <1>0, <1>15 DEF WhereTo, Reclaim, At
  <2>2. /\ worker[w].fence = 0 /\ worker[w].localFence = 0 /\ worker[w].opened
        /\ Committed(j)
    BY <1>0, <2>1 DEF Copies, Inside, SettlePCs
  <2>3. /\ job[j].fence \in Nat /\ job'[j].fence = job[j].fence + 1 /\ job'[j].fence <= MaxFence
        /\ job'[j].attempt > 0
    BY <1>0, <2>1, ConstantsAssumption
    DEF WorkersTypeOK, JobsTypeOK, JobRecord, ClaimJobForReconciliation, Claimed,
        ConstantsAssumption
  <2>4. Copies(w)'
    BY <1>0, <1>1, <2>1, <2>2, <2>3 DEF Copies, Op
  <2>5. Inside(w)' /\ Alone(w)' /\ Calls(w)' /\ Reads(w)'
    BY <1>1, <2>1, <2>2 DEF Inside, Alone, Calls, Reads, Op, LocalPCs, SettlePCs
  <2>6. ASSUME NEW v \in Workers \ {w}, IsBusy(v)', Op(v)' = j
        PROVE  Apart(v, w)' /\ Apart(w, v)'
    <3>1. worker'[v] = worker[v]
      BY <2>1 DEF OthersStay
    <3>2. IsBusy(v) /\ Op(v) = j
      BY <2>6, <3>1 DEF IsBusy, Op
    <3>3. worker[v].fence <= job[j].fence /\ worker[v].fence \in Nat /\ worker[v].localFence \in Nat
      BY <3>2, BusyFields DEF WorkersInv, ProtocolInv, Copies
    <3>. QED BY <2>1, <2>2, <2>3, <3>1, <3>3 DEF Apart
  <2>7. Op(w)' = j
    BY <2>1 DEF Op
  <2>. QED BY <2>4, <2>5, <2>6, <2>7 DEF Arrived, WorkerInv, ApartFromAll
<1>16. CASE StopWithoutReceipt(w) \/ StopForReview(w) \/ HeartbeatLost(w) \/ Resolve(w)
            \/ Acknowledge(w)
  BY <1>0, <1>2, <1>16 DEF WhereTo
<1>. QED BY <1>2, <1>4, <1>5, <1>6, <1>7, <1>8, <1>9, <1>10, <1>11, <1>12, <1>13, <1>14, <1>15,
            <1>16 DEF WorkerStep

\* A new run has the greatest fence there is of its operation.
LEMMA OtherArrives ==
  ASSUME WorkersInv, WorkersTypeOK', NEW w \in Workers, Claim(w) \/ Fault(w) \/ Crash(w)
  PROVE  Arrived(w)'
<1>0. WorkersTypeOK /\ [WorkersNext]_workersVars /\ JobsTypeOK' /\ MaxFence \in Nat
  BY ConstantsAssumption DEF WorkersInv, WorkersTypeOK, WorkersNext, ConstantsAssumption
<1>1. CASE Fault(w) \/ Crash(w)
  BY <1>0, <1>1, OtherMoves, ThrownArrives DEF Thrown
<1>2. CASE Claim(w)
  <2>1. /\ OthersStay(w) /\ worker'[w] \in Busy
        /\ worker'[w].pc = "claimed" /\ worker'[w].localFence = 0
        /\ worker'[w].reconciling = FALSE /\ worker'[w].opened = FALSE
    BY <1>0, <1>2, OtherMoves
  <2>2. PICK j \in Jobs : ClaimJob(j) /\ worker'[w].op = j /\ worker'[w].fence = job'[j].fence
    BY <1>0, <1>2, OtherMoves
  <2>3. /\ job[j].fence \in Nat /\ job'[j].fence = job[j].fence + 1 /\ job'[j].fence <= MaxFence
        /\ job'[j].attempt > 0
    <3>0. JobsTypeOK /\ job[j].fence \in Nat
      BY <1>0 DEF WorkersTypeOK, JobsTypeOK, JobRecord
    <3>1. SweptJob(j) \in JobRecord /\ SweptJob(j).fence = job[j].fence /\ job[j].fence \in Nat
      BY <3>0, SweptFields, SweptTyped
    <3>2. \E e : job'[j] = Claimed(SweptJob(j), e)
      BY <2>2 DEF ClaimJob
    <3>3. job'[j].fence = job[j].fence + 1 /\ job'[j].attempt > 0
      BY <3>1, <3>2 DEF Claimed, JobRecord
    <3>. QED BY <1>0, <2>2, <3>1, <3>3 DEF ClaimJob
  <2>4. Op(w)' = j /\ localLease'[j].fence \in Nat
    BY <2>1, <2>2, WorkersAssumption
    DEF Op, WorkersTypeOK, ExecutionTypeOK, WorkersAssumption
  <2>5. Copies(w)'
    BY <2>1, <2>2, <2>3, <2>4 DEF Copies
  <2>6. Inside(w)' /\ Alone(w)' /\ Calls(w)' /\ Reads(w)'
    BY <2>1 DEF Inside, Alone, Calls, Reads, LocalPCs, SettlePCs
  <2>7. ASSUME NEW v \in Workers \ {w}, IsBusy(v)', Op(v)' = j
        PROVE  Apart(v, w)' /\ Apart(w, v)'
    <3>1. worker'[v] = worker[v]
      BY <2>1 DEF OthersStay
    <3>2. IsBusy(v) /\ Op(v) = j
      BY <2>7, <3>1 DEF IsBusy, Op
    <3>3. worker[v].fence <= job[j].fence /\ worker[v].fence \in Nat /\ worker[v].localFence \in Nat
      BY <1>0, <3>2, BusyFields DEF WorkersInv, ProtocolInv, Copies
    <3>. QED BY <2>1, <2>2, <2>3, <3>1, <3>3 DEF Apart
  <2>. QED BY <2>4, <2>5, <2>6, <2>7 DEF Arrived, WorkerInv, ApartFromAll
<1>. QED BY <1>1, <1>2

LEMMA EventArrives ==
  ASSUME WorkersInv, WorkersTypeOK', NEW w \in Workers, NEW j \in Jobs, ReconcileEvent(w, j)
  PROVE  Arrived(w)'
<1>0. WorkersTypeOK /\ LedgerInv /\ Sound(j) /\ JobsTypeOK' /\ MaxFence \in Nat
  BY ConstantsAssumption DEF WorkersInv, WorkersTypeOK, ProtocolInv, ConstantsAssumption
<1>1. /\ OthersStay(w) /\ worker'[w] \in Busy
      /\ worker'[w].op = j /\ worker'[w].fence = 0 /\ worker'[w].localFence = 0
      /\ worker'[w].reconciling = TRUE /\ worker'[w].opened = TRUE
      /\ worker'[w].pc = IF job[j].state \in Results THEN "acking" ELSE "reclaiming"
  BY <1>0, OtherMoves
<1>2. /\ Op(w)' = j /\ job'[j].fence \in Nat /\ localLease'[j].fence \in Nat
  BY <1>0, <1>1, WorkersAssumption
  DEF Op, WorkersTypeOK, JobsTypeOK, JobRecord, ExecutionTypeOK, WorkersAssumption
<1>3. /\ deletion'[TenantOf[j]] = "none" /\ Committed(j)'
      /\ job[j].state \in Results => j \in inbox'
  <2>1. /\ RuntimeOpen(TenantOf[j]) /\ outbox[j] = "pending"
        /\ UNCHANGED <<jobsVars, executionVars, otherVars>>
    BY DEF ReconcileEvent
  <2>2. deletion' = deletion /\ receipt' = receipt /\ inbox' = inbox
    BY <2>1 DEF jobsVars, ledgerVars, executionVars, otherVars
  <2>. QED BY <1>0, <2>1, <2>2 DEF RuntimeOpen, Sound, Committed, LedgerInv, JobAgrees
<1>4. Copies(w)'
  BY <1>0, <1>1, <1>2 DEF Copies
<1>5. Inside(w)' /\ Alone(w)' /\ Calls(w)' /\ Reads(w)'
  BY <1>1, <1>2, <1>3 DEF Inside, Alone, Calls, Reads, MayRelease, LocalPCs, SettlePCs
<1>6. ASSUME NEW v \in Workers \ {w}
      PROVE  Apart(v, w)' /\ Apart(w, v)'
  BY <1>1, <1>2 DEF Apart
<1>. QED BY <1>1, <1>4, <1>5, <1>6 DEF Arrived, WorkerInv, ApartFromAll

\* Only a worker's own actions move it.
LEMMA OwnMove ==
  ASSUME WorkersInv, WorkersTypeOK', [WorkersNext]_workersVars, NEW w \in Workers,
         worker'[w] # worker[w]
  PROVE  \/ WorkerStep(w) \/ Claim(w) \/ Fault(w) \/ Crash(w)
         \/ \E j \in Jobs : ReconcileEvent(w, j)
<1>0. JobsTypeOK' /\ ExecutionTypeOK'
  BY DEF WorkersTypeOK
<1>1. ASSUME NEW v \in Workers, WorkerStep(v)
      PROVE  OthersStay(v)
  <2>1. WhereTo(v)
    BY <1>0, <1>1, StepMoves
  <2>. QED BY <1>1, <2>1 DEF WhereTo, WorkerStep, Goes, Thrown, Leaves
<1>2. ASSUME NEW v \in Workers, Claim(v) \/ Fault(v) \/ Crash(v)
      PROVE  OthersStay(v)
  BY <1>0, <1>2, OtherMoves DEF Thrown, Leaves, Goes
<1>3. ASSUME NEW v \in Workers, NEW j \in Jobs, ReconcileEvent(v, j)
      PROVE  OthersStay(v)
  BY <1>0, <1>3, OtherMoves
<1>. QED BY <1>1, <1>2, <1>3
  DEF OthersStay, WorkersNext, SubmitStep, Prepare, PersistRequest, Activate, ExpirePreparing,
      StopDeleting, Change, Lapse, LocalLapse, DeletionStep, DrainTenant, RemoveTenant,
      FinishDeletion, Suspension, OwnerDisabled, Administration, PeriodChange, Sweep,
      RecoverStoppedWriters, workersVars, processVars

LEMMA MoverArrives ==
  ASSUME WorkersInv, WorkersTypeOK', [WorkersNext]_workersVars, NEW w \in Workers,
         worker'[w] # worker[w]
  PROVE  Arrived(w)'
  BY OwnMove, StepArrives, OtherArrives, EventArrives

LEMMA WorkersStep == WorkersInv /\ [WorkersNext]_workersVars => WorkersInv'
<1>. SUFFICES ASSUME WorkersInv, [WorkersNext]_workersVars PROVE WorkersInv'
  OBVIOUS
<1>1. WorkersTypeOK'
  BY WorkersStepTyped
<1>2. LedgerInv'
  BY IsLedgerStep, LedgerStep DEF WorkersInv
<1>3. ASSUME NEW w \in Workers, IsBusy(w)'
      PROVE  WorkerInv(w)'
  <2>1. CASE worker'[w] = worker[w]
    BY <1>1, <1>3, <2>1, Undisturbed DEF IsBusy
  <2>2. CASE worker'[w] # worker[w]
    BY <1>1, <1>3, <2>2, MoverArrives DEF Arrived
  <2>. QED BY <2>1, <2>2
<1>4. ASSUME NEW v \in Workers, NEW w \in Workers, v # w, IsBusy(v)', IsBusy(w)', Op(v)' = Op(w)'
      PROVE  Apart(v, w)'
  <2>1. CASE worker'[v] = worker[v] /\ worker'[w] = worker[w]
    <3>1. IsBusy(v) /\ IsBusy(w) /\ Op(v) = Op(w)
      BY <1>4, <2>1 DEF IsBusy, Op
    <3>2. Apart(v, w)
      BY <1>4, <3>1 DEF WorkersInv, ProtocolInv
    <3>. QED BY <2>1, <3>2 DEF Apart
  <2>2. CASE worker'[w] # worker[w]
    BY <1>1, <1>4, <2>2, MoverArrives DEF Arrived, ApartFromAll
  <2>3. CASE worker'[v] # worker[v]
    BY <1>1, <1>4, <2>3, MoverArrives DEF Arrived, ApartFromAll
  <2>. QED BY <2>1, <2>2, <2>3
<1>5. \A j \in Jobs : Sound(j)' /\ Claimant(j)'
  BY <1>1, SoundKept, ClaimantKept
<1>6. Closings' /\ NoFalseRelease'
  BY <1>1, ClosingsKept, NoFalseReleaseKept
<1>7. ProtocolInv'
  BY <1>3, <1>4, <1>5, <1>6 DEF ProtocolInv, WorkerInv
<1>. QED BY <1>1, <1>2, <1>7 DEF WorkersInv

LEMMA WorkersStart == WorkersInit => WorkersInv
<1>. SUFFICES ASSUME WorkersInit PROVE WorkersInv
  OBVIOUS
<1>1. LedgerInv /\ JobsTypeOK
  BY LedgerInit DEF WorkersInit, LedgerInv
<1>2. ExecutionTypeOK
  BY DEF WorkersInit, ExecutionInit, ExecutionTypeOK, NoLocalLease
<1>3. WorkersTypeOK
  BY <1>1, <1>2, WorkersAssumption DEF WorkersInit, WorkersTypeOK, WorkersAssumption
<1>4. \A w \in Workers : ~IsBusy(w)
  BY DEF WorkersInit, IsBusy
<1>5. ASSUME NEW j \in Jobs
      PROVE  Sound(j) /\ Claimant(j) /\ reservation[j].state = "none"
  <2>1. /\ receipt[j] = "none" /\ outbox[j] = "none" /\ called[j] = {} /\ unknownUsage[j] = {}
        /\ job[j] = NoJob /\ reservation[j] = NoReservation
    BY WorkersAssumption
    DEF WorkersInit, JobsInit, ExecutionInit, WorkersAssumption
  <2>. QED BY <2>1 DEF Sound, Claimant, Committed, NoJob, NoReservation
<1>6. Closings
  BY DEF WorkersInit, Closings
<1>7. NoFalseRelease
  BY <1>5 DEF NoFalseRelease
<1>. QED BY <1>1, <1>3, <1>4, <1>5, <1>6, <1>7 DEF WorkersInv, ProtocolInv

LEMMA WorkersInvHolds == WorkersSpec => []WorkersInv
  BY WorkersStart, WorkersStep, PTL DEF WorkersSpec

-----------------------------------------------------------------------------
(* What holds of the protocol in every state.                                *)

\* Every variable keeps its type, however many workers there are.
THEOREM WorkersTyped == WorkersSpec => []WorkersTypeOK
<1>1. WorkersInv => WorkersTypeOK
  BY DEF WorkersInv
<1>. QED BY <1>1, WorkersInvHolds, PTL

\* The workers, the submitting clients and the deletion pass use the ledger only
\* through its operations, so that what is proved of the ledger alone (that its
\* tables agree, that settlement is final, that one job of a tenant runs at a
\* time) holds of it in the whole service.
THEOREM UsesTheLedger == WorkersSpec => JobsSpec
<1>1. WorkersInit => JobsInit
  BY DEF WorkersInit
<1>2. WorkersInv /\ [WorkersNext]_workersVars => [JobsNext]_jobsVars
  BY IsLedgerStep
<1>. QED BY <1>1, <1>2, WorkersInvHolds, PTL DEF WorkersSpec, JobsSpec

\* A result event is acknowledged only after the control plane settled it.
THEOREM SettledFirst == WorkersSpec => []SettledBeforeAck
<1>1. WorkersInv => SettledBeforeAck
  BY DEF WorkersInv, ProtocolInv, Sound, Forfeit, SettledBeforeAck
<1>. QED BY <1>1, WorkersInvHolds, PTL

\* The provider is never called again while an earlier call may still cost
\* something.
THEOREM CalledOnce == WorkersSpec => []NoBlindProviderRetry
<1>1. WorkersInv => NoBlindProviderRetry
  BY DEF WorkersInv, ProtocolInv, Sound, NoBlindProviderRetry
<1>. QED BY <1>1, WorkersInvHolds, PTL

\* At least one of the two reads of the catch block answers: the receipt, or
\* the attempts of a provider whose usage nobody has confirmed.  Without it
\* UnverifiedIsNotAbsent fails, and what follows from it too.
ReliableReads == ReliableReceipt \/ ReliableUsage

\* Units are given back only where the tenant's database holds no receipt, as
\* long as one of the two reads answers.
THEOREM ReleasedWithoutReceipt ==
  ASSUME ReliableReads
  PROVE  WorkersSpec => []UnverifiedIsNotAbsent
<1>1. WorkersInv => UnverifiedIsNotAbsent
  <2>. SUFFICES ASSUME WorkersInv, NEW j \in Jobs, reservation[j].state = "released", Committed(j)
                PROVE  TenantOf[j] \in Closed
    BY DEF UnverifiedIsNotAbsent
  <2>1. Forfeit(j) /\ TenantOf[j] \in Tenants
    BY ConstantsAssumption
    DEF ConstantsAssumption, WorkersInv, ProtocolInv, NoFalseRelease, ReliableReads
  <2>. QED BY <2>1 DEF Forfeit, StatusOf, Closed
<1>. QED BY <1>1, WorkersInvHolds, PTL

LEMMA LateStep ==
  ASSUME ReliableReads, WorkersInv, [WorkersNext]_workersVars, NEW w \in Workers,
         ~IsIdle(w), worker'[w] # worker[w], ~At(w, "reclaiming"), job'[Op(w)] # job[Op(w)]
  PROVE  worker[w].fence = job[Op(w)].fence
<1>. SUFFICES ASSUME NEW j \in Jobs, Op(w) = j PROVE worker[w].fence = job[j].fence
  BY BusyFields DEF WorkersInv, IsIdle, IsBusy
<1>0. /\ WorkersTypeOK' /\ LedgerInv /\ WorkersTypeOK /\ NoFalseRelease /\ Inside(w)
      /\ IsBusy(w)
  BY WorkersStepTyped DEF WorkersInv, ProtocolInv, IsIdle, IsBusy
<1>1. job' # job
  OBVIOUS
<1>2. CASE WorkerStep(w)
  <2>1. \A outcome, stopped : AttemptStop(w, outcome, stopped) => HoldsFence(j, worker[w].fence)
    BY <1>1 DEF AttemptStop, jobsVars, ledgerVars
  <2>2. CASE StopWithoutReceipt(w) \/ StopForReview(w)
    BY <2>1, <2>2 DEF StopWithoutReceipt, StopForReview, HoldsFence
  <2>3. CASE Resolve(w)
    <3>1. CASE \E outcome, stopped : AttemptStop(w, outcome, stopped)
      BY <2>1, <3>1 DEF HoldsFence
    <3>2. CASE RetryJob(j, worker[w].fence, UsageKnown(j))
      BY <3>2 DEF RetryJob, Retryable, ValidFence
    <3>. QED BY <1>1, <2>3, <3>1, <3>2 DEF Resolve, jobsVars, ledgerVars
  <2>4. CASE Finish(w)
    <3>1. Settleable(j, worker[w].fence, receipt[j]) /\ worker[w].pc = "finishing"
      BY <1>1, <2>4 DEF Finish, FinishJobAndSettle, At, jobsVars, ledgerVars
    <3>2. Committed(j) /\ ~Forfeit(j)
      BY <1>0, <3>1 DEF Inside, SettlePCs, Settleable, Forfeit
    <3>3. reservation[j].state # "released"
      BY <1>0, <3>2 DEF NoFalseRelease, ReliableReads
    <3>4. job[j].state \notin Results
      BY <1>0, <3>1 DEF LedgerInv, JobAgrees, Settleable
    <3>. QED BY <3>1, <3>3, <3>4 DEF Settleable, ValidFence
  <2>5. UNCHANGED jobsVars => FALSE
    BY <1>1 DEF jobsVars, ledgerVars
  <2>. QED BY <1>2, <2>2, <2>3, <2>4, <2>5
           DEF WorkerStep, CheckTenant, OpenRuntime, ClaimLocal, ReadUsage, RecordUsage,
               CallProvider, AuthorizeCommit, HeartbeatLost, Commit, ConfirmUsage, ReadOutbox,
               Acknowledge, InspectReceipt, InspectUsage, Reclaim
<1>3. CASE Claim(w) \/ \E k \in Jobs : ReconcileEvent(w, k)
  BY <1>3 DEF Claim, ReconcileEvent
<1>4. CASE Fault(w) \/ Crash(w)
  BY <1>1, <1>4 DEF Fault, Crash, jobsVars, ledgerVars
<1>. QED BY <1>0, <1>2, <1>3, <1>4, OwnMove

\* A worker that comes back after another took its job over can neither end nor
\* retry nor settle it.
THEOREM LateWorkers ==
  ASSUME ReliableReads
  PROVE  WorkersSpec => LateWorkersAreFenced
<1>1. WorkersInv /\ [WorkersNext]_workersVars =>
        [\A w \in Workers :
           ~IsIdle(w) /\ worker'[w] # worker[w] /\ ~At(w, "reclaiming")
             /\ job'[Op(w)] # job[Op(w)]
           => worker[w].fence = job[Op(w)].fence]_workersVars
  BY LateStep
<1>. QED BY <1>1, WorkersInvHolds, PTL DEF WorkersSpec, LateWorkersAreFenced

-----------------------------------------------------------------------------
(* The protocol implements OperationLedger.                                  *)

Charge == [j \in Jobs |-> reservation[j].state]
Paid == [j \in Jobs |-> Cardinality({u \in usage : u.operation = j /\ u.delta = 1})]

\* The only steps that write usage rows, receipts, or which tenants are closed.
LEMMA RowsAround ==
  ASSUME WorkersInv, [WorkersNext]_workersVars
  PROVE  \/ UNCHANGED usage
         \/ \E w \in Workers : /\ At(w, "finishing") /\ IsBusy(w)
                               /\ FinishJobAndSettle(Op(w), worker[w].fence, receipt[Op(w)])
<1>1. ASSUME NEW w \in Workers, WorkerStep(w)
      PROVE  UNCHANGED usage \/ Finish(w)
  BY <1>1
  DEF WorkerStep, CheckTenant, OpenRuntime, ClaimLocal, StopWithoutReceipt, ReadUsage,
      StopForReview, RecordUsage, CallProvider, AuthorizeCommit, HeartbeatLost, Commit,
      ConfirmUsage, ReadOutbox, Acknowledge, InspectReceipt, InspectUsage, Resolve, Reclaim,
      AttemptStop, StopJob, RetryJob, ClaimJobForReconciliation, jobsVars, ledgerVars
<1>2. ASSUME NEW w \in Workers, Claim(w) \/ Fault(w) \/ Crash(w)
      PROVE  UNCHANGED usage
  BY <1>2 DEF Claim, ClaimJob, Fault, Crash, jobsVars, ledgerVars
<1>3. ASSUME NEW w \in Workers, NEW j \in Jobs, ReconcileEvent(w, j)
      PROVE  UNCHANGED usage
  BY <1>3 DEF ReconcileEvent, jobsVars, ledgerVars
<1>4. ASSUME NEW j \in Jobs,
             SubmitStep(j) \/ StopDeleting(j) \/ Change(j) \/ Lapse(j) \/ LocalLapse(j)
      PROVE  UNCHANGED usage
  BY <1>4
  DEF SubmitStep, Prepare, PrepareReservedJob, PersistRequest, Activate, ActivatePreparedJob,
      ExpirePreparing, CancelPendingJob, StopDeleting, StopJob, Change, RequestCancellation,
      DeadlinePasses, Lapse, LeaseLapses, LocalLapse, jobsVars, ledgerVars
<1>5. ASSUME NEW t \in Tenants,
             DeletionStep(t) \/ Suspension(t) \/ OwnerDisabled(t) \/ Administration(t)
      PROVE  UNCHANGED usage
  BY <1>5
  DEF DeletionStep, DrainTenant, RemoveTenant, FinishDeletion, CompleteDeletion, Suspension,
      SuspendTenant, OwnerDisabled, SetUserStatus, Administration, ResumeTenant, BeginDeletion,
      jobsVars, ledgerVars
<1>6. ASSUME NEW p \in Periods, PeriodChange(p)
      PROVE  UNCHANGED usage
  BY <1>6 DEF PeriodChange, RevokePeriod, PeriodTurns, ledgerVars
<1>7. Sweep \/ RecoverStoppedWriters \/ UNCHANGED workersVars => UNCHANGED usage
  BY DEF Sweep, ClaimNothing, RecoverStoppedWriters, workersVars, jobsVars, ledgerVars
<1>8. ASSUME NEW w \in Workers, Finish(w)
      PROVE  \/ UNCHANGED usage
             \/ /\ At(w, "finishing") /\ IsBusy(w)
                /\ FinishJobAndSettle(Op(w), worker[w].fence, receipt[Op(w)])
  <2>1. IsBusy(w)
    BY <1>8, BusyFields DEF Finish, At, WorkersInv
  <2>. QED BY <1>8, <2>1 DEF Finish, jobsVars, ledgerVars
<1>. QED BY <1>1, <1>2, <1>3, <1>4, <1>5, <1>6, <1>7, <1>8 DEF WorkersNext

LEMMA ReceiptsAround ==
  ASSUME [WorkersNext]_workersVars
  PROVE  \/ UNCHANGED receipt
         \/ \E w \in Workers : WorkerStep(w) /\ Commit(w)
         \/ \E t \in Tenants : RemoveTenant(t)
<1>1. ASSUME NEW w \in Workers, WorkerStep(w)
      PROVE  UNCHANGED receipt \/ Commit(w)
  BY <1>1
  DEF WorkerStep, CheckTenant, OpenRuntime, ClaimLocal, ClaimExecution, StopWithoutReceipt,
      ReadUsage, StopForReview, RecordUsage, CallProvider, AuthorizeCommit, HeartbeatLost,
      ConfirmUsage, ReadOutbox, Finish, Acknowledge, AckOutbox, InspectReceipt, InspectUsage,
      Resolve, Reclaim, executionVars
<1>2. ASSUME NEW w \in Workers, Claim(w) \/ Fault(w) \/ Crash(w)
      PROVE  UNCHANGED receipt
  BY <1>2 DEF Claim, Fault, Crash, executionVars
<1>3. ASSUME NEW j \in Jobs,
             SubmitStep(j) \/ StopDeleting(j) \/ Change(j) \/ Lapse(j) \/ LocalLapse(j)
      PROVE  UNCHANGED receipt
  BY <1>3 DEF SubmitStep, Prepare, PersistRequest, PutExecutionRequest, Activate,
              ExpirePreparing, StopDeleting, Change, Lapse, LocalLapse, LocalLeaseLapses,
              executionVars
<1>4. ASSUME NEW t \in Tenants,
             DeletionStep(t) \/ Suspension(t) \/ OwnerDisabled(t) \/ Administration(t)
      PROVE  UNCHANGED receipt \/ RemoveTenant(t)
  BY <1>4 DEF DeletionStep, DrainTenant, FinishDeletion, Suspension, OwnerDisabled,
              Administration, executionVars
<1>. QED BY <1>1, <1>2, <1>3, <1>4
         DEF WorkersNext, ReconcileEvent, PeriodChange, Sweep, RecoverStoppedWriters,
             workersVars, executionVars

LEMMA ClosedAround ==
  ASSUME JobsTypeOK, [JobsNext]_jobsVars
  PROVE  Closed' = Closed \/ \E t \in Tenants : Closed' = Closed \cup {t}
<1>0. tenant \in [Tenants -> [status: TenantStates, generation: Nat]]
  BY DEF JobsTypeOK
<1>1. UNCHANGED tenant => Closed' = Closed
  BY DEF Closed
<1>2. ASSUME NEW t \in Tenants, TenantStep(t)
      PROVE  Closed' = Closed \/ Closed' = Closed \cup {t}
  <2>1. \A u \in Tenants \ {t} : tenant'[u] = tenant[u]
    BY <1>0, <1>2 DEF TenantStep, SuspendTenant, ResumeTenant, SetUserStatus, BeginDeletion,
                      CompleteDeletion
  <2>2. tenant[t].status \in {"deleting", "deleted"} =>
          tenant'[t].status \in {"deleting", "deleted"}
    BY <1>0, <1>2 DEF TenantStep, SuspendTenant, ResumeTenant, SetUserStatus, BeginDeletion,
                      CompleteDeletion
  <2>. QED BY <2>1, <2>2 DEF Closed
<1>3. ASSUME NEW j \in Jobs, JobStep(j) \/ \E fence \in Fences : AttemptStep(j, fence)
      PROVE  UNCHANGED tenant
  BY <1>3 DEF JobStep, PrepareReservedJob, ActivatePreparedJob, CancelPendingJob,
              RequestCancellation, ClaimJob, ClaimJobForReconciliation, LeaseLapses,
              DeadlinePasses, AttemptStep, FinishJobAndSettle, RetryJob, StopJob, tenancyVars
<1>. QED BY <1>1, <1>2, <1>3
         DEF JobsNext, ClaimNothing, RevokePeriod, PeriodTurns, jobsVars, tenancyVars

LEMMA AcceptAround ==
  ASSUME LedgerInv, [JobsNext]_jobsVars, NEW k \in Jobs,
         reservation[k].state = "none", reservation'[k].state = "held"
  PROVE  PrepareReservedJob(k)
<1>0. JobsTypeOK
  BY DEF LedgerInv
<1>1. ASSUME NEW j \in Jobs, PrepareReservedJob(j)
      PROVE  PrepareReservedJob(k)
  BY <1>0, <1>1, AcceptFields
<1>2. ~Settles
  <2>1. SUFFICES ASSUME NEW j \in Jobs, NEW fence, NEW r \in Results,
                        FinishJobAndSettle(j, fence, r)
                 PROVE  FALSE
    BY DEF Settles
  <2>. QED BY <1>0, <2>1, SettleFields DEF FinishJobAndSettle, Settleable, Held
<1>3. ~Erases
  BY <1>0, EraseFields, ReleasedFields DEF Erases, Held
<1>4. Accepts
  <2>1. SUFFICES ASSUME ~Accepts PROVE FALSE
    OBVIOUS
  <2>2. Ordinary(k)
    BY <1>2, <1>3, <2>1, StepOrdinary
  <2>3. reservation'[k] \notin {reservation[k], Released(k)}
    BY <1>0, ReleasedFields DEF Held
  <2>. QED BY <2>2, <2>3 DEF Ordinary, Unmoved, Cancelled, Moved, Stopped
<1>. QED BY <1>1, <1>4 DEF Accepts

\* Apart from acceptance, units that no usage row was written for stay as they
\* are or are given back, and given back only where there is no result.
LEMMA ChargesFollow ==
  ASSUME ReliableReads, WorkersInv, WorkersInv', [WorkersNext]_workersVars, UNCHANGED usage,
         NEW k \in Jobs, ~PrepareReservedJob(k)
  PROVE  \/ reservation'[k].state = reservation[k].state
         \/ /\ reservation[k].state = "held" /\ reservation'[k].state = "released"
            /\ receipt[k] = "none" \/ TenantOf[k] \in Closed
<1>0. /\ LedgerInv /\ LedgerInv' /\ Sound(k) /\ [JobsNext]_jobsVars /\ TenantOf[k] \in Tenants
  BY IsLedgerStep, ConstantsAssumption DEF WorkersInv, ProtocolInv, ConstantsAssumption
<1>1. CASE reservation[k].state = "none" /\ reservation'[k].state = "held"
  BY <1>0, <1>1, AcceptAround
<1>2. CASE Held(k) /\ reservation'[k].state = "captured"
  <2>1. JobAgrees(k) /\ JobAgrees(k)' /\ Rows(k)' = Rows(k)
    BY <1>0 DEF LedgerInv, Rows
  <2>2. Rows(k) = {}
    BY <1>2, <2>1 DEF JobAgrees, Held
  <2>. QED BY <1>2, <2>1, <2>2 DEF JobAgrees
<1>3. CASE Held(k) /\ reservation'[k].state = "released"
  <2>1. job[k].attempt = 0 => ~Committed(k)
    BY <1>0 DEF Sound
  <2>2. ASSUME NEW v \in Workers, Moving(v, k), MayRelease(v), Releasing(v), Committed(k)
        PROVE  Forfeit(k)
    <3>1. Alone(v) /\ Reads(v) /\ Op(v) = k
      BY <2>2 DEF Moving, WorkersInv, ProtocolInv
    <3>2. CASE At(v, "examine")
      BY <2>2, <3>1, <3>2 DEF At, Alone, LocalPCs, MayRelease
    <3>3. CASE At(v, "resolving") /\ ~worker[v].committed /\ ~worker[v].uncertain
      BY <2>2, <3>1, <3>3 DEF At, Reads, ReliableReads
    <3>. QED BY <2>2, <3>2, <3>3 DEF Releasing
  <2>3. ~Committed(k) \/ Forfeit(k)
    BY <1>3, <2>1, <2>2, UnitsAround DEF UnitsGoOn, Held
  <2>. QED BY <1>0, <1>3, <2>3 DEF Held, Committed, Forfeit, StatusOf, Closed
<1>. QED BY <1>1, <1>2, <1>3, UnitsAround DEF UnitsGoOn, Held

LEMMA GivenBackTogether ==
  ASSUME ReliableReads, WorkersInv, WorkersInv', [WorkersNext]_workersVars,
         UNCHANGED <<usage, receipt>>, \A k \in Jobs : ~PrepareReservedJob(k)
  PROVE  Ledger!LedgerNext
<1>. SUFFICES ASSUME NEW S \in SUBSET Jobs,
                     S = {k \in Jobs : reservation'[k].state # reservation[k].state}
              PROVE  Ledger!LedgerNext
  OBVIOUS
<1>1. \A k \in S : /\ reservation[k].state = "held" /\ reservation'[k].state = "released"
                   /\ receipt[k] = "none" \/ TenantOf[k] \in Closed
  BY ChargesFollow
<1>2. Ledger!GivenBack(S)
  <2>1. Charge' = [k \in Jobs |-> IF k \in S THEN "released" ELSE Charge[k]]
    BY <1>1 DEF Charge
  <2>2. \A k \in S : Charge[k] = "held" /\ (receipt[k] = "none" \/ TenantOf[k] \in Closed)
    BY <1>1 DEF Charge
  <2>. QED BY <2>1, <2>2 DEF Ledger!GivenBack, Ledger!Closing, Charge
<1>3. Paid' = Paid /\ receipt' = receipt
  BY DEF Paid
<1>5. CASE Closed' = Closed
  <2>1. Ledger!Release(S)
    BY <1>2, <1>3, <1>5 DEF Ledger!Release, Paid
  <2>. QED BY <2>1 DEF Ledger!LedgerNext
<1>6. ASSUME NEW t \in Tenants, Closed' = Closed \cup {t}
      PROVE  Ledger!LedgerNext
  <2>1. Ledger!Close(t, S)
    BY <1>2, <1>3, <1>6 DEF Ledger!Close, Paid
  <2>. QED BY <2>1 DEF Ledger!LedgerNext
<1>7. JobsTypeOK /\ [JobsNext]_jobsVars
  BY IsLedgerStep DEF WorkersInv, WorkersTypeOK
<1>. QED BY <1>5, <1>6, <1>7, ClosedAround

\* Settling an operation writes its only usage row.
LEMMA CaptureIsCapture ==
  ASSUME WorkersInv, NEW w \in Workers, At(w, "finishing"), IsBusy(w),
         FinishJobAndSettle(Op(w), worker[w].fence, receipt[Op(w)]), usage' # usage,
         UNCHANGED receipt
  PROVE  Ledger!LedgerNext
<1>. SUFFICES ASSUME NEW j \in Jobs, Op(w) = j PROVE Ledger!LedgerNext
  BY BusyFields DEF WorkersInv
<1>. DEFINE row == [operation |-> j, period |-> reservation[j].period,
                    delta |-> IF receipt[j] = "partial" THEN 0 ELSE Units[j]]
            Charged(rows, k) == {u \in rows : u.operation = k /\ u.delta = 1}
<1>0. /\ JobsTypeOK /\ JobAgrees(j) /\ Inside(w) /\ Units[j] \in {0, 1}
  BY ConstantsAssumption DEF WorkersInv, LedgerInv, ProtocolInv, ConstantsAssumption
<1>1. receipt[j] \in {"succeeded", "partial"}
  BY <1>0, WorkersAssumption
  DEF WorkersInv, WorkersTypeOK, ExecutionTypeOK, WorkersAssumption, Inside, At, SettlePCs,
      Committed
<1>2. /\ Held(j) /\ reservation' = [reservation EXCEPT ![j].state = "captured"]
      /\ usage' = usage \cup {row} /\ UNCHANGED tenant
  BY DEF FinishJobAndSettle, tenancyVars
<1>3. Charge' = [Charge EXCEPT ![j] = "captured"]
  <2>1. reservation \in [Jobs -> ReservationRecord]
    BY <1>0 DEF JobsTypeOK
  <2>2. reservation[j] \in [state: {"held", "captured", "released"}, period: Periods]
    BY <1>2, <2>1 DEF Held, ReservationRecord, NoReservation
  <2>3. reservation'[j].state = "captured" /\ \A k \in Jobs \ {j} : reservation'[k] = reservation[k]
    BY <1>2, <2>1, <2>2
  <2>. QED BY <2>3 DEF Charge
<1>4. Charged(usage', j) = IF receipt[j] = "succeeded" /\ Units[j] = 1 THEN {row} ELSE {}
  <2>1. Rows(j) = {}
    BY <1>0, <1>2 DEF JobAgrees, Held
  <2>2. Charged(usage, j) = {}
    BY <2>1 DEF Rows
  <2>3. row.operation = j /\ row.delta = IF receipt[j] = "partial" THEN 0 ELSE Units[j]
    OBVIOUS
  <2>. HIDE DEF row
  <2>. QED BY <1>0, <1>1, <1>2, <2>2, <2>3
<1>5. \A k \in Jobs \ {j} : Charged(usage', k) = Charged(usage, k)
  <2>1. row.operation = j
    OBVIOUS
  <2>. HIDE DEF row
  <2>. QED BY <1>2, <2>1
<1>6. Cardinality(Charged(usage', j)) = IF receipt[j] = "succeeded" THEN Units[j] ELSE 0
  <2>1. Cardinality({row}) = 1 /\ Cardinality({}) = 0
    BY FS_Singleton, FS_EmptySet
  <2>. HIDE DEF row, Charged
  <2>. QED BY <1>0, <1>4, <2>1
<1>7. Paid' = [Paid EXCEPT ![j] = IF receipt[j] = "succeeded" THEN Units[j] ELSE 0]
  <2>1. /\ Paid = [k \in Jobs |-> Cardinality(Charged(usage, k))]
        /\ Paid' = [k \in Jobs |-> Cardinality(Charged(usage', k))]
    BY DEF Paid
  <2>. HIDE DEF Charged
  <2>. QED BY <1>5, <1>6, <2>1
<1>8. Closed' = Closed
  BY <1>2 DEF Closed
<1>9. Ledger!Capture(j)
  <2>1. Charge[j] = "held" /\ receipt[j] # "none"
    BY <1>1, <1>2 DEF Charge, Held
  <2>2. UNCHANGED <<receipt, Closed>>
    BY <1>8
  <2>. HIDE DEF row, Charged
  <2>. QED BY <1>3, <1>7, <2>1, <2>2 DEF Ledger!Capture, Charge, Paid
<1>. QED BY <1>9 DEF Ledger!LedgerNext

LEMMA LedgerFollows ==
  ASSUME ReliableReads, WorkersInv, WorkersInv', [WorkersNext]_workersVars
  PROVE  [Ledger!LedgerNext]_Ledger!ledger
<1>0. /\ JobsTypeOK /\ LedgerInv /\ [JobsNext]_jobsVars /\ WorkersTypeOK
      /\ receipt \in [Jobs -> {"none", "succeeded", "partial"}]
  BY IsLedgerStep, WorkersAssumption
  DEF WorkersInv, WorkersTypeOK, ExecutionTypeOK, WorkersAssumption
<1>1. CASE UNCHANGED <<usage, receipt>> /\ \A k \in Jobs : ~PrepareReservedJob(k)
  BY <1>1, GivenBackTogether
<1>2. ASSUME UNCHANGED receipt, NEW k \in Jobs, PrepareReservedJob(k)
      PROVE  Ledger!LedgerNext
  <2>1. /\ reservation'[k].state = "held" /\ job[k].state = "none"
        /\ \A j \in Jobs \ {k} : reservation'[j] = reservation[j]
        /\ UNCHANGED <<usage, tenant>> /\ tenant[TenantOf[k]].status = "active"
    BY <1>0, <1>2, AcceptFields DEF PrepareReservedJob
  <2>2. reservation[k].state = "none"
    BY <1>0, <2>1 DEF LedgerInv, JobAgrees
  <2>3. Charge' = [Charge EXCEPT ![k] = "held"] /\ Charge[k] = "none"
    BY <2>1, <2>2 DEF Charge
  <2>4. Paid' = Paid /\ Closed' = Closed /\ TenantOf[k] \notin Closed
    BY <2>1 DEF Paid, Closed
  <2>5. Ledger!Accept(k)
    BY <1>2, <2>3, <2>4 DEF Ledger!Accept, Ledger!Closing, Charge, Paid
  <2>. QED BY <2>5 DEF Ledger!LedgerNext
<1>3. CASE UNCHANGED receipt /\ usage' # usage
  BY <1>3, RowsAround, CaptureIsCapture
<1>4. ASSUME NEW w \in Workers, WorkerStep(w), Commit(w), receipt' # receipt
      PROVE  Ledger!LedgerNext
  <2>. SUFFICES ASSUME NEW j \in Jobs, Op(w) = j PROVE Ledger!LedgerNext
    BY <1>0, <1>4, BusyFields DEF Commit, At
  <2>1. IsBusy(w) /\ worker[w].pc = "committing" /\ Alone(w) /\ UNCHANGED jobsVars
    BY <1>0, <1>4, BusyFields DEF Commit, At, WorkersInv, ProtocolInv
  <2>2. PICK r \in Results : CommitResult(j, worker[w].localFence, r)
    BY <1>4 DEF Commit, executionVars
  <2>3. /\ receipt[j] = "none" /\ LocalFenceValid(j, worker[w].localFence)
        /\ receipt' = [receipt EXCEPT ![j] = r]
    BY <1>4, <2>2 DEF CommitResult, Committed
  <2>4. Charge[j] = "held"
    BY <2>1, <2>3 DEF Alone, Held, Charge
  <2>5. Charge' = Charge /\ Paid' = Paid /\ Closed' = Closed
    BY <2>1 DEF jobsVars, ledgerVars, tenancyVars, Charge, Paid, Closed
  <2>6. Ledger!Produce(j)
    BY <2>3, <2>4, <2>5 DEF Ledger!Produce, Charge, Paid, Results
  <2>. QED BY <2>6 DEF Ledger!LedgerNext
<1>5. ASSUME NEW t \in Tenants, RemoveTenant(t)
      PROVE  Ledger!LedgerNext
  <2>1. t \in Closed
    BY <1>5 DEF RemoveTenant, WorkersInv, ProtocolInv, Closings, Closed
  <2>2. receipt' = [k \in Jobs |-> IF TenantOf[k] = t THEN "none" ELSE receipt[k]]
    BY <1>5, WorkersAssumption DEF RemoveTenant, RemoveRows, JobsOf, WorkersAssumption
  <2>3. Charge' = Charge /\ Paid' = Paid /\ Closed' = Closed
    BY <1>5 DEF RemoveTenant, jobsVars, ledgerVars, tenancyVars, Charge, Paid, Closed
  <2>4. Ledger!Erase(t)
    BY <2>1, <2>2, <2>3 DEF Ledger!Erase, Charge, Paid
  <2>. QED BY <2>4 DEF Ledger!LedgerNext
<1>. QED BY <1>1, <1>2, <1>3, <1>4, <1>5, ReceiptsAround

LEMMA LedgerStarts == WorkersInit => Ledger!LedgerInit
<1>. SUFFICES ASSUME WorkersInit PROVE Ledger!LedgerInit
  OBVIOUS
<1>1. Charge = [j \in Jobs |-> "none"]
  BY DEF WorkersInit, JobsInit, NoReservation, Charge
<1>2. Paid = [j \in Jobs |-> 0]
  BY FS_EmptySet DEF WorkersInit, JobsInit, Paid
<1>3. receipt = [j \in Jobs |-> "none"]
  BY WorkersAssumption DEF WorkersInit, ExecutionInit, WorkersAssumption
<1>4. Closed = {}
  BY DEF WorkersInit, JobsInit, Closed
<1>. QED BY <1>1, <1>2, <1>3, <1>4 DEF Ledger!LedgerInit, Charge, Paid

\* Whatever crashes, stalls or is taken over between the steps of the protocol:
\* nothing is charged without a result, nothing with one is given back, and no
\* result is written for units that were.
THEOREM KeepsThePromise ==
  ASSUME ReliableReads
  PROVE  WorkersSpec => ImplementsLedger
<1>1. WorkersInv /\ WorkersInv' /\ [WorkersNext]_workersVars => [Ledger!LedgerNext]_Ledger!ledger
  BY LedgerFollows
<1>. QED BY <1>1, LedgerStarts, WorkersInvHolds, PTL
         DEF WorkersSpec, ImplementsLedger, Ledger!LedgerSpec
=============================================================================
