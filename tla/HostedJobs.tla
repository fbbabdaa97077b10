----------------------------- MODULE HostedJobs -----------------------------
(***************************************************************************)
(* The control-plane job ledger of the hosted service: jobs, quota         *)
(* reservations, usage rows, the result inbox, delivery intents, and the   *)
(* tenant and subscription facts they are judged by.                       *)
(* Source: packages/db/src/hosted/platform-repositories.ts.  Every         *)
(* repository method runs in one store.transaction, so it is one action.   *)
(*                                                                         *)
(* Time is abstracted to the comparisons the code makes with now: a lease  *)
(* is live or lapsed, an accept deadline has passed or not, a period is    *)
(* current or not; the actions of the section "Time" flip them.  A renewal *)
(* of a live lease leaves it live, so renewJobLease is the test CanRenew.  *)
(* availableAt (a retry's backoff) and the daily job count are left out:   *)
(* they only disable claims and acceptances.                               *)
(*                                                                         *)
(* The module says nothing of who calls: a stop, a settlement or a retry   *)
(* may come with any fence, as it does from a worker that was stalled.     *)
(* Fields no property tells apart (owner of a lease, hashes, timestamps)   *)
(* are left out; an attemptId is drawn afresh together with every new      *)
(* fence, so a caller's fence stands for both.                             *)
(***************************************************************************)
EXTENDS Naturals, FiniteSets

CONSTANTS
  Jobs,              \* operations; one operation is one job and one reservation
  Tenants,           \* tenant ids, ordered as the fairness cursor compares them
  Periods,           \* subscription periods, ordered by startsAt
  TenantOf,          \* the tenant an operation belongs to
  PeriodOwner,       \* the tenant a period belongs to
  Units,             \* the research units the operation's policy reserves
  Notifies,          \* operations whose result event is eligible for delivery
  ResearchUnits,     \* the units the plan of a period grants
  QueuedJobs,        \* the plan's limit of preparing and queued jobs
  MaxGlobalRunning,  \* claimJob's maxGlobalRunning
  MaxFence           \* bound of the model: no claim beyond this fence

\* The deployed job policies charge one unit (watchlist-facts) or none
\* (watch-alerts): hosted-composition.ts:126-135, hosted-providers.ts:358-373.
ASSUME ConstantsAssumption ==
  /\ IsFiniteSet(Jobs)
  /\ Tenants \subseteq Nat \ {0}
  /\ Periods \subseteq Nat \ {0}
  /\ TenantOf \in [Jobs -> Tenants]
  /\ PeriodOwner \in [Periods -> Tenants]
  /\ Units \in [Jobs -> {0, 1}]
  /\ Notifies \subseteq Jobs
  /\ ResearchUnits \in [Periods -> Nat]
  /\ QueuedJobs \in Nat
  /\ MaxGlobalRunning \in Nat
  /\ MaxFence \in Nat

VARIABLES
  tenant,        \* status and generation of each tenant
  owner,         \* status of the user that owns each tenant
  period,        \* each period against the clock and its own status
  job,           \* the jobs table
  reservation,   \* the reservations table, one row per operation
  usage,         \* the usage table
  inbox,         \* operations whose result event was consumed
  delivery,      \* the in-app delivery intent of each operation
  overdue,       \* operations whose accept deadline has passed
  cursor         \* the tenant of the last claim, 0 before the first

tenancyVars == <<tenant, owner, period>>
ledgerVars == <<job, reservation, usage, inbox, delivery>>
jobsVars == <<tenancyVars, ledgerVars, overdue, cursor>>

TenantStates == {"active", "suspended", "deleting", "deleted"}
OwnerStates == {"active", "disabled", "deleted"}
PeriodStates == {"future", "current", "ended", "revoked"}
JobStates == {"none", "preparing", "queued", "running",
              "succeeded", "partial", "failed", "cancelled", "needs-review"}
Results == {"succeeded", "partial"}
NoPeriod == 0
Fences == 1 .. (MaxFence + 1)   \* an erasure adds one to the last claim's fence

\* errorKind keeps the one value the code branches on; all others are "other".
JobRecord == [state: JobStates, attempt: Nat, fence: Nat,
              lease: {"none", "live", "lapsed"}, cancelled: BOOLEAN,
              errorKind: {"other", "receipt-reconciliation"}, generation: Nat]

NoReservation == [state |-> "none", period |-> NoPeriod]
ReservationRecord ==
  {NoReservation} \cup [state: {"held", "captured", "released"}, period: Periods]
UsageRecord == [operation: Jobs, period: Periods, delta: {0, 1}]

NoJob == [state |-> "none", attempt |-> 0, fence |-> 0, lease |-> "none",
          cancelled |-> FALSE, errorKind |-> "other", generation |-> 0]

JobsTypeOK ==
  /\ tenant \in [Tenants -> [status: TenantStates, generation: Nat]]
  /\ owner \in [Tenants -> OwnerStates]
  /\ period \in [Periods -> PeriodStates]
  /\ job \in [Jobs -> JobRecord]
  /\ reservation \in [Jobs -> ReservationRecord]
  /\ usage \subseteq UsageRecord
  /\ inbox \subseteq Jobs
  /\ delivery \in [Jobs -> {"none", "pending", "suppressed"}]
  /\ overdue \subseteq Jobs
  /\ cursor \in Tenants \cup {0}

JobsInit ==
  /\ tenant = [t \in Tenants |-> [status |-> "active", generation |-> 1]]
  /\ owner = [t \in Tenants |-> "active"]
  /\ period \in [Periods -> {"future", "current"}]
  /\ job = [j \in Jobs |-> NoJob]
  /\ reservation = [j \in Jobs |-> NoReservation]
  /\ usage = {}
  /\ inbox = {}
  /\ delivery = [j \in Jobs |-> "none"]
  /\ overdue = {}
  /\ cursor = 0

-----------------------------------------------------------------------------
(* The helpers the repository methods share.                               *)

JobsOf(t) == {j \in Jobs : TenantOf[j] = t}
StatusOf(j) == tenant[TenantOf[j]].status
GenerationCurrent(j) == tenant[TenantOf[j]].generation = job[j].generation
Pending(j) == job[j].state \in {"preparing", "queued"}
Held(j) == reservation[j].state = "held"
Leased(j) == job[j].state = "running" /\ job[j].lease = "live"

PeriodAuthorized(j) == Held(j) /\ period[reservation[j].period] = "current"

\* entitlement: the current period of t that started last.
Entitled(t, p) ==
  /\ PeriodOwner[p] = t /\ period[p] = "current"
  /\ \A q \in Periods : PeriodOwner[q] = t /\ period[q] = "current" => q <= p

HeldUnits(p) ==
  {j \in Jobs : Held(j) /\ reservation[j].period = p /\ Units[j] = 1}
CapturedUnits(p) == {u \in usage : u.period = p /\ u.delta = 1}

\* Mutant: a release that does not ask for a held reservation.
ReleasedAlways(j) == IF reservation[j].state # "none"
                     THEN [reservation[j] EXCEPT !.state = "released"]
                     ELSE reservation[j]

\* release
Released(j) == IF Held(j) THEN [reservation[j] EXCEPT !.state = "released"]
               ELSE reservation[j]

ClearLease(record) == [record EXCEPT !.lease = "none"]

\* validateFence, for a caller that holds the given fence.
ValidFence(j, fence) ==
  Leased(j) /\ job[j].fence = fence /\ GenerationCurrent(j)

HoldsFenceLoosely(j, fence) == job[j].state = "running"   \* Mutant: any fence will do.

\* What stopJob asks of a caller: the fence, but not a live lease.
HoldsFence(j, fence) == job[j].state = "running" /\ job[j].fence = fence

\* cancelPending: a job that was ever attempted keeps its reservation until a
\* worker has looked for its receipt; any other is cancelled and releases.
AwaitsReceiptNever(j) == FALSE   \* Mutant: the attempt count is not looked at.

AwaitsReceipt(j) == job[j].attempt > 0 /\ Held(j)

CancelledJob(j) ==
  IF ~Pending(j) THEN job[j]
  ELSE IF AwaitsReceipt(j)
       THEN [ClearLease(job[j]) EXCEPT !.cancelled = TRUE,
                                       !.errorKind = "receipt-reconciliation"]
       ELSE [ClearLease(job[j]) EXCEPT !.state = "cancelled",
                                       !.errorKind = "other"]

CancelledReservationKept(j) == reservation[j]   \* Mutant: the release is missing.

CancelledReservation(j) ==
  IF Pending(j) /\ ~AwaitsReceipt(j) THEN Released(j) ELSE reservation[j]

CancelPending(S) ==
  /\ job' = [j \in Jobs |-> IF j \in S THEN CancelledJob(j) ELSE job[j]]
  /\ reservation' = [j \in Jobs |-> IF j \in S THEN CancelledReservation(j)
                                    ELSE reservation[j]]

SuppressNothing(t) == UNCHANGED delivery   \* Mutant: intents stay pending.

\* suppressTenantDeliveries
SuppressDeliveries(t) ==
  delivery' = [j \in Jobs |-> IF TenantOf[j] = t /\ delivery[j] = "pending"
                              THEN "suppressed" ELSE delivery[j]]

-----------------------------------------------------------------------------
(* Accepting an operation.                                                 *)

ReserveUnits(j, p) ==
  reservation' = [reservation EXCEPT ![j] = [state |-> "held", period |-> p]]

\* Mutant: units that are only held do not count.
AffordableIgnoringHeld(j, p) ==
  Units[j] + Cardinality(CapturedUnits(p)) <= ResearchUnits[p]

Affordable(j, p) ==
  Units[j] + Cardinality(CapturedUnits(p)) + Cardinality(HeldUnits(p))
    <= ResearchUnits[p]

\* prepareReservedJob; a replay of a known request changes nothing.
PrepareReservedJob(j) ==
  LET t == TenantOf[j] IN
  /\ job[j].state = "none"
  /\ tenant[t].status = "active" /\ owner[t] = "active"
  /\ Cardinality({k \in JobsOf(t) : Pending(k)}) < QueuedJobs
  /\ \E p \in Periods : Entitled(t, p) /\ Affordable(j, p) /\ ReserveUnits(j, p)
  /\ job' = [job EXCEPT ![j] = [NoJob EXCEPT !.state = "preparing",
                                             !.generation = tenant[t].generation]]
  /\ UNCHANGED <<tenancyVars, usage, inbox, delivery, overdue, cursor>>

ActivatePreparedJob(j) ==
  /\ job[j].state = "preparing"
  /\ GenerationCurrent(j)
  /\ IF StatusOf(j) # "active" \/ j \in overdue \/ ~PeriodAuthorized(j)
     THEN CancelPending({j})
     ELSE /\ job' = [job EXCEPT ![j].state = "queued"]
          /\ UNCHANGED reservation
  /\ UNCHANGED <<tenancyVars, usage, inbox, delivery, overdue, cursor>>

CancelPendingJob(j) ==
  /\ Pending(j)
  /\ CancelPending({j})
  /\ UNCHANGED <<tenancyVars, usage, inbox, delivery, overdue, cursor>>

\* requestCancellation by the user; a terminal job is left alone.
RequestCancellation(j) ==
  /\ \/ Pending(j) /\ CancelPending({j})
     \/ /\ job[j].state = "running"
        /\ job' = [job EXCEPT ![j].cancelled = TRUE]
        /\ UNCHANGED reservation
  /\ UNCHANGED <<tenancyVars, usage, inbox, delivery, overdue, cursor>>

-----------------------------------------------------------------------------
(* Claiming.                                                               *)

Unavailable(j) ==
  \/ ~GenerationCurrent(j)
  \/ owner[TenantOf[j]] # "active"
  \/ StatusOf(j) # "active"

\* The sweep claimJob makes over all pending jobs before it picks one.
Stale(j) == Pending(j) /\ (Unavailable(j) \/ j \in overdue \/ ~PeriodAuthorized(j))

SweptJob(j) ==
  IF ~Stale(j) THEN job[j]
  ELSE IF job[j].attempt = 0 THEN CancelledJob(j)
  ELSE IF Unavailable(j)
       THEN [ClearLease(job[j]) EXCEPT !.state = "needs-review",
                                       !.errorKind = "receipt-reconciliation"]
       ELSE job[j]

SweptReservation(j) == IF Stale(j) /\ job[j].attempt = 0
                       THEN CancelledReservation(j) ELSE reservation[j]

LiveLeases == {j \in Jobs : Leased(j)}

WaitingQueued(record) == record.state = "queued"   \* Mutant: lapsed leases are left.

Waiting(record) ==
  record.state = "queued" \/ (record.state = "running" /\ record.lease = "lapsed")

\* Mutant: <= for < in the comparison with the limit.
TenantIdleOffByOne(t) == Cardinality({k \in LiveLeases : TenantOf[k] = t}) <= 1

\* A tenant runs one job at a time: the tool passes maxTenantRunning = 1 and no
\* plan allows fewer.
TenantIdle(t) == \A k \in LiveLeases : TenantOf[k] # t

\* A candidate for a claim.  The sweep has already removed the jobs never
\* attempted whose deadline or period is over.
Claimable(j) == Waiting(SweptJob(j)) /\ ~Unavailable(j) /\ TenantIdle(TenantOf[j])

AfterCursorOrAt(t) == t >= cursor   \* Mutant: >= for >.

AfterCursor(t) == t > cursor

\* The tenant after the cursor in id order, or else the first one.
SelectedTenant(t) ==
  LET candidates == {TenantOf[j] : j \in {k \in Jobs : Claimable(k)}}
      later == {u \in candidates : AfterCursor(u)} IN
  IF later = {} THEN t \in candidates /\ \A u \in candidates : t <= u
  ELSE t \in later /\ \A u \in later : t <= u

ReconciliationOnly(j) ==
  /\ job[j].attempt > 0
  /\ \/ j \in overdue \/ ~PeriodAuthorized(j)
     \/ job[j].errorKind = "receipt-reconciliation"

Claimed(record, errorKind) ==
  [record EXCEPT !.state = "running", !.attempt = @ + 1, !.fence = @ + 1,
                 !.lease = "live", !.errorKind = errorKind]

\* claimJob.  Which of the tenant's candidates is taken (priority, age) is
\* left open: no property depends on it.
ClaimJob(j) ==
  /\ Cardinality(LiveLeases) < MaxGlobalRunning
  /\ Claimable(j) /\ SelectedTenant(TenantOf[j])
  /\ job[j].fence < MaxFence
  /\ job' = [k \in Jobs |->
       IF k # j THEN SweptJob(k)
       ELSE Claimed(SweptJob(j), IF ReconciliationOnly(j)
                                 THEN "receipt-reconciliation"
                                 ELSE job[j].errorKind)]
  /\ reservation' = [k \in Jobs |-> SweptReservation(k)]
  /\ cursor' = TenantOf[j]
  /\ UNCHANGED <<tenancyVars, usage, inbox, delivery, overdue>>

\* claimJob when it returns null: the sweep is committed all the same.
ClaimNothing ==
  /\ \/ Cardinality(LiveLeases) >= MaxGlobalRunning
     \/ \A j \in Jobs : ~Claimable(j)
  /\ job' = [k \in Jobs |-> SweptJob(k)]
  /\ reservation' = [k \in Jobs |-> SweptReservation(k)]
  /\ UNCHANGED <<tenancyVars, usage, inbox, delivery, overdue, cursor>>

\* claimJobForReconciliation: ignores both concurrency limits.
\* Mutant: a job under review is not taken up again.
ReconcilableButReview(j) ==
  /\ job[j].attempt > 0 /\ Held(j)
  /\ job[j].state \in {"queued", "running"}
  /\ GenerationCurrent(j)
  /\ StatusOf(j) \notin {"deleting", "deleted"}
  /\ ~Leased(j)

Reconcilable(j) ==
  /\ job[j].attempt > 0 /\ Held(j)
  /\ job[j].state \in {"queued", "running", "needs-review"}
  /\ GenerationCurrent(j)
  /\ StatusOf(j) \notin {"deleting", "deleted"}
  /\ ~Leased(j)

ClaimJobForReconciliation(j) ==
  /\ Reconcilable(j)
  /\ job[j].fence < MaxFence
  /\ job' = [job EXCEPT ![j] = Claimed(job[j], "receipt-reconciliation")]
  /\ UNCHANGED <<tenancyVars, reservation, usage, inbox, delivery, overdue, cursor>>

\* renewJobLease answers whether the lease was renewed.
CanRenew(j, fence) == ValidFence(j, fence) /\ StatusOf(j) = "active"

-----------------------------------------------------------------------------
(* Ending an attempt.                                                      *)

\* finishJobAndSettle for the event `result:<operation>` of status r, and the
\* capture its tool computes: nothing for a partial result.  A replayed event
\* changes nothing.
Settleable(j, fence, r) ==
  /\ j \notin inbox
  /\ \/ job[j].state \in Results /\ job[j].state = r
     \/ job[j].state \notin Results
        /\ (reservation[j].state = "released" \/ ValidFence(j, fence))
  /\ GenerationCurrent(j) /\ StatusOf(j) \notin {"deleting", "deleted"}
  /\ reservation[j].state # "none"

FinishJobAndSettle(j, fence, r) ==
  /\ Settleable(j, fence, r)
  /\ IF Held(j)
     THEN /\ reservation' = [reservation EXCEPT ![j].state = "captured"]
          /\ usage' = usage \cup
               {[operation |-> j, period |-> reservation[j].period,
                 delta |-> IF r = "partial" THEN 0 ELSE Units[j]]}
     ELSE UNCHANGED <<reservation, usage>>
  /\ job' = [job EXCEPT ![j] =
               [ClearLease(@) EXCEPT !.state = r, !.errorKind = "other"]]
  /\ inbox' = inbox \cup {j}
  /\ delivery' = IF j \in Notifies /\ delivery[j] = "none"
                 THEN [delivery EXCEPT ![j] = "pending"] ELSE delivery
  /\ UNCHANGED <<tenancyVars, overdue, cursor>>

\* retryJob: refused after the deadline or a cancellation, and while the usage
\* of a provider attempt of the operation is unknown (a table of its own, which
\* the caller of this action supplies).
Retryable(j, fence, usageKnown) ==
  ValidFence(j, fence) /\ usageKnown /\ j \notin overdue /\ ~job[j].cancelled

RetryJob(j, fence, usageKnown) ==
  /\ Retryable(j, fence, usageKnown)
  /\ job' = [job EXCEPT ![j] =
               [ClearLease(@) EXCEPT !.state = "queued", !.errorKind = "other"]]
  /\ UNCHANGED <<tenancyVars, reservation, usage, inbox, delivery, overdue, cursor>>

\* stopJob; a terminal job is left alone.
StopJob(j, fence, outcome, executionStopped) ==
  /\ HoldsFence(j, fence)
  /\ outcome # "needs-review" => executionStopped
  /\ reservation' = IF executionStopped
                    THEN [reservation EXCEPT ![j] = Released(j)] ELSE reservation
  /\ job' = [job EXCEPT ![j] =
               [ClearLease(@) EXCEPT !.state = outcome, !.errorKind = "other"]]
  /\ UNCHANGED <<tenancyVars, usage, inbox, delivery, overdue, cursor>>

-----------------------------------------------------------------------------
(* Tenants, owners and periods.                                            *)

SuspendTenant(t) ==
  /\ tenant[t].status \in {"active", "suspended"}
  /\ tenant' = [tenant EXCEPT ![t].status = "suspended"]
  /\ CancelPending(JobsOf(t))
  /\ SuppressDeliveries(t)
  /\ UNCHANGED <<owner, period, usage, inbox, overdue, cursor>>

ResumeTenant(t) ==
  /\ tenant[t].status = "suspended"
  /\ tenant' = [tenant EXCEPT ![t].status = "active"]
  /\ UNCHANGED <<owner, period, ledgerVars, overdue, cursor>>

SetUserStatus(t, status) ==
  /\ owner[t] # "deleted"
  /\ owner' = [owner EXCEPT ![t] = status]
  /\ UNCHANGED <<tenant, period, ledgerVars, overdue, cursor>>

\* beginTenantDeletion: the new generation fences every attempt in flight.
BeginDeletion(t) ==
  /\ tenant[t].status \in {"active", "suspended"}
  /\ tenant' = [tenant EXCEPT ![t] = [status |-> "deleting",
                                      generation |-> @.generation + 1]]
  /\ job' = [j \in Jobs |->
       IF TenantOf[j] # t THEN job[j]
       ELSE IF job[j].state = "running" THEN [job[j] EXCEPT !.cancelled = TRUE]
       ELSE CancelledJob(j)]
  /\ reservation' = [j \in Jobs |-> IF TenantOf[j] = t THEN CancelledReservation(j)
                                    ELSE reservation[j]]
  /\ SuppressDeliveries(t)
  /\ UNCHANGED <<owner, period, usage, inbox, overdue, cursor>>

\* completeTenantDeletion and eraseTenantControlData
CompleteDeletion(t) ==
  LET Gone(j) == TenantOf[j] = t /\ job[j].state # "none" IN
  /\ tenant[t].status = "deleting"
  /\ \A j \in JobsOf(t) : job[j].state # "running"
  /\ tenant' = [tenant EXCEPT ![t].status = "deleted"]
  /\ owner' = [owner EXCEPT ![t] = "deleted"]
  /\ job' = [j \in Jobs |->
       IF Gone(j) THEN [ClearLease(job[j]) EXCEPT !.state = "cancelled",
                                                  !.fence = @ + 1,
                                                  !.errorKind = "other"]
       ELSE job[j]]
  /\ reservation' = [j \in Jobs |-> IF Gone(j) THEN Released(j) ELSE reservation[j]]
  /\ inbox' = inbox \ JobsOf(t)
  /\ delivery' = [j \in Jobs |-> IF TenantOf[j] = t THEN "none" ELSE delivery[j]]
  /\ UNCHANGED <<period, usage, overdue, cursor>>

\* revokePeriod of the payment repository and its onPeriodRevoked callback.
RevokePeriod(p) ==
  /\ period[p] # "revoked"
  /\ period' = [period EXCEPT ![p] = "revoked"]
  /\ CancelPending({j \in Jobs : reservation[j].period = p})
  /\ UNCHANGED <<tenant, owner, usage, inbox, delivery, overdue, cursor>>

-----------------------------------------------------------------------------
(* Time.                                                                   *)

LeaseLapses(j) ==
  /\ Leased(j)
  /\ job' = [job EXCEPT ![j].lease = "lapsed"]
  /\ UNCHANGED <<tenancyVars, reservation, usage, inbox, delivery, overdue, cursor>>

\* A deadline matters only until the operation has ended.
DeadlinePasses(j) ==
  /\ job[j].state \in {"preparing", "queued", "running", "needs-review"}
  /\ overdue' = overdue \cup {j}
  /\ UNCHANGED <<tenancyVars, ledgerVars, cursor>>

PeriodTurns(p) ==
  /\ \/ period[p] = "future" /\ period' = [period EXCEPT ![p] = "current"]
     \/ period[p] = "current" /\ period' = [period EXCEPT ![p] = "ended"]
  /\ UNCHANGED <<tenant, owner, ledgerVars, overdue, cursor>>

-----------------------------------------------------------------------------
JobStep(j) ==
  \/ PrepareReservedJob(j)
  \/ ActivatePreparedJob(j)
  \/ CancelPendingJob(j)
  \/ RequestCancellation(j)
  \/ ClaimJob(j)
  \/ ClaimJobForReconciliation(j)
  \/ LeaseLapses(j)
  \/ DeadlinePasses(j)

AttemptStep(j, fence) ==
  \/ \E r \in Results : FinishJobAndSettle(j, fence, r)
  \/ \E usageKnown \in BOOLEAN : RetryJob(j, fence, usageKnown)
  \/ \E outcome \in {"failed", "cancelled", "needs-review"},
        executionStopped \in BOOLEAN :
       StopJob(j, fence, outcome, executionStopped)

TenantStep(t) ==
  \/ SuspendTenant(t)
  \/ ResumeTenant(t)
  \/ \E status \in {"active", "disabled"} : SetUserStatus(t, status)
  \/ BeginDeletion(t)
  \/ CompleteDeletion(t)

JobsNext ==
  \/ \E j \in Jobs : JobStep(j)
  \/ \E j \in Jobs, fence \in Fences : AttemptStep(j, fence)
  \/ ClaimNothing
  \/ \E t \in Tenants : TenantStep(t)
  \/ \E p \in Periods : RevokePeriod(p) \/ PeriodTurns(p)

JobsSpec == JobsInit /\ [][JobsNext]_jobsVars

-----------------------------------------------------------------------------
(* Properties.                                                             *)

\* The units a period has charged and still holds never exceed what its plan
\* grants, whatever is accepted, settled, released, revoked or erased in
\* between (entitlement and prepareReservedJob).
QuotaNeverOvercommitted ==
  \A p \in Periods :
    Cardinality(CapturedUnits(p)) + Cardinality(HeldUnits(p)) <= ResearchUnits[p]

\* Job, reservation and usage tables agree: a job that is still in play holds
\* its reservation, a job that ended without a result has released it, and a
\* reservation is captured exactly when one usage row charges its period.
LedgerAgrees ==
  \A j \in Jobs :
    /\ job[j].state \in {"preparing", "queued", "running"} => Held(j)
    /\ job[j].state \in {"failed", "cancelled"} /\ StatusOf(j) # "deleted"
         => reservation[j].state = "released"
    /\ job[j].state \in Results =>
         /\ j \in inbox
         /\ reservation[j].state \in {"captured", "released"}
    /\ reservation[j].state = "captured" =>
         {u.period : u \in {v \in usage : v.operation = j}} = {reservation[j].period}
    /\ (\E u \in usage : u.operation = j) => reservation[j].state = "captured"
    /\ \A u, v \in usage : u.operation = j /\ v.operation = j => u = v

\* Two attempts of one tenant are never under a live lease at a time, unless
\* one of them only looks for a receipt: a lapsed lease can be taken over, but
\* a renewed one cannot, and reconciliation claims ignore the limit.
OneExecutionPerTenant ==
  \A j, k \in Jobs :
    j # k /\ TenantOf[j] = TenantOf[k] /\ Leased(j) /\ Leased(k)
      => "receipt-reconciliation" \in {job[j].errorKind, job[k].errorKind}

\* A delivery intent exists only for an operation whose result was settled,
\* and none waits to be sent for a tenant that is being deleted.
IntentFollowsSettlement ==
  \A j \in Jobs : delivery[j] # "none" =>
    /\ j \in inbox /\ job[j].state \in Results
    /\ delivery[j] = "pending" => StatusOf(j) \notin {"deleting", "deleted"}

\* Once a job was attempted a receipt may exist, so its reservation is only
\* released by the attempt that ends it, or with the tenant's data: never by
\* a cancellation, a suspension, a revoked period or the sweep of claimJob.
AttemptedReleaseNeedsStop ==
  [][\A j \in Jobs :
       job[j].attempt > 0 /\ Held(j) /\ reservation'[j].state = "released"
         => job[j].state = "running" \/ tenant'[TenantOf[j]].status = "deleted"]_jobsVars

\* Settlement is final: a charged row is never dropped, a released reservation
\* is never charged, a result never changes except by erasure, and the fence
\* of a job never goes back.
SettlementIsFinal ==
  [][/\ usage \subseteq usage'
     /\ \A j \in Jobs :
          /\ reservation[j].state \in {"captured", "released"}
               => reservation'[j] = reservation[j]
          /\ job[j].state \in Results /\ job'[j].state # job[j].state
               => tenant'[TenantOf[j]].status = "deleted"
          /\ job[j].fence <= job'[j].fence]_jobsVars

\* Round robin: claimJob never serves the tenant it served last while another
\* tenant has a job it could run.
TurnsRotate ==
  [][\A t \in Tenants :
       cursor = t /\ (\E j \in JobsOf(t) : job'[j].fence = job[j].fence + 1
                                          /\ ClaimJob(j))
         => \A k \in Jobs : Claimable(k) => TenantOf[k] = t]_jobsVars

=============================================================================
