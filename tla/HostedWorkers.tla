---------------------------- MODULE HostedWorkers ----------------------------
(***************************************************************************)
(* The execution protocol of the hosted service: submitting clients, the   *)
(* worker processes and the deletion pass, over the job ledger of          *)
(* HostedJobs and the tenant databases of TenantExecution.  Sources:       *)
(* apps/web/src/hosted-worker.ts, hosted-privacy.ts, and the tools they    *)
(* call.                                                                   *)
(*                                                                         *)
(* The two stores share no transaction, so a worker takes one step per     *)
(* tool call and anything may happen between two of them: a crash, a tool  *)
(* that fails, a stall long enough for its leases to lapse, another worker *)
(* that takes the job over, a cancellation, a deletion.  A worker keeps    *)
(* the copy of the job it was given when it claimed it, and judges by that *)
(* copy where the code does.                                               *)
(*                                                                         *)
(* Provider attempts are the control-plane rows of a job's market calls;   *)
(* only those of unknown usage are told apart.  An attempt and its fence   *)
(* advance together until the job's data is erased, so a copied fence      *)
(* also stands for the attempt number.                                     *)
(***************************************************************************)
EXTENDS HostedJobs, TenantExecution

CONSTANTS
  Workers,         \* worker processes
  ConfirmsUsage,   \* providerMode "fixture": the cost is confirmed at once
  FailingReads,    \* which reads of the catch block may fail: receipt, usage
  MaxDisturbances  \* bound of the model: crashes, faults, stalls, suspensions

ASSUME WorkersAssumption ==
  /\ Operations = Jobs
  /\ ConfirmsUsage \in BOOLEAN
  /\ FailingReads \subseteq {"receipt", "usage"}
  /\ MaxDisturbances \in Nat

VARIABLES
  worker,        \* where each worker is in runHostedWorkerOnce, and its copies
  unknownUsage,  \* the attempts of each operation whose usage is unknown
  called,        \* history: the attempts that called the provider and whose
                 \* cost is not confirmed
  deletion,      \* how far the deletion pass of each tenant has come
  abandoned,     \* tenants whose runtime a crashed process left registered
  disturbances   \* how many disturbances there were

processVars == <<worker, unknownUsage, called, deletion, abandoned, disturbances>>
workersVars == <<jobsVars, executionVars, processVars>>

MaxAttempts == 3
PCs == {"claimed", "checked", "opened", "examine", "blocked", "recording",
        "calling", "called", "committing", "confirming", "settling", "finishing",
        "acking", "caught", "counting", "resolving", "reclaiming"}

Idle == [pc |-> "idle"]

Busy == [pc: PCs, op: Jobs, fence: Nat, localFence: Nat,
         stop: {"no", "failed", "cancelled"}, opened: BOOLEAN,
         reconciling: BOOLEAN, permanent: BOOLEAN,
         committed: BOOLEAN, uncertain: BOOLEAN]

WorkersTypeOK ==
  /\ JobsTypeOK /\ ExecutionTypeOK
  /\ worker \in [Workers -> {Idle} \cup Busy]
  /\ unknownUsage \in [Jobs -> SUBSET Nat]
  /\ called \in [Jobs -> SUBSET Nat]
  /\ deletion \in [Tenants -> {"none", "drained", "removed"}]
  /\ abandoned \subseteq Tenants
  /\ disturbances \in 0 .. MaxDisturbances

WorkersInit ==
  /\ JobsInit /\ ExecutionInit
  /\ worker = [w \in Workers |-> Idle]
  /\ unknownUsage = [j \in Jobs |-> {}]
  /\ called = [j \in Jobs |-> {}]
  /\ deletion = [t \in Tenants |-> "none"]
  /\ abandoned = {}
  /\ disturbances = 0

-----------------------------------------------------------------------------
(* Moves of a worker.                                                      *)

IsIdle(w) == worker[w] = Idle
At(w, pc) == worker[w].pc = pc
Op(w) == worker[w].op

Goto(w, pc) == worker' = [worker EXCEPT ![w].pc = pc]
Done(w) == worker' = [worker EXCEPT ![w] = Idle]

\* An error sends a worker to the catch block of runHostedWorkerOnce, except
\* in the reconciliation pass, where it ends the whole pass.
Throw(w) == IF worker[w].reconciling THEN Done(w) ELSE Goto(w, "caught")

Started(j, fence, stop) ==
  [pc |-> "claimed", op |-> j, fence |-> fence, localFence |-> 0, stop |-> stop,
   opened |-> FALSE, reconciling |-> FALSE, permanent |-> FALSE,
   committed |-> FALSE, uncertain |-> FALSE]

Disturb == /\ disturbances < MaxDisturbances
           /\ disturbances' = disturbances + 1

UsageTakenAsKnown(j) == TRUE   \* Mutant: attempts of unknown usage do not count.

UsageKnown(j) == unknownUsage[j] = {}

\* What contextForHostedTools lets a worker read in a tenant's database.
Readable(j) == StatusOf(j) \in {"active", "suspended"} /\ GenerationCurrent(j)

\* acquireTenant: a deleting tenant is refused a new runtime, but one that is
\* still open in this process is handed out until the deletion pass drains it.
RuntimeOpen(t) == deletion[t] = "none"
RuntimeRefused(t) == tenant[t].status \in {"deleting", "deleted"}

HoldsRuntime(w, t) == ~IsIdle(w) /\ worker[w].opened /\ TenantOf[Op(w)] = t

otherVars == <<unknownUsage, called, deletion, abandoned, disturbances>>

-----------------------------------------------------------------------------
(* Submitting: submitHostedJob and reconcileAndSchedule prepare the job,   *)
(* save its input in the tenant's database, then activate it; the pass     *)
(* over preparing jobs takes up what an interrupted submitter left.        *)

Prepare(j) == PrepareReservedJob(j) /\ UNCHANGED <<executionVars, processVars>>

PersistRequest(j) ==
  /\ job[j].state # "none" /\ Readable(j)
  /\ PutExecutionRequest(j)
  /\ UNCHANGED <<jobsVars, processVars>>

Activate(j) ==
  /\ j \in request
  /\ ActivatePreparedJob(j)
  /\ UNCHANGED <<executionVars, processVars>>

ExpirePreparing(j) ==
  /\ job[j].state = "preparing" /\ j \in overdue
  /\ CancelPendingJob(j)
  /\ UNCHANGED <<executionVars, processVars>>

-----------------------------------------------------------------------------
(* One run of a worker over a claimed job.                                 *)

Claim(w) ==
  /\ IsIdle(w)
  /\ \E j \in Jobs :
       /\ ClaimJob(j)
       /\ worker' = [worker EXCEPT ![w] =
            Started(j, job'[j].fence,
                    IF job'[j].cancelled THEN "cancelled"
                    ELSE IF job'[j].errorKind = "receipt-reconciliation"
                         THEN "failed" ELSE "no")]
  /\ UNCHANGED <<executionVars, otherVars>>

Sweep == ClaimNothing /\ UNCHANGED <<executionVars, processVars>>

CheckTenant(w) ==
  /\ At(w, "claimed")
  /\ IF StatusOf(Op(w)) = "active" /\ GenerationCurrent(Op(w))
     THEN Goto(w, "checked") ELSE Throw(w)
  /\ UNCHANGED <<jobsVars, executionVars, otherVars>>

OpenRuntime(w) ==
  LET t == TenantOf[Op(w)] IN
  /\ At(w, "checked")
  /\ \/ /\ RuntimeOpen(t)
        /\ worker' = [worker EXCEPT ![w].pc = "opened", ![w].opened = TRUE]
     \/ RuntimeRefused(t) /\ Throw(w)
  /\ UNCHANGED <<jobsVars, executionVars, otherVars>>

\* getExecutionRequest and claimExecution
ClaimLocal(w) ==
  LET j == Op(w) IN
  /\ At(w, "opened")
  /\ \/ /\ ~Readable(j) \/ j \notin request \/ (~Committed(j) /\ LocallyBusy(j))
        /\ Throw(w)
        /\ UNCHANGED executionVars
     \/ /\ Readable(j) /\ Committed(j)
        /\ Goto(w, "settling")
        /\ UNCHANGED executionVars
     \/ /\ Readable(j)
        /\ ClaimExecution(j)
        /\ worker' = [worker EXCEPT ![w].pc = "examine",
                                    ![w].localFence = localLease'[j].fence]
  /\ UNCHANGED <<jobsVars, otherVars>>

\* stopHostedJobTool of the worker's own attempt; a lost lease or a terminal
\* job leaves the ledger as it is.
AttemptStop(w, outcome, executionStopped) ==
  IF HoldsFence(Op(w), worker[w].fence)
  THEN StopJob(Op(w), worker[w].fence, outcome, executionStopped)
  ELSE UNCHANGED jobsVars

\* The worker holds the local lease, so no other attempt can commit any more,
\* and there is no receipt: the operation ends without a result.
StopWithoutReceipt(w) ==
  /\ At(w, "examine")
  /\ worker[w].stop # "no" \/ Op(w) \in overdue
  /\ AttemptStop(w, IF worker[w].stop = "cancelled" THEN "cancelled" ELSE "failed", TRUE)
  /\ Done(w)
  /\ UNCHANGED <<executionVars, otherVars>>

ReadUsage(w) ==
  /\ At(w, "examine")
  /\ worker[w].stop = "no" /\ Op(w) \notin overdue
  /\ Goto(w, IF UsageKnown(Op(w)) THEN "recording" ELSE "blocked")
  /\ UNCHANGED <<jobsVars, executionVars, otherVars>>

StopForReview(w) ==
  /\ At(w, "blocked")
  /\ AttemptStop(w, "needs-review", FALSE)
  /\ Done(w)
  /\ UNCHANGED <<executionVars, otherVars>>

\* recordHostedProviderAttemptTool: no fence is asked of the caller.
RecordUsage(w) ==
  /\ At(w, "recording")
  /\ unknownUsage' = [unknownUsage EXCEPT ![Op(w)] = @ \cup {worker[w].fence}]
  /\ Goto(w, "calling")
  /\ UNCHANGED <<jobsVars, executionVars, called, deletion, abandoned, disturbances>>

\* hostedAuthorization: first the authoritative job, then the tenant.  It asks
\* for the fence and not for a live lease.
AttemptCurrent(w) ==
  /\ HoldsFence(Op(w), worker[w].fence)
  /\ ~job[Op(w)].cancelled /\ Op(w) \notin overdue
TenantCurrent(w) == StatusOf(Op(w)) = "active" /\ GenerationCurrent(Op(w))

Refused(w) ==
  /\ \/ ~AttemptCurrent(w) /\ Done(w)
     \/ ~TenantCurrent(w) /\ Throw(w)
  /\ UNCHANGED called

CallProvider(w) ==
  /\ At(w, "calling")
  /\ \/ Refused(w)
     \/ /\ AttemptCurrent(w) /\ TenantCurrent(w)
        /\ called' = [called EXCEPT ![Op(w)] = @ \cup {worker[w].fence}]
        /\ Goto(w, "called")
  /\ UNCHANGED <<jobsVars, executionVars, unknownUsage, deletion, abandoned, disturbances>>

AuthorizeCommit(w) ==
  /\ At(w, "called")
  /\ \/ Refused(w)
     \/ /\ AttemptCurrent(w) /\ TenantCurrent(w)
        /\ Goto(w, "committing") /\ UNCHANGED called
  /\ UNCHANGED <<jobsVars, executionVars, unknownUsage, deletion, abandoned, disturbances>>

\* The heartbeat found one of the two leases lost: the next authorization
\* refuses, and the worker leaves the job alone.
HeartbeatLost(w) ==
  LET j == Op(w) IN
  /\ ~IsIdle(w) /\ worker[w].pc \in {"calling", "called"}
  /\ ~CanRenew(j, worker[w].fence) \/ ~LocalFenceValid(j, worker[w].localFence)
  /\ Done(w)
  /\ UNCHANGED <<jobsVars, executionVars, otherVars>>

Commit(w) ==
  LET j == Op(w) IN
  /\ At(w, "committing")
  /\ IF Committed(j) \/ LocalFenceValid(j, worker[w].localFence)
     THEN /\ \E r \in Results : CommitResult(j, worker[w].localFence, r)
          /\ Goto(w, IF ConfirmsUsage THEN "confirming" ELSE "settling")
     ELSE Throw(w) /\ UNCHANGED executionVars
  /\ UNCHANGED <<jobsVars, otherVars>>

ConfirmUsage(w) ==
  LET j == Op(w) IN
  /\ At(w, "confirming")
  /\ unknownUsage' = [unknownUsage EXCEPT ![j] = @ \ {worker[w].fence}]
  /\ called' = [called EXCEPT ![j] = @ \ {worker[w].fence}]
  /\ Goto(w, "settling")
  /\ UNCHANGED <<jobsVars, executionVars, deletion, abandoned, disturbances>>

-----------------------------------------------------------------------------
(* settleOutbox: the result event goes to the control plane, then its      *)
(* delivery is acknowledged in the tenant's database.                      *)

\* Mutant: the event is acknowledged before it is settled.
ReadOutboxAndAcknowledge(w) ==
  /\ At(w, "settling")
  /\ IF Readable(Op(w)) /\ outbox[Op(w)] = "pending"
     THEN Goto(w, "acking") ELSE Throw(w)
  /\ UNCHANGED <<jobsVars, executionVars, otherVars>>

ReadOutbox(w) ==
  /\ At(w, "settling")
  /\ IF Readable(Op(w)) /\ outbox[Op(w)] = "pending"
     THEN Goto(w, "finishing") ELSE Throw(w)
  /\ UNCHANGED <<jobsVars, executionVars, otherVars>>

Finish(w) ==
  LET j == Op(w)
      fence == worker[w].fence IN
  /\ At(w, "finishing")
  /\ \/ j \in inbox /\ Goto(w, "acking") /\ UNCHANGED jobsVars
     \/ FinishJobAndSettle(j, fence, receipt[j]) /\ Goto(w, "acking")
     \/ /\ j \notin inbox /\ ~Settleable(j, fence, receipt[j])
        /\ IF Leased(j) /\ job[j].fence = fence THEN Throw(w) ELSE Done(w)
        /\ UNCHANGED jobsVars
  /\ UNCHANGED <<executionVars, otherVars>>

Acknowledge(w) ==
  LET j == Op(w) IN
  /\ At(w, "acking")
  /\ IF Readable(j) THEN AckOutbox(j) /\ Done(w)
     ELSE Throw(w) /\ UNCHANGED executionVars
  /\ UNCHANGED <<jobsVars, otherVars>>

-----------------------------------------------------------------------------
(* The catch block: read the receipt, read the attempts, then decide.      *)

\* A read that fails is taken for the answer no.
Answers(read, answer) == {answer} \cup (IF read \in FailingReads THEN {FALSE} ELSE {})

\* Mutant: the receipt is not looked for.
InspectNothing(w) ==
  /\ At(w, "caught")
  /\ worker' = [worker EXCEPT ![w].pc = "counting", ![w].committed = FALSE]
  /\ UNCHANGED <<jobsVars, executionVars, otherVars>>

InspectReceipt(w) ==
  LET j == Op(w)
      found == worker[w].opened /\ Readable(j) /\ Committed(j) IN
  /\ At(w, "caught")
  /\ \E committed \in Answers("receipt", found) :
       worker' = [worker EXCEPT ![w].pc = "counting", ![w].committed = committed]
  /\ UNCHANGED <<jobsVars, executionVars, otherVars>>

InspectUsage(w) ==
  /\ At(w, "counting")
  /\ \E uncertain \in Answers("usage", ~UsageKnown(Op(w))) :
       worker' = [worker EXCEPT ![w].pc = "resolving", ![w].uncertain = uncertain]
  /\ UNCHANGED <<jobsVars, executionVars, otherVars>>

WantsRetry(w) ==
  \/ worker[w].committed
  \/ /\ ~worker[w].uncertain
     /\ worker[w].fence < MaxAttempts
     /\ Op(w) \notin overdue /\ ~worker[w].permanent

Resolve(w) ==
  LET j == Op(w)
      fence == worker[w].fence
      fenced == worker[w].localFence > 0
      known == UsageKnown(j) IN
  /\ At(w, "resolving")
  /\ \/ /\ ~worker[w].committed /\ worker[w].uncertain
        /\ AttemptStop(w, "needs-review", FALSE)
     \/ /\ WantsRetry(w)
        /\ IF Retryable(j, fence, known) THEN RetryJob(j, fence, known)
           ELSE UNCHANGED jobsVars
     \/ /\ ~WantsRetry(w) /\ ~worker[w].uncertain
        /\ AttemptStop(w, IF fenced THEN "failed" ELSE "needs-review", fenced)
  /\ Done(w)
  /\ UNCHANGED <<executionVars, otherVars>>

-----------------------------------------------------------------------------
(* reconcileHostedTenantOutbox: result events still waiting are settled    *)
(* under a fence of their own.                                             *)

ReconcileEvent(w, j) ==
  /\ IsIdle(w)
  /\ Readable(j) /\ RuntimeOpen(TenantOf[j])
  /\ outbox[j] = "pending"
  /\ worker' = [worker EXCEPT ![w] =
       [Started(j, 0, "no") EXCEPT
          !.pc = IF job[j].state \in Results THEN "acking" ELSE "reclaiming",
          !.opened = TRUE, !.reconciling = TRUE]]
  /\ UNCHANGED <<jobsVars, executionVars, otherVars>>

Reclaim(w) ==
  LET j == Op(w) IN
  /\ At(w, "reclaiming")
  /\ \/ /\ ClaimJobForReconciliation(j)
        /\ worker' = [worker EXCEPT ![w].pc = "settling", ![w].fence = job'[j].fence]
     \/ ~Reconcilable(j) /\ Done(w) /\ UNCHANGED jobsVars
  /\ UNCHANGED <<executionVars, otherVars>>

-----------------------------------------------------------------------------
(* The deletion pass of processHostedPrivacy.                              *)

Drained(t) == t \notin abandoned /\ \A w \in Workers : ~HoldsRuntime(w, t)

DrainTenant(t) ==
  /\ tenant[t].status = "deleting" /\ deletion[t] = "none"
  /\ Drained(t)
  /\ deletion' = [deletion EXCEPT ![t] = "drained"]
  /\ UNCHANGED <<jobsVars, executionVars, worker, unknownUsage, called,
                 abandoned, disturbances>>

StopDeleting(j) ==
  /\ deletion[TenantOf[j]] = "drained"
  /\ job[j].state = "running"
  /\ StopJob(j, job[j].fence, "cancelled", TRUE)
  /\ UNCHANGED <<executionVars, processVars>>

RemoveTenant(t) ==
  /\ deletion[t] = "drained" /\ Drained(t)
  /\ \A j \in JobsOf(t) : job[j].state # "running"
  /\ RemoveRows(JobsOf(t))
  /\ deletion' = [deletion EXCEPT ![t] = "removed"]
  /\ UNCHANGED <<jobsVars, worker, unknownUsage, called, abandoned, disturbances>>

FinishDeletion(t) ==
  /\ deletion[t] = "removed"
  /\ CompleteDeletion(t)
  /\ UNCHANGED <<executionVars, processVars>>

-----------------------------------------------------------------------------
(* Disturbances: bounded in number, at any point.                          *)

\* The tool call a worker is about to make fails; only the tools that build and
\* commit the result can fail with an error that a retry would not mend.
Fault(w) ==
  /\ ~IsIdle(w) /\ worker[w].pc \notin {"caught", "counting", "resolving"}
  /\ Disturb
  /\ IF worker[w].reconciling THEN Done(w)
     ELSE \E permanent \in {FALSE, worker[w].pc \in {"calling", "called", "committing"}} :
            worker' = [worker EXCEPT ![w].pc = "caught", ![w].permanent = permanent]
  /\ UNCHANGED <<jobsVars, executionVars, unknownUsage, called, deletion, abandoned>>

\* The process dies; the runtime it had open stays registered.
Crash(w) ==
  /\ ~IsIdle(w)
  /\ Disturb
  /\ Done(w)
  /\ abandoned' = IF worker[w].opened THEN abandoned \cup {TenantOf[Op(w)]}
                  ELSE abandoned
  /\ UNCHANGED <<jobsVars, executionVars, unknownUsage, called, deletion>>

\* recoverStoppedWriters, by an operator who has stopped every process.
RecoverStoppedWriters ==
  /\ abandoned # {} /\ \A w \in Workers : IsIdle(w)
  /\ abandoned' = {}
  /\ UNCHANGED <<jobsVars, executionVars, worker, unknownUsage, called, deletion,
                 disturbances>>

\* A lease lapses by itself once its holder is gone; under a worker that still
\* runs it lapses only if that worker stalls.
ControlHolder(j) == {w \in Workers : ~IsIdle(w) /\ Op(w) = j
                                     /\ worker[w].fence = job[j].fence}
LocalHolder(j) == {w \in Workers : ~IsIdle(w) /\ Op(w) = j /\ worker[w].localFence > 0
                                   /\ worker[w].localFence = localLease[j].fence}

Lapse(j) ==
  /\ IF ControlHolder(j) = {} THEN UNCHANGED disturbances ELSE Disturb
  /\ LeaseLapses(j)
  /\ UNCHANGED <<executionVars, worker, unknownUsage, called, deletion, abandoned>>

LocalLapse(j) ==
  /\ IF LocalHolder(j) = {} THEN UNCHANGED disturbances ELSE Disturb
  /\ LocalLeaseLapses(j)
  /\ UNCHANGED <<jobsVars, worker, unknownUsage, called, deletion, abandoned>>

\* Operators and users.
Suspension(t) ==
  /\ Disturb
  /\ tenant[t].status = "active" /\ SuspendTenant(t)
  /\ UNCHANGED <<executionVars, worker, unknownUsage, called, deletion, abandoned>>

OwnerDisabled(t) ==
  /\ Disturb
  /\ owner[t] = "active" /\ SetUserStatus(t, "disabled")
  /\ UNCHANGED <<executionVars, worker, unknownUsage, called, deletion, abandoned>>

Administration(t) ==
  /\ \/ ResumeTenant(t)
     \/ owner[t] = "disabled" /\ SetUserStatus(t, "active")
     \/ BeginDeletion(t)
  /\ UNCHANGED <<executionVars, processVars>>

Change(j) ==
  /\ RequestCancellation(j) \/ DeadlinePasses(j)
  /\ UNCHANGED <<executionVars, processVars>>

PeriodChange(p) ==
  /\ RevokePeriod(p) \/ PeriodTurns(p)
  /\ UNCHANGED <<executionVars, processVars>>

-----------------------------------------------------------------------------
WorkerStep(w) ==
  \/ CheckTenant(w)
  \/ OpenRuntime(w)
  \/ ClaimLocal(w)
  \/ StopWithoutReceipt(w)
  \/ ReadUsage(w)
  \/ StopForReview(w)
  \/ RecordUsage(w)
  \/ CallProvider(w)
  \/ AuthorizeCommit(w)
  \/ HeartbeatLost(w)
  \/ Commit(w)
  \/ ConfirmUsage(w)
  \/ ReadOutbox(w)
  \/ Finish(w)
  \/ Acknowledge(w)
  \/ InspectReceipt(w)
  \/ InspectUsage(w)
  \/ Resolve(w)
  \/ Reclaim(w)

SubmitStep(j) == Prepare(j) \/ PersistRequest(j) \/ Activate(j) \/ ExpirePreparing(j)

DeletionStep(t) == DrainTenant(t) \/ RemoveTenant(t) \/ FinishDeletion(t)

WorkersNext ==
  \/ \E w \in Workers : WorkerStep(w) \/ Claim(w) \/ Fault(w) \/ Crash(w)
  \/ \E w \in Workers, j \in Jobs : ReconcileEvent(w, j)
  \/ \E j \in Jobs : SubmitStep(j) \/ StopDeleting(j) \/ Change(j)
                     \/ Lapse(j) \/ LocalLapse(j)
  \/ \E t \in Tenants : DeletionStep(t) \/ Suspension(t) \/ OwnerDisabled(t)
                        \/ Administration(t)
  \/ \E p \in Periods : PeriodChange(p)
  \/ Sweep
  \/ RecoverStoppedWriters

WorkersSpec == WorkersInit /\ [][WorkersNext]_workersVars

-----------------------------------------------------------------------------
(* Fairness: apps/worker/src/index.ts calls runHostedWorkerOnce for ever   *)
(* and compose.yaml restarts a process that ends, so a running process     *)
(* takes its next step, an idle one takes up what waits, a lease nobody    *)
(* renews lapses and deadlines pass.  Nobody is obliged to save a request, *)
(* to resume a tenant, or to recover the registrations of dead processes.  *)

Fairness ==
  /\ \A w \in Workers : WF_workersVars(WorkerStep(w))
  /\ WF_workersVars(\E w \in Workers : Claim(w))
  /\ WF_workersVars(Sweep)
  /\ \A j \in Jobs :
       /\ WF_workersVars(\E w \in Workers : ReconcileEvent(w, j))
       /\ WF_workersVars(Activate(j))
       /\ WF_workersVars(ExpirePreparing(j))
       /\ WF_workersVars(DeadlinePasses(j) /\ UNCHANGED <<executionVars, processVars>>)
       /\ WF_workersVars(ControlHolder(j) = {} /\ Lapse(j))
       /\ WF_workersVars(LocalHolder(j) = {} /\ LocalLapse(j))

FairSpec == WorkersSpec /\ Fairness

-----------------------------------------------------------------------------
(* Properties.                                                             *)

\* A result event is acknowledged in the tenant's database only after the
\* control plane has settled it: until then the event is the only thing that
\* brings the result to be charged (settleOutbox, reconcileHostedTenantOutbox).
SettledBeforeAck ==
  \A j \in Jobs : outbox[j] = "acknowledged" =>
    j \in inbox \/ StatusOf(j) \in {"deleting", "deleted"}

\* The provider is never called for an operation while an earlier call of it
\* may still cost something, however the job changed hands in between: a
\* worker records its attempt before it asks for authorization to call, and
\* the next one looks for attempts after it took the job over.
NoBlindProviderRetry ==
  \A j \in Jobs : \A a, b \in called[j] : a = b

\* A worker changes a job only under the job's current fence: one that was
\* stalled and comes back after another took the job over can neither end nor
\* retry nor settle it, whatever it decided from its copy.
LateWorkersAreFenced ==
  [][\A w \in Workers :
       ~IsIdle(w) /\ worker'[w] # worker[w] /\ ~At(w, "reclaiming")
         /\ job'[Op(w)] # job[Op(w)]
         => worker[w].fence = job[Op(w)].fence]_workersVars

\* The protocol keeps the promise of OperationLedger, whatever crashes, stalls
\* or is taken over between its steps: nothing is charged without a result in
\* the tenant's database, nothing with one is given back, and no result is
\* written for units that were.
Closed == {t \in Tenants : tenant[t].status \in {"deleting", "deleted"}}

Ledger == INSTANCE OperationLedger WITH
  Operations <- Jobs,
  charge <- [j \in Jobs |-> reservation[j].state],
  paid <- [j \in Jobs |-> Cardinality({u \in usage : u.operation = j /\ u.delta = 1})],
  result <- receipt,
  closing <- Closed

ImplementsLedger == Ledger!LedgerSpec

\* docs/ddd/hosted-personal-subscription-detailed-design.md:471: a receipt that
\* cannot be verified sends the operation to review and is not taken for
\* the absence of a result.  Stated of what follows: units are given back only
\* where the tenant's database holds no receipt.
UnverifiedIsNotAbsent ==
  \A j \in Jobs :
    reservation[j].state = "released" /\ Committed(j) => TenantOf[j] \in Closed

\* Every accepted operation comes to an end or to review, as long as its
\* tenant and its owner may use the service.
EveryJobEnds ==
  \A j \in Jobs :
    (job[j].state \in {"preparing", "queued", "running"})
      ~> (job[j].state \notin {"preparing", "queued", "running"} \/ Unavailable(j))

\* A committed result is eventually settled, even if its worker died before it
\* told the control plane, unless the tenant is deleted.
EveryResultSettles ==
  \A j \in Jobs : Committed(j) ~> (j \in inbox \/ ~Readable(j))

\* docs/ddd/hosted-personal-subscription-detailed-design.md:469-473: once the
\* deadline has passed and there is no result, the units are given back, and
\* review may not freeze them for ever.
UnitsNotFrozen ==
  \A j \in Jobs :
    (j \in overdue /\ Held(j)) ~> (~Held(j) \/ Unavailable(j))

=============================================================================
