# Formal model of luoome

luoome is a TypeScript monorepo (Bun, SQLite through Drizzle) with an investment
advisor for A-shares in two editions: a local single-user application, and a hosted
multi-tenant service. This directory holds TLA+ modules of the hosted service (its
job ledger, workers, payments, model calls, notifications, market requests, daily strategy
passes, backup and restore), the TLC configurations that check them on small instances, and
theorems about them that TLAPS checks for every instance.

Paths below are relative to the repository.

## 1. The system

The hosted service keeps one **control database** (users, tenants, plans, periods,
jobs, reservations, usage, inbox, delivery intents, provider attempts) and one
**tenant database** per tenant (watchlists, reports, execution requests, local leases,
receipts, outbox). They share no transaction. A web process accepts requests; one or
more worker processes loop over `runHostedWorkerOnce`.

### Inventory

| Component | Source | State | Operations | What is hard | What makes it correct |
|---|---|---|---|---|---|
| Job ledger | `packages/db/src/hosted/platform-repositories.ts`, `packages/tools/src/platform/jobs.ts`, `packages/core/src/hosted/platform.ts` | jobs, reservations, usage, inbox, delivery intents, fairness cursor | prepare, activate, claim (with its sweep), claim for reconciliation, renew, finish and settle, retry, stop, cancel, request cancellation | stale fences, takeovers, deadlines and periods that pass between steps, a dozen operations over three tables | quota never overcommitted, the tables agree, settlement is final, attempted jobs keep their reservation until someone looked for a receipt, turns rotate |
| Tenant execution tables | `packages/db/src/hosted/tenant-client.ts`, `packages/tools/src/hosted/execution.ts` | request, local lease, receipt, outbox | save request, claim, renew, commit, list and acknowledge outbox | replays, a second fence counter | one receipt, only under the current local fence |
| Worker loop | `apps/web/src/hosted-worker.ts`, `packages/tools/src/hosted/submit.ts`, `apps/worker/src/index.ts` | copies of a claimed job, two leases, a heartbeat | submit, activate, execute, settle, acknowledge, catch, reconcile | two databases, crashes and faults between any two calls, stalled workers, unknown provider usage | charged only for a result, given back only without one, every job ends, every result is settled |
| Runtimes and deletion | `apps/web/src/hosted-runtime.ts`, `apps/web/src/hosted-privacy.ts`, `packages/db/src/hosted/maintenance.ts` | open runtimes with references, registrations, deletion requests | acquire, drain, remove, register, recover, deletion pass | a runtime in use while its tenant is deleted, registrations of dead processes | nothing is written for a tenant after its data is gone |
| Payments | `packages/db/src/hosted/platform-payments.ts`, `packages/tools/src/platform/payments.ts`, `admin.ts`, `packages/core/src/hosted/payments.ts` | orders, payment attempts, refunds, periods, consumed events | create, replay, query, webhook, reconcile, request and query a refund, record an operator's payment | callbacks duplicated, reordered, lost; calls that interleave at their awaits or die there; late and duplicate payments; amounts | one provider order, one period per paid order, periods never overlap, no confirmed refund is forgotten, nothing refunded is served, lost callbacks are made up for |
| Delivery | `packages/adapters/src/hosted/notification.ts`, `smtp.ts`, `packages/tools/src/platform/notifications.ts`, the `deliveries` repository | intents and their attempts | list, register, send, recover, reconcile, suppress | a message sent and not recorded, answers after a time-out, two workers with one intent, a deletion under way | at most one mail of an intent, true reports, nothing for a deleted tenant, every intent ends |
| LLM meter | `packages/db/src/hosted/platform-llm.ts`, `packages/adapters/src/llm/hosted-meter.ts`, `hosted-model-transport.ts`, `packages/tools/src/platform/llm.ts` | leased reservations, workflow runs, cached answers, attempts, budgets | acquire, reserve, begin, send, save, complete, settle, reconcile | two leases in two databases, sessions that stall or die after the provider was paid, unknown usage | budgets and units never overspent, an answer bought once, charged only for a result |
| Authentication | `packages/tools/src/platform/auth.ts` and the `auth` repository | challenges, passwords, sessions | request, verify, log in, rotate, revoke | attempt counters, expiry | a challenge is consumed once |
| Backup and restore | `apps/web/src/hosted-backup.ts`, `hosted-recovery.ts`, `prepareRestore`, `packages/db/src/hosted/maintenance.ts`, `apps/worker/src/operations.ts` | maintenance mode and owner, write activities, ledger of deletions, review report | enter, begin, freeze, copy, finish, restore, recover, reconcile, resume | a state restored that is older than what has happened outside; processes that die holding the gate | a set is one instant, nothing is requested or sent twice (but for finding 5), no deleted tenant or ended session revived, the gate reopens |
| Strategy pass | `apps/worker/src/strategy.ts`, `packages/workflows/src/hosted-strategy.ts`, `strategy-daily-cycle.ts`, `packages/tools/src/tools/run-strategy.ts` | execution lease, schedules and their leases, run leases, runs, observations | take the turn, sweep, claim, check the day, run, commit, observe, finish | three leases that lapse at any await, runs by hand in between | one published run a day, its signals observed, signals judged against all published before |
| Automation passes | `apps/worker/src/watch.ts`, `reports.ts`, `packages/db/src/hosted/*-store.ts` | automation runs, triggers, deliveries | claim, run, settle | leases, duplicates | each occurrence once |
| Local edition | `packages/workflows`, `packages/tools/src/tools`, `packages/db/src/repository`, `apps/web/src/server.ts`, `packages/cli`, `packages/tui`, `packages/mcp` | strategies, watchlists, plans, portfolio, reports | schedules, watches, reports, tools | schedule overlap, trigger cooldowns, stale quotes | an occurrence runs once, a trigger fires once |
| Market data | `packages/adapters/src/market`, `packages/db/src/hosted/public-market-client.ts` | entries and quotas shared by the processes, caches in memory | claim, renew, wait, finish, block, fall back | leases that lapse while the provider is asked, processes with different quotas | one request in flight per quote, nobody waits in a circle, the stricter quota holds |
| Portfolio arithmetic | `packages/core/src/portfolio`, `entity` | none | replay, valuation | decimals | agreement with a reference |

`PROJECT.json` lists every component with what is and is not modelled, and the hazards
at the lines where they bite.

## 2. Modules

| Module | Models | State | Composed of |
|---|---|---|---|
| `HostedJobs` | the job ledger: one action per repository method, each of which runs in one `store.transaction` | `job`, `reservation`, `usage`, `inbox`, `delivery`, `cursor`, and the `tenant`, `owner`, `period`, `overdue` facts they are judged by | |
| `TenantExecution` | the execution tables of the tenant databases, one immediate transaction per method | `request`, `localLease`, `receipt`, `outbox` | |
| `HostedWorkers` | clients, workers and the deletion pass over both stores, one step per tool call | `worker` (program counter and copies of each run), `unknownUsage`, `deletion`, `abandoned`, the history `called`, the bound `disturbances` | extends both |
| `OperationLedger` | what the service promises of a charged operation | `charge`, `paid`, `result`, `closing` | refined by `HostedWorkers` |
| `HostedPayments` | orders, payment facts, refunds and periods: one operator per repository method, tool calls as steps of a caller, the provider as environment | `order`, `fact`, `refund`, `period`, `events`, `queued`; `call` per caller; the provider's `placements`, `latest`, `closed`, `accepted`, `told`; `serving`, `expired`, `now` | |
| `Purchase` | what buying a period promises a customer | `money`, `service`, `returned` | refined by `HostedPayments` |
| `HostedMeter` | the metering of model calls: one step per call of a session to either database or the provider | `session`, `run`, `held`, `attempt`, `receipt`, `entitled`, `jobUnits`; the histories `billed`, `byHand`, `settledBy`, `late` | |
| `HostedDelivery` | the passes that dispatch and reconcile notifications, the mail provider, the tenant's deletion; every await a step | `intent`, `byTime`, `standing`, `sender`, `registered`, `leaked`, `flight`, `provider`; the history `mails` | |
| `HostedRestore` | the maintenance gate, a backup, a restore and the recovery commands, over what the service does that they can undo | `gate`, `entered`, `lost`, `doing`, `control`, `private`, `ledger`, `backup`, `saved`, `restorer`, `review`; the history `world` | |
| `MarketRequests` | calls for quotes over the entries and the provider's quota that all processes share, one step per transaction | `entry`, `quota`, `call`, `now`; the histories `overran`, `sent` | |
| `StrategyPasses` | the daily pass of the workers over the strategy of a tenant and runs of it by hand, one step per tool call, `run_strategy` and the sweep in several | `execution`, `schedule`, `runLease`, `runs`, `active`, `today`; `pass` per process | |
| `HostedJobs_proofs` | theorems about `HostedJobs`: types, quota, agreement of the tables, final settlement, turns | | extends it |
| `HostedWorkers_proofs` | theorems about `HostedWorkers`: its steps are the ledger's, and it keeps what `OperationLedger` promises | | extends it and `HostedJobs_proofs` |
| `HostedPayments_proofs` | theorems about `HostedPayments`: periods, orders at the provider, refunds, and that it keeps what `Purchase` promises | | extends it |
| `HostedMeter_proofs` | theorems about `HostedMeter`: budgets and units, answers bought once, charges | | extends it |
| `HostedDelivery_proofs` | theorems about `HostedDelivery`: one mail, true reports, nothing after a deletion | | extends it |
| `HostedRestore_proofs` | theorems about `HostedRestore`: one instant, nothing repeated or revived | | extends it |
| `MarketRequests_proofs` | theorems about `MarketRequests`: the quota and the leases | | extends it |
| `StrategyPasses_proofs` | theorems about `StrategyPasses`: one run a day, signals after what is published | | extends it |
| `MCHostedWorkers`, `MCHostedPayments` | finite instances for TLC of one component each | | |
| `MCHostedRecords` | the same of `HostedJobs` and of `HostedRestore` | `part` | extends both |
| `MCHostedProcesses` | the same of `HostedWorkers` and of `MarketRequests` | `part` | extends `MCHostedWorkers` and `MarketRequests` |
| `MCHostedOnce` | the same of `HostedPayments` and of `StrategyPasses` | `part`, the bound `faults` | extends `MCHostedPayments` and `StrategyPasses` |
| `MCHostedRaces` | the same of `HostedMeter`, `HostedDelivery` and `HostedJobs` | `part` | extends the three |
| `MCHostedWaiting` | the same of `HostedPayments`, `HostedRestore` and `HostedDelivery` | `part` | extends `MCHostedPayments` and the other two |

The components in one of the last five modules share no variable. `part` is chosen at the start
and never changes; a behaviour is one of the component it names, while the others keep their initial
state. What is checked of a component is what a run of its own would check.

### How state and actions correspond to the code

*Time.* The code compares timestamps with `now`. The models keep the outcome of these
comparisons: a lease is `live` or `lapsed`, an operation is `overdue` or not, a period is
`future`, `current`, `ended` or `revoked`. `LeaseLapses`, `DeadlinePasses` and `PeriodTurns`
flip them at any point. Renewing a live lease leaves it live, so `renewJobLease` is the test
`CanRenew`; a worker whose renewal fails is stopped by `HeartbeatLost`.

*Fences.* An `attemptId` is drawn afresh with every new fence and is compared wherever the
fence is, so the fence stands for both. In `HostedJobs` a settlement, retry or stop may come with
any fence: nothing is assumed of the callers. `HostedWorkers` restricts the calls to those that
workers make, with the fence of their copy.

*One operation.* A job, its reservation and its operation are one-to-one, so all tables are
functions of the operation. The deployed job policies charge one unit or none
(`ConstantsAssumption`), and a partial result charges nothing (`finishHostedJobTool`).

*The sweep.* `claimJob` first cancels or sends to review every pending job whose tenant, owner,
deadline or period no longer allows it, and commits this even if it then returns null. It is part of
`ClaimJob` and is `ClaimNothing` when there is nothing to claim. A queued job of the winner is the
swept one, so its state is judged by `SweptJob`.

*A worker's run.* `worker[w]` follows `runHostedWorkerOnce` from the claim to the `finally`:
`claimed` (tenant read), `checked` (runtime acquired), `opened` (request read and local claim),
`examine` (stop without receipt, or read the provider attempts), `recording`, `calling`, `called`
(the two authorizations inside the workflow), `committing`, `confirming` (fixture mode only),
`settling`, `finishing`, `acking`; and, after an error, `caught`, `counting`, `resolving` for the
three calls of the catch block. The copies are those the code keeps in variables: the fence, the
`job.errorKind` and cancellation of the claim (`stop`), whether the local claim was acquired
(`localFence > 0`), whether the runtime was opened (`receiptContext`), what the catch block read
(`committed`, `uncertain`). `reconciling` marks a run of `reconcileHostedTenantOutbox`, where an
error ends the pass instead of reaching the catch block. A tool call that throws becomes an error
result (`define-tool.ts`), so `Fault` may strike before any call.

*Deletion.* `BeginDeletion` gives the tenant a new generation, which fences everything in flight.
A runtime already open is still handed out (`hosted-runtime.ts:266`) until the pass has drained it
(`deletion`), and a registration left by a dead process (`abandoned`) holds the pass back until
`RecoverStoppedWriters`.

*Payments.* `Apply` is `applyVerifiedPaymentEvent`, the one method through which webhooks, query answers
and operators' records enter, in a transaction of its own; its parts are named for the decisions it takes
(`Rejected`, `Unwelcome`, `Buys`, `Grants`, `Withdraws`, `PlacedPeriod`). The tools around it await the
provider and the repository, so `call[c]` follows one tool call through its awaits: `submit`, `placed`
(`submitOrder`), `ask`, `seen`, `apply` (`observeOrder`), `refund`, `refundSent` (`request_hosted_refund`),
`askRefund`, `refundSeen` (`observeRefund`), `collect` (`record_hosted_operator_payment`). `Abandon` ends a call
at any of them, as a crash or an error does. The provider is what its port and the fixture in
`packages/adapters/src/hosted/payment.ts` allow: it may lose a request or its answer, be paid twice, close an
unpaid order and be paid for it all the same, settle refunds in any order. `latest` is its last word on a
transaction and `told` all it ever sent, each of which a webhook may deliver at any time, again, or never.
Where the fixture decides something another provider need not (`orderIdempotency`, whether a query reports
the cumulative refund of a payment, closing, refunds at a console), a constant leaves it open. Money is counted in
units of the price and a period is an interval of `now`; `addShanghaiCalendarMonths` is `Months`. A sum of refunds (`Amount`)
is the number of their units taken together, each named by its refund, which is the sum and can be reasoned about.

*Model calls.* `session[s]` is one invocation of `run()` in `hosted-meter.ts`: `acquire` and `control` take the
two leases, `read` to `confirm` are one request of the transport, `commit`, `replay` and `settle` the good end,
`failing`, `refund`, `release` and `relinquish` the catch block. `renew()` asks both leases and, once refused, stays
refused, after which nothing the session does changes either database, so a refused renewal ends the session in the
model; the exception, the withdrawal of a request not yet sent, is a step of its own. What is *not* fenced
by a lease in the code is not fenced in the model: `receipts.save` and `complete`. The requests of a run
are sequential, as the callers make them; `admit`, which awaits a renewal and a look at the tenant, is one
step, since it only reads. Costs are small numbers up to what was reserved; a sum of them (`Total`) is counted in the same
way, as the number of the units of its terms. `late` are the answers saved when the run's lease was no longer the session's.

*Notifications.* `sender[d]` is a worker in the dispatch loop of `runHostedWorkerOnce`; `todo` is the
list as it was read, with the state each intent had then, which decides between recovering, looking up and
sending. `byTime` is the order of `availableAt`, and `FirstDue` the first intents of a query in that order, `Window` at most. `Mine` compares attempts as the repository does. Quiet hours, entitlement and the
condition of a watch trigger are free choices at the points where the code tests them. A message handed
over is in `flight` until the provider takes or refuses it, which may be after the sender gave up. `provider`
is fixed at the start: SMTP (no lookup, no idempotency), the fixture (both), or lookups without
idempotency, which the port allows. An error that `value()` throws drops the rest of the pass.

*Quotes.* `call[c]` is one `execute` of the coordinator, `claim` to `wait`; a call of capability `quote` is a batch of
one that may also claim what a batch did not find. Every `store.update` is one immediate transaction and one step;
between the steps of one process stand those of the others, though in its own `claim` and `finish` loops run without
an `await`. `Renew` is the timer: nothing says that it comes in time, so a call stalls, or dies, by not taking steps
while `Tick` goes on. The reading `wait` takes is one look, whenever `StopWaiting` happens; the deadline counts from
the moment the wait begins. An answer is only how long it may be served. A provider is asked by one or more pages or hosts
(`Pages`), each with a look at the quota of its own. The window is a set of requests, of which the code keeps the times; a
page is told from the others of its call by its number, so that two at one time are two (`EachRequestCounts`). An entry not written for `retainUntil` is forgotten, which of all its
fields cuts only a long `retryAt` short (`Retained`). The second provider that one source may ask in the same call is left out.

*Strategy passes.* `pass[w]` is a worker in one tick of `runHostedStrategyPass`: `reconcile`, `sweep`, `swept` (the failing of
stale runs), `check` and `recover` (the runs so far), `prepare`, then inside `run_strategy` `run`, `save`, `judge`, `authorize`,
`commit`, `unlock`, and `observe`, `finish`, `release`. A person's run by hand takes the inner part alone. Each step is one tool call, whose
guard renews the execution lease (`MayCall`) and, where the code does so, the schedule's. A pass and a run draw owner names of their own, so the
process stands for the name; what a dead one held belongs to `NoOne` until it lapses. A lease lapses at any point (`Lapse...`),
which is its holder stalling between two renewals. The row of the run lease is deleted on release, so that its fence starts at one again.
`seen` counts the published runs at the moment the signals are judged. The sweep takes any running run, not only one
older than 30 minutes. A day ends only when no lease is live, as passes start after 16:30 and leases last minutes.

*Restore.* What the service does is reduced to one operation with one paid request, one notification, one login and
one account, since a restore acts on each row by itself. The operation takes every way the job ledger and the worker's loop give it,
`doing[w]` being where a worker is in `runHostedWorkerOnce`: a claim, also of a lapsed lease, after which the former worker may still
record a request or commit (`Overtaken`, `Behind`); the sweep and the catch block with all their ends, review among them whatever the cost
(`SweepOperation`, `GiveUpOperation`); the pass over the outbox. `unknown` counts its attempts of unknown usage, which fixtures confirm
and the operator books (`BookCost`). `control` and `private` are the two databases, and a
backup copies one after the other. `world` is what cannot be taken back. A restore
replaces both databases by the saved set, gate included, and `PrepareRestore` is `prepareRestore` with its parts in its
order; the outbox is then settled as the service settles it, one call a step; the service that is given up never runs again. A
notification made after a restore is another one than what was handed over before (`notice`), so that handing one over twice
(`again`) and making one anew are told apart. `needs-review` is an end for the summary that guards resumption
(`isHostedJobTerminal`), an unknown cost is not.

## 3. What is checked

| Run | Instance | States | Shows |
|---|---|---|---|
| `records` | jobs: one tenant, two operations of one unit, two periods of one unit, fences up to 2; restore: two writers, one death, one restore | 3 million | `QuotaNeverOvercommitted`, `LedgerAgrees`, `OneExecutionPerTenant`, `IntentFollowsSettlement`; action properties `AttemptedReleaseNeedsStop`, `SettlementIsFinal`; `SetIsOneInstant`, `NothingRepeated`, `NothingRevived` |
| `workers_safety` | workers: two of them, one operation, two disturbances, usage never confirmed, the catch block may fail to read the receipt; market: two batches that want the same two quotes in opposite orders, a call for one of them, limits of two and one in windows of one and two ticks, clock up to 2 | 2.9 million | `SettledBeforeAck`, `NoBlindProviderRetry`; `LateWorkersAreFenced`; refinement `ImplementsLedger`; `QuotaKept`, `SharedSafely` |
| `workers_liveness` | two workers, one disturbance, fair, usage confirmed at once, reads of the attempts may fail | 0.5 million | `EveryJobEnds`, `EveryResultSettles` |
| `frozen_units` | one worker, fair | violated | section 4 |
| `unverified_receipt` | one worker, three disturbances, fixture mode, reads of receipts may fail | violated | section 4 |
| `payments_refunds` | payments: one order of two units that may be closed, one payment, two refunds, two callers, a provider without idempotency, expiry of requests; strategy: two workers and one person, two runs, two days, run fences up to 2, two faults | 1.7 million | `OneProviderOrder`, `RefundLedgerHonest`, `RefundedNeverServed`; refinement `ImplementsPurchase`; action property `PaymentsAreFinal`; `OneObservedRunPerDay`, `SignalsFollowTheLast` |
| `payments_periods` | three orders (one paid up to twice, two of an operator), a trial, periods of one and two units of time, clock up to 2, refunds at the console, the tenant out of and back in service | 2.8 million | `PeriodsDisjoint`, `ServiceIsPaidFor`, `RevokedWorkStops` |
| `early_query` | one order, one payment, one refund, two callers | violated | section 4 |
| `races` | meter: two of three sessions over two operations with two requests each, two units, a budget for one operation at a time; delivery: two workers, one e-mail of a trigger, two attempts, one crash, three kinds of provider; turns: two tenants with one operation each, one running slot | 2.4 million | `NothingOverdrawn`, `ServedOnce`, `ChargedForResults`, `SettledIsFinal`; `MailedAtMostOnce`, `ReportsAreTrue`, `NoMailAfterDeletion`; `TurnsRotate` |
| `notice_repeated` | two writers, one death, one restore | violated | section 4 |
| `waiting` | fair, delivery: one worker, an e-mail and an in-app intent, one crash, a deletion; payments: one order, one payment, one refund, a user and the worker, a provider that closes nothing; restore: one writer, one death, one restore | 0.2 million | `EveryIntentEnds`, `DeletionEnds`; `LostWebhooksRecovered`, `RefundsSettle`; `ServiceReopens` |
| `starved_delivery` | one worker, two e-mails over SMTP, a window of one intent, fair | violated | section 4 |

`CHECK_DEADLOCK FALSE` stands in every configuration: an instance has finitely many operations and
bounded fences, so when all of them have ended and the tenant is deleted nothing is left to do.

**Bounds.** `MaxFence` and `MaxLocalFence` bound the claims of one operation. Two claims are enough
for a takeover, a stale fence and a second attempt, which is all `HostedJobs` distinguishes; in
`HostedWorkers` the bound of five lies beyond the three attempts after which a worker stops retrying
(`MaxAttempts`, the code's own number), plus a reconciliation claim. `MaxDisturbances` counts
crashes, faults, stalls (a lease that lapses under a running worker) and suspensions; leases whose
holder is gone lapse freely, as do deadlines and periods, and cancellation and deletion are
unbounded. Two disturbances of two workers suffice for one of them to stall and the other to
fail after it took over; three of one worker for every attempt to fail. Two operations are the least
that can compete for a quota or a tenant's slot, two tenants the least that can take turns. One unit
per period makes every second acceptance the boundary case. Symmetry is used on the two equal
operations and on the two workers in safety runs only.

**What the two worker runs leave to each other.** With usage that stays unknown (the
configured providers never confirm it) an attempt that reached the provider and then failed without a
receipt goes to review, so retries after a call happen only in fixture mode: `workers_safety` has the first,
`workers_liveness` the second. The catch block makes two
reads, of the receipt and of the provider attempts, and takes a failed one for "there is none";
`FailingReads` says which of them may fail. A failed read of the receipt is harmless while the unknown usage
of the attempt leads to review, and a failed read of the attempts while a receipt would be found. Where
neither holds (fixture mode with unreadable receipts, or both reads failing) the refinement and
`EveryResultSettles` fail in the way of finding 2, so each passing run lets one of the two fail.

In the market part of `workers_safety`, two batches in opposite orders are the least that could wait for each other; a third caller claims what a late finish
of the first has taken from the second, and comes, to keep the instance small, while no second page is asked for and when a lease has been lost or a batch has
ended (`Unhurried`). A tick is the lease, the life of an answer and the cooldown, so that two ticks reach a takeover and the lapse
of what the second caller left; the caller with the lower limit also has the longer window.

In the payment runs a price of two units is the least at which a refund can be partial, two refunds
the least that can exceed a payment together, two payments of an order the least that can be duplicates; a replay needs
one other caller. In `payments_refunds` the second caller is about, and the request expired, only before the
provider has sent its first webhook (`RivalNext`): after that one caller is left with the refunds. Each run keeps still what its question does not need (the specifications of
`MCHostedPayments`): the clock and the tenant in `payments_refunds`, the expiry of requests in `payments_periods`. Symmetry is used on the two
equal refunds.

In the strategy part of `payments_refunds` two runs are the least that can be two of a day or of two days, and a person is what publishes between
a scheduled run's judgement and its commit. `MaxFaults` counts lapses, deaths, refusals, calls given up, pauses of the strategy and
rescheduling: two let a pass lose two of its leases, or lose one and its successor die. Three faults, and three runs, were checked
once and held. Symmetry is used on the two workers.

In `races` two sessions are the least that can take an operation over, and with the third of another operation the least
that compete for a budget and the units; two requests are the least after which a resumed session has one answer cached
and another not. One e-mail and two workers suffice since intents meet only in the list, which is looked at in
`waiting`; two attempts are the least that can be one too many; one crash is enough as the worker that dies has a
rival. In `waiting` a window of two shows both intents to every pass: that a fuller table starves is finding 4. A
suspension and a change of preferences suppress intents at once and are left to `races`. One backup, one restore and one
death, at any point of any process, reach every mixture of the two databases that a set or a command
can leave; two writers are the least of which one can stall and be overtaken. One writer and two deaths with two restores, two
writers with two restores and with a provider that answers no lookup were checked once and held. `ServiceReopens` has one writer, since whom
the gate waits for is a set that is to become empty. In `waiting` the intents of one result are made together (`DeliveryMoves`), no owner logs out or is kept
out, and between backup and restore only a deletion goes on, as the restore undoes the rest (`Undone`); none of these bounds leaves a fair
process without a step (a writer with nothing it may do leaves), and `records` and `races` have what they leave out.

**Fairness.** `apps/worker/src/index.ts` calls `runHostedWorkerOnce` in a loop and
`deploy/hosted/compose.yaml` restarts a process that ends, so weak fairness is assumed of each
worker's next step, of some worker's claim, of the sweep, of the outbox reconciliation and of the
preparing pass; and of time: a lease nobody holds lapses and deadlines pass. It is not assumed that a
client saves its request, that an administrator resumes a tenant or enables an owner, or that an
operator recovers stopped writers. The liveness properties therefore except tenants that
are not available.

For payments, the worker lists what is due oldest first and a claim moves an item to the end
(`payments.ts:533-541`), so an item that stays listed is taken up again and again (strong fairness of
`ReconcileOrder` and of the worker's `AskRefund`); every call of the worker ends, if only with its process; and
a provider that sometimes fails to answer, and a process that sometimes dies, still let each step of the worker be
done infinitely often if it is tried infinitely often (strong fairness of these steps). The provider settles
what it accepted. Nothing is assumed of webhooks, users or operators. `waiting` has a provider that
closes no order: the worker's list leaves closed orders out (`payments.ts:528-531`), so a late payment of one whose
webhook is lost too waits for its user to ask.

For deliveries, a worker makes passes for ever and a pass takes its steps; the deletion pass is part of every tick;
time goes on; a lookup that sometimes fails succeeds when tried often enough (`SF` of `LookUp`). No operator is assumed
fair: a registration left by a crash keeps a deletion from ending until someone runs
`recover-stopped-writers`, so `EveryIntentEnds` and `DeletionEnds` except it (`Stuck`). For the gate the operator *is*
assumed to act, since no code reopens it otherwise: the runbook has them recover stopped writers, reconcile, book costs by the provider's bill, ask the
providers and resume. `ServiceReopens` then says that what keeps the gate shut for good is only what
no command can resolve (`Unresolvable`): an e-mail SMTP left unknown, a deletion requested before the backup without its
tombstone, a result whose operation was given up. Pending payments, which the summary counts too, are not part of it (section 6).

**Mutants.** Beside some operators stands a variant, marked `Mutant:`, that changes it as a
plausible bug would (a dropped test, `<=` for `<`, a step too early). No specification uses them: they
are there to show, by putting one in the place of the operator it precedes, that each property notices
such a bug. `PROJECT.json` says which variant violates which property.

## 4. Where code and documents disagree

1. *Units of an operation under review stay held* (`frozen_units`). The design document
   (`docs/ddd/hosted-personal-subscription-detailed-design.md:469-473`) releases the user's units after the deadline
   once there is no receipt and execution has stopped, keeps only the provider's cost open, and asks
   that review does not freeze units for ever. `hosted-worker.ts:635` and `:751` stop such an operation
   as `needs-review` without releasing, and no operation of the repository leaves that state unless
   a result event turns up.
2. *A receipt that cannot be read counts as none* (`unverified_receipt`). The same document, line 471,
   sends an operation whose receipt cannot be verified to review. `hosted-worker.ts:743` computes
   `committed` as false when the read fails; a permanent error, the third attempt or one past the deadline is then
   stopped as failed with its units released, although the result exists. With configured providers the unknown
   usage of the attempt leads to review instead, unless the read of the attempts (`:744-749`) fails as well.
3. *A refund is given back before it is submitted* (`early_query`). Line 409 releases the amount a refund
   occupies only when it failed or was certainly not accepted. A query that falls between `reserveRefund` and
   `requestRefund` of another call is answered not-found, which `payments.ts:369-373` records as failed; the refund is then
   submitted and accepted. The amount can be promised again meanwhile; the provider's own limit keeps the money right.

4. *A notification may wait past its expiry for ever* (`starved_delivery`). Line 526 suppresses what is past its
   business window. Only a pass does that, and `listPending` (`platform-repositories.ts:1655-1666`) shows it the first
   20 due intents by `availableAt`, those of unknown outcome among them. SMTP answers every lookup with unknown, so such intents
   stay first for ever, and 20 of them hide all later ones. The run shows it for a window of one.
5. *A restore can make a notification anew* (`notice_repeated`). The runbook (`docs/runbooks/hosted-personal-subscription.md:192`) settles results from
   receipt and outbox after a restore and makes no report or notification again. `prepareRestore` marks the running and the retried jobs
   (`platform-repositories.ts:527`), for which `finishHostedJobTool` then makes no intents, but not one that was in review already when the backup was taken.
   If the tenant database holds its result, unacknowledged, the outbox pass of `reconcile` settles the job and makes fresh intents
   (`jobs.ts:270-282`), after the old pending ones were suppressed; pending intents are not among the counts that guard `resume`, so the restored
   service sends a second notification of a result it had announced between backup and restore, unless an intent's validity, a day from the commit at most,
   is over before. The job gets into review with every cost known by the sweep of an unavailable tenant (`:1199-1205`), by the last branch of the catch block
   (`hosted-worker.ts:777-785`), or because the operator booked its cost. It is the only way: `NothingRepeated` excepts exactly such a set
   (`HeldReview`) and is proved.

The models also show, without a document to contradict: an answer is bought twice when a session stalls past its
lease between its last renewal and the save, neither of which fences the other (`late` in `ServedOnce`: an answer saved when
the lease of the run had lapsed); a
session that failed and released its unit may be followed by one that completes from the cached answers and is
charged nothing; a mail the provider took after its intent was marked unknown stays unknown with SMTP; an in-app intent whose sender died
between claim and completion becomes unknown too, and with SMTP nothing resolves it.
A strategy's run lease starts at fence one again after each release, where `docs/ddd/strategy-daily-cycle-and-replay-detailed-design.md:566` speaks of
fences that grow: `HoldsRunLease` is safe only because it compares the owner too, which is drawn at random. And a day whose
run was started and failed, or left running by a crash, counts as run and is skipped, though the comment
at `strategy-daily-cycle.ts:370-377` speaks of a repetition after a successful run.

## 5. What is proved

Every safety property of the passing runs, invariant or action property, and both refinements are theorems: what a run
shows on its instance holds for all values of the constants that satisfy the assumption of the module. The
assumptions say what the constants are: finitely many operations, refunds or intents where the code counts
rows, units of one or none, positive limits, and names that are told apart (`"nobody"` is no caller). The
bounds of the models are constants like the others, so they hold for any bound. Beside them each module
proves its types, which held in every run while it was written and are in none now. In what follows, the name of a module's inductive invariant comes first, with what it adds to
the properties and why it is needed.

`HostedJobs_proofs` (`QuotaInv`, `LedgerInv`)

* `QuotaHolds` (`QuotaNeverOvercommitted`). The bound says something only if the sets it counts are finite
  and the reservations typed, which `QuotaInv` adds. Every action but two takes no unit (`NoNewHold`) and
  keeps the sums from rising. `PrepareKeepsQuota` adds one held unit after looking at both sums;
  `FinishKeepsQuota` removes the operation from the held and adds at most one row to the charged.
* `LedgerInv` is the types and, for each operation, `JobAgrees`: `LedgerAgrees` with one more conjunct, that an
  operation that does not exist yet has the first fence, no reservation and no usage row. Without it, accepting an operation
  could run into a row that is already there. The argument is about one operation at a time: `StepOrdinary` sums up
  what any step but three does to it, and whether it can put it under a live lease (`GrantsNoLease`: only the two
  claims do); `AcceptFields`, `SettleFields` and `EraseFields` say the same of the three others. From these follow
  `TablesAgree`, `SettledForGood` (`SettlementIsFinal`), `AttemptsEndBeforeRelease` (`AttemptedReleaseNeedsStop`),
  `OneAtATime` (`OneExecutionPerTenant`: `ClaimJob` finds the tenant idle, and a reconciliation claim carries the `errorKind`
  that exempts it) and `IntentsFollow` (an intent must not outlive the result it announces).
* `Turns` (`TurnsRotate`) needs no invariant: the tenant served last is not after the cursor, so it is selected only when
  no candidate is, and it is then the least of them.

`HostedWorkers_proofs` (`WorkersInv`: types, `LedgerInv`, `ProtocolInv`)

* `UsesTheLedger`: `WorkersSpec => JobsSpec`. Each step of a worker, a client or the deletion pass is a step of `HostedJobs` or
  leaves the ledger alone, so the theorems above hold of the protocol; they are used here as they stand.
* `ProtocolInv` says of each worker how far its copies may lag (`Copies`), where an open runtime and a stored receipt
  are certain (`Inside`), that before its commit the holder of either lease finds no result (`Alone`), what it knows of earlier
  calls (`Calls`), and that what the catch block has read still holds while it could give units back (`Reads`). Of two workers on one
  operation it says that their fences differ, and that who was authorized to commit before the other took
  over has the older local lease (`Apart`). `SettledFirst` (`SettledBeforeAck`) and `CalledOnce` (`NoBlindProviderRetry`) follow.
* `ReleasedWithoutReceipt`, `LateWorkers` (`LateWorkersAreFenced`) and `KeepsThePromise` (`ImplementsLedger`, step by step) assume
  `ReliableReads`: of the two reads of the catch block, the one that decides answers (the receipts can be read, or usage
  stays unknown and the attempts can be read). It is the condition under which the passing runs are; that it is needed is
  finding 2. The code does not guarantee it, so it is a hypothesis of these theorems and no assumption of the module.

`HostedPayments_proofs` (`PlacementInv`, `PlacementsInv`, `PaymentsInv`)

* `PeriodsNeverOverlap` (`PeriodsDisjoint`): `StepMoves` shows that a step moves no period, or grants one that was not there, or withdraws
  one that was paid, without the clock going back; `PlacedLast` that a granted period starts after everything its tenant
  holds. That rests on `Max` of the ends ahead, a number only if they are bounded, so `PlacementInv` adds that all periods end
  by some date; `MaxOfBounded` finds the maximum by the library's `WFMin`. `WithdrawnWorkStops` (`RevokedWorkStops`) follows from the same lemmas.
* `OneOrderEach` (`OneProviderOrder`): a provider that takes an order once however often it is asked makes it true by itself.
  For any other, `AskedOnce` says that a call about to submit an order is the only one, that the order is recorded and not placed,
  and that no call has leave to submit again; all but four steps are shown to be `Unasking`.
* `PaymentsInv` relates three accounts that no transaction joins: the facts that are on their way, the provider's books and the ledger. A fact once
  sent stays true, since the provider's account only grows (`Vouched`); the books cover what was paid back and leave room for what is being
  processed (`BookSound`); and the ledger's figure lies between the refunds it knows and the provider's (`FactSound`), whatever the
  order in which facts arrive. That gives `RefundsAreTrue` (`RefundLedgerHonest`), `NothingServedRefunded` (`RefundedNeverServed`) and `PeriodsArePaid` (`ServiceIsPaidFor`).
* `SettledIsFinal` (`PaymentsAreFinal`) and `KeepsThePurchase` (`ImplementsPurchase`) from `StepMovesTables`, which says once what a step may do to each
  of the four tables.

`HostedMeter_proofs` (`MeterInv`)

* `WithinBudget` (`NothingOverdrawn`): an attempt counts what was reserved until its usage is known and what was billed then (`AttemptSound`),
  an operation no more than its budget, the period no more than its own. The sums are cardinalities, so that the facts about finite
  sets prove how they change: one term at a time. The last part is `UnitsShared`: operations and jobs together stay within the plan, so that
  the quota of `HostedJobs` and that of the meter, which share a table, hold together.
* `NotServedTwice` (`ServedOnce`) needs what sessions of one operation know of each other: who sent a request and holds the run keeps the
  others from the reservation (`Fenced`), and a session that found no answer before one was saved no longer owns it (`Overtaken`), unless the
  answer was late. The run begins two of its three sessions; the theorem covers any number, and looking for its proof with three sessions of
  one operation corrected the model, which had called an answer late only when the attempt was confirmed after the lease.
* `ChargedForAResult` (`ChargedForResults`), `NothingAfterSettlement` (`SettledIsFinal`): no attempt of a settled operation is left unknown, and none begins.

`HostedDelivery_proofs` (`DeliveryInv`)

* `MailOnce` (`MailedAtMostOnce`), `ReportsTrue` (`ReportsAreTrue`), for each kind of provider. Without idempotency an attempt is the last one until it
  is known to have failed (`LastAttempt`): its intent is out of reach of a claim, its sender is the only one, and until it hands over the
  provider has nothing. What a sender believes of its own attempt is so (`Beliefs`).
* `NoMailOnceDeleted` (`NoMailAfterDeletion`): who can hand a message over is registered, and a registration keeps the deletion from completing.

`HostedRestore_proofs` (`RestoreInv`)

* `SetsAreConsistent` (`SetIsOneInstant`): from the freeze to the end of the copies nobody is registered, so neither database moves.
* `DoneOnce` (`NothingRepeated`): a state in service owes the outside nothing it does not know of (`Owed`, `Safe`), and `prepareRestore` leaves no
  state, however old, from which something already done could be done again (`PreparedOK`). `InTheMiddle` says what each worker may be in the middle
  of, so that whoever lost the operation neither requests nor settles, and who sends a notification is alone with it. `NoticesTold` tells notifications apart by the
  restore after which they were made, so that none is handed over twice; `NoticesKnown` says that, as long as no set holds a result in review, only one was ever
  handed over, and that a state which has forgotten it would settle its result only as `restored-reconciliation`, for which no notification is made. `ReportTrue` says that a clean report
  leaves no result behind that could be settled once the service runs again.
* `StaysErased` (`NothingRevived`): the tombstone outlives every restore (`Owed`), and `PreparedOK` has it applied before the gate opens.

`StrategyPasses_proofs` (`StrategyInv`)

* `OneRunADay` (`OneObservedRunPerDay`): a pass that may still publish is the only one, is of today, and finds everything published
  before observed (`OneAhead`, `InOrder`). `SignalsFollow` (`SignalsFollowTheLast`): who holds the run lease under its fence and name
  has counted all that is published (`OwnRuns`, `LeaseNames`).

`MarketRequests_proofs` (`MarketInv`)

* `WindowHolds` (`QuotaKept`): the limit in the window is no more than that of any process with a request in it, and what counts for the
  shortest window is in the window every process keeps (`QuotaSound`). Idleness, at which the configuration is replaced, is the
  absence of exactly these requests.
* `SharesSafely` (`SharedSafely`): a call has a lease of what it owns unless it has overrun, owns what it has a lease of, and owns nothing when it waits (`LeasesSound`).

Only model-checked, and why: liveness (`EveryJobEnds`, `EveryResultSettles`, `LostWebhooksRecovered`, `RefundsSettle`, `EveryIntentEnds`,
`DeletionEnds`, `ServiceReopens`), for which the prover has no rules about fairness and `ENABLED`; and the four properties that are
violated (section 4), which are no theorems. No module declares a recursive operator.


## 6. What is not modelled

* Content: the facts, alerts and reports that a commit writes are one status. Two requests of the same
  facts reuse one report but keep a receipt and an event of their own, which is what the model keeps.
* `availableAt`, priorities and ageing, the daily job count: they only delay or refuse. The choice among
  a tenant's candidates is left open, so every order is covered.
* `correctUsage` (no caller), provisioning jobs, exports, the cap on open runtimes.
* Of a restore: payments in the external reconciliation (so `ServiceReopens` says nothing of orders and refunds that stay pending), a second tenant or backup,
  the in-app channel (an intent is a mail; the in-app one is made and suppressed with it), the expiry of intents as a matter of time (`SuppressNotice`
  may happen or not). A sender that stalls and is overtaken is in `HostedDelivery`, the operator's bookings in a running service in
  `HostedMeter`; in `HostedRestore` a cost is booked only while the gate is shut.
* `MarketDataManager` (the order of sources, the fall back, its caches in memory), which asks through the coordinator.
* Of strategies: several versions of one, archiving, a scheduled run started through the API, what follows the observations in a pass (plans,
  reports, recommendations, insight), the schedulers of the local edition, which share the cycle without the execution lease, and a stall
  between the authorization of a call and its write anywhere but in `run_strategy`. The watch and report passes.
* Receipts of delivery (`markDelivered`), which no step reads, and the Feishu messages of the watch pass.
* The memory repositories (`platform-memory.ts`, `tenant-memory.ts`): the same contract for tests.
* The components that `PROJECT.json` marks `not_modelled`, for the reasons given there.

## 7. Plan

The components that carry the service are modelled, and the safety of each is proved. What is left:

1. For TLC, and then to prove: the outbox scan with its limit (hazard at `tenant-client.ts:919`) and the failing tenant
   (`hosted-worker.ts:224`) over several tenants; the hosted watch and report passes; of the local edition,
   schedule occurrences and watch triggers; the fall back of `MarketDataManager` to other sources.
2. Of the proofs, action properties the runs do not check yet: that a lease or fence never moves back in `TenantExecution` and
   `StrategyPasses`, that a delivery intent which has ended stays so, that a quote answered fresh is served and not asked for.
3. The gate of `HostedRestore` over the writers of `HostedJobs` and `HostedDelivery` themselves instead of their summary.

## 8. Running

    tlc -workers 2 -config MCHostedRecords.cfg MCHostedRecords
    tlc -workers 2 -config MCHostedProcesses.cfg MCHostedProcesses
    tlc -workers 2 -config MCHostedWorkersLiveness.cfg MCHostedWorkers
    tlc -workers 2 -config MCHostedPaymentsPeriods.cfg MCHostedPayments
    tlc -workers 2 -config MCHostedOnce.cfg MCHostedOnce
    tlc -workers 2 -config MCHostedRaces.cfg MCHostedRaces
    tlc -workers 2 -config MCHostedWaiting.cfg MCHostedWaiting
    tlapm HostedJobs_proofs.tla
    tlapm HostedWorkers_proofs.tla
    tlapm HostedPayments_proofs.tla
    tlapm HostedMeter_proofs.tla
    tlapm HostedDelivery_proofs.tla
    tlapm HostedRestore_proofs.tla
    tlapm MarketRequests_proofs.tla
    tlapm StrategyPasses_proofs.tla

Each run takes under four minutes on two cores, the proofs of a module between one and four.
