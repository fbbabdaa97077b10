--------------------------- MODULE HostedPayments ---------------------------
(***************************************************************************)
(* Subscription orders, payment facts, refunds and the service periods     *)
(* they buy, as the platform's tools move them while a payment provider    *)
(* answers late, twice, out of order or not at all.                        *)
(* Source: packages/db/src/hosted/platform-payments.ts (every repository   *)
(* method is one store.transaction, so one step) and the tools of          *)
(* packages/tools/src/platform/payments.ts and admin.ts, whose awaits are  *)
(* the places where two calls interleave: each tool call is a sequence of  *)
(* steps of one caller, and may end at any of them when its process dies.  *)
(*                                                                         *)
(* The provider is the environment.  What it may do is what the port and   *)
(* its fixture (packages/adapters/src/hosted/payment.ts) let it do: place  *)
(* an order, be paid once or twice for it, close it, accept and settle     *)
(* refunds, refund on its own console.  A webhook it sent may be delivered *)
(* at any later time, any number of times, or never.                       *)
(*                                                                         *)
(* Money is counted in units, every order costing Price; a service period  *)
(* is an interval of the clock now.  Left out: provider references and     *)
(* digests (one per order, refund or fact, and compared by the code only   *)
(* to reject a provider that contradicts itself), events of orders the     *)
(* table does not have, the disposition written on a stored event, and the *)
(* 60 s between two polls, which only disables them.                       *)
(***************************************************************************)
EXTENDS Naturals, FiniteSetsExt

CONSTANTS
  Orders,          \* order ids; a request id names one order
  OperatorOrders,  \* those an operator records for money collected elsewhere
  Txns,            \* transactions the provider may report
  OrderOf,         \* the order a transaction pays
  References,      \* the references operators write on collected payments
  Refunds,         \* refund ids; a refund request id names one refund
  Tenants,
  PayerOf,         \* the tenant an order belongs to
  Price,           \* what an order costs
  Months,          \* the length of the period an order buys
  TrialEnd,        \* the end of the trial a tenant began with; 0 for none
  Callers,         \* concurrent tool calls
  Workers,         \* those of the worker's reconciliation pass
  OrderIdempotent, \* the port's orderIdempotency = 'supported'
  ClosesOrders,    \* whether the provider ever closes an unpaid order
  Cumulative,      \* whether its queries report payments with what was refunded
                   \* of them by now, or its latest fact of each payment
  Consoled,        \* transactions that are refunded at the provider's console
  MaxNow           \* bound of the model: the clock stops here

Nobody == "nobody"     \* no order, payment or refund
Console == "console"   \* a refund made at the provider
ProviderOrders == Orders \ OperatorOrders
Payments == Txns \cup References

ASSUME PaymentsAssumption ==
  /\ IsFiniteSet(Orders) /\ OperatorOrders \subseteq Orders
  /\ IsFiniteSet(Refunds) /\ IsFiniteSet(Payments)
  /\ Txns \cap References = {}
  /\ Nobody \notin Orders \cup Payments \cup Refunds /\ Console \notin Refunds
  /\ OrderOf \in [Txns -> ProviderOrders]
  /\ PayerOf \in [Orders -> Tenants]
  /\ Price \in Nat
  /\ Months \in [Orders -> Nat \ {0}]
  /\ TrialEnd \in [Tenants -> Nat]
  /\ Workers \subseteq Callers
  /\ {OrderIdempotent, ClosesOrders, Cumulative} \subseteq BOOLEAN
  /\ Consoled \subseteq Txns
  /\ MaxNow \in Nat

VARIABLES
  order,       \* the orders table
  fact,        \* the payment attempts table: what is known of each payment
  refund,      \* the refunds table
  period,      \* the periods bought, by the order they come from
  events,      \* provider events already consumed
  queued,      \* orders whose period a pending, never attempted job counts on
  serving,     \* tenants that are active and whose owner is
  now,         \* the clock
  expired,     \* orders past the time their payment request is good for
  placements,  \* how many orders the provider opened for each order
  latest,      \* the provider's latest word on each transaction
  closed,      \* orders the provider has closed
  accepted,    \* refund requests at the provider
  told,        \* facts the provider has sent webhooks of
  call         \* the tool call each caller is in

ledgerVars == <<order, fact, refund, period, events, queued>>
providerVars == <<placements, latest, closed, accepted, told>>
clockVars == <<serving, now, expired>>
paymentsVars == <<ledgerVars, providerVars, clockVars, call>>

OrderStates == {"none", "created", "pending", "paid", "closed"}
RefundStates ==
  {"none", "reserved", "submitted", "processing", "unknown", "succeeded", "failed"}
FactKinds == {"paid", "closed", "refund-succeeded", "refund-failed"}
PCs == {"idle", "submit", "placed", "ask", "seen", "apply",
        "refund", "refundSent", "askRefund", "refundSeen", "collect"}

NoOrder == [state |-> "none", request |-> "not-requested",
            reconciliation |-> "none", refunded |-> 0]
OrderRecord == [state: OrderStates, request: {"not-requested", "accepted", "unknown"},
                reconciliation: {"none", "needs-review", "refund-required"},
                refunded: 0 .. Price]

NoFact == [order |-> Nobody, refunded |-> 0]
FactRecord == {NoFact} \cup [order: Orders, refunded: 0 .. Price]

NoRefund == [state |-> "none", payment |-> Nobody, amount |-> 0, action |-> "retain"]
RefundRecord ==
  {NoRefund} \cup [state: RefundStates \ {"none"}, payment: Payments,
                   amount: 1 .. Price, action: {"revoke", "retain"}]

NoPeriod == [status |-> "none", startsAt |-> 0, endsAt |-> 0]
PeriodRecord == [status: {"none", "paid", "revoked"}, startsAt: Nat, endsAt: Nat]

\* A verified fact of the provider.
VerifiedFact == [kind: FactKinds, order: Orders, payment: Payments \cup {Nobody},
                 refunded: 0 .. Price, refund: Refunds \cup {Console, Nobody}]
PaidFact(o, x, n) == [kind |-> "paid", order |-> o, payment |-> x,
                      refunded |-> n, refund |-> Nobody]
ClosedFact(o) == [kind |-> "closed", order |-> o, payment |-> Nobody,
                  refunded |-> 0, refund |-> Nobody]
RefundFact(kind, x, n, r) == [kind |-> kind, order |-> OrderOf[x], payment |-> x,
                              refunded |-> n, refund |-> r]

\* The identity of an event: a webhook and a query about the same fact differ.
Event(f, via) == [fact |-> f, via |-> via]

NoCall == [pc |-> "idle", order |-> Nobody, refund |-> Nobody, answer |-> "none",
           facts |-> {}, resubmits |-> FALSE]
Answers == {"none", "accepted", "pending", "submitted", "processing", "unknown", "failed"}
CallRecord == [pc: PCs, order: Orders \cup {Nobody}, refund: Refunds \cup {Nobody},
               answer: Answers, facts: SUBSET VerifiedFact, resubmits: BOOLEAN]

PaymentsTypeOK ==
  /\ order \in [Orders -> OrderRecord]
  /\ fact \in [Payments -> FactRecord]
  /\ refund \in [Refunds -> RefundRecord]
  /\ period \in [Orders -> PeriodRecord]
  /\ \A e \in events : e.fact \in VerifiedFact /\ e.via \in {"webhook", "query", "operator"}
  /\ queued \subseteq Orders /\ serving \subseteq Tenants /\ expired \subseteq Orders
  /\ now \in 0 .. MaxNow
  /\ placements \in [Orders -> Nat] /\ closed \subseteq Orders
  /\ latest \in [Txns -> VerifiedFact \cup {NoFact}]
  /\ accepted \in [Refunds -> {"none", "processing", "succeeded", "failed"}]
  /\ told \subseteq VerifiedFact
  /\ call \in [Callers -> CallRecord]

PaymentsInit ==
  /\ order = [o \in Orders |-> NoOrder]
  /\ fact = [x \in Payments |-> NoFact]
  /\ refund = [r \in Refunds |-> NoRefund]
  /\ period = [o \in Orders |-> NoPeriod]
  /\ events = {} /\ queued = {}
  /\ serving = Tenants /\ now = 0 /\ expired = {}
  /\ placements = [o \in Orders |-> 0]
  /\ latest = [x \in Txns |-> NoFact]
  /\ closed = {} /\ told = {}
  /\ accepted = [r \in Refunds |-> "none"]
  /\ call = [c \in Callers |-> NoCall]

-----------------------------------------------------------------------------
(* Refund arithmetic.                                                      *)

\* The sum of the amounts of the refunds S, as the number of their units.
Amount(rs, S) == Cardinality(UNION {{r} \X (1 .. rs[r].amount) : r \in S})
SucceededOf(rs, x) == {r \in Refunds : rs[r].payment = x /\ rs[r].state = "succeeded"}
Unsettled(r) == refund[r].state \notin {"none", "succeeded", "failed"}
UnsettledOf(x) == {r \in Refunds : refund[r].payment = x /\ Unsettled(r)}

\* refundOccupation
Occupation(x) ==
  Max({Amount(refund, SucceededOf(refund, x)), fact[x].refunded})
    + Amount(refund, UnsettledOf(x))

-----------------------------------------------------------------------------
(* applyVerifiedPaymentEvent.                                              *)

KnownRefund(f) == f.refund \in Refunds /\ refund[f.refund].state # "none"

RefundAfter(f) ==
  IF KnownRefund(f) /\ refund[f.refund].state # "succeeded"
  THEN [refund EXCEPT ![f.refund].state =
          IF f.kind = "refund-succeeded" THEN "succeeded" ELSE "failed"]
  ELSE refund

\* Mutant: the last fact heard of overwrites what was known.
ConfirmedLast(f) == f.refunded

\* The cumulative refund of the payment once f is known.
ConfirmedAfter(f) ==
  Max({fact[f.payment].refunded, f.refunded}
      \cup IF KnownRefund(f) /\ f.kind = "refund-succeeded"
           THEN {Amount(refund, SucceededOf(RefundAfter(f), f.payment))} ELSE {})

BelongsNowhereElse(f) == FALSE   \* Mutant: a transaction may pay a second order.

BelongsElsewhere(f) ==
  fact[f.payment] # NoFact /\ fact[f.payment].order # f.order

\* The transaction is rolled back: nothing changes.
Rejected(f) ==
  /\ f.kind # "closed"
  /\ \/ BelongsElsewhere(f)
     \/ KnownRefund(f) /\ refund[f.refund].payment # f.payment
     \/ ConfirmedAfter(f) > Price

\* Mutant: a refund that fails withdraws service too.
WithdrawsAnyway(f) ==
  \/ Price > 0 /\ ConfirmedAfter(f) = Price
  \/ KnownRefund(f) /\ refund[f.refund].action = "revoke"

Withdraws(f) ==
  \/ Price > 0 /\ ConfirmedAfter(f) = Price
  \/ KnownRefund(f) /\ f.kind = "refund-succeeded" /\ refund[f.refund].action = "revoke"

\* A payment that cannot buy service: for a tenant out of service, or for an
\* order that another payment pays.
Unwelcome(f) ==
  \/ PayerOf[f.order] \notin serving
  \/ \E y \in Payments \ {f.payment} : fact[y].order = f.order

RefundedAfter(f) == Max({order[f.order].refunded, ConfirmedAfter(f)})

Buys(f) == f.kind = "paid" /\ period[f.order] = NoPeriod

\* Mutant: what was refunded before the payment is heard of is not looked at.
GrantsRefunded(f, authoritative) ==
  /\ Buys(f) /\ ~Unwelcome(f)
  /\ order[f.order].reconciliation = "none" \/ authoritative
  /\ order[f.order].state = "closed" => authoritative

\* authoritative is allowClosedOrderGrant: the fact answers a query.
Grants(f, authoritative) ==
  /\ Buys(f) /\ ~Unwelcome(f)
  /\ RefundedAfter(f) = 0
  /\ \/ order[f.order].reconciliation = "none"
     \/ order[f.order].reconciliation = "needs-review" /\ authoritative
  /\ order[f.order].state = "closed" => authoritative

ReconciliationAfter(f, authoritative) ==
  LET current == order[f.order].reconciliation IN
  IF Unwelcome(f) THEN "refund-required"
  ELSE IF Grants(f, authoritative) THEN "none"
  ELSE IF Buys(f) /\ current = "refund-required" THEN current
  ELSE IF Buys(f) \/ (f.refund # Nobody /\ ~KnownRefund(f)) THEN "needs-review"
  ELSE current

\* The ends of the trial and paid periods a new period has to follow.
EndsAhead(t) ==
  {e \in {TrialEnd[t]} \cup
         {period[p].endsAt : p \in {q \in Orders : PayerOf[q] = t
                                                  /\ period[q].status = "paid"}} : e > now}

\* Mutant: every period starts when it is paid.
PlacedNow(o) == [status |-> "paid", startsAt |-> now, endsAt |-> now + Months[o]]

PlacedPeriod(o) ==
  LET startsAt == IF EndsAhead(PayerOf[o]) = {} THEN now ELSE Max(EndsAhead(PayerOf[o])) IN
  [status |-> "paid", startsAt |-> startsAt, endsAt |-> startsAt + Months[o]]

\* Mutant: the callback is missing.
RevokeQuietly(o) ==
  IF period[o].status = "paid"
  THEN period' = [period EXCEPT ![o].status = "revoked"] /\ UNCHANGED queued
  ELSE UNCHANGED <<period, queued>>

\* revokePeriod; its callback cancels the pending jobs reserved in the period,
\* as RevokePeriod of HostedJobs does in the jobs table.
RevokePeriod(o) ==
  IF period[o].status = "paid"
  THEN /\ period' = [period EXCEPT ![o].status = "revoked"]
       /\ queued' = queued \ {o}
  ELSE UNCHANGED <<period, queued>>

ApplyFinancial(f, authoritative) ==
  LET o == f.order IN
  /\ refund' = RefundAfter(f)
  /\ fact' = [fact EXCEPT ![f.payment] = [order |-> o, refunded |-> ConfirmedAfter(f)]]
  /\ order' = [order EXCEPT ![o].state = "paid",
                            ![o].refunded = RefundedAfter(f),
                            ![o].reconciliation = ReconciliationAfter(f, authoritative)]
  /\ IF Grants(f, authoritative)
     THEN period' = [period EXCEPT ![o] = PlacedPeriod(o)] /\ UNCHANGED queued
     ELSE IF Withdraws(f) THEN RevokePeriod(o)
     ELSE UNCHANGED <<period, queued>>

\* Mutant: the last event wins over a payment.
CloseAnyway(f) ==
  /\ order' = [order EXCEPT ![f.order].state = "closed"]
  /\ UNCHANGED <<fact, refund, period, queued>>

ApplyClosed(f) ==
  /\ order' = IF order[f.order].state = "paid" THEN order
              ELSE [order EXCEPT ![f.order].state = "closed"]
  /\ UNCHANGED <<fact, refund, period, queued>>

\* A replayed event and a rejected one change nothing.
Apply(f, via, authoritative) ==
  IF Event(f, via) \in events \/ Rejected(f) THEN UNCHANGED ledgerVars
  ELSE /\ events' = events \cup {Event(f, via)}
       /\ IF f.kind = "closed" THEN ApplyClosed(f) ELSE ApplyFinancial(f, authoritative)

-----------------------------------------------------------------------------
(* The other repository methods.                                           *)

Open(o) == order[o].state \in {"created", "pending"}

\* markOrderRequestOutcome; an accepted request never turns unknown again.
MarkOrder(o, outcome) ==
  IF order[o].request = "accepted" /\ outcome # "accepted" THEN UNCHANGED order
  ELSE order' = [order EXCEPT ![o].request = outcome,
                              ![o].state = IF @ = "created" THEN "pending" ELSE @]

\* updateRefundOutcome; refused for a settled refund, and for resubmitting an
\* unknown one.
UpdateRefund(r, outcome) ==
  IF ~Unsettled(r) \/ (refund[r].state = "unknown" /\ outcome = "submitted")
  THEN UNCHANGED refund
  ELSE refund' = [refund EXCEPT ![r].state = outcome]

-----------------------------------------------------------------------------
(* Tool calls.                                                             *)

At(c, pc) == call[c].pc = pc
Enter(c, pc, o, r) ==
  call' = [call EXCEPT ![c] = [NoCall EXCEPT !.pc = pc, !.order = o, !.refund = r]]
Proceed(c, pc, answer) ==
  call' = [call EXCEPT ![c].pc = pc, ![c].answer = answer]
Return(c) == call' = [call EXCEPT ![c] = NoCall]

\* The tool call dies with its process or fails on an error of no effect.
Abandon(c) == ~At(c, "idle") /\ Return(c) /\ UNCHANGED <<ledgerVars, providerVars, clockVars>>

\* create_hosted_subscription_order, a new request
CreateOrder(c, o) ==
  /\ At(c, "idle") /\ order[o] = NoOrder
  /\ PayerOf[o] \in serving
  /\ order' = [order EXCEPT ![o].state = "created"]
  /\ Enter(c, "submit", o, Nobody)
  /\ UNCHANGED <<fact, refund, period, events, queued, providerVars, clockVars>>

\* The same request again: the original order is looked up at the provider.
ResubmitsUnexpired(o) == o \notin expired   \* Mutant: idempotency is not asked for.

MayResubmit(o) == OrderIdempotent /\ o \notin expired

ReplayOrder(c, o) ==
  /\ At(c, "idle") /\ Open(o)
  /\ call' = [call EXCEPT ![c] = [NoCall EXCEPT !.pc = "ask", !.order = o,
                                                !.resubmits = MayResubmit(o)]]
  /\ UNCHANGED <<ledgerVars, providerVars, clockVars>>

\* query_hosted_subscription_order
QueryOrder(c, o) ==
  /\ At(c, "idle") /\ order[o] # NoOrder
  /\ Enter(c, "ask", o, Nobody)
  /\ UNCHANGED <<ledgerVars, providerVars, clockVars>>

\* An order on the reconciliation list, claimed and reconciled by the worker.
\* Mutant: an order whose request was never recorded is not listed.
ListedPending(o) == order[o].state = "pending" \/ order[o].reconciliation # "none"

ListedOrder(o) == Open(o) \/ order[o].reconciliation # "none"

ReconcileOrder(c, o) == ListedOrder(o) /\ QueryOrder(c, o)

\* submitOrder: the request may be lost, and so may its answer.
SubmitOrder(c) ==
  LET o == call[c].order
      reached == placements' = [placements EXCEPT ![o] =
                   IF OrderIdempotent THEN 1 ELSE @ + 1] IN
  /\ At(c, "submit")
  /\ \/ o \notin expired /\ reached /\ Proceed(c, "placed", "accepted")
     \/ o \notin expired /\ reached /\ Proceed(c, "placed", "unknown")
     \/ UNCHANGED placements /\ Proceed(c, "placed", "unknown")
     \/ o \in expired /\ UNCHANGED placements /\ Return(c)
  /\ UNCHANGED <<ledgerVars, latest, closed, accepted, told, clockVars>>

\* When the outcome cannot be stored, unknown is tried in its place.
RecordPlacement(c) ==
  /\ At(c, "placed")
  /\ \E outcome \in {call[c].answer, "unknown"} : MarkOrder(call[c].order, outcome)
  /\ Return(c)
  /\ UNCHANGED <<fact, refund, period, events, queued, providerVars, clockVars>>

\* What a query of order o answers of each payment.
PaymentsOf(o) == {x \in Txns : OrderOf[x] = o /\ latest[x] # NoFact}
Reported(x) == IF Cumulative THEN PaidFact(OrderOf[x], x, latest[x].refunded) ELSE latest[x]

Learn(c, facts) == call' = [call EXCEPT ![c].pc = "apply", ![c].facts = facts]

\* observeOrder: the provider's answer
OrderAnswered(c) ==
  LET o == call[c].order IN
  /\ At(c, "ask")
  /\ \/ /\ PaymentsOf(o) # {}
        /\ Learn(c, {Reported(x) : x \in PaymentsOf(o)})
     \/ /\ PaymentsOf(o) = {} /\ o \in closed
        /\ Learn(c, {ClosedFact(o)})
     \/ /\ PaymentsOf(o) = {} /\ o \notin closed /\ placements[o] > 0
        /\ Proceed(c, "seen", "pending")
     \/ /\ PaymentsOf(o) = {} /\ o \notin closed /\ placements[o] = 0
        /\ IF call[c].resubmits THEN Proceed(c, "submit", "none") ELSE Return(c)
  /\ UNCHANGED <<ledgerVars, providerVars, clockVars>>

RecordPending(c) ==
  /\ At(c, "seen")
  /\ MarkOrder(call[c].order, "accepted")
  /\ Return(c)
  /\ UNCHANGED <<fact, refund, period, events, queued, providerVars, clockVars>>

\* The facts of an answer are applied one transaction at a time; the first one
\* rejected ends the call.
ApplyAnswer(c) ==
  /\ At(c, "apply")
  /\ \E f \in call[c].facts :
       /\ Apply(f, "query", TRUE)
       /\ IF Rejected(f) \/ call[c].facts = {f} THEN Return(c)
          ELSE call' = [call EXCEPT ![c].facts = @ \ {f}]
  /\ UNCHANGED <<providerVars, clockVars>>

\* apply_hosted_payment_webhook
Webhook(f) ==
  /\ f \in told
  /\ Apply(f, "webhook", FALSE)
  /\ UNCHANGED <<providerVars, clockVars, call>>

\* request_hosted_refund: reserveRefund of n units of payment x
RequestRefund(c, r, x, n, action) ==
  /\ At(c, "idle") /\ refund[r] = NoRefund
  /\ fact[x] # NoFact
  /\ n > 0 /\ Occupation(x) + n <= Price
  /\ refund' = [refund EXCEPT ![r] = [state |-> "reserved", payment |-> x,
                                      amount |-> n, action |-> action]]
  /\ Enter(c, "refund", fact[x].order, r)
  /\ UNCHANGED <<order, fact, period, events, queued, providerVars, clockVars>>

\* What the provider still owes to requests it has accepted, payment by payment.
Processing(x) == {r \in Refunds : refund[r].payment = x /\ accepted[r] = "processing"}
Refundable(x, n) == latest[x].refunded + Amount(refund, Processing(x)) + n <= Price

SubmitRefund(c) ==
  LET r == call[c].refund
      taken == accepted' = [accepted EXCEPT ![r] = "processing"]
      grantable == Refundable(refund[r].payment, refund[r].amount) IN
  /\ At(c, "refund")
  /\ \/ grantable /\ taken /\ \E answer \in {"submitted", "processing", "unknown"} :
                                Proceed(c, "refundSent", answer)
     \/ ~grantable /\ UNCHANGED accepted /\ Proceed(c, "refundSent", "failed")
     \/ UNCHANGED accepted /\ Proceed(c, "refundSent", "unknown")
  /\ UNCHANGED <<ledgerVars, placements, latest, closed, told, clockVars>>

RecordRefund(c) ==
  /\ At(c, "refundSent")
  /\ \E outcome \in {call[c].answer, "unknown"} : UpdateRefund(call[c].refund, outcome)
  /\ Return(c)
  /\ UNCHANGED <<order, fact, period, events, queued, providerVars, clockVars>>

\* Mutant: a refund whose request was never recorded is not looked up.
AskSubmittedRefund(c, r) ==
  /\ At(c, "idle") /\ Unsettled(r) /\ refund[r].state # "reserved"
  /\ Enter(c, "askRefund", fact[refund[r].payment].order, r)
  /\ UNCHANGED <<ledgerVars, providerVars, clockVars>>

\* observeRefund, from a replayed request, a query or the worker's list; a
\* settled refund is answered from the table.
AskRefund(c, r) ==
  /\ At(c, "idle") /\ Unsettled(r)
  /\ Enter(c, "askRefund", fact[refund[r].payment].order, r)
  /\ UNCHANGED <<ledgerVars, providerVars, clockVars>>

RefundSettledAt(r) == {f \in told : f.refund = r}

RefundAnswered(c) ==
  LET r == call[c].refund IN
  /\ At(c, "askRefund")
  /\ \/ accepted[r] = "none" /\ Proceed(c, "refundSeen", "failed")
     \/ accepted[r] = "processing" /\ Proceed(c, "refundSeen", "processing")
     \/ accepted[r] \in {"succeeded", "failed"} /\ Learn(c, RefundSettledAt(r))
  /\ UNCHANGED <<ledgerVars, providerVars, clockVars>>

\* The provider does not know, for now.
RefundUnclear(c) ==
  /\ At(c, "askRefund") /\ Proceed(c, "refundSeen", "unknown")
  /\ UNCHANGED <<ledgerVars, providerVars, clockVars>>

RecordRefundSeen(c) ==
  /\ At(c, "refundSeen")
  /\ UpdateRefund(call[c].refund, call[c].answer)
  /\ Return(c)
  /\ UNCHANGED <<order, fact, period, events, queued, providerVars, clockVars>>

RecordRefundKnown(c) == call[c].answer # "unknown" /\ RecordRefundSeen(c)

\* record_hosted_operator_payment: the order, then its payment, in two
\* transactions; a replay answers with the order and applies nothing.  (The tool
\* asks for the tenant only; an owner out of service stops it one step later.)
RecordOperatorOrder(c, o, x) ==
  /\ At(c, "idle") /\ order[o] = NoOrder
  /\ PayerOf[o] \in serving
  /\ order' = [order EXCEPT ![o].state = "created"]
  /\ call' = [call EXCEPT ![c] = [NoCall EXCEPT !.pc = "collect", !.order = o,
                                                !.facts = {PaidFact(o, x, 0)}]]
  /\ UNCHANGED <<fact, refund, period, events, queued, providerVars, clockVars>>

Collect(c) ==
  /\ At(c, "collect")
  /\ \E f \in call[c].facts : Apply(f, "operator", FALSE)
  /\ Return(c)
  /\ UNCHANGED <<providerVars, clockVars>>

-----------------------------------------------------------------------------
(* The provider.                                                           *)

Tell(f) == told' = told \cup {f}

ProviderPaid(x) ==
  LET f == PaidFact(OrderOf[x], x, 0) IN
  /\ placements[OrderOf[x]] > 0 /\ latest[x] = NoFact
  /\ latest' = [latest EXCEPT ![x] = f] /\ Tell(f)
  /\ UNCHANGED <<ledgerVars, clockVars, call, placements, closed, accepted>>

ProviderCloses(o) ==
  /\ ClosesOrders /\ placements[o] > 0 /\ PaymentsOf(o) = {} /\ o \notin closed
  /\ closed' = closed \cup {o} /\ Tell(ClosedFact(o))
  /\ UNCHANGED <<ledgerVars, clockVars, call, placements, latest, accepted>>

\* A refund the provider accepted succeeds or fails.
ProviderSettles(r) ==
  LET x == refund[r].payment IN
  /\ accepted[r] = "processing"
  /\ \E succeeds \in BOOLEAN :
       LET n == latest[x].refunded + IF succeeds THEN refund[r].amount ELSE 0
           f == RefundFact(IF succeeds THEN "refund-succeeded" ELSE "refund-failed",
                           x, n, r) IN
       /\ accepted' = [accepted EXCEPT ![r] = IF succeeds THEN "succeeded" ELSE "failed"]
       /\ latest' = [latest EXCEPT ![x] = f] /\ Tell(f)
  /\ UNCHANGED <<ledgerVars, clockVars, call, placements, closed>>

\* A refund the platform did not ask for, once for each payment.
ConsoleRefund(x, n) ==
  LET f == RefundFact("refund-succeeded", x, latest[x].refunded + n, Console) IN
  /\ x \in Consoled /\ latest[x] # NoFact /\ n > 0 /\ Refundable(x, n)
  /\ \A g \in told : g.payment = x => g.refund # Console
  /\ latest' = [latest EXCEPT ![x] = f] /\ Tell(f)
  /\ UNCHANGED <<ledgerVars, clockVars, call, placements, closed, accepted>>

-----------------------------------------------------------------------------
(* Tenants, jobs and time.                                                 *)

TenantStops(t) ==
  /\ serving' = serving \ {t}
  /\ UNCHANGED <<ledgerVars, providerVars, call, now, expired>>
TenantResumes(t) ==
  /\ serving' = serving \cup {t}
  /\ UNCHANGED <<ledgerVars, providerVars, call, now, expired>>

\* PrepareReservedJob and ClaimJob of HostedJobs, seen from the period.
JobQueued(o) ==
  /\ period[o].status = "paid" /\ period[o].startsAt <= now /\ now < period[o].endsAt
  /\ PayerOf[o] \in serving
  /\ queued' = queued \cup {o}
  /\ UNCHANGED <<order, fact, refund, period, events, providerVars, clockVars, call>>
JobAttempted(o) ==
  /\ queued' = queued \ {o}
  /\ UNCHANGED <<order, fact, refund, period, events, providerVars, clockVars, call>>

OrderExpires(o) ==
  /\ order[o] # NoOrder
  /\ expired' = expired \cup {o}
  /\ UNCHANGED <<ledgerVars, providerVars, call, now, serving>>

Tick ==
  /\ now < MaxNow /\ now' = now + 1
  /\ UNCHANGED <<ledgerVars, providerVars, call, expired, serving>>

-----------------------------------------------------------------------------
UserCall(c) ==
  \/ \E o \in ProviderOrders : CreateOrder(c, o) \/ ReplayOrder(c, o) \/ QueryOrder(c, o)
  \/ \E o \in OperatorOrders, x \in References : RecordOperatorOrder(c, o, x)
  \/ \E r \in Refunds, x \in Txns, n \in 1 .. Price, action \in {"revoke", "retain"} :
       RequestRefund(c, r, x, n, action)
  \/ \E r \in Refunds : AskRefund(c, r)

WorkerCall(c) ==
  \/ \E o \in ProviderOrders : ReconcileOrder(c, o)
  \/ \E r \in Refunds : AskRefund(c, r)

CallStep(c) ==
  \/ SubmitOrder(c) \/ RecordPlacement(c)
  \/ OrderAnswered(c) \/ RecordPending(c) \/ ApplyAnswer(c)
  \/ SubmitRefund(c) \/ RecordRefund(c)
  \/ RefundAnswered(c) \/ RefundUnclear(c) \/ RecordRefundSeen(c)
  \/ Collect(c) \/ Abandon(c)

ProviderStep ==
  \/ \E x \in Txns : ProviderPaid(x) \/ \E n \in 1 .. Price : ConsoleRefund(x, n)
  \/ \E o \in ProviderOrders : ProviderCloses(o)
  \/ \E r \in Refunds : ProviderSettles(r)

ContextStep ==
  \/ \E t \in Tenants : TenantStops(t) \/ TenantResumes(t)
  \/ \E o \in Orders : JobQueued(o) \/ JobAttempted(o) \/ OrderExpires(o)
  \/ Tick

PaymentsNext ==
  \/ \E c \in Callers \ Workers : UserCall(c)
  \/ \E c \in Workers : WorkerCall(c)
  \/ \E c \in Callers : CallStep(c)
  \/ \E f \in told : Webhook(f)
  \/ ProviderStep
  \/ ContextStep

PaymentsSpec == PaymentsInit /\ [][PaymentsNext]_paymentsVars

(* Fairness.  The worker's pass lists what is due, oldest first, and a claim *)
(* moves an item to the end of the list, so every order and refund that      *)
(* stays listed is taken up again and again although the worker is often     *)
(* busy with another (strong fairness of taking it up).  Every call ends, if *)
(* only with its process (weak fairness of its steps); a provider that often *)
(* fails to answer, and a process that often dies, still let each step of    *)
(* the worker be done now and then (strong fairness of the step).  Nothing   *)
(* is assumed of webhooks, users and operators.                              *)
WorkerFairness ==
  \A c \in Workers :
    /\ WF_paymentsVars(CallStep(c))
    /\ \A o \in ProviderOrders : SF_paymentsVars(ReconcileOrder(c, o))
    /\ \A r \in Refunds : SF_paymentsVars(AskRefund(c, r))
    /\ SF_paymentsVars(OrderAnswered(c))
    /\ SF_paymentsVars(RecordPending(c))
    /\ SF_paymentsVars(ApplyAnswer(c))
    /\ SF_paymentsVars(RefundAnswered(c))
    /\ SF_paymentsVars(RecordRefundKnown(c))

ProviderFairness == \A r \in Refunds : WF_paymentsVars(ProviderSettles(r))

FairPayments == PaymentsSpec /\ WorkerFairness /\ ProviderFairness

-----------------------------------------------------------------------------
(* Properties.                                                             *)

\* Service that was paid back is not served: whatever the order in which
\* payments, refunds, late webhooks and stale query answers are applied, a
\* period stands only while no payment of its order is refunded in full and no
\* refund that asked for revocation has succeeded.
RefundedNeverServed ==
  \A o \in Orders : period[o].status = "paid" =>
    /\ \A x \in Payments : fact[x].order = o => fact[x].refunded = 0 \/ fact[x].refunded < Price
    /\ \A r \in Refunds : refund[r].state = "succeeded" /\ fact[refund[r].payment].order = o
                            => refund[r].action = "retain"

\* Service is paid for: behind every period stands a payment of its own order
\* that the provider really took, or a reference no other order was paid with.
ServiceIsPaidFor ==
  \A o \in Orders : period[o] # NoPeriod =>
    /\ order[o].state = "paid"
    /\ \E x \in Payments : fact[x].order = o
    /\ \A x \in Txns : fact[x].order = o => latest[x] # NoFact /\ OrderOf[x] = o

\* The ledger's account of a payment lies between its own succeeded refunds
\* and what the provider has paid back: no confirmed refund is forgotten, none
\* is invented, however late or stale the facts that are applied.
RefundLedgerHonest ==
  \A x \in Txns : fact[x] # NoFact =>
    /\ Amount(refund, SucceededOf(refund, x)) <= fact[x].refunded
    /\ fact[x].refunded <= latest[x].refunded
    /\ fact[x].refunded <= order[fact[x].order].refunded

\* The periods a tenant holds, its trial included, never overlap: each starts
\* where those before it end, whatever was revoked in between.
PeriodsDisjoint ==
  \A o, p \in Orders :
    /\ period[o].status = "paid" => period[o].startsAt >= TrialEnd[PayerOf[o]]
    /\ o # p /\ PayerOf[o] = PayerOf[p] /\ period[o].status = "paid" /\ period[p].status = "paid"
         => period[o].endsAt <= period[p].startsAt \/ period[p].endsAt <= period[o].startsAt

\* Concurrent, repeated and recovered requests open one order at the provider,
\* even one that would open a second.
OneProviderOrder == \A o \in Orders : placements[o] <= 1

\* No pending job is left reserved in a period that was withdrawn.
RevokedWorkStops == \A o \in queued : period[o].status = "paid"

\* What is settled stays settled: a paid order is never unpaid by a late close,
\* refunded amounts never shrink, a payment never moves to another order, a
\* succeeded refund and a revoked period are final, and a period keeps its place.
PaymentsAreFinal ==
  [][/\ \A o \in Orders :
          /\ order[o].state = "paid" => order'[o].state = "paid"
          /\ order[o].refunded <= order'[o].refunded
          /\ period[o].status = "revoked" => period'[o] = period[o]
          /\ period[o].status = "paid" =>
               period'[o] \in {period[o], [period[o] EXCEPT !.status = "revoked"]}
     /\ \A x \in Payments : fact[x] # NoFact =>
          /\ fact'[x].order = fact[x].order
          /\ fact[x].refunded <= fact'[x].refunded
     /\ \A r \in Refunds :
          refund[r].state = "succeeded" => refund'[r].state = "succeeded"]_paymentsVars

\* The purchase of each order, as Purchase.tla promises it.
Bought == INSTANCE Purchase WITH
  money <- [o \in Orders |-> IF order[o].state = "paid" THEN "received" ELSE "due"],
  service <- [o \in Orders |-> CASE period[o].status = "paid" -> "given"
                                 [] period[o].status = "revoked" -> "withdrawn"
                                 [] OTHER -> "none"],
  returned <- [o \in Orders |-> order[o].refunded]

\* Orders, facts, refunds and periods implement the purchase.
ImplementsPurchase == Bought!PurchaseSpec

\* A webhook that is lost is made up for by the worker's queries.
LostWebhooksRecovered ==
  \A x \in Txns : latest[x] # NoFact ~> order[OrderOf[x]].state = "paid"

\* Every reserved refund ends, though its request, its answer or its webhook
\* was lost or the process died before sending it.
RefundsSettle == \A r \in Refunds : Unsettled(r) ~> refund[r].state \in {"succeeded", "failed"}

\* docs/ddd/hosted-personal-subscription-detailed-design.md:409: only a confirmed failure
\* or a request certainly not accepted releases the amount a refund occupies.
ReleasedOnlyIfRefused ==
  \A r \in Refunds : refund[r].state = "failed" => accepted[r] \in {"none", "failed"}

=============================================================================
