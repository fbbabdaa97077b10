----------------------- MODULE HostedPayments_proofs -----------------------
(* Theorems about HostedPayments, for every value of its constants, with    *)
(* their proofs.                                                            *)
EXTENDS HostedPayments, WellFoundedInduction, FiniteSetTheorems, TLAPS

-----------------------------------------------------------------------------
(* Greatest numbers.                                                        *)

\* A bounded set of numbers that is not empty has a maximum, which Max is.
LEMMA MaxOfBounded ==
  ASSUME NEW S, S \subseteq Nat, S # {}, NEW b \in Nat, \A x \in S : x <= b
  PROVE  Max(S) \in S /\ \A x \in S : x <= Max(S)
<1>. DEFINE Gaps == {b - x : x \in S}
<1>1. \A x \in S : x \in Nat /\ b - x \in Nat
  OBVIOUS
<1>2. Gaps \subseteq Nat /\ Gaps # {}
  BY <1>1
<1>3. PICK g \in Gaps : \A h \in Gaps : <<h, g>> \notin OpToRel(<, Nat)
  <2>. HIDE DEF Gaps
  <2>. QED BY <1>2, NatLessThanWellFounded, WFMin
<1>4. \A h \in Gaps : ~(h < g)
  <2>. SUFFICES ASSUME NEW h \in Gaps, h < g
                PROVE  FALSE
    OBVIOUS
  <2>1. <<h, g>> \in OpToRel(<, Nat)
    BY <1>2 DEF OpToRel
  <2>. QED BY <2>1, <1>3
<1>5. PICK x \in S : g = b - x
  OBVIOUS
<1>6. \A y \in S : x >= y
  <2>. SUFFICES ASSUME NEW y \in S
                PROVE  x >= y
    OBVIOUS
  <2>1. b - y \in Gaps
    OBVIOUS
  <2>2. ~(b - y < b - x)
    BY <2>1, <1>4, <1>5
  <2>3. x \in Nat /\ y \in Nat
    BY <1>1
  <2>. HIDE DEF Gaps
  <2>. QED BY <2>2, <2>3
<1>. QED BY <1>1, <1>6 DEF Max

-----------------------------------------------------------------------------
(* What a step can do to the periods and to the work queued on them.        *)

PeriodsTyped == period \in [Orders -> PeriodRecord]

\* No period moves, and work is queued on periods that stand.
Steady ==
  /\ period' = period
  /\ \A o \in queued' : o \in queued \/ (o \in Orders /\ period[o].status = "paid")

Granting(o) ==
  /\ period[o] = NoPeriod
  /\ period' = [period EXCEPT ![o] = PlacedPeriod(o)]
  /\ queued' = queued

Withdrawing(o) ==
  /\ period' = [period EXCEPT ![o].status = "revoked"]
  /\ queued' = queued \ {o}

ServiceMoves == Steady \/ \E o \in Orders : Granting(o) \/ Withdrawing(o)

\* Whatever fact is applied, at most the period of its order moves.
LEMMA ApplyMoves ==
  ASSUME PeriodsTyped, NEW f, NEW via, NEW authoritative,
         Apply(f, via, authoritative)
  PROVE  ServiceMoves
<1>1. CASE UNCHANGED <<period, queued>>
  BY <1>1 DEF ServiceMoves, Steady
<1>2. CASE RevokePeriod(f.order)
  <2>1. CASE f.order \in Orders
    BY <1>2, <2>1 DEF RevokePeriod, ServiceMoves, Steady, Withdrawing
  <2>2. CASE f.order \notin Orders
    <3>1. [period EXCEPT ![f.order].status = "revoked"] = period
      BY <2>2 DEF PeriodsTyped
    <3>. QED BY <1>2, <3>1 DEF RevokePeriod, ServiceMoves, Steady
  <2>. QED BY <2>1, <2>2
<1>3. CASE /\ Grants(f, authoritative)
           /\ period' = [period EXCEPT ![f.order] = PlacedPeriod(f.order)]
           /\ queued' = queued
  <2>1. CASE f.order \in Orders
    BY <1>3, <2>1 DEF Grants, Buys, ServiceMoves, Granting
  <2>2. CASE f.order \notin Orders
    <3>1. [period EXCEPT ![f.order] = PlacedPeriod(f.order)] = period
      BY <2>2 DEF PeriodsTyped
    <3>. QED BY <1>3, <3>1 DEF ServiceMoves, Steady
  <2>. QED BY <2>1, <2>2
<1>. QED BY <1>1, <1>2, <1>3 DEF Apply, ApplyClosed, ApplyFinancial, ledgerVars

\* So does a step of the specification, and the clock never goes back.
LEMMA StepMoves ==
  ASSUME PeriodsTyped, [PaymentsNext]_paymentsVars
  PROVE  /\ ServiceMoves
         /\ now' = now \/ (Tick /\ now' = now + 1)
<1>. USE DEF ledgerVars, clockVars
<1>1. CASE UNCHANGED paymentsVars
  BY <1>1 DEF paymentsVars, ServiceMoves, Steady
<1>2. CASE \E c \in Callers \ Workers : UserCall(c)
  <2>. PICK c \in Callers \ Workers : UserCall(c)
    BY <1>2
  <2>. QED
    BY DEF UserCall, CreateOrder, ReplayOrder, QueryOrder, RecordOperatorOrder,
           RequestRefund, AskRefund, ServiceMoves, Steady
<1>3. CASE \E c \in Workers : WorkerCall(c)
  <2>. PICK c \in Workers : WorkerCall(c)
    BY <1>3
  <2>. QED
    BY DEF WorkerCall, ReconcileOrder, QueryOrder, AskRefund, ServiceMoves, Steady
<1>4. CASE \E c \in Callers : CallStep(c)
  <2>. PICK c \in Callers : CallStep(c)
    BY <1>4
  <2>1. CASE ApplyAnswer(c)
    BY <2>1, ApplyMoves DEF ApplyAnswer
  <2>2. CASE Collect(c)
    BY <2>2, ApplyMoves DEF Collect
  <2>3. CASE SubmitOrder(c) \/ RecordPlacement(c) \/ OrderAnswered(c) \/ RecordPending(c)
    BY <2>3 DEF SubmitOrder, RecordPlacement, OrderAnswered, RecordPending,
                ServiceMoves, Steady
  <2>4. CASE SubmitRefund(c) \/ RecordRefund(c) \/ RefundAnswered(c) \/ RefundUnclear(c)
               \/ RecordRefundSeen(c) \/ Abandon(c)
    BY <2>4 DEF SubmitRefund, RecordRefund, RefundAnswered, RefundUnclear,
                RecordRefundSeen, Abandon, ServiceMoves, Steady
  <2>. QED BY <2>1, <2>2, <2>3, <2>4 DEF CallStep
<1>5. CASE \E f \in told : Webhook(f)
  BY <1>5, ApplyMoves DEF Webhook
<1>6. CASE ProviderStep
  BY <1>6 DEF ProviderStep, ProviderPaid, ConsoleRefund, ProviderCloses, ProviderSettles,
              ServiceMoves, Steady
<1>7. CASE ContextStep
  BY <1>7 DEF ContextStep, TenantStops, TenantResumes, JobQueued, JobAttempted,
              OrderExpires, Tick, ServiceMoves, Steady
<1>. QED BY <1>1, <1>2, <1>3, <1>4, <1>5, <1>6, <1>7 DEF PaymentsNext

-----------------------------------------------------------------------------
(* Periods never overlap.                                                   *)

\* Beside the types the invariant says that the periods end by some date:
\* without it the latest of them need not exist.
PlacementInv ==
  /\ now \in Nat
  /\ PeriodsTyped
  /\ \E b \in Nat : \A o \in Orders : period[o].endsAt <= b
  /\ PeriodsDisjoint

\* A new period starts after everything its tenant holds.
LEMMA PlacedLast ==
  ASSUME PlacementInv, NEW o \in Orders
  PROVE  /\ PlacedPeriod(o) \in PeriodRecord
         /\ PlacedPeriod(o).startsAt >= TrialEnd[PayerOf[o]]
         /\ \A p \in Orders : PayerOf[p] = PayerOf[o] /\ period[p].status = "paid"
                                => period[p].endsAt <= PlacedPeriod(o).startsAt
         /\ PlacedPeriod(o).endsAt = PlacedPeriod(o).startsAt + Months[o]
<1>. DEFINE t == PayerOf[o]
            ends == EndsAhead(t)
            start == IF ends = {} THEN now ELSE Max(ends)
<1>1. t \in Tenants /\ TrialEnd[t] \in Nat /\ Months[o] \in Nat
  BY PaymentsAssumption
<1>2. \A p \in Orders : period[p].endsAt \in Nat
  BY DEF PlacementInv, PeriodsTyped, PeriodRecord
<1>3. ends \subseteq Nat
  BY <1>1, <1>2 DEF EndsAhead
<1>4. PICK b \in Nat : \A p \in Orders : period[p].endsAt <= b
  BY DEF PlacementInv
<1>5. \A e \in ends : e <= b + TrialEnd[t]
  BY <1>1, <1>2, <1>4 DEF EndsAhead
<1>6. now \in Nat
  BY DEF PlacementInv
<1>7. start \in Nat /\ start >= now /\ \A e \in ends : e <= start
  <2>1. CASE ends = {}
    BY <2>1, <1>6
  <2>2. CASE ends # {}
    <3>1. Max(ends) \in ends /\ \A e \in ends : e <= Max(ends)
      <4>. HIDE DEF ends
      <4>1. b + TrialEnd[t] \in Nat
        BY <1>1
      <4>. QED BY <1>3, <1>5, <2>2, <4>1, MaxOfBounded
    <3>2. \A e \in ends : e > now
      BY DEF EndsAhead
    <3>. QED BY <3>1, <3>2, <2>2, <1>3, <1>6
  <2>. QED BY <2>1, <2>2
<1>8. PlacedPeriod(o) = [status |-> "paid", startsAt |-> start, endsAt |-> start + Months[o]]
  BY DEF PlacedPeriod
<1>9. TrialEnd[t] <= start
  <2>1. TrialEnd[t] > now => TrialEnd[t] \in ends
    BY DEF EndsAhead
  <2>. QED BY <2>1, <1>1, <1>6, <1>7
<1>10. ASSUME NEW p \in Orders, PayerOf[p] = t, period[p].status = "paid"
       PROVE  period[p].endsAt <= start
  <2>1. period[p].endsAt > now => period[p].endsAt \in ends
    BY <1>10 DEF EndsAhead
  <2>. QED BY <2>1, <1>2, <1>6, <1>7
<1>. HIDE DEF start
<1>. QED BY <1>1, <1>7, <1>8, <1>9, <1>10 DEF PeriodRecord

\* A step keeps the periods typed, bounded and apart: the one it places comes last,
\* the one it withdraws leaves the others where they are.
LEMMA StepKeepsPlacement ==
  ASSUME PlacementInv, [PaymentsNext]_paymentsVars
  PROVE  PlacementInv'
<1>1. PeriodsTyped
  BY DEF PlacementInv
<1>2. now' \in Nat
  BY <1>1, StepMoves DEF PlacementInv
<1>3. CASE period' = period
  BY <1>2, <1>3 DEF PlacementInv, PeriodsTyped, PeriodsDisjoint
<1>4. CASE \E o \in Orders : Granting(o)
  <2>. PICK o \in Orders : Granting(o)
    BY <1>4
  <2>1. period' = [period EXCEPT ![o] = PlacedPeriod(o)]
    BY DEF Granting
  <2>2. PeriodsTyped'
    BY <1>1, <2>1, PlacedLast DEF PeriodsTyped
  <2>3. \A p \in Orders : period'[p] = IF p = o THEN PlacedPeriod(o) ELSE period[p]
    BY <1>1, <2>1 DEF PeriodsTyped
  <2>4. \E b \in Nat : \A p \in Orders : period'[p].endsAt <= b
    <3>1. PICK b \in Nat : \A p \in Orders : period[p].endsAt <= b
      BY DEF PlacementInv
    <3>2. PlacedPeriod(o).endsAt \in Nat /\ \A p \in Orders : period[p].endsAt \in Nat
      BY <1>1, PlacedLast DEF PeriodsTyped, PeriodRecord
    <3>3. \A p \in Orders : period'[p].endsAt <= b + PlacedPeriod(o).endsAt
      BY <2>3, <3>1, <3>2
    <3>. QED BY <3>2, <3>3
  <2>5. PeriodsDisjoint'
    <3>1. ASSUME NEW p \in Orders, period'[p].status = "paid"
          PROVE  period'[p].startsAt >= TrialEnd[PayerOf[p]]
      BY <2>3, <3>1, PlacedLast DEF PlacementInv, PeriodsDisjoint
    <3>2. ASSUME NEW p \in Orders, NEW q \in Orders, p # q, PayerOf[p] = PayerOf[q],
                 period'[p].status = "paid", period'[q].status = "paid"
          PROVE  \/ period'[p].endsAt <= period'[q].startsAt
                 \/ period'[q].endsAt <= period'[p].startsAt
      <4>1. CASE p = o
        BY <2>3, <3>2, <4>1, PlacedLast
      <4>2. CASE q = o
        BY <2>3, <3>2, <4>2, PlacedLast
      <4>3. CASE p # o /\ q # o
        BY <2>3, <3>2, <4>3 DEF PlacementInv, PeriodsDisjoint
      <4>. QED BY <4>1, <4>2, <4>3
    <3>. QED BY <3>1, <3>2 DEF PeriodsDisjoint
  <2>. QED BY <1>2, <2>2, <2>4, <2>5 DEF PlacementInv
<1>5. CASE \E o \in Orders : Withdrawing(o)
  <2>. PICK o \in Orders : Withdrawing(o)
    BY <1>5
  <2>1. PeriodsTyped'
    BY <1>1 DEF Withdrawing, PeriodsTyped, PeriodRecord
  <2>2. \A p \in Orders :
          /\ period'[p].startsAt = period[p].startsAt
          /\ period'[p].endsAt = period[p].endsAt
          /\ period'[p].status = "paid" => period[p].status = "paid"
    BY <1>1 DEF Withdrawing, PeriodsTyped, PeriodRecord
  <2>3. \E b \in Nat : \A p \in Orders : period'[p].endsAt <= b
    BY <2>2 DEF PlacementInv
  <2>4. PeriodsDisjoint'
    BY <2>2 DEF PlacementInv, PeriodsDisjoint
  <2>. QED BY <1>2, <2>1, <2>3, <2>4 DEF PlacementInv
<1>. QED BY <1>1, <1>3, <1>4, <1>5, StepMoves DEF ServiceMoves, Steady

LEMMA PlacementBegins == PaymentsInit => PlacementInv
<1>. SUFFICES ASSUME PaymentsInit PROVE PlacementInv
  OBVIOUS
<1>1. PeriodsTyped
  BY DEF PaymentsInit, PeriodsTyped, PeriodRecord, NoPeriod
<1>2. \A o \in Orders : period[o].endsAt <= 0 /\ period[o].status = "none"
  BY DEF PaymentsInit, NoPeriod
<1>. QED BY <1>1, <1>2 DEF PaymentsInit, PlacementInv, PeriodsDisjoint

\* For any orders, tenants and trials, whatever is paid, refunded and revoked in
\* whatever order and at whatever time, the periods a tenant holds never overlap
\* (platform-payments.ts, applyVerifiedPaymentEvent).
THEOREM PeriodsNeverOverlap == PaymentsSpec => []PeriodsDisjoint
<1>1. PlacementInv /\ [PaymentsNext]_paymentsVars => PlacementInv'
  BY StepKeepsPlacement
<1>2. PlacementInv => PeriodsDisjoint
  BY DEF PlacementInv
<1>. QED BY <1>1, <1>2, PlacementBegins, PTL DEF PaymentsSpec

-----------------------------------------------------------------------------
(* No work is left on a period that was withdrawn.                          *)

\* A step leaves no job on a withdrawn period: jobs are queued on paid periods
\* only, and the step that withdraws one cancels its jobs.
LEMMA StepKeepsQueued ==
  ASSUME PlacementInv, RevokedWorkStops, [PaymentsNext]_paymentsVars
  PROVE  RevokedWorkStops'
<1>1. PeriodsTyped
  BY DEF PlacementInv
<1>2. CASE Steady
  BY <1>2 DEF Steady, RevokedWorkStops
<1>3. ASSUME NEW o \in Orders, Granting(o)
      PROVE  RevokedWorkStops'
  <2>1. o \notin queued
    BY <1>3 DEF Granting, NoPeriod, RevokedWorkStops
  <2>. QED BY <1>1, <1>3, <2>1 DEF Granting, RevokedWorkStops, PeriodsTyped
<1>4. ASSUME NEW o \in Orders, Withdrawing(o)
      PROVE  RevokedWorkStops'
  BY <1>1, <1>4 DEF Withdrawing, RevokedWorkStops, PeriodsTyped
<1>. QED BY <1>1, <1>2, <1>3, <1>4, StepMoves DEF ServiceMoves

\* No pending job stays reserved in a period that a refund withdrew, for any
\* orders and any course of events (revokePeriod and its callback).
THEOREM WithdrawnWorkStops == PaymentsSpec => []RevokedWorkStops
<1>1. PaymentsInit => PlacementInv /\ RevokedWorkStops
  BY PlacementBegins DEF PaymentsInit, RevokedWorkStops
<1>2. PlacementInv /\ RevokedWorkStops /\ [PaymentsNext]_paymentsVars
        => (PlacementInv /\ RevokedWorkStops)'
  BY StepKeepsPlacement, StepKeepsQueued
<1>. QED BY <1>1, <1>2, PTL DEF PaymentsSpec

-----------------------------------------------------------------------------
(* One order at the provider.                                               *)

\* The parts of the types that the argument needs.
CallsTyped ==
  /\ DOMAIN order = Orders /\ \A o \in Orders : "state" \in DOMAIN order[o]
  /\ DOMAIN call = Callers /\ \A c \in Callers : DOMAIN call[c] = DOMAIN NoCall
  /\ placements \in [Orders -> {0, 1}]

\* A provider that may open an order twice is asked once: a call that is about to
\* submit an order is the only one to do so, for an order not placed yet, and no
\* call will submit an order again.
AskedOnce ==
  /\ \A c \in Callers : call[c].resubmits = FALSE
  /\ \A c \in Callers : At(c, "submit") /\ call[c].order \in Orders =>
                          /\ order[call[c].order].state # "none"
                          /\ placements[call[c].order] = 0
  /\ \A c, d \in Callers : At(c, "submit") /\ At(d, "submit") /\ call[c].order = call[d].order
                             => c = d
  /\ \A o \in Orders : order[o].state = "none" => placements[o] = 0

PlacementsInv == CallsTyped /\ (~OrderIdempotent => AskedOnce)

\* No step makes an order new again.
OrdersStay ==
  /\ DOMAIN order' = Orders /\ \A o \in Orders : "state" \in DOMAIN order'[o]
  /\ \A o \in Orders : order'[o].state = "none" => order[o].state = "none"

\* Applying a fact makes no order new again.
LEMMA ApplyKeepsOrders ==
  ASSUME CallsTyped, NEW f, NEW via, NEW authoritative, Apply(f, via, authoritative)
  PROVE  OrdersStay
<1>1. CASE UNCHANGED order
  BY <1>1 DEF OrdersStay, CallsTyped
<1>2. CASE order' = [order EXCEPT ![f.order].state = "closed"]
  BY <1>2 DEF OrdersStay, CallsTyped
<1>3. CASE ApplyFinancial(f, authoritative)
  <2>. DEFINE n == RefundedAfter(f)
              reconciliation == ReconciliationAfter(f, authoritative)
  <2>1. order' = [order EXCEPT ![f.order].state = "paid", ![f.order].refunded = n,
                               ![f.order].reconciliation = reconciliation]
    BY <1>3 DEF ApplyFinancial
  <2>. HIDE DEF n, reconciliation
  <2>. QED BY <2>1 DEF OrdersStay, CallsTyped
<1>. QED BY <1>1, <1>2, <1>3 DEF Apply, ApplyClosed, ledgerVars

\* Nor does recording the outcome of a request.
LEMMA MarkKeepsOrders ==
  ASSUME CallsTyped, NEW o, NEW outcome, MarkOrder(o, outcome)
  PROVE  OrdersStay
BY DEF MarkOrder, OrdersStay, CallsTyped

\* One caller takes a step of its call.
Turns(c) ==
  /\ DOMAIN call' = Callers /\ \A d \in Callers : DOMAIN call'[d] = DOMAIN NoCall
  /\ \A d \in Callers \ {c} : call'[d] = call[d]

\* Whatever a caller's call becomes, the other calls stay as they are.
LEMMA Moves ==
  ASSUME CallsTyped, NEW c \in Callers, NEW new, call' = [call EXCEPT ![c] = new],
         DOMAIN new = DOMAIN NoCall
  PROVE  Turns(c) /\ call'[c] = new
BY DEF CallsTyped, Turns

\* A call that begins has forgotten all that the one before it knew.
LEMMA EnterMoves ==
  ASSUME CallsTyped, NEW c \in Callers, NEW pc, NEW o, NEW r, Enter(c, pc, o, r)
  PROVE  /\ Turns(c) /\ call'[c].resubmits = FALSE
         /\ call'[c].pc = pc /\ call'[c].order = o
<1>. DEFINE new == [NoCall EXCEPT !.pc = pc, !.order = o, !.refund = r]
<1>1. /\ DOMAIN new = DOMAIN NoCall /\ new.resubmits = FALSE
      /\ new.pc = pc /\ new.order = o
  BY DEF NoCall
<1>2. call' = [call EXCEPT ![c] = new]
  BY DEF Enter
<1>. HIDE DEF new
<1>. QED BY <1>1, <1>2, Moves

\* A call that goes on keeps its permission to resubmit.
LEMMA ProceedMoves ==
  ASSUME CallsTyped, NEW c \in Callers, NEW pc, NEW answer, Proceed(c, pc, answer)
  PROVE  Turns(c) /\ call'[c].resubmits = call[c].resubmits /\ call'[c].pc = pc
<1>. DEFINE new == [call[c] EXCEPT !.pc = pc, !.answer = answer]
<1>1. /\ DOMAIN new = DOMAIN NoCall /\ new.resubmits = call[c].resubmits
      /\ new.pc = pc
  BY DEF CallsTyped, NoCall
<1>2. call' = [call EXCEPT ![c] = new]
  BY DEF CallsTyped, Proceed
<1>. HIDE DEF new
<1>. QED BY <1>1, <1>2, Moves

\* So does one that is answered.
LEMMA LearnMoves ==
  ASSUME CallsTyped, NEW c \in Callers, NEW facts, Learn(c, facts)
  PROVE  Turns(c) /\ call'[c].resubmits = call[c].resubmits /\ call'[c].pc = "apply"
<1>. DEFINE new == [call[c] EXCEPT !.pc = "apply", !.facts = facts]
<1>1. /\ DOMAIN new = DOMAIN NoCall /\ new.resubmits = call[c].resubmits
      /\ new.pc = "apply"
  BY DEF CallsTyped, NoCall
<1>2. call' = [call EXCEPT ![c] = new]
  BY DEF CallsTyped, Learn
<1>. HIDE DEF new
<1>. QED BY <1>1, <1>2, Moves

\* A call that ends keeps nothing.
LEMMA ReturnMoves ==
  ASSUME CallsTyped, NEW c \in Callers, Return(c)
  PROVE  Turns(c) /\ call'[c].resubmits = FALSE /\ call'[c].pc = "idle"
<1>1. NoCall.resubmits = FALSE /\ NoCall.pc = "idle"
  BY DEF NoCall
<1>2. call' = [call EXCEPT ![c] = NoCall]
  BY DEF Return
<1>. QED BY <1>1, <1>2, Moves

\* A step that asks the provider for no order and lets no call ask for one.
Unasking ==
  /\ OrdersStay /\ placements' = placements
  /\ \/ call' = call
     \/ \E c \in Callers :
          /\ Turns(c) /\ call'[c].pc # "submit"
          /\ ~OrderIdempotent /\ call[c].resubmits = FALSE => call'[c].resubmits = FALSE

\* A step that asks for nothing keeps the invariant.
LEMMA UnaskingKeepsPlacements ==
  ASSUME PlacementsInv, Unasking
  PROVE  PlacementsInv'
<1>1. CallsTyped'
  BY DEF PlacementsInv, Unasking, OrdersStay, CallsTyped, Turns
<1>2. ASSUME ~OrderIdempotent
      PROVE  AskedOnce'
  <2>1. AskedOnce
    BY <1>2 DEF PlacementsInv
  <2>2. CASE call' = call
    BY <2>1, <2>2 DEF Unasking, OrdersStay, AskedOnce, At
  <2>3. ASSUME NEW c \in Callers, Turns(c), call'[c].pc # "submit",
               ~OrderIdempotent /\ call[c].resubmits = FALSE => call'[c].resubmits = FALSE
        PROVE  AskedOnce'
    <3>1. \A d \in Callers : At(d, "submit")' => d # c /\ call'[d] = call[d]
      BY <2>3 DEF At, Turns
    <3>2. \A d \in Callers : call'[d].resubmits = FALSE
      BY <1>2, <2>1, <2>3 DEF Turns, AskedOnce
    <3>. QED BY <2>1, <3>1, <3>2 DEF Unasking, OrdersStay, AskedOnce, At
  <2>. QED BY <2>2, <2>3 DEF Unasking
<1>. QED BY <1>1, <1>2 DEF PlacementsInv

\* Unless orders are idempotent, no call that asks the provider will submit again.
LEMMA AsksWithoutResubmitting ==
  ASSUME PlacementsInv, NEW c \in Callers, NEW o \in Orders, ReplayOrder(c, o)
  PROVE  Unasking
<1>. DEFINE new == [NoCall EXCEPT !.pc = "ask", !.order = o, !.resubmits = MayResubmit(o)]
<1>1. DOMAIN new = DOMAIN NoCall /\ new.pc = "ask" /\ new.resubmits = MayResubmit(o)
  BY DEF NoCall
<1>2. ~OrderIdempotent => MayResubmit(o) = FALSE
  BY DEF MayResubmit
<1>3. call' = [call EXCEPT ![c] = new]
  BY DEF ReplayOrder
<1>. HIDE DEF new
<1>4. Turns(c) /\ call'[c] = new
  BY <1>1, <1>3, Moves DEF PlacementsInv
<1>5. OrdersStay /\ placements' = placements
  BY DEF ReplayOrder, PlacementsInv, CallsTyped, OrdersStay, ledgerVars, providerVars
<1>. QED BY <1>1, <1>2, <1>4, <1>5 DEF Unasking

\* What else users, operators and the worker begin asks for no order.
LEMMA CallsBegunAskNothing ==
  ASSUME PlacementsInv, NEW c \in Callers,
         \/ \E o \in Orders : QueryOrder(c, o) \/ \E x \in References : RecordOperatorOrder(c, o, x)
         \/ \E r \in Refunds, x \in Txns, n \in 1 .. Price, action \in {"revoke", "retain"} :
              RequestRefund(c, r, x, n, action)
         \/ \E r \in Refunds : AskRefund(c, r)
  PROVE  Unasking
<1>. USE DEF PlacementsInv
<1>1. order' = order => OrdersStay
  BY DEF CallsTyped, OrdersStay
<1>2. ASSUME NEW o \in Orders, QueryOrder(c, o)
      PROVE  Unasking
  <2>1. order' = order /\ placements' = placements /\ Enter(c, "ask", o, Nobody)
    BY <1>2 DEF QueryOrder, ledgerVars, providerVars
  <2>. QED BY <1>1, <2>1, EnterMoves DEF Unasking
<1>3. ASSUME NEW o \in Orders, NEW x \in References, RecordOperatorOrder(c, o, x)
      PROVE  Unasking
  <2>. DEFINE new == [NoCall EXCEPT !.pc = "collect", !.order = o,
                                    !.facts = {PaidFact(o, x, 0)}]
  <2>1. DOMAIN new = DOMAIN NoCall /\ new.pc = "collect" /\ new.resubmits = FALSE
    BY DEF NoCall
  <2>2. call' = [call EXCEPT ![c] = new]
    BY <1>3 DEF RecordOperatorOrder
  <2>. HIDE DEF new
  <2>3. Turns(c) /\ call'[c] = new
    BY <2>1, <2>2, Moves
  <2>4. OrdersStay /\ placements' = placements
    BY <1>3 DEF RecordOperatorOrder, CallsTyped, OrdersStay, providerVars
  <2>. QED BY <2>1, <2>3, <2>4 DEF Unasking
<1>4. ASSUME NEW r \in Refunds, NEW x \in Txns, NEW n \in 1 .. Price,
             NEW action \in {"revoke", "retain"}, RequestRefund(c, r, x, n, action)
      PROVE  Unasking
  <2>1. order' = order /\ placements' = placements /\ Enter(c, "refund", fact[x].order, r)
    BY <1>4 DEF RequestRefund, providerVars
  <2>. QED BY <1>1, <2>1, EnterMoves DEF Unasking
<1>5. ASSUME NEW r \in Refunds, AskRefund(c, r)
      PROVE  Unasking
  <2>1. /\ order' = order /\ placements' = placements
        /\ Enter(c, "askRefund", fact[refund[r].payment].order, r)
    BY <1>5 DEF AskRefund, ledgerVars, providerVars
  <2>. QED BY <1>1, <2>1, EnterMoves DEF Unasking
<1>. QED BY <1>2, <1>3, <1>4, <1>5

\* Resuming a call asks for no order, unless it submits one or finds that it may
\* submit one again.
LEMMA CallsResumedAskNothing ==
  ASSUME PlacementsInv, NEW c \in Callers, CallStep(c), ~SubmitOrder(c),
         ~(call[c].resubmits /\ OrderAnswered(c))
  PROVE  Unasking
<1>. USE DEF PlacementsInv
<1>1. order' = order => OrdersStay
  BY DEF CallsTyped, OrdersStay
<1>2. CASE OrderAnswered(c)
  <2>1. order' = order /\ placements' = placements
    BY <1>2 DEF OrderAnswered, ledgerVars, providerVars
  <2>2. \/ \E facts : Learn(c, facts)
        \/ Proceed(c, "seen", "pending")
        \/ Return(c)
        \/ call[c].resubmits /\ Proceed(c, "submit", "none")
    BY <1>2 DEF OrderAnswered
  <2>3. ASSUME NEW facts, Learn(c, facts)
        PROVE  Unasking
    BY <1>1, <2>1, <2>3, LearnMoves DEF Unasking
  <2>4. CASE Proceed(c, "seen", "pending")
    BY <1>1, <2>1, <2>4, ProceedMoves DEF Unasking
  <2>5. CASE Return(c)
    BY <1>1, <2>1, <2>5, ReturnMoves DEF Unasking
  <2>. QED BY <1>2, <2>2, <2>3, <2>4, <2>5
<1>3. CASE RecordPlacement(c) \/ RecordPending(c)
  <2>1. placements' = placements /\ Return(c) /\ \E o, outcome : MarkOrder(o, outcome)
    BY <1>3 DEF RecordPlacement, RecordPending, providerVars
  <2>. QED BY <2>1, MarkKeepsOrders, ReturnMoves DEF Unasking
<1>4. CASE ApplyAnswer(c)
  <2>1. PICK f : /\ Apply(f, "query", TRUE)
                 /\ \/ Return(c)
                    \/ call' = [call EXCEPT ![c].facts = @ \ {f}]
    BY <1>4 DEF ApplyAnswer
  <2>2. placements' = placements /\ At(c, "apply")
    BY <1>4 DEF ApplyAnswer, providerVars
  <2>3. CASE call' = [call EXCEPT ![c].facts = @ \ {f}]
    <3>. DEFINE facts == call[c].facts \ {f}
                new == [call[c] EXCEPT !.facts = facts]
    <3>1. DOMAIN new = DOMAIN NoCall /\ new.pc = "apply" /\ new.resubmits = call[c].resubmits
      BY <2>2 DEF At, CallsTyped, NoCall
    <3>2. call' = [call EXCEPT ![c] = new]
      BY <2>3 DEF CallsTyped
    <3>. HIDE DEF new
    <3>3. Turns(c) /\ call'[c] = new
      BY <3>1, <3>2, Moves
    <3>. QED BY <2>1, <2>2, <3>1, <3>3, ApplyKeepsOrders DEF Unasking
  <2>. QED BY <2>1, <2>2, <2>3, ApplyKeepsOrders, ReturnMoves DEF Unasking
<1>5. CASE Collect(c)
  <2>1. placements' = placements /\ Return(c) /\ \E f : Apply(f, "operator", FALSE)
    BY <1>5 DEF Collect, providerVars
  <2>. QED BY <2>1, ApplyKeepsOrders, ReturnMoves DEF Unasking
<1>6. CASE SubmitRefund(c)
  <2>1. order' = order /\ placements' = placements /\ \E answer : Proceed(c, "refundSent", answer)
    BY <1>6 DEF SubmitRefund, ledgerVars
  <2>. QED BY <1>1, <2>1, ProceedMoves DEF Unasking
<1>7. CASE RecordRefund(c) \/ RecordRefundSeen(c) \/ Abandon(c)
  <2>1. order' = order /\ placements' = placements /\ Return(c)
    BY <1>7 DEF RecordRefund, RecordRefundSeen, Abandon, ledgerVars, providerVars
  <2>. QED BY <1>1, <2>1, ReturnMoves DEF Unasking
<1>8. CASE RefundAnswered(c) \/ RefundUnclear(c)
  <2>1. /\ order' = order /\ placements' = placements
        /\ \/ \E answer : Proceed(c, "refundSeen", answer)
           \/ \E facts : Learn(c, facts)
    BY <1>8 DEF RefundAnswered, RefundUnclear, ledgerVars, providerVars
  <2>2. ASSUME NEW answer, Proceed(c, "refundSeen", answer)
        PROVE  Unasking
    BY <1>1, <2>1, <2>2, ProceedMoves DEF Unasking
  <2>3. ASSUME NEW facts, Learn(c, facts)
        PROVE  Unasking
    BY <1>1, <2>1, <2>3, LearnMoves DEF Unasking
  <2>. QED BY <2>1, <2>2, <2>3
<1>. QED BY <1>2, <1>3, <1>4, <1>5, <1>6, <1>7, <1>8 DEF CallStep

\* The provider's and the context's steps, and webhooks, are nobody's call.
LEMMA SurroundingsAskNothing ==
  ASSUME PlacementsInv,
         \/ \E f \in told : Webhook(f)
         \/ ProviderStep
         \/ ContextStep
         \/ UNCHANGED paymentsVars
  PROVE  Unasking
<1>1. order' = order => OrdersStay
  BY DEF PlacementsInv, CallsTyped, OrdersStay
<1>2. CASE \E f \in told : Webhook(f)
  <2>1. placements' = placements /\ call' = call /\ \E f : Apply(f, "webhook", FALSE)
    BY <1>2 DEF Webhook, providerVars
  <2>. QED BY <2>1, ApplyKeepsOrders DEF Unasking, PlacementsInv
<1>3. CASE ProviderStep
  BY <1>1, <1>3 DEF ProviderStep, ProviderPaid, ConsoleRefund, ProviderCloses,
                    ProviderSettles, ledgerVars, Unasking
<1>4. CASE ContextStep
  BY <1>1, <1>4 DEF ContextStep, TenantStops, TenantResumes, JobQueued, JobAttempted,
                    OrderExpires, Tick, ledgerVars, providerVars, Unasking
<1>5. CASE UNCHANGED paymentsVars
  BY <1>1, <1>5 DEF paymentsVars, ledgerVars, providerVars, Unasking
<1>. QED BY <1>2, <1>3, <1>4, <1>5

\* A new order is asked for by the call that creates it.
LEMMA CreateKeepsPlacements ==
  ASSUME PlacementsInv, NEW c \in Callers, NEW o \in Orders, CreateOrder(c, o)
  PROVE  PlacementsInv'
<1>1. /\ Turns(c) /\ call'[c].resubmits = FALSE
      /\ call'[c].pc = "submit" /\ call'[c].order = o
  <2>1. CallsTyped /\ Enter(c, "submit", o, Nobody)
    BY DEF CreateOrder, PlacementsInv
  <2>. QED BY <2>1, EnterMoves
<1>2. /\ order' = [order EXCEPT ![o].state = "created"]
      /\ order[o].state = "none" /\ placements' = placements
  BY DEF CreateOrder, NoOrder, providerVars
<1>3. CallsTyped
  BY DEF PlacementsInv
<1>4. /\ DOMAIN order' = Orders /\ order'[o].state = "created"
      /\ \A p \in Orders \ {o} : order'[p] = order[p]
      /\ \A p \in Orders : "state" \in DOMAIN order'[p]
  BY <1>2, <1>3 DEF CallsTyped
<1>5. CallsTyped'
  BY <1>1, <1>2, <1>3, <1>4 DEF CallsTyped, Turns
<1>6. ASSUME ~OrderIdempotent
      PROVE  AskedOnce'
  <2>1. AskedOnce
    BY <1>6 DEF PlacementsInv
  <2>2. placements[o] = 0
    BY <1>2, <2>1 DEF AskedOnce
  <2>3. \A d \in Callers : d # c /\ At(d, "submit")' =>
          call'[d] = call[d] /\ At(d, "submit") /\ call[d].order # o
    BY <1>1, <1>2, <2>1 DEF AskedOnce, Turns, At
  <2>4. (\A d \in Callers : call[d].resubmits = FALSE)'
    BY <1>1, <2>1 DEF AskedOnce, Turns
  <2>5. (\A d \in Callers : At(d, "submit") /\ call[d].order \in Orders =>
                              /\ order[call[d].order].state # "none"
                              /\ placements[call[d].order] = 0)'
    BY <1>1, <1>2, <1>4, <2>1, <2>2, <2>3 DEF AskedOnce
  <2>6. (\A d, e \in Callers :
           At(d, "submit") /\ At(e, "submit") /\ call[d].order = call[e].order => d = e)'
    BY <1>1, <2>1, <2>3 DEF AskedOnce
  <2>7. (\A p \in Orders : order[p].state = "none" => placements[p] = 0)'
    BY <1>2, <1>4, <2>1, <2>2 DEF AskedOnce
  <2>. QED BY <2>4, <2>5, <2>6, <2>7 DEF AskedOnce
<1>. QED BY <1>5, <1>6 DEF PlacementsInv

\* The order is placed by the only call that asks for it.
LEMMA SubmitKeepsPlacements ==
  ASSUME PlacementsInv, NEW c \in Callers, SubmitOrder(c)
  PROVE  PlacementsInv'
<1>. DEFINE o == call[c].order
<1>1. /\ Turns(c) /\ call'[c].pc # "submit"
      /\ call[c].resubmits = FALSE => call'[c].resubmits = FALSE
  <2>1. (\E answer : Proceed(c, "placed", answer)) \/ Return(c)
    BY DEF SubmitOrder
  <2>2. CallsTyped
    BY DEF PlacementsInv
  <2>3. ASSUME NEW answer, Proceed(c, "placed", answer)
        PROVE  Turns(c) /\ call'[c].resubmits = call[c].resubmits /\ call'[c].pc = "placed"
    BY <2>2, <2>3, ProceedMoves
  <2>4. CASE Return(c)
    BY <2>2, <2>4, ReturnMoves
  <2>. QED BY <2>1, <2>3, <2>4
<1>2. /\ order' = order
      /\ \/ placements' = placements
         \/ placements' = [placements EXCEPT ![o] = IF OrderIdempotent THEN 1 ELSE @ + 1]
  BY DEF SubmitOrder, ledgerVars
<1>3. CallsTyped /\ At(c, "submit")
  BY DEF PlacementsInv, SubmitOrder
<1>4. OrderIdempotent \in BOOLEAN
  BY PaymentsAssumption
<1>5. CASE placements' = placements
  <2>1. Unasking
    BY <1>1, <1>2, <1>3, <1>5 DEF Unasking, OrdersStay, CallsTyped
  <2>. QED BY <2>1, UnaskingKeepsPlacements
<1>6. CASE placements' = [placements EXCEPT ![o] = IF OrderIdempotent THEN 1 ELSE @ + 1]
  <2>1. CASE OrderIdempotent
    BY <1>1, <1>2, <1>3, <1>6, <2>1 DEF PlacementsInv, CallsTyped, Turns
  <2>2. CASE ~OrderIdempotent
    <3>1. AskedOnce
      BY <2>2 DEF PlacementsInv
    <3>2. o \in Orders => placements[o] = 0 /\ order[o].state # "none"
      BY <1>3, <3>1 DEF AskedOnce
    <3>3. placements' \in [Orders -> {0, 1}]
      <4>1. placements \in [Orders -> {0, 1}]
        BY <1>3 DEF CallsTyped
      <4>2. placements' = [placements EXCEPT ![o] = placements[o] + 1]
        BY <1>6, <2>2
      <4>. HIDE DEF o
      <4>3. CASE o \in Orders
        BY <3>2, <4>1, <4>2, <4>3
      <4>4. CASE o \notin Orders
        BY <4>1, <4>2, <4>4
      <4>. QED BY <4>3, <4>4
    <3>4. \A p \in Orders \ {o} : placements'[p] = placements[p]
      BY <1>3, <1>6 DEF CallsTyped
    <3>5. \A d \in Callers : At(d, "submit")' =>
            d # c /\ call'[d] = call[d] /\ At(d, "submit") /\ call[d].order # o
      BY <1>1, <1>3, <3>1 DEF AskedOnce, Turns, At
    <3>6. AskedOnce'
      <4>1. (\A d \in Callers : call[d].resubmits = FALSE)'
        BY <1>1, <3>1 DEF AskedOnce, Turns
      <4>2. (\A d \in Callers : At(d, "submit") /\ call[d].order \in Orders =>
                                  /\ order[call[d].order].state # "none"
                                  /\ placements[call[d].order] = 0)'
        BY <1>2, <3>1, <3>4, <3>5 DEF AskedOnce
      <4>3. (\A d, e \in Callers :
               At(d, "submit") /\ At(e, "submit") /\ call[d].order = call[e].order => d = e)'
        BY <3>1, <3>5 DEF AskedOnce
      <4>4. (\A p \in Orders : order[p].state = "none" => placements[p] = 0)'
        BY <1>2, <3>1, <3>2, <3>4 DEF AskedOnce
      <4>. QED BY <4>1, <4>2, <4>3, <4>4 DEF AskedOnce
    <3>7. CallsTyped'
      BY <1>1, <1>2, <1>3, <3>3 DEF CallsTyped, Turns
    <3>. QED BY <2>2, <3>6, <3>7 DEF PlacementsInv
  <2>. QED BY <2>1, <2>2
<1>. QED BY <1>2, <1>5, <1>6

\* An order may be asked for again only from a provider that opens one.
LEMMA ResubmissionKeepsPlacements ==
  ASSUME PlacementsInv, NEW c \in Callers, OrderAnswered(c), call[c].resubmits
  PROVE  PlacementsInv'
<1>1. OrderIdempotent
  BY DEF PlacementsInv, AskedOnce
<1>2. order' = order /\ placements' = placements
  BY DEF OrderAnswered, ledgerVars, providerVars
<1>3. \/ \E facts : Learn(c, facts)
      \/ \E pc, answer : Proceed(c, pc, answer)
      \/ Return(c)
  BY DEF OrderAnswered
<1>4. Turns(c)
  BY <1>3, LearnMoves, ProceedMoves, ReturnMoves DEF PlacementsInv
<1>. QED BY <1>1, <1>2, <1>4 DEF PlacementsInv, CallsTyped, Turns

\* Every step keeps it.
LEMMA StepKeepsPlacements ==
  ASSUME PlacementsInv, [PaymentsNext]_paymentsVars
  PROVE  PlacementsInv'
<1>1. ASSUME NEW c \in Callers, UserCall(c)
      PROVE  PlacementsInv'
  <2>1. ASSUME NEW o \in ProviderOrders, CreateOrder(c, o)
        PROVE  PlacementsInv'
    BY <2>1, CreateKeepsPlacements DEF ProviderOrders
  <2>2. ASSUME NEW o \in ProviderOrders, ReplayOrder(c, o)
        PROVE  PlacementsInv'
    BY <2>2, AsksWithoutResubmitting, UnaskingKeepsPlacements DEF ProviderOrders
  <2>. QED BY <1>1, <2>1, <2>2, CallsBegunAskNothing, UnaskingKeepsPlacements,
              PaymentsAssumption DEF UserCall, ProviderOrders
<1>2. ASSUME NEW c \in Workers, WorkerCall(c)
      PROVE  PlacementsInv'
  <2>1. c \in Callers
    BY PaymentsAssumption
  <2>. QED BY <1>2, <2>1, CallsBegunAskNothing, UnaskingKeepsPlacements
              DEF WorkerCall, ReconcileOrder, ProviderOrders
<1>3. ASSUME NEW c \in Callers, CallStep(c)
      PROVE  PlacementsInv'
  BY <1>3, SubmitKeepsPlacements, ResubmissionKeepsPlacements, CallsResumedAskNothing,
     UnaskingKeepsPlacements
<1>. QED BY <1>1, <1>2, <1>3, SurroundingsAskNothing, UnaskingKeepsPlacements DEF PaymentsNext

\* However many calls create, repeat, query and recover an order, the provider
\* opens one at most, whether or not it would open a second (submitOrder and
\* observeOrder of platform/payments.ts).
THEOREM OneOrderEach == PaymentsSpec => []OneProviderOrder
<1>1. PaymentsInit => PlacementsInv
  <2>. SUFFICES ASSUME PaymentsInit PROVE PlacementsInv
    OBVIOUS
  <2>1. CallsTyped
    BY DEF PaymentsInit, CallsTyped, NoOrder, NoCall
  <2>2. AskedOnce
    BY DEF PaymentsInit, AskedOnce, At, NoCall
  <2>. QED BY <2>1, <2>2 DEF PlacementsInv
<1>2. PlacementsInv /\ [PaymentsNext]_paymentsVars => PlacementsInv'
  BY StepKeepsPlacements
<1>3. PlacementsInv => OneProviderOrder
  BY DEF PlacementsInv, CallsTyped, OneProviderOrder
<1>. QED BY <1>1, <1>2, <1>3, PTL DEF PaymentsSpec

-----------------------------------------------------------------------------
(* Sums of refunds.                                                         *)

Typed(rs) == rs \in [Refunds -> RefundRecord]

LEMMA AmountsAreNumbers ==
  ASSUME NEW rs, Typed(rs), NEW r \in Refunds
  PROVE  /\ rs[r].amount \in 0 .. Price /\ rs[r].amount \in Nat
         /\ rs[r] # NoRefund <=> rs[r].state # "none"
         /\ rs[r] # NoRefund =>
              rs[r].amount >= 1 /\ rs[r].payment \in Payments
                /\ rs[r].state \in RefundStates /\ rs[r].action \in {"revoke", "retain"}
BY PaymentsAssumption DEF Typed, RefundRecord, NoRefund, RefundStates

Units(rs, S) == UNION {{r} \X (1 .. rs[r].amount) : r \in S}

LEMMA AmountType ==
  ASSUME NEW rs, Typed(rs), NEW S \in SUBSET Refunds
  PROVE  IsFiniteSet(Units(rs, S)) /\ Amount(rs, S) \in Nat
<1>. DEFINE block(r) == {r} \X (1 .. rs[r].amount)
            T == {block(r) : r \in S}
            g == [r \in S |-> block(r)]
<1>1. IsFiniteSet(S)
  BY FS_Subset, PaymentsAssumption
<1>2. g \in Surjection(S, T)
  BY DEF Surjection
<1>3. IsFiniteSet(T)
  <2>. HIDE DEF g, T
  <2>. QED BY <1>1, <1>2, FS_Surjection
<1>4. ASSUME NEW b \in T PROVE IsFiniteSet(b)
  <2>1. PICK r \in S : b = {r} \X (1 .. rs[r].amount)
    OBVIOUS
  <2>2. IsFiniteSet({r})
    BY FS_Singleton
  <2>3. rs[r].amount \in Int
    BY AmountsAreNumbers
  <2>4. IsFiniteSet(1 .. rs[r].amount)
    BY <2>3, FS_Interval
  <2>. QED BY <2>1, <2>2, <2>4, FS_Product
<1>5. Units(rs, S) = UNION T
  BY DEF Units
<1>6. IsFiniteSet(UNION T)
  <2>. HIDE DEF T
  <2>. QED BY <1>3, <1>4, FS_UNION
<1>. QED BY <1>5, <1>6, FS_CardinalityType DEF Amount, Units

\* A sum of more refunds is no less.
LEMMA AmountMonotone ==
  ASSUME NEW rs, NEW qs, Typed(qs), NEW R \in SUBSET Refunds, NEW S \in SUBSET R,
         \A r \in S : rs[r].amount = qs[r].amount
  PROVE  Amount(rs, S) <= Amount(qs, R)
<1>1. IsFiniteSet(Units(qs, R))
  BY AmountType
<1>2. Units(rs, S) \subseteq Units(qs, R)
  BY DEF Units
<1>. QED BY <1>1, <1>2, FS_Subset DEF Amount, Units

\* What is the same adds up to the same.
LEMMA AmountSame ==
  ASSUME NEW rs, NEW qs, NEW S, \A r \in S : rs[r].amount = qs[r].amount
  PROVE  Amount(rs, S) = Amount(qs, S)
<1>1. {{r} \X (1 .. rs[r].amount) : r \in S} = {{r} \X (1 .. qs[r].amount) : r \in S}
  OBVIOUS
<1>. QED BY <1>1 DEF Amount

LEMMA AmountOfNone ==
  ASSUME NEW rs
  PROVE  Amount(rs, {}) = 0
<1>1. UNION {{r} \X (1 .. rs[r].amount) : r \in {}} = {}
  OBVIOUS
<1>. QED BY <1>1, FS_EmptySet DEF Amount

\* A refund that joins adds its amount.
LEMMA AmountJoins ==
  ASSUME NEW rs, Typed(rs), NEW S \in SUBSET Refunds, NEW r \in Refunds \ S
  PROVE  Amount(rs, S \cup {r}) = Amount(rs, S) + rs[r].amount
<1>. DEFINE B == {r} \X (1 .. rs[r].amount)
<1>1. IsFiniteSet(Units(rs, S))
  BY AmountType
<1>2. IsFiniteSet(B) /\ Cardinality(B) = rs[r].amount
  <2>1. rs[r].amount \in Nat
    BY AmountsAreNumbers
  <2>2. IsFiniteSet(1 .. rs[r].amount) /\ Cardinality(1 .. rs[r].amount) = rs[r].amount
    <3>1. ASSUME NEW n \in Nat PROVE IsFiniteSet(1 .. n) /\ Cardinality(1 .. n) = n
      BY FS_Interval
    <3>. QED BY <2>1, <3>1
  <2>3. IsFiniteSet({r}) /\ Cardinality({r}) = 1
    BY FS_Singleton
  <2>4. IsFiniteSet(B) /\ Cardinality(B) = Cardinality({r}) * Cardinality(1 .. rs[r].amount)
    BY <2>2, <2>3, FS_Product
  <2>. QED BY <2>1, <2>2, <2>3, <2>4
<1>3. Units(rs, S \cup {r}) = Units(rs, S) \cup B
  BY DEF Units
<1>4. Units(rs, S) \cap B = {}
  BY DEF Units
<1>5. Cardinality(Units(rs, S) \cup B)
        = Cardinality(Units(rs, S)) + Cardinality(B) - Cardinality(Units(rs, S) \cap B)
  <2>. HIDE DEF B
  <2>. QED BY <1>1, <1>2, FS_Union
<1>6. Cardinality({}) = 0
  BY FS_EmptySet
<1>7. Cardinality(Units(rs, S)) \in Nat /\ Cardinality(B) \in Nat
  <2>. HIDE DEF B
  <2>. QED BY <1>1, <1>2, FS_CardinalityType
<1>. DEFINE m == Cardinality(Units(rs, S))
            n == rs[r].amount
<1>8. Amount(rs, S) = m /\ Amount(rs, S \cup {r}) = Cardinality(Units(rs, S) \cup B)
  BY <1>3 DEF Amount, Units
<1>9. Cardinality(Units(rs, S) \cup B) = m + n - 0 /\ m \in Nat /\ n \in Nat
  <2>. HIDE DEF B
  <2>. QED BY <1>2, <1>4, <1>5, <1>6, <1>7
<1>10. m + n - 0 = m + n
  <2>. HIDE DEF m, n
  <2>. QED BY <1>9
<1>. QED BY <1>8, <1>9, <1>10

\* A sum is no less than any of its terms.
LEMMA AmountCovers ==
  ASSUME NEW rs, Typed(rs), NEW S \in SUBSET Refunds, NEW r \in S
  PROVE  rs[r].amount <= Amount(rs, S)
<1>1. Amount(rs, (S \ {r}) \cup {r}) = Amount(rs, S \ {r}) + rs[r].amount
  BY AmountJoins
<1>2. (S \ {r}) \cup {r} = S
  OBVIOUS
<1>3. Amount(rs, S \ {r}) \in Nat
  BY AmountType
<1>. DEFINE m == Amount(rs, S \ {r})
            n == rs[r].amount
<1>4. Amount(rs, S) = m + n /\ m \in Nat /\ n \in Nat
  BY <1>1, <1>2, <1>3, AmountsAreNumbers
<1>. HIDE DEF m, n
<1>5. n <= m + n
  BY <1>4
<1>. QED BY <1>4, <1>5 DEF n

LEMMA MaxOfTwo ==
  ASSUME NEW m \in Nat, NEW n \in Nat
  PROVE  Max({m, n}) \in {m, n} /\ m <= Max({m, n}) /\ n <= Max({m, n})
<1>1. m + n \in Nat /\ \A y \in {m, n} : y <= m + n
  OBVIOUS
<1>. QED BY <1>1, MaxOfBounded

LEMMA MaxOfThree ==
  ASSUME NEW m \in Nat, NEW n \in Nat, NEW k \in Nat
  PROVE  /\ Max({m, n} \cup {k}) \in {m, n, k}
         /\ m <= Max({m, n} \cup {k}) /\ n <= Max({m, n} \cup {k}) /\ k <= Max({m, n} \cup {k})
<1>1. m + n + k \in Nat /\ \A y \in {m, n} \cup {k} : y <= m + n + k
  OBVIOUS
<1>2. {m, n} \cup {k} \subseteq Nat /\ {m, n} \cup {k} # {}
  OBVIOUS
<1>. QED BY <1>1, <1>2, MaxOfBounded

-----------------------------------------------------------------------------
(* What the ledger and the provider know of each other.                     *)

\* What was sent or answered about a payment stays true: the provider's account
\* only grows, and what it settled of a refund stays settled.
Vouched(f) ==
  /\ f.kind = "closed" => f.payment = Nobody
  /\ f.kind # "closed" => f.payment \in Payments
  /\ f.payment \in Txns =>
       /\ f.order = OrderOf[f.payment] /\ latest[f.payment] # NoFact
       /\ f.refunded <= latest[f.payment].refunded
  /\ f.kind \in {"paid", "closed"} => f.refund = Nobody
  /\ f.refund \in Refunds =>
       /\ refund[f.refund] # NoRefund /\ refund[f.refund].payment = f.payment
       /\ f.kind = "refund-succeeded" => accepted[f.refund] = "succeeded"

CallSound(c) ==
  /\ \A f \in call[c].facts : Vouched(f)
  /\ call[c].pc \in {"submit", "placed", "ask", "seen"} => call[c].order \in Orders
  /\ call[c].pc \in {"refund", "refundSent", "askRefund", "refundSeen"} =>
       call[c].refund \in Refunds /\ refund[call[c].refund] # NoRefund
  /\ At(c, "refund") => accepted[call[c].refund] = "none"
  /\ At(c, "placed") => call[c].answer \in {"accepted", "unknown"}
  /\ call[c].pc \in {"refundSent", "refundSeen"} =>
       call[c].answer \in {"submitted", "processing", "unknown", "failed"}

RefundSound(r) ==
  /\ refund[r] # NoRefund => refund[r].payment \in Txns /\ fact[refund[r].payment] # NoFact
  /\ accepted[r] # "none" => refund[r] # NoRefund
  /\ refund[r].state = "succeeded" => accepted[r] = "succeeded"

\* What the provider has paid back covers the requests it has settled, and what
\* it has still to settle fits into the price.
PaidBack(x) == {r \in Refunds : refund[r].payment = x /\ accepted[r] = "succeeded"}
BookSound(x) ==
  /\ latest[x] # NoFact => Vouched(latest[x]) /\ latest[x].payment = x
  /\ latest[x].refunded + Amount(refund, Processing(x)) <= Price
  /\ Amount(refund, PaidBack(x)) <= latest[x].refunded

FactSound(x) ==
  fact[x] # NoFact =>
    /\ x \in Txns => /\ latest[x] # NoFact /\ fact[x].order = OrderOf[x]
                     /\ fact[x].refunded <= latest[x].refunded
    /\ Amount(refund, SucceededOf(refund, x)) <= fact[x].refunded
    /\ fact[x].refunded <= order[fact[x].order].refunded

OrderSound(o) ==
  /\ period[o] # NoPeriod =>
       order[o].state = "paid" /\ \E x \in Payments : fact[x].order = o
  /\ period[o].status = "paid" =>
       /\ order[o].refunded = 0 \/ order[o].refunded < Price
       /\ \A r \in Refunds : refund[r].state = "succeeded" /\ fact[refund[r].payment].order = o
                               => refund[r].action = "retain"

PaymentsInv ==
  /\ PaymentsTypeOK
  /\ \A f \in told : Vouched(f)
  /\ \A c \in Callers : CallSound(c)
  /\ \A c, d \in Callers : At(c, "refund") /\ At(d, "refund") /\ call[c].refund = call[d].refund
                             => c = d
  /\ \A r \in Refunds : RefundSound(r)
  /\ \A x \in Txns : BookSound(x)
  /\ \A x \in Payments : FactSound(x)
  /\ \A o \in Orders : OrderSound(o)

-----------------------------------------------------------------------------
(* What applying a fact does.                                               *)

LEMMA FactTypes ==
  ASSUME NEW f \in VerifiedFact
  PROVE  /\ f.kind \in FactKinds /\ f.order \in Orders /\ f.payment \in Payments \cup {Nobody}
         /\ f.refunded \in 0 .. Price /\ f.refunded \in Nat /\ f # NoFact
         /\ f.refund \in Refunds \cup {Console, Nobody}
<1>1. f # NoFact
  BY DEF VerifiedFact, NoFact
<1>. QED BY <1>1, PaymentsAssumption DEF VerifiedFact

\* A fact settles at most the refund it names, and keeps what was asked for.
LEMMA RefundsAfter ==
  ASSUME Typed(refund), NEW f \in VerifiedFact, NEW rs, rs = RefundAfter(f)
  PROVE  /\ Typed(rs)
         /\ \A r \in Refunds :
              /\ rs[r] # NoRefund <=> refund[r] # NoRefund
              /\ rs[r].payment = refund[r].payment
              /\ rs[r].amount = refund[r].amount /\ rs[r].action = refund[r].action
              /\ refund[r].state = "succeeded" => rs[r] = refund[r]
              /\ rs[r].state = "succeeded" /\ refund[r].state # "succeeded" =>
                   KnownRefund(f) /\ r = f.refund /\ f.kind = "refund-succeeded"
         /\ KnownRefund(f) /\ f.kind = "refund-succeeded" => rs[f.refund].state = "succeeded"
<1>. DEFINE settled == IF f.kind = "refund-succeeded" THEN "succeeded" ELSE "failed"
<1>1. CASE ~(KnownRefund(f) /\ refund[f.refund].state # "succeeded")
  BY <1>1 DEF RefundAfter, KnownRefund
<1>2. CASE KnownRefund(f) /\ refund[f.refund].state # "succeeded"
  <2>1. rs = [refund EXCEPT ![f.refund].state = settled]
    BY <1>2 DEF RefundAfter
  <2>2. f.refund \in Refunds /\ refund[f.refund].state # "none" /\ refund[f.refund] # NoRefund
    BY <1>2 DEF KnownRefund, NoRefund
  <2>3. settled \in RefundStates \ {"none"}
    BY DEF RefundStates
  <2>4. refund[f.refund] \in [state: RefundStates \ {"none"}, payment: Payments,
                              amount: 1 .. Price, action: {"revoke", "retain"}]
    BY <2>2 DEF Typed, RefundRecord
  <2>. HIDE DEF settled
  <2>5. /\ rs[f.refund] = [refund[f.refund] EXCEPT !.state = settled]
        /\ \A r \in Refunds \ {f.refund} : rs[r] = refund[r]
        /\ DOMAIN rs = Refunds /\ rs = [r \in Refunds |-> rs[r]]
    BY <2>1, <2>2 DEF Typed
  <2>6. /\ rs[f.refund] \in [state: RefundStates \ {"none"}, payment: Payments,
                             amount: 1 .. Price, action: {"revoke", "retain"}]
        /\ rs[f.refund].state = settled /\ rs[f.refund].payment = refund[f.refund].payment
        /\ rs[f.refund].amount = refund[f.refund].amount
        /\ rs[f.refund].action = refund[f.refund].action
    BY <2>3, <2>4, <2>5
  <2>7. Typed(rs)
    BY <2>5, <2>6 DEF Typed, RefundRecord
  <2>8. rs[f.refund] # NoRefund
    BY <2>3, <2>6 DEF NoRefund
  <2>. QED BY <1>2, <2>2, <2>5, <2>6, <2>7, <2>8 DEF settled
<1>. QED BY <1>1, <1>2

LEMMA ConfirmedIsMax ==
  ASSUME PaymentsTypeOK, NEW f \in VerifiedFact, f.payment \in Payments
  PROVE  /\ fact[f.payment].refunded \in Nat /\ order[f.order].refunded \in Nat
         /\ ConfirmedAfter(f) \in Nat
         /\ fact[f.payment].refunded <= ConfirmedAfter(f) /\ f.refunded <= ConfirmedAfter(f)
         /\ KnownRefund(f) /\ f.kind = "refund-succeeded" =>
              /\ Amount(refund, SucceededOf(RefundAfter(f), f.payment)) \in Nat
              /\ Amount(refund, SucceededOf(RefundAfter(f), f.payment)) <= ConfirmedAfter(f)
         /\ \/ ConfirmedAfter(f) \in {fact[f.payment].refunded, f.refunded}
            \/ /\ KnownRefund(f) /\ f.kind = "refund-succeeded"
               /\ ConfirmedAfter(f) = Amount(refund, SucceededOf(RefundAfter(f), f.payment))
         /\ RefundedAfter(f) \in {order[f.order].refunded, ConfirmedAfter(f)}
         /\ order[f.order].refunded <= RefundedAfter(f)
         /\ ConfirmedAfter(f) <= RefundedAfter(f)
<1>. DEFINE m == fact[f.payment].refunded
            n == f.refunded
            k == Amount(refund, SucceededOf(RefundAfter(f), f.payment))
            c == ConfirmedAfter(f)
            q == order[f.order].refunded
<1>1. m \in Nat /\ n \in Nat
  <2>1. fact[f.payment] \in FactRecord
    BY DEF PaymentsTypeOK
  <2>2. fact[f.payment].refunded \in Nat
    BY <2>1, PaymentsAssumption DEF FactRecord, NoFact
  <2>. QED BY <2>2, FactTypes
<1>2. q \in Nat
  BY FactTypes, PaymentsAssumption DEF PaymentsTypeOK, OrderRecord
<1>3. CASE KnownRefund(f) /\ f.kind = "refund-succeeded"
  <2>1. k \in Nat
    <3>1. SucceededOf(RefundAfter(f), f.payment) \in SUBSET Refunds
      BY DEF SucceededOf
    <3>. QED BY <3>1, AmountType DEF Typed, PaymentsTypeOK
  <2>2. c = Max({m, n} \cup {k})
    BY <1>3 DEF ConfirmedAfter
  <2>. HIDE DEF m, n, k, c
  <2>3. c \in {m, n, k} /\ m <= c /\ n <= c /\ k <= c
    BY <1>1, <2>1, <2>2, MaxOfThree
  <2>4. c \in Nat
    BY <1>1, <2>1, <2>3
  <2>5. RefundedAfter(f) = Max({q, c})
    BY DEF RefundedAfter, c
  <2>. HIDE DEF q
  <2>6. RefundedAfter(f) \in {q, c} /\ q <= RefundedAfter(f) /\ c <= RefundedAfter(f)
    BY <1>2, <2>4, <2>5, MaxOfTwo
  <2>. QED BY <1>1, <1>2, <1>3, <2>1, <2>3, <2>4, <2>6 DEF m, n, k, c, q
<1>4. CASE ~(KnownRefund(f) /\ f.kind = "refund-succeeded")
  <2>2. c = Max({m, n})
    <3>1. {m, n} \cup {} = {m, n}
      OBVIOUS
    <3>. QED BY <1>4, <3>1 DEF ConfirmedAfter
  <2>. HIDE DEF m, n, k, c
  <2>3. c \in {m, n} /\ m <= c /\ n <= c
    BY <1>1, <2>2, MaxOfTwo
  <2>4. c \in Nat
    BY <1>1, <2>3
  <2>5. RefundedAfter(f) = Max({q, c})
    BY DEF RefundedAfter, c
  <2>. HIDE DEF q
  <2>6. RefundedAfter(f) \in {q, c} /\ q <= RefundedAfter(f) /\ c <= RefundedAfter(f)
    BY <1>2, <2>4, <2>5, MaxOfTwo
  <2>. QED BY <1>1, <1>2, <1>4, <2>3, <2>4, <2>6 DEF m, n, k, c, q
<1>. QED BY <1>3, <1>4

\* What a fact that is not rejected makes of the account of its payment.
LEMMA Accounting ==
  ASSUME PaymentsInv, NEW f \in VerifiedFact, Vouched(f), f.kind # "closed", ~Rejected(f)
  PROVE  /\ f.payment \in Payments
         /\ fact[f.payment] # NoFact => fact[f.payment].order = f.order
         /\ ConfirmedAfter(f) \in 0 .. Price /\ RefundedAfter(f) \in 0 .. Price
         /\ f.payment \in Txns => ConfirmedAfter(f) <= latest[f.payment].refunded
         /\ \A r \in Refunds : RefundAfter(f)[r].state = "succeeded" =>
              /\ accepted[r] = "succeeded"
              /\ refund[r].state # "succeeded" =>
                   /\ r = f.refund /\ refund[r].payment = f.payment
                   /\ f.kind = "refund-succeeded" /\ KnownRefund(f)
                   /\ 0 < ConfirmedAfter(f)
         /\ Amount(RefundAfter(f), SucceededOf(RefundAfter(f), f.payment)) <= ConfirmedAfter(f)
         /\ \A x \in Payments \ {f.payment} :
              SucceededOf(RefundAfter(f), x) = SucceededOf(refund, x)
<1>. DEFINE x == f.payment
            rs == RefundAfter(f)
            n == ConfirmedAfter(f)
<1>1. x \in Payments /\ PaymentsTypeOK /\ Typed(refund)
  BY DEF Vouched, PaymentsInv, PaymentsTypeOK, Typed
<1>2. fact[x] # NoFact => fact[x].order = f.order
  BY DEF Rejected, BelongsElsewhere
<1>3. /\ Typed(rs)
      /\ \A r \in Refunds :
           /\ rs[r].payment = refund[r].payment /\ rs[r].amount = refund[r].amount
           /\ refund[r].state = "succeeded" => rs[r] = refund[r]
           /\ rs[r].state = "succeeded" /\ refund[r].state # "succeeded" =>
                KnownRefund(f) /\ r = f.refund /\ f.kind = "refund-succeeded"
      /\ KnownRefund(f) /\ f.kind = "refund-succeeded" => rs[f.refund].state = "succeeded"
  <2>. HIDE DEF rs
  <2>. QED BY <1>1, RefundsAfter DEF rs
<1>4. n \in Nat /\ n <= Price /\ Price \in Nat
  <2>1. ~(n > Price)
    BY DEF Rejected
  <2>2. n \in Nat
    BY <1>1, ConfirmedIsMax
  <2>. HIDE DEF n
  <2>. QED BY <2>1, <2>2, PaymentsAssumption
<1>5. RefundedAfter(f) \in 0 .. Price
  <2>1. order[f.order].refunded \in 0 .. Price
    BY <1>1, FactTypes DEF PaymentsTypeOK, OrderRecord
  <2>2. RefundedAfter(f) \in {order[f.order].refunded, n}
    BY <1>1, ConfirmedIsMax
  <2>. HIDE DEF n
  <2>. QED BY <1>4, <2>1, <2>2
<1>6. KnownRefund(f) => refund[f.refund].payment = x
  BY DEF Rejected
<1>7. KnownRefund(f) /\ f.kind = "refund-succeeded" => accepted[f.refund] = "succeeded"
  BY DEF Vouched, KnownRefund
<1>8. \A r \in Refunds : rs[r].state = "succeeded" => accepted[r] = "succeeded"
  <2>. HIDE DEF rs
  <2>. QED BY <1>3, <1>7 DEF PaymentsInv, RefundSound
<1>9. SucceededOf(rs, x) \in SUBSET Refunds
  BY DEF SucceededOf
<1>10. Amount(rs, SucceededOf(rs, x)) = Amount(refund, SucceededOf(rs, x))
  <2>1. \A r \in SucceededOf(rs, x) : rs[r].amount = refund[r].amount
    <3>. HIDE DEF rs
    <3>. QED BY <1>3, <1>9
  <2>. QED BY <2>1, AmountSame
<1>11. Amount(rs, SucceededOf(rs, x)) <= n
  <2>1. CASE KnownRefund(f) /\ f.kind = "refund-succeeded"
    BY <1>1, <1>10, <2>1, ConfirmedIsMax
  <2>2. CASE ~(KnownRefund(f) /\ f.kind = "refund-succeeded")
    <3>1. \A r \in Refunds : rs[r].state = "succeeded" <=> refund[r].state = "succeeded"
      <4>. HIDE DEF rs
      <4>. QED BY <1>3, <2>2
    <3>2. SucceededOf(rs, x) = SucceededOf(refund, x)
      <4>. HIDE DEF rs
      <4>. QED BY <1>3, <3>1 DEF SucceededOf
    <3>3. CASE fact[x] # NoFact
      <4>1. Amount(refund, SucceededOf(refund, x)) <= fact[x].refunded
        BY <1>1, <3>3 DEF PaymentsInv, FactSound
      <4>2. Amount(refund, SucceededOf(refund, x)) \in Nat
        BY <1>1, <1>9, <3>2, AmountType
      <4>3. fact[x].refunded \in Nat /\ fact[x].refunded <= n
        BY <1>1, ConfirmedIsMax
      <4>. HIDE DEF n, rs, x
      <4>. QED BY <1>4, <1>10, <3>2, <4>1, <4>2, <4>3
    <3>4. CASE fact[x] = NoFact
      <4>1. SucceededOf(refund, x) = {}
        <5>. SUFFICES ASSUME NEW r \in Refunds, refund[r].payment = x, refund[r].state = "succeeded"
                      PROVE  FALSE
          BY DEF SucceededOf
        <5>1. refund[r] # NoRefund
          BY DEF NoRefund
        <5>. QED BY <3>4, <5>1 DEF PaymentsInv, RefundSound
      <4>. QED BY <1>4, <1>10, <3>2, <4>1, AmountOfNone
    <3>. QED BY <3>3, <3>4
  <2>. QED BY <2>1, <2>2
<1>12. ASSUME NEW r \in Refunds, rs[r].state = "succeeded", refund[r].state # "succeeded"
       PROVE  0 < n
  <2>. HIDE DEF rs, n, x
  <2>1. KnownRefund(f) /\ r = f.refund /\ refund[r] # NoRefund
    BY <1>3, <1>12 DEF KnownRefund, NoRefund
  <2>2. r \in SucceededOf(rs, x)
    BY <1>3, <1>6, <1>12, <2>1 DEF SucceededOf
  <2>3. rs[r].amount <= Amount(rs, SucceededOf(rs, x))
    BY <1>3, <1>9, <2>2, AmountCovers
  <2>4. rs[r].amount \in Nat /\ rs[r].amount >= 1
    BY <1>1, <1>3, <2>1, AmountsAreNumbers
  <2>5. Amount(rs, SucceededOf(rs, x)) \in Nat
    BY <1>3, <1>9, AmountType
  <2>. QED BY <1>4, <1>11, <2>3, <2>4, <2>5
<1>13. ASSUME NEW y \in Payments \ {x}
       PROVE  SucceededOf(rs, y) = SucceededOf(refund, y)
  <2>. HIDE DEF rs
  <2>. QED BY <1>3, <1>6, <1>13 DEF SucceededOf
<1>14. ASSUME x \in Txns
       PROVE  n <= latest[x].refunded
  <2>1. latest[x].refunded \in Nat /\ f.refunded <= latest[x].refunded /\ latest[x] # NoFact
    <3>1. latest[x] \in VerifiedFact \cup {NoFact}
      BY <1>1, <1>14 DEF PaymentsTypeOK
    <3>. QED BY <1>14, <3>1, FactTypes DEF Vouched, NoFact
  <2>2. fact[x].refunded <= latest[x].refunded
    <3>1. CASE fact[x] = NoFact
      BY <2>1, <3>1 DEF NoFact
    <3>2. CASE fact[x] # NoFact
      BY <1>1, <1>14, <3>2 DEF PaymentsInv, FactSound
    <3>. QED BY <3>1, <3>2
  <2>3. CASE n \in {fact[x].refunded, f.refunded}
    BY <2>1, <2>2, <2>3
  <2>4. CASE /\ KnownRefund(f) /\ f.kind = "refund-succeeded"
             /\ n = Amount(refund, SucceededOf(rs, x))
    <3>1. SucceededOf(rs, x) \subseteq PaidBack(x) /\ PaidBack(x) \in SUBSET Refunds
      <4>. HIDE DEF rs
      <4>. QED BY <1>3, <1>8 DEF SucceededOf, PaidBack
    <3>2. Amount(refund, SucceededOf(rs, x)) <= Amount(refund, PaidBack(x))
      <4>. HIDE DEF rs
      <4>. QED BY <1>1, <3>1, AmountMonotone
    <3>3. Amount(refund, PaidBack(x)) <= latest[x].refunded
      BY <1>14 DEF PaymentsInv, BookSound
    <3>4. Amount(refund, PaidBack(x)) \in Nat
      BY <1>1, <3>1, AmountType
    <3>. HIDE DEF rs, x
    <3>. QED BY <1>4, <2>1, <2>4, <3>2, <3>3, <3>4
  <2>5. \/ n \in {fact[x].refunded, f.refunded}
        \/ KnownRefund(f) /\ f.kind = "refund-succeeded" /\ n = Amount(refund, SucceededOf(rs, x))
    BY <1>1, ConfirmedIsMax
  <2>. QED BY <2>3, <2>4, <2>5
<1>15. \A r \in Refunds : rs[r].state = "succeeded" /\ refund[r].state # "succeeded" =>
          /\ r = f.refund /\ refund[r].payment = x
          /\ f.kind = "refund-succeeded" /\ KnownRefund(f)
  <2>. HIDE DEF rs
  <2>. QED BY <1>3, <1>6
<1>16. n \in 0 .. Price
  <2>. HIDE DEF n
  <2>. QED BY <1>4
<1>. HIDE DEF rs, n, x
<1>17. \A r \in Refunds : rs[r].state = "succeeded" =>
          /\ accepted[r] = "succeeded"
          /\ refund[r].state # "succeeded" =>
               /\ r = f.refund /\ refund[r].payment = x
               /\ f.kind = "refund-succeeded" /\ KnownRefund(f)
               /\ 0 < n
  BY <1>8, <1>12, <1>15
<1>. QED BY <1>1, <1>2, <1>5, <1>11, <1>13, <1>14, <1>16, <1>17 DEF rs, n, x

\* The account of a payment, and the order it pays, once a fact has been applied.
LEMMA FinancialFields ==
  ASSUME PaymentsInv, NEW f \in VerifiedFact, Vouched(f), f.kind # "closed", ~Rejected(f),
         NEW authoritative, ApplyFinancial(f, authoritative)
  PROVE  /\ refund' = RefundAfter(f)
         /\ fact' \in [Payments -> FactRecord] /\ fact'[f.payment] # NoFact
         /\ fact'[f.payment].order = f.order /\ fact'[f.payment].refunded = ConfirmedAfter(f)
         /\ \A x \in Payments \ {f.payment} : fact'[x] = fact[x]
         /\ order' \in [Orders -> OrderRecord]
         /\ order'[f.order].state = "paid" /\ order'[f.order].refunded = RefundedAfter(f)
         /\ \A p \in Orders \ {f.order} : order'[p] = order[p]
         /\ \A p \in Orders \ {f.order} : period'[p] = period[p]
         /\ \/ /\ Grants(f, authoritative) /\ period[f.order] = NoPeriod
               /\ RefundedAfter(f) = 0 /\ ~Unwelcome(f)
               /\ period'[f.order].status = "paid"
            \/ /\ period[f.order].status = "paid" /\ period'[f.order] = [period[f.order] EXCEPT !.status = "revoked"]
               /\ Withdraws(f) /\ ~Grants(f, authoritative)
            \/ /\ period'[f.order] = period[f.order] /\ ~Grants(f, authoritative)
               /\ period[f.order].status = "paid" => ~Withdraws(f)
         /\ queued' \subseteq queued
<1>. DEFINE x == f.payment
            o == f.order
            n == ConfirmedAfter(f)
            m == RefundedAfter(f)
            reconciliation == ReconciliationAfter(f, authoritative)
<1>1. PaymentsTypeOK /\ x \in Payments /\ o \in Orders
  BY FactTypes DEF PaymentsInv, Vouched
<1>2. n \in 0 .. Price /\ m \in 0 .. Price
  BY Accounting
<1>3. refund' = RefundAfter(f) /\ fact' = [fact EXCEPT ![x] = [order |-> o, refunded |-> n]]
  BY DEF ApplyFinancial
<1>4. order' = [order EXCEPT ![o].state = "paid", ![o].refunded = m,
                             ![o].reconciliation = reconciliation]
  BY DEF ApplyFinancial
<1>5. reconciliation \in {"none", "needs-review", "refund-required"}
  BY <1>1 DEF ReconciliationAfter, PaymentsTypeOK, OrderRecord
<1>6. /\ fact' \in [Payments -> FactRecord] /\ fact'[x] # NoFact
      /\ fact'[x].order = o /\ fact'[x].refunded = n
      /\ \A y \in Payments \ {x} : fact'[y] = fact[y]
  <2>. HIDE DEF x, o, n
  <2>1. fact \in [Payments -> FactRecord]
    BY <1>1 DEF PaymentsTypeOK
  <2>2. [order |-> o, refunded |-> n] \in FactRecord
    BY <1>1, <1>2 DEF FactRecord
  <2>3. fact'[x] = [order |-> o, refunded |-> n]
    BY <1>1, <1>3, <2>1
  <2>4. fact'[x].order # Nobody
    BY <1>1, <2>3, PaymentsAssumption
  <2>. QED BY <1>1, <1>3, <2>1, <2>2, <2>3, <2>4 DEF NoFact
<1>7. /\ order' \in [Orders -> OrderRecord]
      /\ order'[o].state = "paid" /\ order'[o].refunded = m
      /\ \A p \in Orders \ {o} : order'[p] = order[p]
  <2>. HIDE DEF o, m, reconciliation
  <2>1. order \in [Orders -> OrderRecord]
    BY <1>1 DEF PaymentsTypeOK
  <2>2. order'[o] = [order[o] EXCEPT !.state = "paid", !.refunded = m, !.reconciliation = reconciliation]
    BY <1>1, <1>4, <2>1
  <2>3. order[o] \in OrderRecord
    BY <1>1, <2>1
  <2>4. order'[o] \in OrderRecord /\ order'[o].state = "paid" /\ order'[o].refunded = m
    BY <1>2, <1>5, <2>2, <2>3 DEF OrderRecord, OrderStates
  <2>5. \A p \in Orders \ {o} : order'[p] = order[p]
    BY <1>4, <2>1
  <2>6. DOMAIN order' = Orders /\ order' = [p \in Orders |-> order'[p]]
    BY <1>4, <2>1
  <2>. QED BY <2>1, <2>4, <2>5, <2>6
<1>8. period \in [Orders -> PeriodRecord]
  BY <1>1 DEF PaymentsTypeOK
<1>9. CASE Grants(f, authoritative)
  <2>1. period' = [period EXCEPT ![o] = PlacedPeriod(o)] /\ queued' = queued
    BY <1>9 DEF ApplyFinancial
  <2>2. period[o] = NoPeriod /\ m = 0 /\ ~Unwelcome(f)
    BY <1>9 DEF Grants, Buys
  <2>3. period'[o] = PlacedPeriod(o) /\ \A p \in Orders \ {o} : period'[p] = period[p]
    BY <1>1, <1>8, <2>1
  <2>4. PlacedPeriod(o).status = "paid"
    BY DEF PlacedPeriod
  <2>. HIDE DEF x, o, n, m
  <2>. QED BY <1>3, <1>6, <1>7, <1>9, <2>1, <2>2, <2>3, <2>4 DEF x, o, n, m
<1>10. CASE ~Grants(f, authoritative) /\ Withdraws(f) /\ period[o].status = "paid"
  <2>1. period' = [period EXCEPT ![o].status = "revoked"] /\ queued' = queued \ {o}
    BY <1>10 DEF ApplyFinancial, RevokePeriod
  <2>2. /\ period'[o] = [period[o] EXCEPT !.status = "revoked"]
        /\ \A p \in Orders \ {o} : period'[p] = period[p]
    BY <1>1, <1>8, <2>1
  <2>. HIDE DEF x, o, n, m
  <2>. QED BY <1>3, <1>6, <1>7, <1>10, <2>1, <2>2 DEF x, o, n, m
<1>11. CASE ~Grants(f, authoritative) /\ ~(Withdraws(f) /\ period[o].status = "paid")
  <2>1. period' = period /\ queued' = queued
    BY <1>11 DEF ApplyFinancial, RevokePeriod
  <2>. HIDE DEF x, o, n, m
  <2>. QED BY <1>3, <1>6, <1>7, <1>11, <2>1 DEF x, o, n, m
<1>. QED BY <1>9, <1>10, <1>11

\* What the provider says only grows, and a refund asked for stays as it was asked for.
Continued ==
  /\ \A r \in Refunds : refund[r] # NoRefund =>
       /\ refund'[r] # NoRefund /\ refund'[r].payment = refund[r].payment
       /\ refund'[r].amount = refund[r].amount
  /\ \A r \in Refunds : accepted[r] = "succeeded" => accepted'[r] = "succeeded"
  /\ \A x \in Txns : latest[x] # NoFact =>
       latest'[x] # NoFact /\ latest[x].refunded <= latest'[x].refunded

LedgerSound ==
  /\ order \in [Orders -> OrderRecord]
  /\ fact \in [Payments -> FactRecord]
  /\ refund \in [Refunds -> RefundRecord]
  /\ \A r \in Refunds : RefundSound(r)
  /\ \A x \in Payments : FactSound(x)
  /\ \A o \in Orders : OrderSound(o)

\* Applying what was vouched for keeps the ledger sound, whatever it is and
\* whenever it comes.
LEMMA FinancialKeepsLedger ==
  ASSUME PaymentsInv, NEW f \in VerifiedFact, Vouched(f), f.kind # "closed", ~Rejected(f),
         NEW authoritative, ApplyFinancial(f, authoritative), UNCHANGED <<latest, accepted>>
  PROVE  LedgerSound' /\ Continued
<1>. DEFINE x == f.payment
            o == f.order
            n == ConfirmedAfter(f)
            m == RefundedAfter(f)
            rs == RefundAfter(f)
<1>1. /\ PaymentsTypeOK /\ Typed(refund) /\ o \in Orders
      /\ \A p \in Orders : OrderSound(p)
      /\ \A y \in Payments : FactSound(y)
      /\ \A r \in Refunds : RefundSound(r)
  BY FactTypes DEF PaymentsInv, PaymentsTypeOK, Typed
<1>2. /\ x \in Payments /\ (fact[x] # NoFact => fact[x].order = o)
      /\ n \in 0 .. Price /\ m \in 0 .. Price
      /\ x \in Txns => n <= latest[x].refunded /\ o = OrderOf[x] /\ latest[x] # NoFact
      /\ \A r \in Refunds : rs[r].state = "succeeded" =>
              /\ accepted[r] = "succeeded"
              /\ refund[r].state # "succeeded" =>
                   /\ r = f.refund /\ refund[r].payment = x
                   /\ f.kind = "refund-succeeded" /\ KnownRefund(f)
      /\ Amount(rs, SucceededOf(rs, x)) <= n
      /\ \A y \in Payments \ {x} : SucceededOf(rs, y) = SucceededOf(refund, y)
  BY Accounting DEF Vouched
<1>3. /\ Typed(rs)
      /\ \A r \in Refunds :
           /\ rs[r] # NoRefund <=> refund[r] # NoRefund
           /\ rs[r].payment = refund[r].payment
           /\ rs[r].amount = refund[r].amount /\ rs[r].action = refund[r].action
  <2>. HIDE DEF rs
  <2>. QED BY <1>1, RefundsAfter DEF rs
<1>4. n <= m /\ order[o].refunded <= m /\ order[o].refunded \in Nat /\ m \in {order[o].refunded, n}
  BY <1>1, <1>2, ConfirmedIsMax
<1>5. /\ refund' = rs
      /\ fact' \in [Payments -> FactRecord] /\ fact'[x] # NoFact
      /\ fact'[x].order = o /\ fact'[x].refunded = n
      /\ \A y \in Payments \ {x} : fact'[y] = fact[y]
      /\ order' \in [Orders -> OrderRecord]
      /\ order'[o].state = "paid" /\ order'[o].refunded = m
      /\ \A p \in Orders \ {o} : order'[p] = order[p] /\ period'[p] = period[p]
  BY FinancialFields
<1>6. \/ /\ m = 0 /\ ~Unwelcome(f) /\ period'[o].status = "paid"
      \/ /\ period'[o] = [period[o] EXCEPT !.status = "revoked"]
      \/ /\ period'[o] = period[o]
         /\ period[o].status = "paid" => ~Withdraws(f)
  BY FinancialFields
<1>7. \A y \in Payments : fact[y] # NoFact => fact[y].order \in Orders /\ fact[y].refunded \in Nat
  BY <1>1, PaymentsAssumption DEF PaymentsTypeOK, FactRecord
<1>8. \A p \in Orders : order[p].refunded \in Nat
  BY <1>1, PaymentsAssumption DEF PaymentsTypeOK, OrderRecord
<1>9. period[o] \in PeriodRecord
  BY <1>1 DEF PaymentsTypeOK
<1>10. Continued
  <2>. HIDE DEF rs
  <2>1. \A y \in Txns : latest[y].refunded \in Nat
    BY <1>1, FactTypes DEF PaymentsTypeOK, NoFact
  <2>. QED BY <1>3, <1>5, <2>1 DEF Continued
<1>11. KnownRefund(f) /\ f.kind = "refund-succeeded" /\ ~Withdraws(f) => refund[f.refund].action # "revoke"
  BY DEF Withdraws
<1>12. ~Withdraws(f) => n = 0 \/ n < Price
  <2>1. ~Withdraws(f) => ~(Price > 0 /\ n = Price)
    BY DEF Withdraws
  <2>. HIDE DEF n
  <2>. QED BY <1>2, <2>1, PaymentsAssumption
<1>13. ~Unwelcome(f) => \A y \in Payments \ {x} : fact[y].order # o
  BY DEF Unwelcome
<1>. HIDE DEF x, o, n, m, rs
<1>14. ASSUME NEW r \in Refunds
       PROVE  RefundSound(r)'
  <2>1. refund'[r] # NoRefund => refund[r].payment \in Txns /\ fact[refund[r].payment] # NoFact
    BY <1>1, <1>3, <1>5 DEF RefundSound
  <2>2. refund'[r] # NoRefund => refund'[r].payment \in Txns /\ fact'[refund'[r].payment] # NoFact
    BY <1>3, <1>5, <2>1 DEF Payments
  <2>. QED BY <1>1, <1>2, <1>3, <1>5, <2>2 DEF RefundSound
<1>15. ASSUME NEW y \in Payments
       PROVE  FactSound(y)'
  <2>1. CASE y = x
    BY <1>2, <1>4, <1>5, <2>1 DEF FactSound
  <2>2. CASE y # x /\ fact[y] # NoFact
    <3>1. SucceededOf(refund, y)' = SucceededOf(refund, y)
      BY <1>2, <1>5, <2>2 DEF SucceededOf
    <3>2. Amount(refund', SucceededOf(refund, y)) = Amount(refund, SucceededOf(refund, y))
      <4>1. \A r \in SucceededOf(refund, y) : refund'[r].amount = refund[r].amount
        BY <1>3, <1>5 DEF SucceededOf
      <4>. QED BY <4>1, AmountSame
    <3>3. Amount(refund, SucceededOf(refund, y))' = Amount(refund, SucceededOf(refund, y))
      BY <3>1, <3>2
    <3>4. order[fact[y].order].refunded <= order'[fact[y].order].refunded
      BY <1>4, <1>5, <1>7, <1>8, <2>2
    <3>5. fact'[y] = fact[y] /\ fact[y].refunded \in Nat /\ fact[y].order \in Orders
      BY <1>5, <1>7, <2>2
    <3>6. fact[y].refunded <= order[fact[y].order].refunded
      BY <1>1, <2>2 DEF FactSound
    <3>7. order[fact[y].order].refunded \in Nat /\ order'[fact[y].order].refunded \in Nat
      BY <1>5, <1>8, <3>5, PaymentsAssumption DEF OrderRecord
    <3>8. fact[y].refunded <= order'[fact[y].order].refunded
      BY <3>4, <3>5, <3>6, <3>7
    <3>. QED BY <1>1, <2>2, <3>3, <3>5, <3>8 DEF FactSound
  <2>3. CASE y # x /\ fact[y] = NoFact
    BY <1>5, <2>3 DEF FactSound
  <2>. QED BY <2>1, <2>2, <2>3
<1>16. ASSUME NEW p \in Orders, p # o
       PROVE  OrderSound(p)'
  <2>1. order'[p] = order[p] /\ period'[p] = period[p] /\ OrderSound(p)
    BY <1>1, <1>5, <1>16
  <2>2. \A y \in Payments : fact[y].order = p => fact'[y].order = p
    <3>1. fact[x].order = p => fact[x] # NoFact
      BY PaymentsAssumption DEF NoFact
    <3>. QED BY <1>2, <1>5, <1>16, <3>1
  <2>3. ASSUME NEW r \in Refunds, rs[r].state = "succeeded", fact'[rs[r].payment].order = p
        PROVE  refund[r].state = "succeeded" /\ fact[refund[r].payment].order = p
    <3>1. refund'[r] # NoRefund
      BY <1>5, <2>3 DEF NoRefund
    <3>2. refund[r].payment \in Txns
      BY <1>1, <1>3, <1>5, <3>1 DEF RefundSound
    <3>3. refund[r].payment # x
      BY <1>3, <1>5, <1>16, <2>3
    <3>. QED BY <1>2, <1>3, <1>5, <2>3, <3>2, <3>3 DEF Payments
  <2>. QED BY <1>3, <1>5, <2>1, <2>2, <2>3 DEF OrderSound
<1>17. OrderSound(o)'
  <2>1. \E y \in Payments : fact'[y].order = o
    BY <1>2, <1>5
  <2>2. ASSUME period'[o].status = "paid"
        PROVE  order'[o].refunded = 0 \/ order'[o].refunded < Price
    <3>1. CASE m = 0
      BY <1>5, <3>1
    <3>2. CASE period'[o] = [period[o] EXCEPT !.status = "revoked"]
      BY <1>9, <2>2, <3>2 DEF PeriodRecord
    <3>3. CASE period[o].status = "paid" /\ ~Withdraws(f)
      <4>1. order[o].refunded = 0 \/ order[o].refunded < Price
        BY <1>1, <3>3 DEF OrderSound
      <4>. QED BY <1>4, <1>5, <1>12, <3>3, <4>1
    <3>. QED BY <1>6, <2>2, <3>1, <3>2, <3>3
  <2>3. ASSUME period'[o].status = "paid", NEW r \in Refunds,
               rs[r].state = "succeeded", fact'[rs[r].payment].order = o
        PROVE  rs[r].action = "retain"
    <3>1. refund[r] # NoRefund /\ rs[r] # NoRefund
      BY <1>3, <2>3 DEF NoRefund
    <3>2. refund[r].payment \in Txns /\ fact[refund[r].payment] # NoFact
      BY <1>1, <3>1 DEF RefundSound
    <3>3. CASE m = 0 /\ ~Unwelcome(f)
      <4>1. refund[r].payment = x
        BY <1>3, <1>5, <1>13, <2>3, <3>2, <3>3 DEF Payments
      <4>2. r \in SucceededOf(rs, x) /\ SucceededOf(rs, x) \in SUBSET Refunds
        BY <1>3, <2>3, <4>1 DEF SucceededOf
      <4>3. rs[r].amount <= Amount(rs, SucceededOf(rs, x)) /\ Amount(rs, SucceededOf(rs, x)) \in Nat
        BY <1>3, <4>2, AmountCovers, AmountType
      <4>4. rs[r].amount \in Nat /\ rs[r].amount >= 1
        BY <1>3, <3>1, AmountsAreNumbers
      <4>. QED BY <1>2, <1>4, <3>3, <4>3, <4>4
    <3>4. CASE period'[o] = [period[o] EXCEPT !.status = "revoked"]
      BY <1>9, <2>3, <3>4 DEF PeriodRecord
    <3>5. CASE period[o].status = "paid" /\ ~Withdraws(f)
      <4>1. CASE refund[r].state = "succeeded"
        <5>1. fact[refund[r].payment].order = o
          BY <1>2, <1>3, <1>5, <2>3, <3>2 DEF Payments
        <5>. QED BY <1>1, <1>3, <3>5, <4>1, <5>1 DEF OrderSound
      <4>2. CASE refund[r].state # "succeeded"
        <5>1. r = f.refund /\ f.kind = "refund-succeeded" /\ KnownRefund(f)
          BY <1>2, <2>3, <4>2
        <5>2. refund[r].action \in {"revoke", "retain"}
          BY <1>1, <3>1, AmountsAreNumbers
        <5>. QED BY <1>3, <1>11, <3>5, <5>1, <5>2
      <4>. QED BY <4>1, <4>2
    <3>. QED BY <1>6, <2>3, <3>3, <3>4, <3>5
  <2>. QED BY <1>5, <2>1, <2>2, <2>3 DEF OrderSound
<1>18. refund' \in [Refunds -> RefundRecord]
  BY <1>3, <1>5 DEF Typed
<1>. QED BY <1>5, <1>10, <1>14, <1>15, <1>16, <1>17, <1>18 DEF LedgerSound

LEMMA TypedBooks ==
  ASSUME PaymentsTypeOK
  PROVE  /\ Typed(refund) /\ Price \in Nat
         /\ \A x \in Txns : latest[x].refunded \in Nat
         /\ \A x \in Payments : fact[x] # NoFact =>
              fact[x].order \in Orders /\ fact[x].order # Nobody /\ fact[x].refunded \in Nat
         /\ \A o \in Orders : order[o].refunded \in Nat
<1>1. \A x \in Txns : latest[x].refunded \in Nat
  BY FactTypes DEF PaymentsTypeOK, NoFact
<1>2. \A x \in Payments : fact[x] # NoFact =>
        fact[x].order \in Orders /\ fact[x].order # Nobody /\ fact[x].refunded \in Nat
  BY PaymentsAssumption DEF PaymentsTypeOK, FactRecord
<1>3. \A o \in Orders : order[o].refunded \in Nat
  BY PaymentsAssumption DEF PaymentsTypeOK, OrderRecord
<1>. QED BY <1>1, <1>2, <1>3, PaymentsAssumption DEF Typed, PaymentsTypeOK

\* Where neither the facts nor the refunds nor the periods change, orders may
\* change in all but what was paid and refunded.
LEMMA OrdersKeepLedger ==
  ASSUME PaymentsInv, order' \in [Orders -> OrderRecord],
         \A o \in Orders : /\ order'[o].refunded = order[o].refunded
                           /\ order[o].state = "paid" => order'[o].state = "paid",
         UNCHANGED <<fact, refund, period, latest, accepted>>
  PROVE  LedgerSound' /\ Continued
<1>1. PaymentsTypeOK
  BY DEF PaymentsInv
<1>2. Continued
  BY <1>1, TypedBooks DEF Continued
<1>3. \A r \in Refunds : RefundSound(r)'
  BY DEF PaymentsInv, RefundSound
<1>4. ASSUME NEW x \in Payments
      PROVE  FactSound(x)'
  <2>1. Amount(refund, SucceededOf(refund, x))' = Amount(refund, SucceededOf(refund, x))
    BY DEF Amount, SucceededOf
  <2>2. FactSound(x)
    BY DEF PaymentsInv
  <2>3. fact[x] # NoFact => order'[fact[x].order].refunded = order[fact[x].order].refunded
    BY <1>1, TypedBooks
  <2>. QED BY <2>1, <2>2, <2>3 DEF FactSound
<1>5. ASSUME NEW o \in Orders
      PROVE  OrderSound(o)'
  BY DEF PaymentsInv, OrderSound
<1>. QED BY <1>1, <1>2, <1>3, <1>4, <1>5 DEF LedgerSound, PaymentsTypeOK

\* Where nothing else of the ledger changes, refunds may be asked for and change in
\* all but what succeeded.
LEMMA RefundsKeepLedger ==
  ASSUME PaymentsInv, refund' \in [Refunds -> RefundRecord],
         \A r \in Refunds :
           /\ refund[r] # NoRefund =>
                /\ refund'[r] # NoRefund /\ refund'[r].payment = refund[r].payment
                /\ refund'[r].amount = refund[r].amount
           /\ refund'[r].state = "succeeded" \/ refund[r].state = "succeeded" =>
                refund'[r] = refund[r]
           /\ refund'[r] # NoRefund =>
                refund'[r].payment \in Txns /\ fact[refund'[r].payment] # NoFact,
         UNCHANGED <<order, fact, period, latest, accepted>>
  PROVE  LedgerSound' /\ Continued
<1>1. PaymentsTypeOK
  BY DEF PaymentsInv
<1>2. Continued
  BY <1>1, TypedBooks DEF Continued
<1>3. \A r \in Refunds : RefundSound(r)'
  BY DEF PaymentsInv, RefundSound
<1>4. ASSUME NEW x \in Payments
      PROVE  FactSound(x)'
  <2>1. SucceededOf(refund, x)' = SucceededOf(refund, x)
    BY DEF SucceededOf
  <2>2. \A r \in SucceededOf(refund, x) : refund'[r].amount = refund[r].amount
    BY DEF SucceededOf
  <2>3. Amount(refund', SucceededOf(refund, x)) = Amount(refund, SucceededOf(refund, x))
    BY <2>2, AmountSame
  <2>4. Amount(refund, SucceededOf(refund, x))' = Amount(refund, SucceededOf(refund, x))
    BY <2>1, <2>3
  <2>5. FactSound(x)
    BY DEF PaymentsInv
  <2>. QED BY <2>4, <2>5 DEF FactSound
<1>5. ASSUME NEW o \in Orders
      PROVE  OrderSound(o)'
  BY DEF PaymentsInv, OrderSound
<1>. QED BY <1>1, <1>2, <1>3, <1>4, <1>5 DEF LedgerSound, PaymentsTypeOK

\* The provider's steps leave the ledger as it is, and sound.
LEMMA ProviderKeepsLedger ==
  ASSUME PaymentsInv, Continued, latest' \in [Txns -> VerifiedFact \cup {NoFact}],
         \A r \in Refunds : accepted'[r] # "none" => refund[r] # NoRefund,
         UNCHANGED <<order, fact, refund, period>>
  PROVE  LedgerSound'
<1>1. PaymentsTypeOK
  BY DEF PaymentsInv
<1>2. \A x \in Txns : latest'[x].refunded \in Nat
  BY FactTypes DEF NoFact
<1>3. \A r \in Refunds : RefundSound(r)'
  BY DEF PaymentsInv, RefundSound, Continued
<1>4. ASSUME NEW x \in Payments
      PROVE  FactSound(x)'
  <2>1. Amount(refund, SucceededOf(refund, x))' = Amount(refund, SucceededOf(refund, x))
    BY DEF Amount, SucceededOf
  <2>2. FactSound(x)
    BY DEF PaymentsInv
  <2>3. x \in Txns /\ fact[x] # NoFact =>
          /\ fact[x].refunded \in Nat /\ fact[x].refunded <= latest[x].refunded
          /\ latest[x].refunded \in Nat /\ latest[x].refunded <= latest'[x].refunded
          /\ latest'[x].refunded \in Nat /\ latest'[x] # NoFact
    BY <1>1, <1>2, <2>2, TypedBooks DEF FactSound, Continued
  <2>. QED BY <2>1, <2>2, <2>3 DEF FactSound
<1>5. ASSUME NEW o \in Orders
      PROVE  OrderSound(o)'
  BY DEF PaymentsInv, OrderSound
<1>. QED BY <1>1, <1>3, <1>4, <1>5 DEF LedgerSound, PaymentsTypeOK

LEMMA ApplyKeepsLedger ==
  ASSUME PaymentsInv, NEW f \in VerifiedFact, Vouched(f), NEW via, NEW authoritative,
         Apply(f, via, authoritative), UNCHANGED <<latest, accepted>>
  PROVE  /\ LedgerSound' /\ Continued
         /\ events' \subseteq events \cup {Event(f, via)} /\ queued' \subseteq queued
<1>1. CASE UNCHANGED ledgerVars
  <2>1. order' \in [Orders -> OrderRecord]
    BY <1>1 DEF ledgerVars, PaymentsInv, PaymentsTypeOK
  <2>2. UNCHANGED <<order, fact, refund, period, events, queued>>
    BY <1>1 DEF ledgerVars
  <2>. QED BY <2>1, <2>2, OrdersKeepLedger
<1>2. CASE ApplyClosed(f) /\ events' = events \cup {Event(f, via)}
  <2>1. order \in [Orders -> OrderRecord] /\ f.order \in Orders
    BY FactTypes DEF PaymentsInv, PaymentsTypeOK
  <2>2. /\ order' \in [Orders -> OrderRecord]
        /\ \A o \in Orders : /\ order'[o].refunded = order[o].refunded
                             /\ order[o].state = "paid" => order'[o].state = "paid"
    <3>1. CASE order' = order
      BY <2>1, <3>1
    <3>2. CASE order[f.order].state # "paid" /\ order' = [order EXCEPT ![f.order].state = "closed"]
      <4>1. "closed" \in OrderStates
        BY DEF OrderStates
      <4>. QED BY <2>1, <3>2, <4>1 DEF OrderRecord
    <3>. QED BY <1>2, <3>1, <3>2 DEF ApplyClosed
  <2>3. UNCHANGED <<fact, refund, period, queued>>
    BY <1>2 DEF ApplyClosed
  <2>. QED BY <1>2, <2>2, <2>3, OrdersKeepLedger
<1>3. CASE /\ f.kind # "closed" /\ ~Rejected(f) /\ ApplyFinancial(f, authoritative)
           /\ events' = events \cup {Event(f, via)}
  BY <1>3, FinancialKeepsLedger, FinancialFields
<1>. QED BY <1>1, <1>2, <1>3 DEF Apply

-----------------------------------------------------------------------------
(* What a step leaves true of the provider and of the calls.                *)

Accounts == latest \in [Txns -> VerifiedFact \cup {NoFact}]

Surroundings ==
  /\ period \in [Orders -> PeriodRecord]
  /\ \A e \in events : e.fact \in VerifiedFact /\ e.via \in {"webhook", "query", "operator"}
  /\ queued \subseteq Orders /\ serving \subseteq Tenants /\ expired \subseteq Orders
  /\ now \in 0 .. MaxNow
  /\ placements \in [Orders -> Nat] /\ closed \subseteq Orders
  /\ Accounts
  /\ accepted \in [Refunds -> {"none", "processing", "succeeded", "failed"}]
  /\ told \subseteq VerifiedFact

ProviderSound ==
  /\ \A f \in told : Vouched(f)
  /\ \A x \in Txns : BookSound(x)

CallsSound ==
  /\ call \in [Callers -> CallRecord]
  /\ \A c \in Callers : CallSound(c)
  /\ \A c, d \in Callers : At(c, "refund") /\ At(d, "refund") /\ call[c].refund = call[d].refund
                             => c = d

LEMMA Parts == PaymentsInv <=> LedgerSound /\ Surroundings /\ ProviderSound /\ CallsSound
BY DEF PaymentsInv, PaymentsTypeOK, LedgerSound, Surroundings, ProviderSound, CallsSound, Accounts

LEMMA PartsAfter ==
  ASSUME LedgerSound', Surroundings', ProviderSound', CallsSound'
  PROVE  PaymentsInv'
BY DEF PaymentsInv, PaymentsTypeOK, LedgerSound, Surroundings, ProviderSound, CallsSound, Accounts

LEMMA StaysVouched ==
  ASSUME PaymentsInv, Continued, Accounts', NEW f \in VerifiedFact, Vouched(f)
  PROVE  Vouched(f)'
<1>1. f.payment \in Txns => f.refunded <= latest'[f.payment].refunded /\ latest'[f.payment] # NoFact
  <2>1. \A x \in Txns : latest'[x].refunded \in Nat
    BY FactTypes DEF Accounts, NoFact
  <2>2. \A x \in Txns : latest[x].refunded \in Nat
    BY TypedBooks DEF PaymentsInv
  <2>. QED BY <2>1, <2>2, FactTypes DEF Vouched, Continued
<1>. QED BY <1>1 DEF Vouched, Continued

\* Where the provider stands still its books stay sound.
LEMMA BooksStay ==
  ASSUME PaymentsInv, Continued, UNCHANGED <<latest, accepted, told>>
  PROVE  ProviderSound'
<1>1. PaymentsTypeOK /\ Accounts /\ Accounts'
  BY DEF PaymentsInv, PaymentsTypeOK, Accounts
<1>2. ASSUME NEW f \in told
      PROVE  Vouched(f)'
  <2>1. f \in VerifiedFact /\ Vouched(f)
    BY <1>1 DEF PaymentsInv, PaymentsTypeOK
  <2>. QED BY <1>1, <2>1, StaysVouched
<1>3. ASSUME NEW x \in Txns
      PROVE  BookSound(x)'
  <2>1. BookSound(x)
    BY DEF PaymentsInv
  <2>2. \A r \in Refunds : accepted[r] # "none" =>
          refund'[r].payment = refund[r].payment /\ refund'[r].amount = refund[r].amount
    BY DEF Continued, PaymentsInv, RefundSound
  <2>3. Processing(x)' = Processing(x) /\ PaidBack(x)' = PaidBack(x)
    BY <2>2 DEF Processing, PaidBack
  <2>4. /\ \A r \in Processing(x) : refund'[r].amount = refund[r].amount
        /\ \A r \in PaidBack(x) : refund'[r].amount = refund[r].amount
    BY <2>2 DEF Processing, PaidBack
  <2>5. /\ Amount(refund', Processing(x)) = Amount(refund, Processing(x))
        /\ Amount(refund', PaidBack(x)) = Amount(refund, PaidBack(x))
    BY <2>4, AmountSame
  <2>6. /\ Amount(refund, Processing(x))' = Amount(refund, Processing(x))
        /\ Amount(refund, PaidBack(x))' = Amount(refund, PaidBack(x))
    BY <2>3, <2>5
  <2>7. latest[x] # NoFact => Vouched(latest[x])' /\ latest[x].payment = x
    <3>. SUFFICES ASSUME latest[x] # NoFact
                  PROVE  Vouched(latest[x])' /\ latest[x].payment = x
      OBVIOUS
    <3>1. latest[x] \in VerifiedFact /\ Vouched(latest[x]) /\ latest[x].payment = x
      BY <1>1, <2>1 DEF BookSound, Accounts
    <3>2. PICK g \in VerifiedFact : g = latest[x]
      BY <3>1
    <3>3. Vouched(g)'
      BY <1>1, <3>1, <3>2, StaysVouched
    <3>. QED BY <3>1, <3>2, <3>3 DEF Vouched
  <2>. QED BY <2>1, <2>6, <2>7 DEF BookSound
<1>. QED BY <1>2, <1>3 DEF ProviderSound

\* A caller's call is, after the step, one it may make.
Sound(c) ==
  /\ call'[c] \in CallRecord
  /\ CallSound(c)'
  /\ At(c, "refund")' => \A d \in Callers \ {c} : At(d, "refund") => call[d].refund # call'[c].refund

Waiting(d) == At(d, "refund") => accepted'[call[d].refund] = "none"

LEMMA OtherCallsStay ==
  ASSUME PaymentsInv, Continued, Accounts', NEW d \in Callers, call'[d] = call[d], Waiting(d)
  PROVE  Sound(d)
<1>1. call[d] \in CallRecord /\ CallSound(d)
  BY DEF PaymentsInv, PaymentsTypeOK
<1>2. \A f \in call[d].facts : f \in VerifiedFact /\ Vouched(f)
  BY <1>1 DEF CallRecord, CallSound
<1>3. \A f \in call[d].facts : Vouched(f)'
  BY <1>2, StaysVouched
<1>4. CallSound(d)'
  BY <1>1, <1>3 DEF CallSound, Continued, Waiting, At
<1>5. At(d, "refund")' => \A c \in Callers \ {d} : At(c, "refund") => call[c].refund # call'[d].refund
  BY DEF At, PaymentsInv
<1>. QED BY <1>1, <1>4, <1>5 DEF Sound

LEMMA CallsMove ==
  ASSUME PaymentsInv, Continued, Accounts', NEW c \in Callers, NEW new,
         call' = [call EXCEPT ![c] = new], Sound(c),
         \A d \in Callers \ {c} : Waiting(d)
  PROVE  CallsSound'
<1>1. call \in [Callers -> CallRecord]
  BY DEF PaymentsInv, PaymentsTypeOK
<1>2. /\ DOMAIN call' = Callers /\ call' = [d \in Callers |-> call'[d]]
      /\ \A d \in Callers \ {c} : call'[d] = call[d]
  BY <1>1
<1>3. \A d \in Callers : Sound(d)
  BY <1>2, OtherCallsStay
<1>4. call' \in [Callers -> CallRecord]
  BY <1>2, <1>3 DEF Sound
<1>5. ASSUME NEW d \in Callers, NEW e \in Callers, At(d, "refund")', At(e, "refund")',
             call'[d].refund = call'[e].refund
      PROVE  d = e
  <2>1. CASE d = c
    BY <1>2, <1>3, <1>5, <2>1 DEF Sound, At
  <2>2. CASE e = c
    BY <1>2, <1>3, <1>5, <2>2 DEF Sound, At
  <2>3. CASE d # c /\ e # c
    BY <1>2, <1>5, <2>3 DEF PaymentsInv, At
  <2>. QED BY <2>1, <2>2, <2>3
<1>. QED BY <1>3, <1>4, <1>5 DEF CallsSound, Sound

LEMMA CallsRest ==
  ASSUME PaymentsInv, Continued, Accounts', call' = call, \A d \in Callers : Waiting(d)
  PROVE  CallsSound'
<1>1. call \in [Callers -> CallRecord]
  BY DEF PaymentsInv, PaymentsTypeOK
<1>2. \A d \in Callers : Sound(d)
  BY OtherCallsStay
<1>. QED BY <1>1, <1>2 DEF CallsSound, Sound, PaymentsInv, At

LEMMA AcceptedWaits ==
  ASSUME PaymentsInv, accepted' = accepted
  PROVE  \A d \in Callers : Waiting(d)
BY DEF PaymentsInv, CallSound, Waiting, At

\* A call that ends is sound, and so is one that begins as it should.
LEMMA ReturnSound ==
  ASSUME PaymentsInv, Continued, Accounts', NEW c \in Callers, Return(c), accepted' = accepted
  PROVE  CallsSound'
<1>1. NoCall \in CallRecord
  BY DEF NoCall, CallRecord, PCs, Answers
<1>2. call' = [call EXCEPT ![c] = NoCall] /\ call'[c] = NoCall
  BY DEF Return, PaymentsInv, PaymentsTypeOK
<1>3. Sound(c)
  BY <1>1, <1>2 DEF Sound, CallSound, At, NoCall
<1>. QED BY <1>2, <1>3, CallsMove, AcceptedWaits

LEMMA EnterSound ==
  ASSUME PaymentsInv, Continued, Accounts', NEW c \in Callers, NEW pc \in PCs,
         NEW o \in Orders \cup {Nobody}, NEW r \in Refunds \cup {Nobody},
         Enter(c, pc, o, r), accepted' = accepted,
         pc \notin {"placed", "refundSent", "refundSeen"},
         pc \in {"submit", "ask", "seen"} => o \in Orders,
         pc \in {"refund", "askRefund"} => r \in Refunds /\ refund'[r] # NoRefund,
         pc = "refund" => /\ accepted[r] = "none"
                          /\ \A d \in Callers : At(d, "refund") => call[d].refund # r
  PROVE  CallsSound'
<1>. DEFINE new == [NoCall EXCEPT !.pc = pc, !.order = o, !.refund = r]
<1>1. new \in CallRecord /\ new.facts = {} /\ new.pc = pc /\ new.order = o /\ new.refund = r
  BY DEF NoCall, CallRecord, Answers
<1>2. call' = [call EXCEPT ![c] = new]
  BY DEF Enter
<1>. HIDE DEF new
<1>3. call'[c] = new
  BY <1>2 DEF PaymentsInv, PaymentsTypeOK
<1>4. Sound(c)
  BY <1>1, <1>3 DEF Sound, CallSound, At
<1>. QED BY <1>2, <1>4, CallsMove, AcceptedWaits

LEMMA ProceedSound ==
  ASSUME PaymentsInv, Continued, Accounts', NEW c \in Callers, NEW pc \in PCs,
         NEW answer \in Answers, Proceed(c, pc, answer),
         \A d \in Callers \ {c} : Waiting(d),
         pc \in {"submit", "placed", "seen", "refundSent", "refundSeen"},
         pc \in {"submit", "placed", "seen"} => call[c].order \in Orders,
         pc \in {"refundSent", "refundSeen"} =>
           call[c].refund \in Refunds /\ refund[call[c].refund] # NoRefund,
         pc = "placed" => answer \in {"accepted", "unknown"},
         pc \in {"refundSent", "refundSeen"} =>
           answer \in {"submitted", "processing", "unknown", "failed"}
  PROVE  CallsSound'
<1>. DEFINE new == [call[c] EXCEPT !.pc = pc, !.answer = answer]
<1>1. call[c] \in CallRecord /\ CallSound(c)
  BY DEF PaymentsInv, PaymentsTypeOK
<1>2. /\ new \in CallRecord /\ new.facts = call[c].facts /\ new.pc = pc
      /\ new.order = call[c].order /\ new.refund = call[c].refund /\ new.answer = answer
  BY <1>1 DEF CallRecord
<1>3. call' = [call EXCEPT ![c] = new]
  BY DEF Proceed, PaymentsInv, PaymentsTypeOK
<1>. HIDE DEF new
<1>4. call'[c] = new
  BY <1>3 DEF PaymentsInv, PaymentsTypeOK
<1>5. \A f \in new.facts : f \in VerifiedFact /\ Vouched(f)
  BY <1>1, <1>2 DEF CallRecord, CallSound
<1>6. \A f \in new.facts : Vouched(f)'
  BY <1>5, StaysVouched
<1>7. Sound(c)
  BY <1>2, <1>4, <1>6 DEF Sound, CallSound, At, Continued
<1>. QED BY <1>3, <1>7, CallsMove

LEMMA LearnSound ==
  ASSUME PaymentsInv, Continued, Accounts', NEW c \in Callers, NEW facts \in SUBSET VerifiedFact,
         \A f \in facts : Vouched(f), Learn(c, facts), accepted' = accepted
  PROVE  CallsSound'
<1>. DEFINE new == [call[c] EXCEPT !.pc = "apply", !.facts = facts]
<1>1. call[c] \in CallRecord
  BY DEF PaymentsInv, PaymentsTypeOK
<1>2. new \in CallRecord /\ new.facts = facts /\ new.pc = "apply"
  BY <1>1 DEF CallRecord, PCs
<1>3. call' = [call EXCEPT ![c] = new]
  BY DEF Learn, PaymentsInv, PaymentsTypeOK
<1>. HIDE DEF new
<1>4. call'[c] = new
  BY <1>3 DEF PaymentsInv, PaymentsTypeOK
<1>5. \A f \in new.facts : Vouched(f)'
  BY <1>2, StaysVouched
<1>6. Sound(c)
  BY <1>2, <1>4, <1>5 DEF Sound, CallSound, At
<1>. QED BY <1>3, <1>6, CallsMove, AcceptedWaits

-----------------------------------------------------------------------------
(* Every step.                                                              *)

Kept == LedgerSound' /\ Surroundings' /\ ProviderSound' /\ CallsSound'

LEMMA SameWorld ==
  ASSUME PaymentsInv, UNCHANGED <<order, fact, refund, period>>,
         UNCHANGED <<latest, accepted, told>>
  PROVE  LedgerSound' /\ ProviderSound' /\ Continued /\ Accounts'
<1>1. order' \in [Orders -> OrderRecord] /\ Accounts'
  BY DEF PaymentsInv, PaymentsTypeOK, Accounts
<1>2. LedgerSound' /\ Continued
  BY <1>1, OrdersKeepLedger
<1>. QED BY <1>1, <1>2, BooksStay

LEMMA SurroundingsStay ==
  ASSUME PaymentsInv, PlacementInv', UNCHANGED <<events, providerVars, clockVars>>,
         queued' \subseteq queued
  PROVE  Surroundings' /\ Accounts'
BY DEF PaymentsInv, PaymentsTypeOK, Surroundings, PlacementInv, PeriodsTyped, providerVars, clockVars,
       Accounts

LEMMA NewOrder ==
  ASSUME PaymentsInv, NEW o \in Orders, order[o] = NoOrder,
         order' = [order EXCEPT ![o].state = "created"],
         UNCHANGED <<fact, refund, period, latest, accepted>>
  PROVE  LedgerSound' /\ Continued
<1>1. order \in [Orders -> OrderRecord]
  BY DEF PaymentsInv, PaymentsTypeOK
<1>2. order' \in [Orders -> OrderRecord]
  BY <1>1 DEF OrderRecord, OrderStates
<1>3. \A p \in Orders : /\ order'[p].refunded = order[p].refunded
                        /\ order[p].state = "paid" => order'[p].state = "paid"
  BY <1>1 DEF OrderRecord, NoOrder
<1>. QED BY <1>2, <1>3, OrdersKeepLedger

LEMMA CreateKept ==
  ASSUME PaymentsInv, PlacementInv', NEW c \in Callers, NEW o \in Orders, CreateOrder(c, o)
  PROVE  Kept
<1>1. /\ order[o] = NoOrder /\ order' = [order EXCEPT ![o].state = "created"]
      /\ Enter(c, "submit", o, Nobody)
      /\ UNCHANGED <<fact, refund, period, events, queued, latest, accepted, told>>
      /\ UNCHANGED <<events, providerVars, clockVars>>
  BY DEF CreateOrder, providerVars
<1>2. LedgerSound' /\ Continued
  BY <1>1, NewOrder
<1>3. Surroundings' /\ Accounts'
  BY <1>1, SurroundingsStay
<1>4. ProviderSound'
  BY <1>1, <1>2, BooksStay
<1>5. CallsSound'
  <2>1. "submit" \in PCs
    BY DEF PCs
  <2>. QED BY <1>1, <1>2, <1>3, <2>1, EnterSound
<1>. QED BY <1>2, <1>3, <1>4, <1>5 DEF Kept

LEMMA ReplayKept ==
  ASSUME PaymentsInv, PlacementInv', NEW c \in Callers, NEW o \in Orders, ReplayOrder(c, o)
  PROVE  Kept
<1>. DEFINE new == [NoCall EXCEPT !.pc = "ask", !.order = o, !.resubmits = MayResubmit(o)]
<1>1. /\ call' = [call EXCEPT ![c] = new]
      /\ UNCHANGED <<order, fact, refund, period, latest, accepted, told>>
      /\ UNCHANGED <<events, providerVars, clockVars>> /\ queued' = queued
  BY DEF ReplayOrder, ledgerVars, providerVars
<1>2. LedgerSound' /\ ProviderSound' /\ Continued
  BY <1>1, SameWorld
<1>3. Surroundings' /\ Accounts'
  BY <1>1, SurroundingsStay
<1>4. new \in CallRecord /\ new.facts = {} /\ new.pc = "ask" /\ new.order = o
  BY PaymentsAssumption DEF NoCall, CallRecord, Answers, PCs, MayResubmit
<1>. HIDE DEF new
<1>5. call'[c] = new
  BY <1>1 DEF PaymentsInv, PaymentsTypeOK
<1>6. Sound(c)
  BY <1>4, <1>5 DEF Sound, CallSound, At
<1>7. CallsSound'
  BY <1>1, <1>2, <1>3, <1>6, CallsMove, AcceptedWaits
<1>. QED BY <1>2, <1>3, <1>7 DEF Kept

LEMMA QueryKept ==
  ASSUME PaymentsInv, PlacementInv', NEW c \in Callers, NEW o \in Orders, QueryOrder(c, o)
  PROVE  Kept
<1>1. /\ Enter(c, "ask", o, Nobody)
      /\ UNCHANGED <<order, fact, refund, period, latest, accepted, told>>
      /\ UNCHANGED <<events, providerVars, clockVars>> /\ queued' = queued
  BY DEF QueryOrder, ledgerVars, providerVars
<1>2. LedgerSound' /\ ProviderSound' /\ Continued
  BY <1>1, SameWorld
<1>3. Surroundings' /\ Accounts'
  BY <1>1, SurroundingsStay
<1>4. CallsSound'
  <2>1. "ask" \in PCs
    BY DEF PCs
  <2>. QED BY <1>1, <1>2, <1>3, <2>1, EnterSound
<1>. QED BY <1>2, <1>3, <1>4 DEF Kept

LEMMA OperatorKept ==
  ASSUME PaymentsInv, PlacementInv', NEW c \in Callers, NEW o \in Orders, NEW x \in References,
         RecordOperatorOrder(c, o, x)
  PROVE  Kept
<1>. DEFINE f == PaidFact(o, x, 0)
            new == [NoCall EXCEPT !.pc = "collect", !.order = o, !.facts = {f}]
<1>1. /\ order[o] = NoOrder /\ order' = [order EXCEPT ![o].state = "created"]
      /\ call' = [call EXCEPT ![c] = new]
      /\ UNCHANGED <<fact, refund, period, events, queued, latest, accepted, told>>
      /\ UNCHANGED <<events, providerVars, clockVars>>
  BY DEF RecordOperatorOrder, providerVars
<1>2. LedgerSound' /\ Continued
  BY <1>1, NewOrder
<1>3. Surroundings' /\ Accounts'
  BY <1>1, SurroundingsStay
<1>4. ProviderSound'
  BY <1>1, <1>2, BooksStay
<1>5. f \in VerifiedFact
  BY PaymentsAssumption DEF PaidFact, VerifiedFact, FactKinds, Payments
<1>6. Vouched(f)
  BY PaymentsAssumption DEF PaidFact, Vouched, Payments
<1>7. Vouched(f)'
  <2>. HIDE DEF f
  <2>. QED BY <1>2, <1>3, <1>5, <1>6, StaysVouched
<1>8. new \in CallRecord /\ new.facts = {f} /\ new.pc = "collect"
  <2>. HIDE DEF f
  <2>. QED BY <1>5 DEF NoCall, CallRecord, Answers, PCs
<1>. HIDE DEF new, f
<1>9. call'[c] = new
  BY <1>1 DEF PaymentsInv, PaymentsTypeOK
<1>10. Sound(c)
  BY <1>7, <1>8, <1>9 DEF Sound, CallSound, At
<1>11. CallsSound'
  BY <1>1, <1>2, <1>3, <1>10, CallsMove, AcceptedWaits
<1>. QED BY <1>2, <1>3, <1>4, <1>11 DEF Kept

LEMMA RequestRefundKept ==
  ASSUME PaymentsInv, PlacementInv', NEW c \in Callers, NEW r \in Refunds, NEW x \in Txns,
         NEW n \in 1 .. Price, NEW action \in {"revoke", "retain"},
         RequestRefund(c, r, x, n, action)
  PROVE  Kept
<1>. DEFINE asked == [state |-> "reserved", payment |-> x, amount |-> n, action |-> action]
<1>1. /\ refund[r] = NoRefund /\ fact[x] # NoFact /\ refund' = [refund EXCEPT ![r] = asked]
      /\ Enter(c, "refund", fact[x].order, r)
      /\ UNCHANGED <<order, fact, period, events, queued, latest, accepted, told>>
      /\ UNCHANGED <<events, providerVars, clockVars>>
  BY DEF RequestRefund, providerVars
<1>2. refund \in [Refunds -> RefundRecord]
  BY DEF PaymentsInv, PaymentsTypeOK
<1>3. asked \in RefundRecord /\ asked # NoRefund /\ asked.state = "reserved" /\ asked.payment = x
  BY DEF RefundRecord, RefundStates, NoRefund, Payments
<1>. HIDE DEF asked
<1>4. /\ refund' \in [Refunds -> RefundRecord] /\ refund'[r] = asked
      /\ \A q \in Refunds \ {r} : refund'[q] = refund[q]
  BY <1>1, <1>2, <1>3
<1>5. \A q \in Refunds :
           /\ refund[q] # NoRefund =>
                /\ refund'[q] # NoRefund /\ refund'[q].payment = refund[q].payment
                /\ refund'[q].amount = refund[q].amount
           /\ refund'[q].state = "succeeded" \/ refund[q].state = "succeeded" =>
                refund'[q] = refund[q]
           /\ refund'[q] # NoRefund =>
                refund'[q].payment \in Txns /\ fact[refund'[q].payment] # NoFact
  BY <1>1, <1>3, <1>4 DEF PaymentsInv, RefundSound, NoRefund
<1>6. LedgerSound' /\ Continued
  BY <1>1, <1>4, <1>5, RefundsKeepLedger
<1>7. Surroundings' /\ Accounts'
  BY <1>1, SurroundingsStay
<1>8. ProviderSound'
  BY <1>1, <1>6, BooksStay
<1>9. accepted[r] = "none"
  BY <1>1 DEF PaymentsInv, RefundSound
<1>10. \A d \in Callers : At(d, "refund") => call[d].refund # r
  BY <1>1 DEF PaymentsInv, CallSound, At
<1>11. fact[x].order \in Orders
  BY <1>1, TypedBooks DEF PaymentsInv, Payments
<1>12. CallsSound'
  <2>1. "refund" \in PCs
    BY DEF PCs
  <2>2. refund'[r] # NoRefund
    BY <1>3, <1>4
  <2>. QED BY <1>1, <1>6, <1>7, <1>9, <1>10, <1>11, <2>1, <2>2, EnterSound
<1>. QED BY <1>6, <1>7, <1>8, <1>12 DEF Kept

LEMMA AskRefundKept ==
  ASSUME PaymentsInv, PlacementInv', NEW c \in Callers, NEW r \in Refunds, AskRefund(c, r)
  PROVE  Kept
<1>. DEFINE o == fact[refund[r].payment].order
<1>1. /\ Unsettled(r) /\ Enter(c, "askRefund", o, r)
      /\ UNCHANGED <<order, fact, refund, period, latest, accepted, told>>
      /\ UNCHANGED <<events, providerVars, clockVars>> /\ queued' = queued
  BY DEF AskRefund, ledgerVars, providerVars
<1>2. LedgerSound' /\ ProviderSound' /\ Continued
  BY <1>1, SameWorld
<1>3. Surroundings' /\ Accounts'
  BY <1>1, SurroundingsStay
<1>4. refund[r] # NoRefund
  BY <1>1 DEF Unsettled, NoRefund
<1>5. o \in Orders
  BY <1>4, TypedBooks DEF PaymentsInv, RefundSound, Payments
<1>6. CallsSound'
  <2>1. "askRefund" \in PCs /\ refund'[r] # NoRefund
    BY <1>1, <1>4 DEF PCs
  <2>. HIDE DEF o
  <2>. QED BY <1>1, <1>2, <1>3, <1>5, <2>1, EnterSound
<1>. QED BY <1>2, <1>3, <1>6 DEF Kept

LEMMA SubmitKept ==
  ASSUME PaymentsInv, PlacementInv', NEW c \in Callers, SubmitOrder(c)
  PROVE  Kept
<1>. DEFINE o == call[c].order
<1>1. /\ At(c, "submit")
      /\ UNCHANGED <<order, fact, refund, period, latest, accepted, told, closed>>
      /\ UNCHANGED <<events, queued, serving, now, expired>>
      /\ \/ placements' = placements
         \/ placements' = [placements EXCEPT ![o] = IF OrderIdempotent THEN 1 ELSE @ + 1]
  BY DEF SubmitOrder, ledgerVars, clockVars
<1>2. \/ \E answer \in {"accepted", "unknown"} : Proceed(c, "placed", answer)
      \/ Return(c)
  BY DEF SubmitOrder
<1>3. LedgerSound' /\ ProviderSound' /\ Continued /\ Accounts'
  BY <1>1, SameWorld
<1>4. placements' \in [Orders -> Nat]
  <2>1. placements \in [Orders -> Nat]
    BY DEF PaymentsInv, PaymentsTypeOK
  <2>. HIDE DEF o
  <2>2. CASE o \in Orders
    BY <1>1, <2>1, <2>2
  <2>3. CASE o \notin Orders
    BY <1>1, <2>1, <2>3
  <2>. QED BY <2>2, <2>3
<1>5. Surroundings'
  BY <1>1, <1>3, <1>4 DEF PaymentsInv, PaymentsTypeOK, Surroundings, PlacementInv, PeriodsTyped
<1>6. CallsSound'
  <2>1. CASE Return(c)
    BY <1>1, <1>3, <2>1, ReturnSound
  <2>2. ASSUME NEW answer \in {"accepted", "unknown"}, Proceed(c, "placed", answer)
        PROVE  CallsSound'
    <3>1. o \in Orders
      BY <1>1 DEF PaymentsInv, CallSound, At
    <3>2. "placed" \in PCs /\ answer \in Answers
      BY DEF PCs, Answers
    <3>. QED BY <1>1, <1>3, <2>2, <3>1, <3>2, ProceedSound, AcceptedWaits
  <2>. QED BY <1>2, <2>1, <2>2
<1>. QED BY <1>3, <1>5, <1>6 DEF Kept

LEMMA MarkTypes ==
  ASSUME PaymentsInv, NEW o \in Orders, NEW outcome \in {"accepted", "unknown"},
         MarkOrder(o, outcome), UNCHANGED <<fact, refund, period, latest, accepted>>
  PROVE  LedgerSound' /\ Continued
<1>1. order \in [Orders -> OrderRecord]
  BY DEF PaymentsInv, PaymentsTypeOK
<1>2. CASE order' = order
  BY <1>1, <1>2, OrdersKeepLedger
<1>3. CASE order' = [order EXCEPT ![o].request = outcome,
                                  ![o].state = IF @ = "created" THEN "pending" ELSE @]
  <2>1. order' \in [Orders -> OrderRecord]
    BY <1>1, <1>3 DEF OrderRecord, OrderStates
  <2>2. \A p \in Orders : /\ order'[p].refunded = order[p].refunded
                          /\ order[p].state = "paid" => order'[p].state = "paid"
    BY <1>1, <1>3 DEF OrderRecord
  <2>. QED BY <2>1, <2>2, OrdersKeepLedger
<1>. QED BY <1>2, <1>3 DEF MarkOrder

LEMMA RecordKept ==
  ASSUME PaymentsInv, PlacementInv', NEW c \in Callers, RecordPlacement(c) \/ RecordPending(c)
  PROVE  Kept
<1>1. /\ call[c].pc \in {"placed", "seen"} /\ Return(c)
      /\ UNCHANGED <<fact, refund, period, events, queued, latest, accepted, told>>
      /\ UNCHANGED <<events, providerVars, clockVars>>
  BY DEF RecordPlacement, RecordPending, providerVars, At
<1>2. PICK outcome \in {"accepted", "unknown"} : MarkOrder(call[c].order, outcome)
  BY DEF RecordPlacement, RecordPending, PaymentsInv, CallSound
<1>3. call[c].order \in Orders
  BY <1>1 DEF PaymentsInv, CallSound
<1>4. LedgerSound' /\ Continued
  BY <1>1, <1>2, <1>3, MarkTypes
<1>5. Surroundings' /\ Accounts'
  BY <1>1, SurroundingsStay
<1>6. ProviderSound'
  BY <1>1, <1>4, BooksStay
<1>7. CallsSound'
  BY <1>1, <1>4, <1>5, ReturnSound
<1>. QED BY <1>4, <1>5, <1>6, <1>7 DEF Kept

\* A query answers what can be vouched for.
LEMMA ReportedVouched ==
  ASSUME PaymentsInv, NEW x \in Txns, latest[x] # NoFact
  PROVE  Reported(x) \in VerifiedFact /\ Vouched(Reported(x))
<1>1. latest[x] \in VerifiedFact /\ Vouched(latest[x]) /\ latest[x].payment = x
  BY DEF PaymentsInv, PaymentsTypeOK, BookSound
<1>2. CASE ~Cumulative
  BY <1>1, <1>2 DEF Reported
<1>3. CASE Cumulative
  <2>. DEFINE n == latest[x].refunded
  <2>1. n \in 0 .. Price /\ n \in Nat
    BY <1>1, FactTypes
  <2>2. Reported(x) = PaidFact(OrderOf[x], x, n)
    BY <1>3 DEF Reported
  <2>3. OrderOf[x] \in Orders /\ x \in Payments
    BY PaymentsAssumption DEF ProviderOrders, Payments
  <2>4. n <= latest[x].refunded
    BY <2>1
  <2>. HIDE DEF n
  <2>5. PaidFact(OrderOf[x], x, n) \in VerifiedFact
    BY <2>1, <2>3 DEF PaidFact, VerifiedFact, FactKinds
  <2>6. Vouched(PaidFact(OrderOf[x], x, n))
    BY <2>3, <2>4, PaymentsAssumption DEF PaidFact, Vouched
  <2>. QED BY <2>2, <2>5, <2>6
<1>. QED BY <1>2, <1>3

LEMMA ClosedVouched ==
  ASSUME NEW o \in Orders
  PROVE  ClosedFact(o) \in VerifiedFact /\ Vouched(ClosedFact(o))
<1>1. ClosedFact(o) \in VerifiedFact
  BY PaymentsAssumption DEF ClosedFact, VerifiedFact, FactKinds
<1>2. Vouched(ClosedFact(o))
  BY PaymentsAssumption DEF ClosedFact, Vouched, Payments
<1>. QED BY <1>1, <1>2

\* A call that goes on with what it was told is one it may make.
LEMMA TurnSound ==
  ASSUME PaymentsInv, Continued, Accounts', accepted' = accepted, NEW c \in Callers,
         \/ Return(c)
         \/ \E facts \in SUBSET VerifiedFact : (\A f \in facts : Vouched(f)) /\ Learn(c, facts)
         \/ /\ call[c].order \in Orders
            /\ Proceed(c, "seen", "pending") \/ Proceed(c, "submit", "none")
         \/ /\ call[c].refund \in Refunds /\ refund[call[c].refund] # NoRefund
            /\ \E answer \in {"failed", "processing", "unknown"} : Proceed(c, "refundSeen", answer)
  PROVE  CallsSound'
<1>1. \A d \in Callers : Waiting(d)
  BY AcceptedWaits
<1>2. CASE Return(c)
  BY <1>2, ReturnSound
<1>3. ASSUME NEW facts \in SUBSET VerifiedFact, \A f \in facts : Vouched(f), Learn(c, facts)
      PROVE  CallsSound'
  BY <1>3, LearnSound
<1>4. ASSUME call[c].order \in Orders, NEW pc \in {"seen", "submit"},
             NEW answer \in {"pending", "none"}, Proceed(c, pc, answer)
      PROVE  CallsSound'
  <2>1. pc \in PCs /\ answer \in Answers
    BY DEF PCs, Answers
  <2>. QED BY <1>1, <1>4, <2>1, ProceedSound
<1>5. ASSUME call[c].refund \in Refunds, refund[call[c].refund] # NoRefund,
             NEW answer \in {"failed", "processing", "unknown"}, Proceed(c, "refundSeen", answer)
      PROVE  CallsSound'
  <2>1. "refundSeen" \in PCs /\ answer \in Answers
    BY DEF PCs, Answers
  <2>. QED BY <1>1, <1>5, <2>1, ProceedSound
<1>. QED BY <1>2, <1>3, <1>4, <1>5

LEMMA AnsweredTurns ==
  ASSUME PaymentsInv, NEW c \in Callers, OrderAnswered(c)
  PROVE  \/ Return(c)
         \/ \E facts \in SUBSET VerifiedFact : (\A f \in facts : Vouched(f)) /\ Learn(c, facts)
         \/ /\ call[c].order \in Orders
            /\ Proceed(c, "seen", "pending") \/ Proceed(c, "submit", "none")
<1>1. At(c, "ask") /\ call[c].order \in Orders
  BY DEF OrderAnswered, PaymentsInv, CallSound, At
<1>2. PICK o \in Orders : o = call[c].order
  BY <1>1
<1>3. CASE Learn(c, {Reported(x) : x \in PaymentsOf(o)})
  <2>1. \A f \in {Reported(x) : x \in PaymentsOf(o)} : f \in VerifiedFact /\ Vouched(f)
    BY ReportedVouched DEF PaymentsOf
  <2>. QED BY <1>3, <2>1
<1>4. CASE Learn(c, {ClosedFact(o)})
  <2>1. ClosedFact(o) \in VerifiedFact /\ Vouched(ClosedFact(o))
    BY ClosedVouched
  <2>. QED BY <1>4, <2>1
<1>. QED BY <1>1, <1>2, <1>3, <1>4 DEF OrderAnswered

LEMMA SettlementTurns ==
  ASSUME PaymentsInv, NEW c \in Callers, RefundAnswered(c) \/ RefundUnclear(c)
  PROVE  \/ \E facts \in SUBSET VerifiedFact : (\A f \in facts : Vouched(f)) /\ Learn(c, facts)
         \/ /\ call[c].refund \in Refunds /\ refund[call[c].refund] # NoRefund
            /\ \E answer \in {"failed", "processing", "unknown"} : Proceed(c, "refundSeen", answer)
<1>1. call[c].refund \in Refunds /\ refund[call[c].refund] # NoRefund
  BY DEF RefundAnswered, RefundUnclear, PaymentsInv, CallSound, At
<1>2. \A r : \A f \in RefundSettledAt(r) : f \in VerifiedFact /\ Vouched(f)
  BY DEF RefundSettledAt, PaymentsInv, PaymentsTypeOK
<1>3. \/ \E r : Learn(c, RefundSettledAt(r))
      \/ \E answer \in {"failed", "processing", "unknown"} : Proceed(c, "refundSeen", answer)
  BY DEF RefundAnswered, RefundUnclear
<1>4. ASSUME NEW r, Learn(c, RefundSettledAt(r))
      PROVE  \E facts \in SUBSET VerifiedFact : (\A f \in facts : Vouched(f)) /\ Learn(c, facts)
  <2>1. RefundSettledAt(r) \in SUBSET VerifiedFact
    BY <1>2
  <2>. QED BY <1>2, <1>4, <2>1
<1>. QED BY <1>1, <1>3, <1>4

LEMMA AnsweredKept ==
  ASSUME PaymentsInv, PlacementInv', NEW c \in Callers,
         OrderAnswered(c) \/ RefundAnswered(c) \/ RefundUnclear(c)
  PROVE  Kept
<1>1. /\ UNCHANGED <<order, fact, refund, period, latest, accepted, told>>
      /\ UNCHANGED <<events, providerVars, clockVars>> /\ queued' = queued
  BY DEF OrderAnswered, RefundAnswered, RefundUnclear, ledgerVars, providerVars
<1>2. LedgerSound' /\ ProviderSound' /\ Continued
  BY <1>1, SameWorld
<1>3. Surroundings' /\ Accounts'
  BY <1>1, SurroundingsStay
<1>4. accepted' = accepted
  BY <1>1
<1>5. CASE OrderAnswered(c)
  <2>1. CallsSound'
    BY <1>2, <1>3, <1>4, <1>5, AnsweredTurns, TurnSound
  <2>. QED BY <1>2, <1>3, <2>1 DEF Kept
<1>6. CASE RefundAnswered(c) \/ RefundUnclear(c)
  <2>1. CallsSound'
    BY <1>2, <1>3, <1>4, <1>6, SettlementTurns, TurnSound
  <2>. QED BY <1>2, <1>3, <2>1 DEF Kept
<1>. QED BY <1>5, <1>6

\* What a call has been told is vouched for.
LEMMA ToldToCalls ==
  ASSUME PaymentsInv, NEW c \in Callers, NEW f \in call[c].facts
  PROVE  f \in VerifiedFact /\ Vouched(f)
BY DEF PaymentsInv, PaymentsTypeOK, CallRecord, CallSound

\* Whoever applies a fact that is vouched for, the rest stays sound.
LEMMA ApplySound ==
  ASSUME PaymentsInv, PlacementInv', NEW f \in VerifiedFact, Vouched(f),
         NEW via \in {"webhook", "query", "operator"}, NEW authoritative,
         Apply(f, via, authoritative), UNCHANGED <<providerVars, clockVars>>
  PROVE  LedgerSound' /\ Continued /\ Surroundings' /\ Accounts' /\ ProviderSound'
<1>1. UNCHANGED <<latest, accepted, told, placements, closed, serving, now, expired>>
  BY DEF providerVars, clockVars
<1>2. /\ LedgerSound' /\ Continued
      /\ events' \subseteq events \cup {Event(f, via)} /\ queued' \subseteq queued
  BY <1>1, ApplyKeepsLedger
<1>3. Event(f, via).fact = f /\ Event(f, via).via = via
  BY DEF Event
<1>4. Surroundings' /\ Accounts'
  BY <1>1, <1>2, <1>3 DEF PaymentsInv, PaymentsTypeOK, Surroundings, PlacementInv, PeriodsTyped, Accounts
<1>5. ProviderSound'
  BY <1>1, <1>2, BooksStay
<1>. QED BY <1>2, <1>4, <1>5

LEMMA ApplyKept ==
  ASSUME PaymentsInv, PlacementInv', NEW c \in Callers, ApplyAnswer(c) \/ Collect(c)
  PROVE  Kept
<1>1. UNCHANGED <<providerVars, clockVars>> /\ accepted' = accepted
  BY DEF ApplyAnswer, Collect, providerVars
<1>2. PICK f \in call[c].facts : /\ \/ Apply(f, "query", TRUE)
                                    \/ Apply(f, "operator", FALSE)
                                 /\ \/ Return(c)
                                    \/ /\ At(c, "apply")
                                       /\ call' = [call EXCEPT ![c].facts = @ \ {f}]
  BY DEF ApplyAnswer, Collect
<1>3. f \in VerifiedFact /\ Vouched(f)
  BY ToldToCalls
<1>4. LedgerSound' /\ Continued /\ Surroundings' /\ Accounts' /\ ProviderSound'
  BY <1>1, <1>2, <1>3, ApplySound
<1>5. CASE Return(c)
  <2>1. CallsSound'
    BY <1>1, <1>4, <1>5, ReturnSound
  <2>. QED BY <1>4, <2>1 DEF Kept
<1>6. CASE At(c, "apply") /\ call' = [call EXCEPT ![c].facts = @ \ {f}]
  <2>. DEFINE new == [call[c] EXCEPT !.facts = call[c].facts \ {f}]
  <2>1. call[c] \in CallRecord
    BY DEF PaymentsInv, PaymentsTypeOK
  <2>2. new \in CallRecord /\ new.facts \subseteq call[c].facts /\ new.pc = "apply"
    BY <1>6, <2>1 DEF CallRecord, At
  <2>3. call' = [call EXCEPT ![c] = new]
    BY <1>6 DEF PaymentsInv, PaymentsTypeOK
  <2>. HIDE DEF new
  <2>4. call'[c] = new
    BY <2>3 DEF PaymentsInv, PaymentsTypeOK
  <2>5. \A g \in new.facts : Vouched(g)'
    <3>. SUFFICES ASSUME NEW g \in new.facts
                  PROVE  Vouched(g)'
      OBVIOUS
    <3>1. g \in VerifiedFact /\ Vouched(g)
      BY <2>2, ToldToCalls
    <3>. QED BY <1>4, <3>1, StaysVouched
  <2>6. Sound(c)
    BY <2>2, <2>4, <2>5 DEF Sound, CallSound, At
  <2>7. CallsSound'
    BY <1>1, <1>4, <2>3, <2>6, CallsMove, AcceptedWaits
  <2>. QED BY <1>4, <2>7 DEF Kept
<1>. QED BY <1>2, <1>5, <1>6

LEMMA WebhookKept ==
  ASSUME PaymentsInv, PlacementInv', NEW f \in told, Webhook(f)
  PROVE  Kept
<1>1. UNCHANGED <<providerVars, clockVars>> /\ accepted' = accepted /\ call' = call
      /\ Apply(f, "webhook", FALSE)
  BY DEF Webhook, providerVars
<1>2. f \in VerifiedFact /\ Vouched(f)
  BY DEF PaymentsInv, PaymentsTypeOK
<1>3. LedgerSound' /\ Continued /\ Surroundings' /\ Accounts' /\ ProviderSound'
  BY <1>1, <1>2, ApplySound
<1>4. CallsSound'
  BY <1>1, <1>3, CallsRest, AcceptedWaits
<1>. QED BY <1>3, <1>4 DEF Kept

LEMMA UpdateRefundTypes ==
  ASSUME PaymentsInv, NEW r \in Refunds,
         NEW outcome \in {"submitted", "processing", "unknown", "failed"},
         UpdateRefund(r, outcome), UNCHANGED <<order, fact, period, latest, accepted>>
  PROVE  LedgerSound' /\ Continued
<1>1. refund \in [Refunds -> RefundRecord]
  BY DEF PaymentsInv, PaymentsTypeOK
<1>2. CASE refund' = refund
  BY <1>1, <1>2, RefundsKeepLedger DEF PaymentsInv, RefundSound
<1>3. CASE Unsettled(r) /\ refund' = [refund EXCEPT ![r].state = outcome]
  <2>1. refund[r] \in [state: RefundStates \ {"none"}, payment: Payments,
                       amount: 1 .. Price, action: {"revoke", "retain"}]
    BY <1>1, <1>3 DEF Unsettled, RefundRecord, NoRefund
  <2>2. refund'[r] = [refund[r] EXCEPT !.state = outcome]
        /\ \A q \in Refunds \ {r} : refund'[q] = refund[q]
    BY <1>1, <1>3
  <2>3. refund'[r] \in [state: RefundStates \ {"none"}, payment: Payments,
                        amount: 1 .. Price, action: {"revoke", "retain"}]
        /\ refund'[r].payment = refund[r].payment /\ refund'[r].amount = refund[r].amount
        /\ refund'[r].state = outcome
    BY <2>1, <2>2 DEF RefundStates
  <2>4. refund' \in [Refunds -> RefundRecord]
    BY <1>1, <1>3, <2>3, <2>2 DEF RefundRecord
  <2>5. refund'[r] # NoRefund /\ refund[r] # NoRefund
    BY <2>1, <2>3 DEF NoRefund, RefundStates
  <2>6. refund[r].state # "succeeded"
    BY <1>3 DEF Unsettled
  <2>7. \A q \in Refunds :
           /\ refund[q] # NoRefund =>
                /\ refund'[q] # NoRefund /\ refund'[q].payment = refund[q].payment
                /\ refund'[q].amount = refund[q].amount
           /\ refund'[q].state = "succeeded" \/ refund[q].state = "succeeded" =>
                refund'[q] = refund[q]
           /\ refund'[q] # NoRefund =>
                refund'[q].payment \in Txns /\ fact[refund'[q].payment] # NoFact
    BY <2>2, <2>3, <2>5, <2>6 DEF PaymentsInv, RefundSound
  <2>. QED BY <2>4, <2>7, RefundsKeepLedger
<1>. QED BY <1>2, <1>3 DEF UpdateRefund

LEMMA RecordRefundKept ==
  ASSUME PaymentsInv, PlacementInv', NEW c \in Callers, RecordRefund(c) \/ RecordRefundSeen(c)
  PROVE  Kept
<1>1. /\ call[c].pc \in {"refundSent", "refundSeen"} /\ Return(c)
      /\ UNCHANGED <<order, fact, period, events, queued, latest, accepted, told>>
      /\ UNCHANGED <<events, providerVars, clockVars>>
  BY DEF RecordRefund, RecordRefundSeen, providerVars, At
<1>2. PICK outcome \in {"submitted", "processing", "unknown", "failed"} :
         UpdateRefund(call[c].refund, outcome)
  <2>1. call[c].answer \in {"submitted", "processing", "unknown", "failed"}
    BY <1>1 DEF PaymentsInv, CallSound
  <2>. QED BY <2>1 DEF RecordRefund, RecordRefundSeen
<1>3. call[c].refund \in Refunds
  BY <1>1 DEF PaymentsInv, CallSound
<1>4. LedgerSound' /\ Continued
  BY <1>1, <1>2, <1>3, UpdateRefundTypes
<1>5. Surroundings' /\ Accounts'
  BY <1>1, SurroundingsStay
<1>6. ProviderSound'
  BY <1>1, <1>4, BooksStay
<1>7. CallsSound'
  BY <1>1, <1>4, <1>5, ReturnSound
<1>. QED BY <1>4, <1>5, <1>6, <1>7 DEF Kept

LEMMA AbandonKept ==
  ASSUME PaymentsInv, PlacementInv', NEW c \in Callers, Abandon(c)
  PROVE  Kept
<1>1. /\ UNCHANGED <<order, fact, refund, period, latest, accepted, told>> /\ Return(c)
      /\ UNCHANGED <<events, providerVars, clockVars>> /\ queued' = queued
  BY DEF Abandon, ledgerVars, providerVars
<1>2. LedgerSound' /\ ProviderSound' /\ Continued
  BY <1>1, SameWorld
<1>3. Surroundings' /\ Accounts'
  BY <1>1, SurroundingsStay
<1>4. CallsSound'
  BY <1>1, <1>2, <1>3, ReturnSound
<1>. QED BY <1>2, <1>3, <1>4 DEF Kept

-----------------------------------------------------------------------------
(* The provider moves.                                                      *)

\* New facts of the provider, and sums that still fit, keep its books sound.
LEMMA BooksMove ==
  ASSUME PaymentsInv, Continued, Accounts', NEW S \in SUBSET VerifiedFact,
         \A f \in S : Vouched(f)',
         told' \subseteq told \cup S,
         \A x \in Txns : \/ latest'[x] = latest[x]
                         \/ latest'[x] \in S /\ latest'[x].payment = x,
         \A x \in Txns : /\ latest'[x].refunded + Amount(refund, Processing(x))' <= Price
                         /\ Amount(refund, PaidBack(x))' <= latest'[x].refunded
  PROVE  ProviderSound'
<1>1. ASSUME NEW f \in told'
      PROVE  Vouched(f)'
  <2>1. CASE f \in S
    BY <2>1
  <2>2. CASE f \in told
    <3>1. f \in VerifiedFact /\ Vouched(f)
      BY <2>2 DEF PaymentsInv, PaymentsTypeOK
    <3>. QED BY <3>1, StaysVouched
  <2>. QED BY <1>1, <2>1, <2>2
<1>2. ASSUME NEW x \in Txns
      PROVE  BookSound(x)'
  <2>1. ASSUME NEW g, g = latest'[x], g # NoFact
        PROVE  Vouched(g)' /\ g.payment = x
    <3>1. CASE g \in S /\ g.payment = x
      BY <3>1
    <3>2. CASE g = latest[x]
      <4>1. g \in VerifiedFact /\ Vouched(g) /\ g.payment = x
        BY <2>1, <3>2 DEF PaymentsInv, PaymentsTypeOK, BookSound
      <4>. QED BY <4>1, StaysVouched
    <3>. QED BY <2>1, <3>1, <3>2
  <2>2. latest'[x] # NoFact => Vouched(latest[x])' /\ latest'[x].payment = x
    BY <2>1 DEF Vouched
  <2>. QED BY <2>2 DEF BookSound
<1>. QED BY <1>1, <1>2 DEF ProviderSound

\* Where no refund is accepted or settled the sums stay.
LEMMA SumsStay ==
  ASSUME NEW x \in Txns, UNCHANGED <<refund, accepted>>
  PROVE  /\ Amount(refund, Processing(x))' = Amount(refund, Processing(x))
         /\ Amount(refund, PaidBack(x))' = Amount(refund, PaidBack(x))
BY DEF Amount, Processing, PaidBack

\* So do those of the other payments when one refund moves.
LEMMA OtherSumsStay ==
  ASSUME NEW r \in Refunds, NEW x \in Txns, refund[r].payment # x, refund' = refund,
         \A q \in Refunds \ {r} : accepted'[q] = accepted[q]
  PROVE  /\ Amount(refund, Processing(x))' = Amount(refund, Processing(x))
         /\ Amount(refund, PaidBack(x))' = Amount(refund, PaidBack(x))
<1>1. Processing(x)' = Processing(x) /\ PaidBack(x)' = PaidBack(x)
  BY DEF Processing, PaidBack
<1>. QED BY <1>1 DEF Amount

\* The provider says one more thing of payment x.
LEMMA ProviderMoves ==
  ASSUME PaymentsInv, PlacementInv', NEW x \in Txns, NEW f \in VerifiedFact,
         f.payment = x, latest[x].refunded <= f.refunded,
         latest' = [latest EXCEPT ![x] = f], told' = told \cup {f}, Vouched(f)',
         UNCHANGED <<ledgerVars, clockVars, call, placements, closed>>,
         accepted' \in [Refunds -> {"none", "processing", "succeeded", "failed"}],
         \A r \in Refunds : /\ accepted[r] = "succeeded" => accepted'[r] = "succeeded"
                            /\ accepted'[r] = "none" <=> accepted[r] = "none",
         f.refunded + Amount(refund, Processing(x))' <= Price,
         Amount(refund, PaidBack(x))' <= f.refunded,
         \A y \in Txns \ {x} :
           /\ Amount(refund, Processing(y))' = Amount(refund, Processing(y))
           /\ Amount(refund, PaidBack(y))' = Amount(refund, PaidBack(y))
  PROVE  Kept
<1>1. PaymentsTypeOK /\ latest \in [Txns -> VerifiedFact \cup {NoFact}]
  BY DEF PaymentsInv, PaymentsTypeOK
<1>2. /\ UNCHANGED <<order, fact, refund, period>>
      /\ UNCHANGED <<events, queued, serving, now, expired, call, placements, closed>>
  BY DEF ledgerVars, clockVars
<1>3. /\ latest' \in [Txns -> VerifiedFact \cup {NoFact}] /\ latest'[x] = f
      /\ \A y \in Txns \ {x} : latest'[y] = latest[y]
  BY <1>1
<1>4. Continued
  <2>1. f # NoFact /\ \A y \in Txns : latest[y].refunded \in Nat
    BY <1>1, FactTypes, TypedBooks
  <2>2. \A y \in Txns : latest[y] # NoFact =>
          latest'[y] # NoFact /\ latest[y].refunded <= latest'[y].refunded
    BY <1>3, <2>1
  <2>. QED BY <1>2, <2>2 DEF Continued
<1>5. LedgerSound'
  <2>1. \A r \in Refunds : accepted'[r] # "none" => refund[r] # NoRefund
    BY DEF PaymentsInv, RefundSound
  <2>. QED BY <1>2, <1>3, <1>4, <2>1, ProviderKeepsLedger
<1>6. Accounts'
  BY <1>3 DEF Accounts
<1>7. Surroundings'
  BY <1>1, <1>2, <1>6 DEF PaymentsTypeOK, Surroundings, PlacementInv, PeriodsTyped
<1>8. ProviderSound'
  <2>1. \A y \in Txns : /\ latest'[y].refunded + Amount(refund, Processing(y))' <= Price
                        /\ Amount(refund, PaidBack(y))' <= latest'[y].refunded
    BY <1>3 DEF PaymentsInv, BookSound
  <2>2. \A y \in Txns : \/ latest'[y] = latest[y]
                        \/ latest'[y] \in {f} /\ latest'[y].payment = y
    BY <1>3
  <2>. QED BY <1>4, <1>6, <2>1, <2>2, BooksMove
<1>9. CallsSound'
  <2>1. \A d \in Callers : Waiting(d)
    BY DEF PaymentsInv, CallSound, Waiting, At
  <2>. QED BY <1>2, <1>4, <1>6, <2>1, CallsRest
<1>. QED BY <1>5, <1>7, <1>8, <1>9 DEF Kept

LEMMA ProviderPaidKept ==
  ASSUME PaymentsInv, PlacementInv', NEW x \in Txns, ProviderPaid(x)
  PROVE  Kept
<1>1. PICK f : f = PaidFact(OrderOf[x], x, 0)
  OBVIOUS
<1>2. /\ latest[x] = NoFact /\ latest' = [latest EXCEPT ![x] = f] /\ told' = told \cup {f}
      /\ UNCHANGED <<ledgerVars, clockVars, call, placements, closed>>
      /\ accepted' = accepted /\ refund' = refund
  BY <1>1 DEF ProviderPaid, Tell, ledgerVars
<1>3. OrderOf[x] \in Orders /\ x \in Payments /\ Price \in Nat
  BY PaymentsAssumption DEF ProviderOrders, Payments
<1>4. f \in VerifiedFact /\ f.payment = x /\ f.refunded = 0
  BY <1>1, <1>3 DEF PaidFact, VerifiedFact, FactKinds
<1>5. latest \in [Txns -> VerifiedFact \cup {NoFact}] /\ latest[x].refunded = 0
  BY <1>2 DEF PaymentsInv, PaymentsTypeOK, NoFact
<1>6. Vouched(f)'
  <2>1. latest'[x] = f /\ f # NoFact
    BY <1>2, <1>4, <1>5, FactTypes
  <2>. QED BY <1>1, <1>3, <1>4, <2>1, PaymentsAssumption DEF PaidFact, Vouched
<1>7. /\ f.refunded + Amount(refund, Processing(x))' <= Price
      /\ Amount(refund, PaidBack(x))' <= f.refunded
  BY <1>2, <1>4, <1>5, SumsStay DEF PaymentsInv, BookSound
<1>8. \A y \in Txns \ {x} :
        /\ Amount(refund, Processing(y))' = Amount(refund, Processing(y))
        /\ Amount(refund, PaidBack(y))' = Amount(refund, PaidBack(y))
  BY <1>2, SumsStay
<1>9. accepted' \in [Refunds -> {"none", "processing", "succeeded", "failed"}]
  BY <1>2 DEF PaymentsInv, PaymentsTypeOK
<1>10. latest[x].refunded <= f.refunded
  BY <1>4, <1>5
<1>. QED BY <1>2, <1>4, <1>6, <1>7, <1>8, <1>9, <1>10, ProviderMoves

LEMMA ConsoleRefundKept ==
  ASSUME PaymentsInv, PlacementInv', NEW x \in Txns, NEW n \in 1 .. Price, ConsoleRefund(x, n)
  PROVE  Kept
<1>1. PICK m : m = latest[x].refunded + n
  OBVIOUS
<1>2. PICK f : f = RefundFact("refund-succeeded", x, m, Console)
  OBVIOUS
<1>3. /\ latest[x] # NoFact /\ latest' = [latest EXCEPT ![x] = f] /\ told' = told \cup {f}
      /\ UNCHANGED <<ledgerVars, clockVars, call, placements, closed>>
      /\ accepted' = accepted /\ refund' = refund
      /\ latest[x].refunded + Amount(refund, Processing(x)) + n <= Price
  BY <1>1, <1>2 DEF ConsoleRefund, Refundable, Tell, ledgerVars
<1>4. OrderOf[x] \in Orders /\ x \in Payments /\ Price \in Nat
  BY PaymentsAssumption DEF ProviderOrders, Payments
<1>5. latest[x].refunded \in Nat /\ Amount(refund, Processing(x)) \in Nat
      /\ Amount(refund, PaidBack(x)) \in Nat
  BY TypedBooks, AmountType DEF PaymentsInv, Processing, PaidBack
<1>6. m \in 0 .. Price /\ latest[x].refunded <= m /\ m + Amount(refund, Processing(x)) <= Price
  BY <1>1, <1>3, <1>4, <1>5
<1>7. f \in VerifiedFact /\ f.payment = x /\ f.refunded = m
  BY <1>2, <1>4, <1>6 DEF RefundFact, VerifiedFact, FactKinds
<1>8. latest \in [Txns -> VerifiedFact \cup {NoFact}]
  BY DEF PaymentsInv, PaymentsTypeOK
<1>9. Vouched(f)'
  <2>1. latest'[x] = f /\ f # NoFact /\ f.refunded <= f.refunded
    BY <1>3, <1>6, <1>7, <1>8, FactTypes
  <2>. QED BY <1>2, <1>4, <1>7, <2>1, PaymentsAssumption DEF RefundFact, Vouched
<1>10. /\ f.refunded + Amount(refund, Processing(x))' <= Price
       /\ Amount(refund, PaidBack(x))' <= f.refunded
  <2>1. Amount(refund, PaidBack(x)) <= latest[x].refunded
    BY DEF PaymentsInv, BookSound
  <2>2. Amount(refund, PaidBack(x)) <= m
    BY <1>1, <1>5, <2>1
  <2>. QED BY <1>3, <1>6, <1>7, <2>2, SumsStay
<1>11. \A y \in Txns \ {x} :
        /\ Amount(refund, Processing(y))' = Amount(refund, Processing(y))
        /\ Amount(refund, PaidBack(y))' = Amount(refund, PaidBack(y))
  BY <1>3, SumsStay
<1>12. accepted' \in [Refunds -> {"none", "processing", "succeeded", "failed"}]
  BY <1>3 DEF PaymentsInv, PaymentsTypeOK
<1>. QED BY <1>3, <1>6, <1>7, <1>9, <1>10, <1>11, <1>12, ProviderMoves

\* A refund that settles leaves what is still owed, and joins what was paid back.
LEMMA SettledSums ==
  ASSUME PaymentsInv, NEW r \in Refunds, accepted[r] = "processing", refund[r].payment \in Txns,
         NEW outcome \in {"succeeded", "failed"}, accepted' = [accepted EXCEPT ![r] = outcome],
         refund' = refund, NEW x \in Txns, x = refund[r].payment
  PROVE  /\ Amount(refund, Processing(x)) = Amount(refund, Processing(x))' + refund[r].amount
         /\ Amount(refund, PaidBack(x))' = Amount(refund, PaidBack(x))
              + (IF outcome = "succeeded" THEN refund[r].amount ELSE 0)
<1>1. Typed(refund) /\ accepted \in [Refunds -> {"none", "processing", "succeeded", "failed"}]
  BY DEF PaymentsInv, PaymentsTypeOK, Typed
<1>2. PICK P, Q \in SUBSET Refunds : P = Processing(x)' /\ Q = PaidBack(x)
  BY DEF Processing, PaidBack
<1>3. accepted'[r] = outcome /\ \A q \in Refunds \ {r} : accepted'[q] = accepted[q]
  BY <1>1
<1>4. r \notin P /\ Processing(x) = P \cup {r}
  BY <1>2, <1>3 DEF Processing
<1>5. r \notin Q /\ PaidBack(x)' = IF outcome = "succeeded" THEN Q \cup {r} ELSE Q
  BY <1>2, <1>3 DEF PaidBack
<1>6. Amount(refund, Processing(x)) = Amount(refund, P) + refund[r].amount
  BY <1>1, <1>4, AmountJoins
<1>7. /\ Amount(refund, Processing(x))' = Amount(refund, P)
      /\ Amount(refund, PaidBack(x))' = Amount(refund, PaidBack(x)')
  BY <1>2 DEF Amount
<1>8. Amount(refund, Q \cup {r}) = Amount(refund, Q) + refund[r].amount /\ Amount(refund, Q) \in Nat
  BY <1>1, <1>5, AmountJoins, AmountType
<1>. QED BY <1>2, <1>5, <1>6, <1>7, <1>8

LEMMA ProviderSettlesKept ==
  ASSUME PaymentsInv, PlacementInv', NEW r \in Refunds, ProviderSettles(r)
  PROVE  Kept
<1>1. PICK succeeds \in BOOLEAN :
        LET x == refund[r].payment
            n == latest[x].refunded + IF succeeds THEN refund[r].amount ELSE 0
            f == RefundFact(IF succeeds THEN "refund-succeeded" ELSE "refund-failed", x, n, r) IN
        /\ accepted' = [accepted EXCEPT ![r] = IF succeeds THEN "succeeded" ELSE "failed"]
        /\ latest' = [latest EXCEPT ![x] = f] /\ Tell(f)
  BY DEF ProviderSettles
<1>2. /\ accepted[r] = "processing" /\ refund' = refund
      /\ UNCHANGED <<ledgerVars, clockVars, call, placements, closed>>
  BY DEF ProviderSettles, ledgerVars
<1>3. refund[r] # NoRefund /\ refund[r].payment \in Txns
  BY <1>2 DEF PaymentsInv, RefundSound
<1>4. PICK x \in Txns : x = refund[r].payment
  BY <1>3
<1>5. PICK n, f, kind, outcome :
        /\ n = latest[x].refunded + IF succeeds THEN refund[r].amount ELSE 0
        /\ kind = IF succeeds THEN "refund-succeeded" ELSE "refund-failed"
        /\ outcome = IF succeeds THEN "succeeded" ELSE "failed"
        /\ f = RefundFact(kind, x, n, r)
  OBVIOUS
<1>6. /\ accepted' = [accepted EXCEPT ![r] = outcome]
      /\ latest' = [latest EXCEPT ![x] = f] /\ told' = told \cup {f}
  BY <1>1, <1>4, <1>5 DEF Tell
<1>7. PaymentsTypeOK /\ Typed(refund) /\ outcome \in {"succeeded", "failed"}
  BY <1>5 DEF PaymentsInv, PaymentsTypeOK, Typed
<1>8. /\ latest[x].refunded \in Nat /\ refund[r].amount \in Nat
      /\ Amount(refund, Processing(x)) \in Nat /\ Amount(refund, PaidBack(x)) \in Nat
      /\ Amount(refund, Processing(x))' \in Nat
  <2>1. Processing(x)' \in SUBSET Refunds
    BY DEF Processing
  <2>2. Amount(refund, Processing(x))' = Amount(refund, Processing(x)')
    BY <1>2 DEF Amount
  <2>. QED BY <1>7, <2>1, <2>2, TypedBooks, AmountsAreNumbers, AmountType DEF Processing, PaidBack
<1>9. /\ latest[x].refunded + Amount(refund, Processing(x)) <= Price
      /\ Amount(refund, PaidBack(x)) <= latest[x].refunded
  BY DEF PaymentsInv, BookSound
<1>10. /\ Amount(refund, Processing(x)) = Amount(refund, Processing(x))' + refund[r].amount
       /\ Amount(refund, PaidBack(x))' = Amount(refund, PaidBack(x))
            + (IF outcome = "succeeded" THEN refund[r].amount ELSE 0)
  BY <1>2, <1>3, <1>4, <1>6, <1>7, SettledSums
<1>11. PICK a, p, q, b \in Nat :
         /\ a = refund[r].amount /\ p = Amount(refund, Processing(x))'
         /\ q = Amount(refund, PaidBack(x)) /\ b = latest[x].refunded
  BY <1>8
<1>12. n = b + (IF succeeds THEN a ELSE 0) /\ b + (p + a) <= Price /\ q <= b
       /\ Amount(refund, PaidBack(x))' = q + (IF succeeds THEN a ELSE 0)
  BY <1>5, <1>9, <1>10, <1>11
<1>13. /\ n \in 0 .. Price /\ b <= n /\ n + p <= Price /\ q + (IF succeeds THEN a ELSE 0) <= n
  <2>1. Price \in Nat
    BY PaymentsAssumption
  <2>2. CASE succeeds
    BY <1>12, <2>1, <2>2
  <2>3. CASE ~succeeds
    BY <1>12, <2>1, <2>3
  <2>. QED BY <2>2, <2>3
<1>14. OrderOf[x] \in Orders /\ x \in Payments
  BY PaymentsAssumption DEF ProviderOrders, Payments
<1>15. f \in VerifiedFact /\ f.payment = x /\ f.refunded = n /\ f.refund = r
  BY <1>5, <1>13, <1>14 DEF RefundFact, VerifiedFact, FactKinds
<1>16. Vouched(f)'
  <2>1. latest'[x] = f /\ f # NoFact /\ f.refunded <= f.refunded
    BY <1>6, <1>7, <1>13, <1>15, FactTypes DEF PaymentsTypeOK
  <2>2. kind = "refund-succeeded" => accepted'[r] = "succeeded"
    BY <1>5, <1>6, <1>7 DEF PaymentsTypeOK
  <2>3. kind # "closed" /\ kind # "paid" /\ f.kind = kind /\ f.order = OrderOf[x]
    BY <1>5 DEF RefundFact
  <2>. QED BY <1>2, <1>3, <1>4, <1>14, <1>15, <2>1, <2>2, <2>3, PaymentsAssumption DEF Vouched
<1>17. \A y \in Txns \ {x} :
        /\ Amount(refund, Processing(y))' = Amount(refund, Processing(y))
        /\ Amount(refund, PaidBack(y))' = Amount(refund, PaidBack(y))
  BY <1>2, <1>4, <1>6, <1>7, OtherSumsStay DEF PaymentsTypeOK
<1>18. /\ accepted' \in [Refunds -> {"none", "processing", "succeeded", "failed"}]
       /\ \A q1 \in Refunds : /\ accepted[q1] = "succeeded" => accepted'[q1] = "succeeded"
                              /\ accepted'[q1] = "none" <=> accepted[q1] = "none"
  BY <1>2, <1>6, <1>7 DEF PaymentsTypeOK
<1>19. /\ f.refunded + Amount(refund, Processing(x))' <= Price
       /\ Amount(refund, PaidBack(x))' <= f.refunded
       /\ latest[x].refunded <= f.refunded
  BY <1>11, <1>12, <1>13, <1>15
<1>. QED BY <1>2, <1>6, <1>15, <1>16, <1>17, <1>18, <1>19, ProviderMoves

LEMMA ProviderClosesKept ==
  ASSUME PaymentsInv, PlacementInv', NEW o \in ProviderOrders, ProviderCloses(o)
  PROVE  Kept
<1>1. PICK f : f = ClosedFact(o)
  OBVIOUS
<1>2. /\ closed' = closed \cup {o} /\ told' = told \cup {f}
      /\ UNCHANGED <<order, fact, refund, period, latest, accepted>> /\ call' = call
      /\ UNCHANGED <<events, queued, serving, now, expired, placements>>
  BY <1>1 DEF ProviderCloses, Tell, ledgerVars, clockVars
<1>3. o \in Orders
  BY DEF ProviderOrders
<1>4. f \in VerifiedFact
  BY <1>1, <1>3, ClosedVouched
<1>5. Vouched(f)'
  BY <1>1, <1>3, PaymentsAssumption DEF ClosedFact, Vouched, Payments
<1>6. order' \in [Orders -> OrderRecord] /\ Accounts'
  BY <1>2 DEF PaymentsInv, PaymentsTypeOK, Accounts
<1>7. LedgerSound' /\ Continued
  BY <1>2, <1>6, OrdersKeepLedger
<1>8. Surroundings'
  BY <1>2, <1>3, <1>4, <1>6
     DEF PaymentsInv, PaymentsTypeOK, Surroundings, PlacementInv, PeriodsTyped
<1>9. ProviderSound'
  <2>1. \A x \in Txns : /\ latest'[x].refunded + Amount(refund, Processing(x))' <= Price
                        /\ Amount(refund, PaidBack(x))' <= latest'[x].refunded
    BY <1>2, SumsStay DEF PaymentsInv, BookSound
  <2>2. told' \subseteq told \cup {f} /\ \A x \in Txns : latest'[x] = latest[x]
    BY <1>2
  <2>3. {f} \in SUBSET VerifiedFact /\ \A g \in {f} : Vouched(g)'
    BY <1>4, <1>5
  <2>. QED BY <1>6, <1>7, <2>1, <2>2, <2>3, BooksMove
<1>10. CallsSound'
  BY <1>2, <1>6, <1>7, CallsRest, AcceptedWaits
<1>. QED BY <1>7, <1>8, <1>9, <1>10 DEF Kept

\* A refund the provider takes is owed from then on, and fits into the price.
LEMMA TakenKept ==
  ASSUME PaymentsInv, NEW c \in Callers, NEW r \in Refunds, At(c, "refund"), r = call[c].refund,
         Refundable(refund[r].payment, refund[r].amount),
         accepted' = [accepted EXCEPT ![r] = "processing"],
         UNCHANGED <<order, fact, refund, period, latest, told>>
  PROVE  /\ LedgerSound' /\ ProviderSound' /\ Continued /\ Accounts'
         /\ accepted' \in [Refunds -> {"none", "processing", "succeeded", "failed"}]
         /\ \A d \in Callers \ {c} : Waiting(d)
<1>1. /\ PaymentsTypeOK /\ Typed(refund)
      /\ accepted \in [Refunds -> {"none", "processing", "succeeded", "failed"}]
  BY DEF PaymentsInv, PaymentsTypeOK, Typed
<1>2. accepted[r] = "none" /\ refund[r] # NoRefund /\ refund[r].payment \in Txns
  BY DEF PaymentsInv, CallSound, RefundSound, At
<1>3. /\ accepted' \in [Refunds -> {"none", "processing", "succeeded", "failed"}]
      /\ accepted'[r] = "processing" /\ \A q \in Refunds \ {r} : accepted'[q] = accepted[q]
  BY <1>1
<1>4. Continued /\ Accounts'
  <2>1. \A x \in Txns : latest[x].refunded \in Nat
    BY <1>1, TypedBooks
  <2>. QED BY <1>1, <1>2, <1>3, <2>1 DEF Continued, Accounts, PaymentsTypeOK
<1>5. LedgerSound'
  <2>1. \A q \in Refunds : accepted'[q] # "none" => refund[q] # NoRefund
    BY <1>2, <1>3 DEF PaymentsInv, RefundSound
  <2>. QED BY <1>4, <2>1, ProviderKeepsLedger DEF Accounts
<1>6. PICK x \in Txns : x = refund[r].payment
  BY <1>2
<1>7. PICK P \in SUBSET Refunds : P = Processing(x)
  BY DEF Processing
<1>8. r \notin P /\ Processing(x)' = P \cup {r} /\ PaidBack(x)' = PaidBack(x)
  BY <1>2, <1>3, <1>6, <1>7 DEF Processing, PaidBack
<1>9. /\ Amount(refund, Processing(x))' = Amount(refund, P \cup {r})
      /\ Amount(refund, PaidBack(x))' = Amount(refund, PaidBack(x))
  BY <1>8 DEF Amount
<1>10. Amount(refund, P \cup {r}) = Amount(refund, P) + refund[r].amount
  BY <1>1, <1>8, AmountJoins
<1>11. latest[x].refunded + Amount(refund, P) + refund[r].amount <= Price
  BY <1>6, <1>7 DEF Refundable
<1>12. /\ latest[x].refunded \in Nat /\ Amount(refund, P) \in Nat /\ refund[r].amount \in Nat
  BY <1>1, TypedBooks, AmountType, AmountsAreNumbers
<1>13. \A y \in Txns : /\ latest'[y].refunded + Amount(refund, Processing(y))' <= Price
                       /\ Amount(refund, PaidBack(y))' <= latest'[y].refunded
  <2>1. \A y \in Txns \ {x} :
          /\ Amount(refund, Processing(y))' = Amount(refund, Processing(y))
          /\ Amount(refund, PaidBack(y))' = Amount(refund, PaidBack(y))
    BY <1>3, <1>6, OtherSumsStay
  <2>2. /\ latest[x].refunded + (Amount(refund, P) + refund[r].amount) <= Price
        /\ Amount(refund, PaidBack(x)) <= latest[x].refunded
    BY <1>11, <1>12 DEF PaymentsInv, BookSound
  <2>. QED BY <1>9, <1>10, <2>1, <2>2 DEF PaymentsInv, BookSound
<1>14. ProviderSound'
  <2>1. told' \subseteq told \cup {} /\ \A y \in Txns : latest'[y] = latest[y]
    OBVIOUS
  <2>2. {} \in SUBSET VerifiedFact /\ \A f \in {} : Vouched(f)'
    OBVIOUS
  <2>. QED BY <1>4, <1>13, <2>1, <2>2, BooksMove
<1>15. \A d \in Callers \ {c} : Waiting(d)
  BY <1>3 DEF PaymentsInv, CallSound, Waiting, At
<1>. QED BY <1>3, <1>4, <1>5, <1>14, <1>15

LEMMA SubmitRefundKept ==
  ASSUME PaymentsInv, PlacementInv', NEW c \in Callers, SubmitRefund(c)
  PROVE  Kept
<1>1. At(c, "refund") /\ call[c].refund \in Refunds /\ refund[call[c].refund] # NoRefund
  BY DEF SubmitRefund, PaymentsInv, CallSound, At
<1>2. PICK r \in Refunds : r = call[c].refund
  BY <1>1
<1>3. /\ UNCHANGED <<order, fact, refund, period, latest, told>>
      /\ UNCHANGED <<events, queued, serving, now, expired, placements, closed>>
  BY DEF SubmitRefund, ledgerVars, clockVars
<1>4. PICK answer \in {"submitted", "processing", "unknown", "failed"} :
        Proceed(c, "refundSent", answer)
  BY DEF SubmitRefund
<1>5. /\ LedgerSound' /\ ProviderSound' /\ Continued /\ Accounts'
      /\ accepted' \in [Refunds -> {"none", "processing", "succeeded", "failed"}]
      /\ \A d \in Callers \ {c} : Waiting(d)
  <2>1. CASE accepted' = accepted
    BY <1>3, <2>1, SameWorld, AcceptedWaits DEF PaymentsInv, PaymentsTypeOK
  <2>2. CASE /\ Refundable(refund[r].payment, refund[r].amount)
             /\ accepted' = [accepted EXCEPT ![r] = "processing"]
    BY <1>1, <1>2, <1>3, <2>2, TakenKept
  <2>. QED BY <1>2, <2>1, <2>2 DEF SubmitRefund
<1>6. Surroundings'
  BY <1>3, <1>5 DEF PaymentsInv, PaymentsTypeOK, Surroundings, PlacementInv, PeriodsTyped
<1>7. CallsSound'
  <2>1. "refundSent" \in PCs /\ answer \in Answers
    BY DEF PCs, Answers
  <2>. QED BY <1>1, <1>4, <1>5, <2>1, ProceedSound
<1>. QED BY <1>5, <1>6, <1>7 DEF Kept

\* Tenants, jobs and time leave the ledger and the provider alone.
LEMMA ContextKept ==
  ASSUME PaymentsInv, PlacementInv', ContextStep \/ UNCHANGED paymentsVars
  PROVE  Kept
<1>1. UNCHANGED <<order, fact, refund, period, events, providerVars, call>>
  BY DEF ContextStep, TenantStops, TenantResumes, JobQueued, JobAttempted, OrderExpires, Tick,
         paymentsVars, ledgerVars
<1>2. UNCHANGED <<placements, latest, closed, accepted, told>>
  BY <1>1 DEF providerVars
<1>3. /\ queued' \subseteq Orders /\ serving' \subseteq Tenants /\ expired' \subseteq Orders
      /\ now' \in 0 .. MaxNow
  <2>1. /\ queued \subseteq Orders /\ serving \subseteq Tenants /\ expired \subseteq Orders
        /\ now \in 0 .. MaxNow /\ MaxNow \in Nat
    BY PaymentsAssumption DEF PaymentsInv, PaymentsTypeOK
  <2>2. CASE \E t \in Tenants : TenantStops(t) \/ TenantResumes(t)
    BY <2>1, <2>2 DEF TenantStops, TenantResumes, ledgerVars
  <2>3. CASE \E o \in Orders : JobQueued(o) \/ JobAttempted(o) \/ OrderExpires(o)
    BY <2>1, <2>3 DEF JobQueued, JobAttempted, OrderExpires, ledgerVars, clockVars
  <2>4. CASE Tick
    BY <2>1, <2>4 DEF Tick, ledgerVars
  <2>5. CASE UNCHANGED paymentsVars
    BY <2>1, <2>5 DEF paymentsVars, ledgerVars, clockVars
  <2>. QED BY <2>2, <2>3, <2>4, <2>5 DEF ContextStep
<1>4. LedgerSound' /\ ProviderSound' /\ Continued /\ Accounts'
  BY <1>1, <1>2, SameWorld
<1>5. Surroundings'
  BY <1>1, <1>2, <1>3, <1>4 DEF PaymentsInv, PaymentsTypeOK, Surroundings, PlacementInv, PeriodsTyped
<1>6. CallsSound'
  BY <1>1, <1>2, <1>4, CallsRest, AcceptedWaits
<1>. QED BY <1>4, <1>5, <1>6 DEF Kept

-----------------------------------------------------------------------------
(* The invariant.                                                           *)

LEMMA UserKept ==
  ASSUME PaymentsInv, PlacementInv', NEW c \in Callers, UserCall(c) \/ WorkerCall(c)
  PROVE  Kept
<1>1. ASSUME NEW o \in ProviderOrders,
             CreateOrder(c, o) \/ ReplayOrder(c, o) \/ QueryOrder(c, o) \/ ReconcileOrder(c, o)
      PROVE  Kept
  <2>1. o \in Orders
    BY DEF ProviderOrders
  <2>. QED BY <1>1, <2>1, CreateKept, ReplayKept, QueryKept DEF ReconcileOrder
<1>2. ASSUME NEW o \in OperatorOrders, NEW x \in References, RecordOperatorOrder(c, o, x)
      PROVE  Kept
  <2>1. o \in Orders
    BY PaymentsAssumption
  <2>. QED BY <1>2, <2>1, OperatorKept
<1>3. ASSUME NEW r \in Refunds, NEW x \in Txns, NEW n \in 1 .. Price,
             NEW action \in {"revoke", "retain"}, RequestRefund(c, r, x, n, action)
      PROVE  Kept
  BY <1>3, RequestRefundKept
<1>4. ASSUME NEW r \in Refunds, AskRefund(c, r)
      PROVE  Kept
  BY <1>4, AskRefundKept
<1>. QED BY <1>1, <1>2, <1>3, <1>4 DEF UserCall, WorkerCall

LEMMA CallKept ==
  ASSUME PaymentsInv, PlacementInv', NEW c \in Callers, CallStep(c)
  PROVE  Kept
<1>1. CASE SubmitOrder(c)
  BY <1>1, SubmitKept
<1>2. CASE RecordPlacement(c) \/ RecordPending(c)
  BY <1>2, RecordKept
<1>3. CASE OrderAnswered(c) \/ RefundAnswered(c) \/ RefundUnclear(c)
  BY <1>3, AnsweredKept
<1>4. CASE ApplyAnswer(c) \/ Collect(c)
  BY <1>4, ApplyKept
<1>5. CASE SubmitRefund(c)
  BY <1>5, SubmitRefundKept
<1>6. CASE RecordRefund(c) \/ RecordRefundSeen(c)
  BY <1>6, RecordRefundKept
<1>7. CASE Abandon(c)
  BY <1>7, AbandonKept
<1>. QED BY <1>1, <1>2, <1>3, <1>4, <1>5, <1>6, <1>7 DEF CallStep

LEMMA ProviderKept ==
  ASSUME PaymentsInv, PlacementInv', ProviderStep
  PROVE  Kept
BY ProviderPaidKept, ConsoleRefundKept, ProviderClosesKept, ProviderSettlesKept DEF ProviderStep

LEMMA StepKeepsPayments ==
  ASSUME PaymentsInv, PlacementInv, [PaymentsNext]_paymentsVars
  PROVE  PaymentsInv'
<1>. SUFFICES Kept
  BY PartsAfter DEF Kept
<1>1. PlacementInv'
  BY StepKeepsPlacement
<1>2. CASE \E c \in Callers \ Workers : UserCall(c)
  BY <1>1, <1>2, UserKept
<1>3. CASE \E c \in Workers : WorkerCall(c)
  BY <1>1, <1>3, UserKept, PaymentsAssumption
<1>4. CASE \E c \in Callers : CallStep(c)
  BY <1>1, <1>4, CallKept
<1>5. CASE \E f \in told : Webhook(f)
  BY <1>1, <1>5, WebhookKept
<1>6. CASE ProviderStep
  BY <1>1, <1>6, ProviderKept
<1>7. CASE ContextStep \/ UNCHANGED paymentsVars
  BY <1>1, <1>7, ContextKept
<1>. QED BY <1>2, <1>3, <1>4, <1>5, <1>6, <1>7 DEF PaymentsNext

LEMMA PaymentsBegin == PaymentsInit => PaymentsInv
<1>. SUFFICES ASSUME PaymentsInit PROVE PaymentsInv
  OBVIOUS
<1>1. /\ NoOrder \in OrderRecord /\ NoFact \in FactRecord /\ NoRefund \in RefundRecord
      /\ NoPeriod \in PeriodRecord /\ NoCall \in CallRecord
  BY PaymentsAssumption
     DEF NoOrder, OrderRecord, OrderStates, FactRecord, RefundRecord, NoPeriod, PeriodRecord,
         NoCall, CallRecord, PCs, Answers
<1>2. PaymentsTypeOK
  <2>1. 0 \in 0 .. MaxNow
    BY PaymentsAssumption
  <2>. HIDE DEF NoOrder, NoFact, NoRefund, NoPeriod, NoCall
  <2>. QED BY <1>1, <2>1 DEF PaymentsInit, PaymentsTypeOK
<1>3. \A x \in Txns : Processing(x) = {} /\ PaidBack(x) = {}
  BY DEF PaymentsInit, Processing, PaidBack
<1>4. \A x \in Txns : BookSound(x)
  <2>1. \A x \in Txns : latest[x] = NoFact /\ latest[x].refunded = 0
    BY DEF PaymentsInit, NoFact
  <2>2. \A x \in Txns : Amount(refund, Processing(x)) = 0 /\ Amount(refund, PaidBack(x)) = 0
    BY <1>3, AmountOfNone
  <2>. QED BY <2>1, <2>2, PaymentsAssumption DEF BookSound
<1>5. \A c \in Callers : CallSound(c) /\ ~At(c, "refund")
  BY DEF PaymentsInit, CallSound, At, NoCall
<1>6. \A r \in Refunds : RefundSound(r)
  BY DEF PaymentsInit, RefundSound, NoRefund
<1>7. \A x \in Payments : FactSound(x)
  BY DEF PaymentsInit, FactSound
<1>8. \A o \in Orders : OrderSound(o)
  BY DEF PaymentsInit, OrderSound, NoPeriod
<1>9. \A f \in told : Vouched(f)
  BY DEF PaymentsInit
<1>. QED BY <1>2, <1>4, <1>5, <1>6, <1>7, <1>8, <1>9 DEF PaymentsInv

LEMMA PaymentsInvHolds == PaymentsSpec => [](PaymentsInv /\ PlacementInv)
<1>1. PaymentsInv /\ PlacementInv /\ [PaymentsNext]_paymentsVars => PaymentsInv' /\ PlacementInv'
  BY StepKeepsPayments, StepKeepsPlacement
<1>. QED BY <1>1, PaymentsBegin, PlacementBegins, PTL DEF PaymentsSpec

\* Whatever is placed, paid, refunded and reported, by any number of calls and in
\* any order, the tables, the provider's books and the calls keep their types.
THEOREM PaymentsTyped == PaymentsSpec => []PaymentsTypeOK
<1>1. PaymentsInv => PaymentsTypeOK
  BY DEF PaymentsInv
<1>. QED BY <1>1, PaymentsInvHolds, PTL

\* The account the ledger keeps of a payment lies between the refunds it knows to
\* have succeeded and what the provider has paid back (platform-payments.ts,
\* applyVerifiedPaymentEvent).
THEOREM RefundsAreTrue == PaymentsSpec => []RefundLedgerHonest
<1>1. PaymentsInv => RefundLedgerHonest
  <2>1. Txns \subseteq Payments
    BY DEF Payments
  <2>. QED BY <2>1 DEF PaymentsInv, FactSound, RefundLedgerHonest
<1>. QED BY <1>1, PaymentsInvHolds, PTL

\* A period stands only while no payment of its order is refunded in full and no
\* refund that asked for revocation has succeeded, however late the facts come
\* (platform-payments.ts, applyVerifiedPaymentEvent).
THEOREM NothingServedRefunded == PaymentsSpec => []RefundedNeverServed
<1>1. PaymentsInv => RefundedNeverServed
  <2>. SUFFICES ASSUME PaymentsInv, NEW o \in Orders, period[o].status = "paid"
                PROVE  /\ \A x \in Payments : fact[x].order = o =>
                            fact[x].refunded = 0 \/ fact[x].refunded < Price
                       /\ \A r \in Refunds : refund[r].state = "succeeded"
                                             /\ fact[refund[r].payment].order = o
                                               => refund[r].action = "retain"
    BY DEF RefundedNeverServed
  <2>1. OrderSound(o) /\ o # Nobody /\ Price \in Nat /\ order[o].refunded \in Nat
    BY TypedBooks, PaymentsAssumption DEF PaymentsInv
  <2>2. ASSUME NEW x \in Payments, fact[x].order = o
        PROVE  fact[x].refunded = 0 \/ fact[x].refunded < Price
    <3>1. fact[x] # NoFact
      BY <2>1, <2>2 DEF NoFact
    <3>2. fact[x].refunded \in Nat /\ fact[x].refunded <= order[o].refunded
      BY <2>2, <3>1, TypedBooks DEF PaymentsInv, FactSound
    <3>. QED BY <2>1, <3>2 DEF OrderSound
  <2>. QED BY <2>1, <2>2 DEF OrderSound
<1>. QED BY <1>1, PaymentsInvHolds, PTL

\* Behind every period stands a payment of its own order, and one the provider
\* really took when it is one of the provider's.
THEOREM PeriodsArePaid == PaymentsSpec => []ServiceIsPaidFor
<1>1. PaymentsInv => ServiceIsPaidFor
  <2>. SUFFICES ASSUME PaymentsInv, NEW o \in Orders, period[o] # NoPeriod
                PROVE  /\ order[o].state = "paid"
                       /\ \E x \in Payments : fact[x].order = o
                       /\ \A x \in Txns : fact[x].order = o => latest[x] # NoFact /\ OrderOf[x] = o
    BY DEF ServiceIsPaidFor
  <2>1. order[o].state = "paid" /\ \E x \in Payments : fact[x].order = o
    BY DEF PaymentsInv, OrderSound
  <2>2. \A x \in Txns : fact[x].order = o => fact[x] # NoFact /\ x \in Payments
    BY PaymentsAssumption DEF NoFact, Payments
  <2>. QED BY <2>1, <2>2 DEF PaymentsInv, FactSound
<1>. QED BY <1>1, PaymentsInvHolds, PTL

-----------------------------------------------------------------------------
(* What a step does to the tables.                                          *)

\* It moves an order that is neither paid nor unpaid by it, or a refund that has
\* not succeeded, or it books a fact of the provider.
MovesOrders ==
  /\ UNCHANGED <<fact, refund, period>>
  /\ \A o \in Orders : /\ order'[o].refunded = order[o].refunded
                       /\ order'[o].state = "paid" <=> order[o].state = "paid"
MovesRefunds ==
  /\ UNCHANGED <<order, fact, period>>
  /\ \A r \in Refunds : refund[r].state = "succeeded" => refund'[r].state = "succeeded"
BooksFact(f) ==
  /\ Vouched(f) /\ f.kind # "closed" /\ ~Rejected(f)
  /\ \E authoritative : ApplyFinancial(f, authoritative)
MovesTables == MovesOrders \/ MovesRefunds \/ \E f \in VerifiedFact : BooksFact(f)

LEMMA ApplyMovesTables ==
  ASSUME PaymentsInv, NEW f \in VerifiedFact, Vouched(f), NEW via, NEW authoritative,
         Apply(f, via, authoritative)
  PROVE  MovesTables
<1>1. order \in [Orders -> OrderRecord]
  BY DEF PaymentsInv, PaymentsTypeOK
<1>2. CASE UNCHANGED ledgerVars
  BY <1>2 DEF ledgerVars, MovesTables, MovesOrders
<1>3. CASE ApplyClosed(f)
  <2>1. CASE order' = order
    BY <1>3, <2>1 DEF ApplyClosed, MovesTables, MovesOrders
  <2>2. CASE order[f.order].state # "paid" /\ order' = [order EXCEPT ![f.order].state = "closed"]
    <3>1. \A o \in Orders : /\ order'[o].refunded = order[o].refunded
                            /\ order'[o].state = "paid" <=> order[o].state = "paid"
      BY <1>1, <2>2 DEF OrderRecord
    <3>. QED BY <1>3, <3>1 DEF ApplyClosed, MovesTables, MovesOrders
  <2>. QED BY <1>3, <2>1, <2>2 DEF ApplyClosed
<1>4. CASE f.kind # "closed" /\ ~Rejected(f) /\ ApplyFinancial(f, authoritative)
  BY <1>4 DEF MovesTables, BooksFact
<1>. QED BY <1>2, <1>3, <1>4 DEF Apply

LEMMA MarkMovesTables ==
  ASSUME PaymentsInv, NEW o, NEW outcome, MarkOrder(o, outcome), UNCHANGED <<fact, refund, period>>
  PROVE  MovesTables
<1>1. order \in [Orders -> OrderRecord]
  BY DEF PaymentsInv, PaymentsTypeOK
<1>2. CASE order' = order
  BY <1>2 DEF MovesTables, MovesOrders
<1>3. CASE order' = [order EXCEPT ![o].request = outcome,
                                  ![o].state = IF @ = "created" THEN "pending" ELSE @]
  <2>1. \A p \in Orders : /\ order'[p].refunded = order[p].refunded
                          /\ order'[p].state = "paid" <=> order[p].state = "paid"
    BY <1>1, <1>3 DEF OrderRecord
  <2>. QED BY <2>1 DEF MovesTables, MovesOrders
<1>. QED BY <1>2, <1>3 DEF MarkOrder

LEMMA UpdateMovesTables ==
  ASSUME PaymentsInv, NEW r, NEW outcome, UpdateRefund(r, outcome), UNCHANGED <<order, fact, period>>
  PROVE  MovesTables
<1>1. refund \in [Refunds -> RefundRecord]
  BY DEF PaymentsInv, PaymentsTypeOK
<1>2. \A q \in Refunds : refund[q].state = "succeeded" => refund'[q].state = "succeeded"
  BY <1>1 DEF UpdateRefund, Unsettled
<1>. QED BY <1>2 DEF MovesTables, MovesRefunds

LEMMA CreatedMovesTables ==
  ASSUME PaymentsInv, NEW o \in Orders, order[o] = NoOrder,
         order' = [order EXCEPT ![o].state = "created"], UNCHANGED <<fact, refund, period>>
  PROVE  MovesTables
<1>1. order \in [Orders -> OrderRecord] /\ order[o].state = "none"
  BY DEF PaymentsInv, PaymentsTypeOK, NoOrder
<1>2. \A p \in Orders : /\ order'[p].refunded = order[p].refunded
                        /\ order'[p].state = "paid" <=> order[p].state = "paid"
  BY <1>1 DEF OrderRecord
<1>. QED BY <1>2 DEF MovesTables, MovesOrders

LEMMA StepMovesTables ==
  ASSUME PaymentsInv, [PaymentsNext]_paymentsVars
  PROVE  MovesTables
<1>1. UNCHANGED <<order, fact, refund, period>> => MovesTables
  BY DEF MovesTables, MovesOrders
<1>2. ASSUME NEW c \in Callers, UserCall(c) \/ WorkerCall(c)
      PROVE  MovesTables
  <2>1. ASSUME NEW o \in ProviderOrders, CreateOrder(c, o)
        PROVE  MovesTables
    BY <2>1, CreatedMovesTables DEF CreateOrder, ProviderOrders
  <2>2. ASSUME NEW o \in ProviderOrders,
               ReplayOrder(c, o) \/ QueryOrder(c, o) \/ ReconcileOrder(c, o)
        PROVE  MovesTables
    BY <1>1, <2>2 DEF ReplayOrder, QueryOrder, ReconcileOrder, ledgerVars
  <2>3. ASSUME NEW o \in OperatorOrders, NEW x \in References, RecordOperatorOrder(c, o, x)
        PROVE  MovesTables
    BY <2>3, CreatedMovesTables, PaymentsAssumption DEF RecordOperatorOrder
  <2>4. ASSUME NEW r \in Refunds, NEW x \in Txns, NEW n \in 1 .. Price,
               NEW action \in {"revoke", "retain"}, RequestRefund(c, r, x, n, action)
        PROVE  MovesTables
    <3>1. refund \in [Refunds -> RefundRecord] /\ refund[r].state # "succeeded"
      BY <2>4 DEF RequestRefund, NoRefund, PaymentsInv, PaymentsTypeOK
    <3>2. \A q \in Refunds : refund[q].state = "succeeded" => refund'[q].state = "succeeded"
      BY <2>4, <3>1 DEF RequestRefund
    <3>. QED BY <2>4, <3>2 DEF RequestRefund, MovesTables, MovesRefunds
  <2>5. ASSUME NEW r \in Refunds, AskRefund(c, r)
        PROVE  MovesTables
    BY <1>1, <2>5 DEF AskRefund, ledgerVars
  <2>. QED BY <1>2, <2>1, <2>2, <2>3, <2>4, <2>5 DEF UserCall, WorkerCall
<1>3. ASSUME NEW c \in Callers, CallStep(c)
      PROVE  MovesTables
  <2>1. CASE RecordPlacement(c) \/ RecordPending(c)
    BY <2>1, MarkMovesTables DEF RecordPlacement, RecordPending
  <2>2. CASE ApplyAnswer(c) \/ Collect(c)
    <3>1. PICK f \in call[c].facts : \E via, authoritative : Apply(f, via, authoritative)
      BY <2>2 DEF ApplyAnswer, Collect
    <3>2. f \in VerifiedFact /\ Vouched(f)
      BY ToldToCalls
    <3>. QED BY <3>1, <3>2, ApplyMovesTables
  <2>3. CASE RecordRefund(c) \/ RecordRefundSeen(c)
    BY <2>3, UpdateMovesTables DEF RecordRefund, RecordRefundSeen
  <2>4. CASE \/ SubmitOrder(c) \/ OrderAnswered(c) \/ SubmitRefund(c) \/ RefundAnswered(c)
             \/ RefundUnclear(c) \/ Abandon(c)
    BY <1>1, <2>4 DEF SubmitOrder, OrderAnswered, SubmitRefund, RefundAnswered, RefundUnclear,
                      Abandon, ledgerVars
  <2>. QED BY <1>3, <2>1, <2>2, <2>3, <2>4 DEF CallStep
<1>4. ASSUME NEW f \in told, Webhook(f)
      PROVE  MovesTables
  <2>1. f \in VerifiedFact /\ Vouched(f)
    BY DEF PaymentsInv, PaymentsTypeOK
  <2>. QED BY <1>4, <2>1, ApplyMovesTables DEF Webhook
<1>5. CASE ProviderStep
  BY <1>1, <1>5 DEF ProviderStep, ProviderPaid, ConsoleRefund, ProviderCloses, ProviderSettles,
                    ledgerVars
<1>6. ASSUME ContextStep \/ UNCHANGED paymentsVars
      PROVE  MovesTables
  <2>1. UNCHANGED <<order, fact, refund, period>>
    BY <1>6 DEF ContextStep, TenantStops, TenantResumes, JobQueued, JobAttempted, OrderExpires,
                Tick, paymentsVars, ledgerVars
  <2>. QED BY <1>1, <2>1
<1>. QED BY <1>2, <1>3, <1>4, <1>5, <1>6, PaymentsAssumption DEF PaymentsNext

\* What a booked fact changes of the account of its payment, of its order and of
\* the period: amounts grow, and a period that stands stays or is withdrawn.
LEMMA BookedIsFinal ==
  ASSUME PaymentsInv, NEW f \in VerifiedFact, BooksFact(f)
  PROVE  /\ \A o \in Orders :
              /\ order[o].state = "paid" => order'[o].state = "paid"
              /\ order[o].refunded <= order'[o].refunded
              /\ period[o].status = "revoked" => period'[o] = period[o]
              /\ period[o].status = "paid" =>
                   period'[o] \in {period[o], [period[o] EXCEPT !.status = "revoked"]}
         /\ \A x \in Payments : fact[x] # NoFact =>
              /\ fact'[x].order = fact[x].order
              /\ fact[x].refunded <= fact'[x].refunded
         /\ \A r \in Refunds :
              refund[r].state = "succeeded" => refund'[r].state = "succeeded"
<1>1. PICK authoritative : ApplyFinancial(f, authoritative)
  BY DEF BooksFact
<1>2. Vouched(f) /\ f.kind # "closed" /\ ~Rejected(f) /\ PaymentsTypeOK /\ Typed(refund)
  BY DEF BooksFact, PaymentsInv, PaymentsTypeOK, Typed
<1>3. f.order \in Orders /\ f.payment \in Payments
      /\ (fact[f.payment] # NoFact => fact[f.payment].order = f.order)
  BY <1>2, FactTypes, Accounting
<1>4. /\ fact[f.payment].refunded <= ConfirmedAfter(f)
      /\ order[f.order].refunded <= RefundedAfter(f)
  BY <1>2, <1>3, ConfirmedIsMax
<1>5. /\ \A o \in Orders : order[o].refunded \in Nat
      /\ \A x \in Payments : fact[x] # NoFact => fact[x].refunded \in Nat
  BY <1>2, TypedBooks
<1>6. /\ refund' = RefundAfter(f)
      /\ fact'[f.payment].order = f.order /\ fact'[f.payment].refunded = ConfirmedAfter(f)
      /\ \A x \in Payments \ {f.payment} : fact'[x] = fact[x]
      /\ order'[f.order].state = "paid" /\ order'[f.order].refunded = RefundedAfter(f)
      /\ \A p \in Orders \ {f.order} : order'[p] = order[p] /\ period'[p] = period[p]
  BY <1>1, <1>2, FinancialFields
<1>7. \/ period[f.order] = NoPeriod
      \/ /\ period[f.order].status = "paid"
         /\ period'[f.order] = [period[f.order] EXCEPT !.status = "revoked"]
      \/ period'[f.order] = period[f.order]
  BY <1>1, <1>2, FinancialFields
<1>8. ASSUME NEW o \in Orders
      PROVE  /\ order[o].state = "paid" => order'[o].state = "paid"
             /\ order[o].refunded <= order'[o].refunded
  BY <1>4, <1>5, <1>6
<1>9. ASSUME NEW o \in Orders
      PROVE  /\ period[o].status = "revoked" => period'[o] = period[o]
             /\ period[o].status = "paid" =>
                  period'[o] \in {period[o], [period[o] EXCEPT !.status = "revoked"]}
  BY <1>6, <1>7 DEF NoPeriod
<1>10. \A x \in Payments : fact[x] # NoFact =>
         fact'[x].order = fact[x].order /\ fact[x].refunded <= fact'[x].refunded
  BY <1>3, <1>4, <1>5, <1>6
<1>11. \A r \in Refunds : refund[r].state = "succeeded" => refund'[r].state = "succeeded"
  BY <1>2, <1>6, RefundsAfter
<1>. QED BY <1>8, <1>9, <1>10, <1>11

\* A paid order is never unpaid, refunded amounts never shrink, a payment never
\* moves to another order, a succeeded refund and a revoked period are final, and a
\* period keeps its place, whatever is applied in whatever order
\* (platform-payments.ts, applyVerifiedPaymentEvent).
THEOREM SettledIsFinal == PaymentsSpec => PaymentsAreFinal
<1>. DEFINE final ==
       /\ \A o \in Orders :
            /\ order[o].state = "paid" => order'[o].state = "paid"
            /\ order[o].refunded <= order'[o].refunded
            /\ period[o].status = "revoked" => period'[o] = period[o]
            /\ period[o].status = "paid" =>
                 period'[o] \in {period[o], [period[o] EXCEPT !.status = "revoked"]}
       /\ \A x \in Payments : fact[x] # NoFact =>
            /\ fact'[x].order = fact[x].order
            /\ fact[x].refunded <= fact'[x].refunded
       /\ \A r \in Refunds :
            refund[r].state = "succeeded" => refund'[r].state = "succeeded"
<1>1. PaymentsInv /\ [PaymentsNext]_paymentsVars => [final]_paymentsVars
  <2>. SUFFICES ASSUME PaymentsInv, [PaymentsNext]_paymentsVars PROVE final
    OBVIOUS
  <2>1. /\ \A o \in Orders : order[o].refunded \in Nat
        /\ \A x \in Payments : fact[x] # NoFact => fact[x].refunded \in Nat
    BY TypedBooks DEF PaymentsInv
  <2>2. CASE MovesOrders
    BY <2>1, <2>2 DEF MovesOrders
  <2>3. CASE MovesRefunds
    BY <2>1, <2>3 DEF MovesRefunds
  <2>4. CASE \E f \in VerifiedFact : BooksFact(f)
    BY <2>4, BookedIsFinal
  <2>. QED BY <2>2, <2>3, <2>4, StepMovesTables DEF MovesTables
<1>. QED BY <1>1, PaymentsInvHolds, PTL DEF PaymentsSpec, PaymentsAreFinal

-----------------------------------------------------------------------------
(* The purchase of each order.                                              *)

Money == [o \in Orders |-> IF order[o].state = "paid" THEN "received" ELSE "due"]
ServiceOf(status) == CASE status = "paid" -> "given"
                       [] status = "revoked" -> "withdrawn"
                       [] OTHER -> "none"
Service == [o \in Orders |-> ServiceOf(period[o].status)]
Returned == [o \in Orders |-> order[o].refunded]

\* What a booked fact makes of the service of its order, with n units paid back.
LEMMA BookedService ==
  ASSUME PaymentsInv, NEW f \in VerifiedFact, BooksFact(f), NEW n, n = RefundedAfter(f),
         NEW o, o = f.order
  PROVE  \/ /\ ServiceOf(period[o].status) = "none"
            /\ \/ ServiceOf(period'[o].status) = "none"
               \/ n = 0 /\ ServiceOf(period'[o].status) = "given"
         \/ /\ ServiceOf(period[o].status) = "given"
            /\ \/ n > 0 /\ ServiceOf(period'[o].status) = "withdrawn"
               \/ (n = 0 \/ n < Price) /\ ServiceOf(period'[o].status) = "given"
         \/ /\ ServiceOf(period[o].status) = "withdrawn"
            /\ ServiceOf(period'[o].status) = "withdrawn"
<1>1. PICK authoritative : ApplyFinancial(f, authoritative)
  BY DEF BooksFact
<1>2. Vouched(f) /\ f.kind # "closed" /\ ~Rejected(f) /\ PaymentsTypeOK /\ Typed(refund)
  BY DEF BooksFact, PaymentsInv, PaymentsTypeOK, Typed
<1>3. o \in Orders /\ f.payment \in Payments /\ Price \in Nat
      /\ (fact[f.payment] # NoFact => fact[f.payment].order = o)
      /\ ConfirmedAfter(f) \in 0 .. Price
  BY <1>2, FactTypes, Accounting, PaymentsAssumption
<1>4. OrderSound(o) /\ order[o].refunded \in Nat
  BY <1>2, <1>3, TypedBooks DEF PaymentsInv
<1>5. /\ n \in {order[o].refunded, ConfirmedAfter(f)} /\ ConfirmedAfter(f) <= n
      /\ n \in Nat
  <2>1. ConfirmedAfter(f) \in Nat /\ RefundedAfter(f) = Max({order[o].refunded, ConfirmedAfter(f)})
    BY <1>3 DEF RefundedAfter
  <2>. QED BY <1>4, <2>1, MaxOfTwo
<1>6. period[o] \in PeriodRecord
  BY <1>2, <1>3 DEF PaymentsTypeOK
<1>7. CASE period[o] = NoPeriod /\ n = 0 /\ period'[o].status = "paid"
  BY <1>7 DEF ServiceOf, NoPeriod
<1>8. CASE /\ period[o].status = "paid" /\ Withdraws(f)
           /\ period'[o] = [period[o] EXCEPT !.status = "revoked"]
  <2>1. period'[o].status = "revoked"
    BY <1>6, <1>8 DEF PeriodRecord
  <2>2. n > 0
    <3>1. CASE Price > 0 /\ ConfirmedAfter(f) = Price
      BY <1>3, <1>5, <3>1
    <3>2. CASE KnownRefund(f) /\ f.kind = "refund-succeeded" /\ refund[f.refund].action = "revoke"
      <4>1. RefundAfter(f)[f.refund].state = "succeeded" /\ f.refund \in Refunds
        BY <1>2, <3>2, RefundsAfter DEF KnownRefund
      <4>2. refund[f.refund].payment = f.payment /\ fact[f.payment] # NoFact
        BY <1>2, <3>2, <4>1 DEF Rejected, KnownRefund, PaymentsInv, RefundSound, NoRefund
      <4>3. refund[f.refund].state # "succeeded"
        BY <1>3, <1>4, <1>8, <3>2, <4>1, <4>2 DEF OrderSound
      <4>4. 0 < ConfirmedAfter(f)
        BY <1>2, <4>1, <4>3, Accounting
      <4>. QED BY <1>3, <1>5, <4>4
    <3>. QED BY <1>8, <3>1, <3>2 DEF Withdraws
  <2>. QED BY <1>8, <2>1, <2>2 DEF ServiceOf
<1>9. CASE period'[o] = period[o] /\ (period[o].status = "paid" => ~Withdraws(f))
  <2>1. CASE period[o].status = "paid"
    <3>1. order[o].refunded = 0 \/ order[o].refunded < Price
      BY <1>4, <2>1 DEF OrderSound
    <3>2. Price = 0 \/ ConfirmedAfter(f) < Price
      BY <1>3, <1>9, <2>1 DEF Withdraws
    <3>3. n = 0 \/ n < Price
      BY <1>3, <1>4, <1>5, <3>1, <3>2
    <3>. QED BY <1>9, <2>1, <3>3 DEF ServiceOf
  <2>2. CASE period[o].status = "revoked"
    BY <1>9, <2>2 DEF ServiceOf
  <2>3. CASE period[o].status = "none"
    BY <1>9, <2>3 DEF ServiceOf
  <2>. QED BY <1>6, <2>1, <2>2, <2>3 DEF PeriodRecord
<1>10. \/ period[o] = NoPeriod /\ RefundedAfter(f) = 0 /\ period'[o].status = "paid"
       \/ /\ period[o].status = "paid" /\ Withdraws(f)
          /\ period'[o] = [period[o] EXCEPT !.status = "revoked"]
       \/ period'[o] = period[o] /\ (period[o].status = "paid" => ~Withdraws(f))
  BY <1>1, <1>2, FinancialFields
<1>. QED BY <1>7, <1>8, <1>9, <1>10

\* Booking a fact accounts for the order it names.
LEMMA BookedAccounts ==
  ASSUME PaymentsInv, NEW f \in VerifiedFact, BooksFact(f)
  PROVE  \E o \in Orders : Bought!Account(o)
<1>1. PICK authoritative : ApplyFinancial(f, authoritative)
  BY DEF BooksFact
<1>2. PICK o \in Orders : o = f.order
  BY FactTypes
<1>3. PICK n : n = RefundedAfter(f)
  OBVIOUS
<1>4. Vouched(f) /\ f.kind # "closed" /\ ~Rejected(f) /\ PaymentsTypeOK
  BY DEF BooksFact, PaymentsInv
<1>5. /\ order'[o].state = "paid" /\ order'[o].refunded = n
      /\ \A p \in Orders \ {o} : order'[p] = order[p] /\ period'[p] = period[p]
  BY <1>1, <1>2, <1>3, <1>4, FinancialFields
<1>6. Money' = [Money EXCEPT ![o] = "received"] /\ Returned' = [Returned EXCEPT ![o] = n]
  BY <1>5 DEF Money, Returned
<1>7. PICK s : s = ServiceOf(period'[o].status)
  OBVIOUS
<1>8. Service' = [Service EXCEPT ![o] = s]
  BY <1>5, <1>7 DEF Service
<1>9. n \in Returned[o] .. Price
  <2>1. n \in 0 .. Price /\ order[o].refunded <= n
    BY <1>2, <1>3, <1>4, Accounting, ConfirmedIsMax
  <2>2. order[o].refunded \in Nat /\ Price \in Nat
    BY <1>4, TypedBooks
  <2>. QED BY <2>1, <2>2 DEF Returned
<1>10. \/ Service[o] = "none" /\ (s = "none" \/ (n = 0 /\ s = "given"))
       \/ Service[o] = "given" /\ ((n > 0 /\ s = "withdrawn") \/ ((n = 0 \/ n < Price) /\ s = "given"))
       \/ Service[o] = "withdrawn" /\ s = "withdrawn"
  BY <1>2, <1>3, <1>7, BookedService DEF Service
<1>11. s \in Bought!ServiceAfter(o, n)
  <2>1. Bought!ServiceAfter(o, n) =
          CASE Service[o] = "none" -> {"none"} \cup (IF n = 0 THEN {"given"} ELSE {})
            [] Service[o] = "given" -> (IF n > 0 THEN {"withdrawn"} ELSE {})
                                       \cup (IF n = 0 \/ n < Price THEN {"given"} ELSE {})
            [] OTHER -> {"withdrawn"}
    BY DEF Bought!ServiceAfter, Service, ServiceOf
  <2>. QED BY <1>10, <2>1
<1>12. Bought!Account(o)
  BY <1>6, <1>8, <1>9, <1>11 DEF Bought!Account, Money, Service, ServiceOf, Returned
<1>. QED BY <1>12

LEMMA PurchaseFollows ==
  ASSUME PaymentsInv, [PaymentsNext]_paymentsVars
  PROVE  [Bought!PurchaseNext]_Bought!purchaseVars
<1>1. CASE MovesOrders
  BY <1>1 DEF MovesOrders, Bought!purchaseVars
<1>2. CASE MovesRefunds
  BY <1>2 DEF MovesRefunds, Bought!purchaseVars
<1>3. CASE \E f \in VerifiedFact : BooksFact(f)
  BY <1>3, BookedAccounts DEF Bought!PurchaseNext
<1>. QED BY <1>1, <1>2, <1>3, StepMovesTables DEF MovesTables

\* Orders, facts, refunds and periods keep the promise of a purchase, for any
\* orders, prices and interleavings: service is given only while nothing was paid
\* back, once, and is withdrawn for good and only when money went back.
THEOREM KeepsThePurchase == PaymentsSpec => ImplementsPurchase
<1>1. PaymentsInit => Bought!PurchaseInit
  BY DEF PaymentsInit, Bought!PurchaseInit, NoOrder, NoPeriod
<1>2. PaymentsInv /\ [PaymentsNext]_paymentsVars => [Bought!PurchaseNext]_Bought!purchaseVars
  BY PurchaseFollows
<1>. QED BY <1>1, <1>2, PaymentsInvHolds, PTL
         DEF PaymentsSpec, ImplementsPurchase, Bought!PurchaseSpec

=============================================================================
