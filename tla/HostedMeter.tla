----------------------------- MODULE HostedMeter -----------------------------
(***************************************************************************)
(* The metering of model calls in the hosted edition.  A tool that asks a  *)
(* model runs as one operation: a session holds a lease on the operation's *)
(* run in the tenant's database and another on its reservation in the      *)
(* control plane, registers each request as an attempt before it sends it, *)
(* saves the answer before it confirms the attempt's cost, and captures or *)
(* releases the reserved unit at the end.  Sources: db/hosted/             *)
(* platform-llm.ts, adapters/llm/hosted-meter.ts, adapters/llm/            *)
(* hosted-model-transport.ts, tools/platform/llm.ts and execution() of     *)
(* db/repository/drizzle/workflow-run.ts.                                  *)
(*                                                                         *)
(* The two databases share no transaction: a session takes one step per    *)
(* call, and between two of them it may crash, or stall until a lease      *)
(* lapses and another session of the operation takes over.                 *)
(***************************************************************************)
EXTENDS Naturals, FiniteSets

CONSTANTS
  Operations,    \* operations of one tenant in one paid period
  Sessions,      \* invocations of run(), each with a token of its own
  OpOf,          \* the operation each session runs
  Requests,      \* model requests an operation makes at most
  Reserved,      \* the cost reserved for one request, in budget units
  Budget,        \* budgetMicro, per operation
  PeriodBudget,  \* periodBudgetMicro
  PlanUnits      \* research units of the period

ASSUME MeterAssumption ==
  /\ OpOf \in [Sessions -> Operations]
  /\ {Requests, Reserved, Budget, PeriodBudget, PlanUnits} \subseteq Nat \ {0}
  /\ IsFiniteSet(Operations) /\ IsFiniteSet(Sessions)   \* of one paid period

VARIABLES
  session,    \* where each session is in run(), and its copies
  run,        \* the hosted-llm workflow run of each operation
  held,       \* the reservation llm:<operation>
  attempt,    \* the provider attempt of each request of each session
  receipt,    \* the cached answer of each request of each operation
  entitled,   \* tenant and owner active, generation current, period in force
  jobUnits,   \* units of the period that job reservations hold or captured
  billed,     \* history: what the provider charges for each request
  byHand,     \* history: the attempts an operator confirmed
  settledBy,  \* history: the operations an operator settled
  late        \* history: the attempts whose answer was saved after the lease

meterVars == <<session, run, held, attempt, receipt, entitled, jobUnits, billed, byHand, settledBy, late>>

Ordinals == 1 .. Requests
Keys == Sessions \X Ordinals
NoOne == "nobody"
NoAnswer == <<>>

PCs == {"idle", "acquire", "control", "unlock", "work", "read", "reserve", "begin",
        "readmit", "withdraw", "send", "refused", "stop", "save", "confirm",
        "commit", "replay", "settle", "failing", "refund", "release", "relinquish",
        "end"}

MeterTypeOK ==
  /\ session \in [Sessions ->
       [pc: PCs, made: 0 .. Requests, broken: BOOLEAN, capture: BOOLEAN]]
  /\ run \in [Operations ->
       [state: {"none", "running", "failed", "completed"}, live: BOOLEAN,
        owner: Sessions \cup {NoOne}, capture: BOOLEAN, count: 0 .. Requests]]
  /\ held \in [Operations ->
       [state: {"none", "held", "captured", "released"}, live: BOOLEAN,
        owner: Sessions \cup {NoOne}]]
  /\ attempt \in [Keys -> [state: {"none", "unknown", "confirmed"}, cost: 0 .. Reserved]]
  /\ receipt \in [Operations \X Ordinals -> Keys \cup {NoAnswer}]
  /\ entitled \in BOOLEAN
  /\ jobUnits \in 0 .. PlanUnits
  /\ billed \in [Keys -> 0 .. Reserved]
  /\ byHand \subseteq Keys /\ settledBy \subseteq Operations /\ late \subseteq Keys

MeterInit ==
  /\ session = [s \in Sessions |->
       [pc |-> "idle", made |-> 0, broken |-> FALSE, capture |-> FALSE]]
  /\ run = [o \in Operations |-> [state |-> "none", live |-> FALSE, owner |-> NoOne,
                                  capture |-> FALSE, count |-> 0]]
  /\ held = [o \in Operations |-> [state |-> "none", live |-> FALSE, owner |-> NoOne]]
  /\ attempt = [a \in Keys |-> [state |-> "none", cost |-> 0]]
  /\ receipt = [r \in Operations \X Ordinals |-> NoAnswer]
  /\ entitled \in BOOLEAN
  /\ jobUnits = 0
  /\ billed = [a \in Keys |-> 0]
  /\ byHand = {} /\ settledBy = {} /\ late = {}

-----------------------------------------------------------------------------
(* The two leases.                                                         *)

Op(s) == OpOf[s]
At(s, pc) == session[s].pc = pc
Over == [pc |-> "end", made |-> 0, broken |-> FALSE, capture |-> FALSE]
Goto(s, pc) ==
  session' = [session EXCEPT ![s] = IF pc = "end" THEN Over ELSE [@ EXCEPT !.pc = pc]]
Current(s) == <<s, session[s].made>>

CanAcquire(o) ==
  \/ run[o].state \in {"none", "failed"}
  \/ run[o].state = "running" /\ ~run[o].live

Holds(s) == run[Op(s)].state = "running" /\ run[Op(s)].owner = s /\ run[Op(s)].live
Owns(s) == held[Op(s)].owner = s /\ held[Op(s)].live
Controls(s) == held[Op(s)].state = "held" => Owns(s)

\* renew() tries both leases.  Once it fails it fails for good, and nothing
\* the session does afterwards reaches either database or the provider except
\* the withdrawal of a request not yet sent: the session is as good as over.
Renews(s) == Holds(s) /\ Controls(s)

-----------------------------------------------------------------------------
(* The ledger.                                                             *)

AttemptsOf(o) == {a \in Keys : Op(a[1]) = o /\ attempt[a].state # "none"}
UnknownOf(o) == {a \in AttemptsOf(o) : attempt[a].state = "unknown"}

\* The sum of the values of f, as the number of the units they are made of.
UnitsOf(f) == UNION {{x} \X (1 .. f[x]) : x \in DOMAIN f}
Total(f) == Cardinality(UnitsOf(f))

CostOf(o) == Total([a \in AttemptsOf(o) |-> attempt[a].cost])
HeldOps == {o \in Operations : held[o].state = "held"}
CapturedOps == {o \in Operations : held[o].state = "captured"}
SettledOps == {o \in Operations : held[o].state \in {"captured", "released"}}

AvailableUnits == PlanUnits - Cardinality(CapturedOps) - Cardinality(HeldOps) - jobUnits

\* Mutant: what is held does not count yet.
CommittedWithoutHeld == Total([o \in SettledOps |-> CostOf(o)])

\* What the period may cost: settled operations what they cost, held ones
\* their whole budget.
ChargeOf(o) == IF held[o].state = "held" /\ CostOf(o) <= Budget THEN Budget ELSE CostOf(o)
Committed == Total([o \in SettledOps \cup HeldOps |-> ChargeOf(o)])

CanReserve == entitled /\ AvailableUnits >= 1 /\ Committed + Budget <= PeriodBudget

CanBeginUnfenced(s) ==   \* Mutant: an attempt of unknown usage blocks nothing.
  /\ held[Op(s)].state = "held" /\ Owns(s) /\ entitled
  /\ CostOf(Op(s)) + Reserved <= Budget

CanBegin(s) ==
  /\ held[Op(s)].state = "held" /\ Owns(s) /\ entitled
  /\ UnknownOf(Op(s)) = {}
  /\ CostOf(Op(s)) + Reserved <= Budget

\* complete: the usage the provider reports replaces the reserved cost; an
\* attempt confirmed before keeps its cost.
Confirmed(S) ==
  [a \in Keys |-> IF a \in S /\ attempt[a].state = "unknown"
                  THEN [state |-> "confirmed", cost |-> billed[a]] ELSE attempt[a]]

CanSettleAnyUsage(o) == held[o].state = "held"   \* Mutant: unknown usage is settled too.

CanSettleAgain(o) == UnknownOf(o) = {}   \* Mutant: a settled reservation too.

CanSettle(o) == held[o].state = "held" /\ UnknownOf(o) = {}
Settlement(o, capture) ==
  [held EXCEPT ![o].state = IF capture THEN "captured" ELSE "released"]

-----------------------------------------------------------------------------
(* run(): taking the operation.                                            *)

Start(s) ==
  /\ At(s, "idle") /\ entitled
  /\ Goto(s, IF run[Op(s)].state = "completed" THEN "replay" ELSE "acquire")
  /\ UNCHANGED <<run, held, attempt, receipt, entitled, jobUnits, billed, byHand, settledBy, late>>

Acquire(s) ==
  /\ At(s, "acquire")
  /\ \/ /\ CanAcquire(Op(s))
        /\ run' = [run EXCEPT ![Op(s)] = [state |-> "running", live |-> TRUE, owner |-> s,
                                          capture |-> FALSE, count |-> 0]]
        /\ Goto(s, "control")
     \/ /\ ~CanAcquire(Op(s))
        /\ Goto(s, "end") /\ UNCHANGED run
  /\ UNCHANGED <<held, attempt, receipt, entitled, jobUnits, billed, byHand, settledBy, late>>

ControlFree(o, s) == held[o].owner = s \/ ~held[o].live

AcquireControl(s) ==
  /\ At(s, "control")
  /\ \/ held[Op(s)].state # "held" /\ Goto(s, "work") /\ UNCHANGED held
     \/ /\ held[Op(s)].state = "held" /\ ControlFree(Op(s), s)
        /\ held' = [held EXCEPT ![Op(s)].owner = s, ![Op(s)].live = TRUE]
        /\ Goto(s, "work")
     \/ /\ held[Op(s)].state = "held" /\ ~ControlFree(Op(s), s)
        /\ Goto(s, "unlock") /\ UNCHANGED held
  /\ UNCHANGED <<run, attempt, receipt, entitled, jobUnits, billed, byHand, settledBy, late>>

\* lease("release", { inputHash }): the run stays open for another session.
GiveUpRun(s) ==
  run' = IF Holds(s) THEN [run EXCEPT ![Op(s)].state = "failed", ![Op(s)].live = FALSE]
         ELSE run

\* The reservation is another's: the run is given back and the caller is
\* told that the operation is busy.
Unlock(s) ==
  /\ At(s, "unlock") /\ GiveUpRun(s) /\ Goto(s, "end")
  /\ UNCHANGED <<held, attempt, receipt, entitled, jobUnits, billed, byHand, settledBy, late>>

-----------------------------------------------------------------------------
(* One request of the tool's work.  A request that fails raises an error   *)
(* in the work, which may stop there, go on with another request, or end   *)
(* as if nothing had happened.                                             *)

Admit(s) ==
  /\ At(s, "work") /\ session[s].made < Requests
  /\ \/ Renews(s) /\ entitled /\ session' =
          [session EXCEPT ![s].pc = "read", ![s].made = session[s].made + 1]
     \/ ~Renews(s) /\ Goto(s, "end")
  /\ UNCHANGED <<run, held, attempt, receipt, entitled, jobUnits, billed, byHand, settledBy, late>>

\* A cached answer is served again after its attempt is confirmed; one that
\* answers a different request is an error.
ReadReceipt(s) ==
  LET cached == receipt[<<Op(s), session[s].made>>] IN
  /\ At(s, "read")
  /\ \/ cached = NoAnswer /\ Goto(s, "reserve") /\ UNCHANGED attempt
     \/ cached # NoAnswer /\ attempt' = Confirmed({cached}) /\ Goto(s, "work")
     \/ cached # NoAnswer /\ Goto(s, "work") /\ UNCHANGED attempt
  /\ UNCHANGED <<run, held, receipt, entitled, jobUnits, billed, byHand, settledBy, late>>

Reserve(s) ==
  LET row == held[Op(s)] IN
  /\ At(s, "reserve")
  /\ \/ /\ row.state = "none" /\ CanReserve
        /\ held' = [held EXCEPT ![Op(s)] = [state |-> "held", live |-> TRUE, owner |-> s]]
        /\ Goto(s, "begin")
     \/ row.state # "none" /\ Controls(s) /\ Goto(s, "begin") /\ UNCHANGED held
     \/ /\ IF row.state = "none" THEN ~CanReserve ELSE ~Controls(s)
        /\ Goto(s, "work") /\ UNCHANGED held
  /\ UNCHANGED <<run, attempt, receipt, entitled, jobUnits, billed, byHand, settledBy, late>>

Begin(s) ==
  /\ At(s, "begin")
  /\ \/ /\ CanBegin(s)
        /\ attempt' = [attempt EXCEPT ![Current(s)] = [state |-> "unknown", cost |-> Reserved]]
        /\ Goto(s, "readmit")
     \/ ~CanBegin(s) /\ Goto(s, "work") /\ UNCHANGED attempt
  /\ UNCHANGED <<run, held, receipt, entitled, jobUnits, billed, byHand, settledBy, late>>

\* The request is admitted once more before it leaves; refused now, the
\* attempt is confirmed at no cost.
Readmit(s) ==
  /\ At(s, "readmit")
  /\ Goto(s, IF Renews(s) /\ entitled THEN "send" ELSE "withdraw")
  /\ UNCHANGED <<run, held, attempt, receipt, entitled, jobUnits, billed, byHand, settledBy, late>>

ConfirmAtNoCost(s) ==
  /\ At(s, "withdraw") \/ At(s, "refused")
  /\ attempt' = Confirmed({Current(s)}) /\ Goto(s, "work")
  /\ UNCHANGED <<run, held, receipt, entitled, jobUnits, billed, byHand, settledBy, late>>

Break(s) == session' = [session EXCEPT ![s].pc = "work", ![s].broken = TRUE]

\* The provider refuses the request, or it never arrives, or it is served:
\* then the whole answer comes back or is lost on the way.
Send(s) ==
  /\ At(s, "send")
  /\ \/ Goto(s, "refused") /\ UNCHANGED billed
     \/ Break(s) /\ UNCHANGED billed
     \/ \E c \in 1 .. Reserved :
          /\ billed' = [billed EXCEPT ![Current(s)] = c]
          /\ Goto(s, "stop") \/ Break(s)
  /\ UNCHANGED <<run, held, attempt, receipt, entitled, jobUnits, byHand, settledBy, late>>

StopStream(s) ==
  /\ At(s, "stop") /\ Goto(s, IF Renews(s) THEN "save" ELSE "end")
  /\ UNCHANGED <<run, held, attempt, receipt, entitled, jobUnits, billed, byHand, settledBy, late>>

SaveReceipt(s) ==
  LET r == <<Op(s), session[s].made>> IN
  /\ At(s, "save")
  /\ \/ /\ receipt[r] = NoAnswer /\ Goto(s, "confirm")
        /\ receipt' = [receipt EXCEPT ![r] = Current(s)]
        /\ late' = IF Holds(s) THEN late ELSE late \cup {Current(s)}
     \/ receipt[r] # NoAnswer /\ Break(s) /\ UNCHANGED <<receipt, late>>
  /\ UNCHANGED <<run, held, attempt, entitled, jobUnits, billed, byHand, settledBy>>

ConfirmUsage(s) ==
  /\ At(s, "confirm")
  /\ attempt' = Confirmed({Current(s)}) /\ Goto(s, "work")
  /\ UNCHANGED <<run, held, receipt, entitled, jobUnits, billed, byHand, settledBy, late>>

-----------------------------------------------------------------------------
(* run(): the end of the work.                                             *)

\* The work returns a result, or one that says it failed.
Finish(s) ==
  /\ At(s, "work") /\ ~session[s].broken /\ entitled
  /\ \E ok \in BOOLEAN : session' =
       [session EXCEPT ![s].pc = "commit",
          ![s].capture = ok /\ \E a \in AttemptsOf(Op(s)) :
                                 attempt[a].state = "confirmed" /\ attempt[a].cost > 0]
  /\ UNCHANGED <<run, held, attempt, receipt, entitled, jobUnits, billed, byHand, settledBy, late>>

\* renew, then lease("release", { completed: true, ... }): final.
Commit(s) ==
  /\ At(s, "commit")
  /\ \/ /\ Renews(s) /\ Goto(s, "replay")
        /\ run' = [run EXCEPT ![Op(s)] =
             [@ EXCEPT !.state = "completed", !.live = FALSE,
                       !.capture = session[s].capture, !.count = session[s].made]]
     \/ ~Renews(s) /\ Goto(s, "end") /\ UNCHANGED run
  /\ UNCHANGED <<held, attempt, receipt, entitled, jobUnits, billed, byHand, settledBy, late>>

\* settle(): attempts whose answer is cached are confirmed from it first.
ConfirmCached(s) ==
  /\ At(s, "replay") /\ Goto(s, "settle")
  /\ attempt' = IF held[Op(s)].state = "held"
                THEN Confirmed({receipt[<<Op(s), k>>] : k \in 1 .. run[Op(s)].count})
                ELSE attempt
  /\ UNCHANGED <<run, held, receipt, entitled, jobUnits, billed, byHand, settledBy, late>>

Settle(s) ==
  /\ At(s, "settle") /\ Goto(s, "end")
  /\ held' = IF CanSettle(Op(s)) THEN Settlement(Op(s), run[Op(s)].capture) ELSE held
  /\ UNCHANGED <<run, attempt, receipt, entitled, jobUnits, billed, byHand, settledBy, late>>

\* The work throws, or what it did is not accepted.
Fail(s) ==
  /\ At(s, "work") /\ Goto(s, "failing")
  /\ UNCHANGED <<run, held, attempt, receipt, entitled, jobUnits, billed, byHand, settledBy, late>>

Failing(s) ==
  /\ At(s, "failing") /\ Goto(s, IF Renews(s) THEN "refund" ELSE "end")
  /\ UNCHANGED <<run, held, attempt, receipt, entitled, jobUnits, billed, byHand, settledBy, late>>

\* settle(false, owner): a unit whose usage is all known is given back.
Refund(s) ==
  /\ At(s, "refund")
  /\ \/ /\ CanSettle(Op(s)) /\ Owns(s)
        /\ held' = Settlement(Op(s), FALSE) /\ Goto(s, "release")
     \/ CanSettle(Op(s)) /\ ~Owns(s) /\ Goto(s, "end") /\ UNCHANGED held
     \/ ~CanSettle(Op(s)) /\ Goto(s, "release") /\ UNCHANGED held
  /\ UNCHANGED <<run, attempt, receipt, entitled, jobUnits, billed, byHand, settledBy, late>>

ReleaseRun(s) ==
  /\ At(s, "release") /\ GiveUpRun(s) /\ Goto(s, "relinquish")
  /\ UNCHANGED <<held, attempt, receipt, entitled, jobUnits, billed, byHand, settledBy, late>>

ReleaseControl(s) ==
  /\ At(s, "relinquish") /\ Goto(s, "end")
  /\ held' = IF held[Op(s)].state = "held" /\ Owns(s)
             THEN [held EXCEPT ![Op(s)].live = FALSE] ELSE held
  /\ UNCHANGED <<run, attempt, receipt, entitled, jobUnits, billed, byHand, settledBy, late>>

Alive(s) == session[s].pc \notin {"idle", "end"}

Crash(s) ==
  /\ Alive(s) /\ Goto(s, "end")
  /\ UNCHANGED <<run, held, attempt, receipt, entitled, jobUnits, billed, byHand, settledBy, late>>

-----------------------------------------------------------------------------
(* The rest of the service.                                                *)

LapseRun(o) ==
  /\ run[o].state = "running" /\ run[o].live
  /\ run' = [run EXCEPT ![o].live = FALSE]
  /\ UNCHANGED <<session, held, attempt, receipt, entitled, jobUnits, billed, byHand, settledBy, late>>

LapseControl(o) ==
  /\ held[o].state = "held" /\ held[o].live
  /\ held' = [held EXCEPT ![o].live = FALSE]
  /\ UNCHANGED <<session, run, attempt, receipt, entitled, jobUnits, billed, byHand, settledBy, late>>

\* A suspension, a disabled owner, a period that ends; and the way back.
ChangeStanding ==
  /\ entitled' = ~entitled
  /\ UNCHANGED <<session, run, held, attempt, receipt, jobUnits, billed, byHand, settledBy, late>>

JobTakesUnit ==
  /\ entitled /\ AvailableUnits >= 1 /\ jobUnits' = jobUnits + 1
  /\ UNCHANGED <<session, run, held, attempt, receipt, entitled, billed, byHand, settledBy, late>>

JobReturnsUnit ==
  /\ jobUnits > 0 /\ jobUnits' = jobUnits - 1
  /\ UNCHANGED <<session, run, held, attempt, receipt, entitled, billed, byHand, settledBy, late>>

\* reconcile_hosted_llm_usage: the operator has the provider's receipt, and
\* vouches that the operation has stopped (executionStopped: true).
Reconcile(o) ==
  \E a \in UnknownOf(o), settlement \in {"none", "capture", "release"} :
    /\ \A s \in Sessions : Op(s) = o => ~Alive(s)
    /\ attempt' = Confirmed({a}) /\ byHand' = byHand \cup {a}
    /\ \/ /\ settlement = "none" \/ UnknownOf(o) # {a} \/ held[o].state # "held"
          /\ UNCHANGED <<held, settledBy>>
       \/ /\ settlement # "none" /\ UnknownOf(o) = {a} /\ held[o].state = "held"
          /\ held' = Settlement(o, settlement = "capture")
          /\ settledBy' = settledBy \cup {o}
    /\ UNCHANGED <<session, run, receipt, entitled, jobUnits, billed, late>>

SessionStep(s) ==
  \/ Start(s) \/ Acquire(s) \/ AcquireControl(s) \/ Unlock(s)
  \/ Admit(s) \/ ReadReceipt(s) \/ Reserve(s) \/ Begin(s) \/ Readmit(s)
  \/ ConfirmAtNoCost(s) \/ Send(s) \/ StopStream(s) \/ SaveReceipt(s) \/ ConfirmUsage(s)
  \/ Finish(s) \/ Commit(s) \/ ConfirmCached(s) \/ Settle(s)
  \/ Fail(s) \/ Failing(s) \/ Refund(s) \/ ReleaseRun(s) \/ ReleaseControl(s)
  \/ Crash(s)

ServiceStep(o) == LapseRun(o) \/ LapseControl(o) \/ Reconcile(o)

MeterNext ==
  \/ \E s \in Sessions : SessionStep(s)
  \/ \E o \in Operations : ServiceStep(o)
  \/ ChangeStanding \/ JobTakesUnit \/ JobReturnsUnit

MeterSpec == MeterInit /\ [][MeterNext]_meterVars

-----------------------------------------------------------------------------
(* What the meter promises.                                                *)

\* The provider never bills the tenant's period more than its budget,
\* whichever sessions overlap, crash or resume (reserve and begin of
\* platform-llm.ts hold the worst case of every request before it is sent).
BudgetHolds == Total(billed) <= PeriodBudget

\* Model operations and jobs share the units of a period: what they hold and
\* have captured together never exceeds the plan (reserve, entitlement).
UnitsShared == Cardinality(HeldOps) + Cardinality(CapturedOps) + jobUnits <= PlanUnits

\* Neither budget nor units: the two sums that concurrent sessions and jobs
\* draw on at once.
NothingOverdrawn == BudgetHolds /\ UnitsShared

\* A request the provider served is not served again in another session: one
\* that crashed leaves either the saved answer or an attempt that blocks the
\* next.  There are two ways around it: an operator who confirms the attempt
\* of a lost answer, and a session that stalls past its lease between its
\* last renewal and the save, which is not fenced: the next session may
\* already be past its look at the receipts when the answer is saved, and
\* whoever then confirms the attempt, a third session too, lets it begin.
ServedOnce ==
  \A a, b \in Keys :
    (a # b /\ Op(a[1]) = Op(b[1]) /\ a[2] = b[2] /\ billed[a] > 0 /\ billed[b] > 0)
      => {a, b} \cap (byHand \cup late) # {}

\* A unit is captured only for an operation whose result is stored and whose
\* cost is known (settle of hosted-meter.ts and platform-llm.ts).
ChargedForResults ==
  \A o \in CapturedOps :
    /\ UnknownOf(o) = {}
    /\ o \notin settledBy => run[o].state = "completed" /\ run[o].capture

\* After a reservation is settled the operation costs nothing more: no
\* attempt begins, none changes and the provider bills nothing.
SettledIsFinal ==
  [][\A o \in SettledOps :
       /\ held'[o].state = held[o].state
       /\ \A a \in Keys : Op(a[1]) = o => attempt'[a] = attempt[a] /\ billed'[a] = billed[a]]_meterVars
=============================================================================
