-------------------------- MODULE HostedJobs_proofs --------------------------
(* Theorems about the job ledger of HostedJobs, for every value of its       *)
(* constants, with their proofs.                                             *)
EXTENDS HostedJobs, FiniteSetTheorems, TLAPS

-----------------------------------------------------------------------------
(* What the shared helpers return.                                           *)

LEMMA ClearLeaseTyped ==
  ASSUME NEW record \in JobRecord
  PROVE  /\ ClearLease(record) \in JobRecord
         /\ ClearLease(record).attempt = record.attempt
         /\ ClearLease(record).lease = "none"
  BY DEF ClearLease, JobRecord

LEMMA EndedTyped ==
  ASSUME NEW record \in JobRecord, NEW state \in JobStates,
         NEW kind \in {"other", "receipt-reconciliation"}
  PROVE  [record EXCEPT !.state = state, !.errorKind = kind] \in JobRecord
  BY DEF JobRecord

LEMMA CancelledTyped ==
  ASSUME JobsTypeOK, NEW j \in Jobs
  PROVE  CancelledJob(j) \in JobRecord
<1>1. job[j] \in JobRecord
  BY DEF JobsTypeOK
<1>2. ClearLease(job[j]) \in JobRecord
  BY <1>1, ClearLeaseTyped
<1>3. [ClearLease(job[j]) EXCEPT !.cancelled = TRUE,
                                 !.errorKind = "receipt-reconciliation"] \in JobRecord
  BY <1>2 DEF JobRecord
<1>4. [ClearLease(job[j]) EXCEPT !.state = "cancelled", !.errorKind = "other"] \in JobRecord
  BY <1>2, EndedTyped DEF JobStates
<1>. QED BY <1>1, <1>3, <1>4 DEF CancelledJob

LEMMA ReleasedTyped ==
  ASSUME JobsTypeOK, NEW j \in Jobs
  PROVE  /\ Released(j) \in ReservationRecord
         /\ CancelledReservation(j) \in ReservationRecord
<1>1. reservation[j] \in ReservationRecord
  BY DEF JobsTypeOK
<1>2. Held(j) => [reservation[j] EXCEPT !.state = "released"] \in ReservationRecord
  BY <1>1 DEF Held, ReservationRecord, NoReservation
<1>. QED BY <1>1, <1>2 DEF Released, CancelledReservation

LEMMA SweptTyped ==
  ASSUME JobsTypeOK, NEW j \in Jobs
  PROVE  /\ SweptJob(j) \in JobRecord
         /\ SweptReservation(j) \in ReservationRecord
<1>1. job[j] \in JobRecord /\ reservation[j] \in ReservationRecord
  BY DEF JobsTypeOK
<1>2. [ClearLease(job[j]) EXCEPT !.state = "needs-review",
                                 !.errorKind = "receipt-reconciliation"] \in JobRecord
  BY <1>1, ClearLeaseTyped, EndedTyped DEF JobStates
<1>. QED BY <1>1, <1>2, CancelledTyped, ReleasedTyped DEF SweptJob, SweptReservation

LEMMA ClaimedTyped ==
  ASSUME NEW record \in JobRecord, NEW kind \in {"other", "receipt-reconciliation"}
  PROVE  Claimed(record, kind) \in JobRecord
<1>1. record.attempt + 1 \in Nat /\ record.fence + 1 \in Nat
  BY DEF JobRecord
<1>2. [record EXCEPT !.state = "running", !.lease = "live", !.errorKind = kind] \in JobRecord
  BY DEF JobRecord, JobStates
<1>3. Claimed(record, kind) =
        [[record EXCEPT !.state = "running", !.lease = "live", !.errorKind = kind]
           EXCEPT !.attempt = record.attempt + 1, !.fence = record.fence + 1]
  BY Zenon DEF Claimed, JobRecord
<1>. QED BY <1>1, <1>2, <1>3 DEF JobRecord

LEMMA CancelPendingTyped ==
  ASSUME JobsTypeOK, NEW S, CancelPending(S)
  PROVE  job' \in [Jobs -> JobRecord] /\ reservation' \in [Jobs -> ReservationRecord]
  BY CancelledTyped, ReleasedTyped DEF CancelPending, JobsTypeOK

-----------------------------------------------------------------------------
(* Type correctness.                                                         *)

LEMMA InitTyped == JobsInit => JobsTypeOK
<1>. SUFFICES ASSUME JobsInit PROVE JobsTypeOK
  OBVIOUS
<1>1. NoJob \in JobRecord
  BY DEF NoJob, JobRecord, JobStates
<1>2. NoReservation \in ReservationRecord
  BY DEF ReservationRecord
<1>. QED
  BY <1>1, <1>2 DEF JobsInit, JobsTypeOK, TenantStates, OwnerStates, PeriodStates

LEMMA JobStepTyped ==
  ASSUME JobsTypeOK, NEW j \in Jobs, JobStep(j)
  PROVE  JobsTypeOK'
<1>. USE ConstantsAssumption DEF JobsTypeOK
<1>0. job[j] \in JobRecord /\ TenantOf[j] \in Tenants
      /\ tenant[TenantOf[j]].generation \in Nat
  BY DEF ConstantsAssumption
<1>1. CASE PrepareReservedJob(j)
  <2>1. [NoJob EXCEPT !.state = "preparing",
                      !.generation = tenant[TenantOf[j]].generation] \in JobRecord
    BY <1>0 DEF NoJob, JobRecord, JobStates
  <2>2. job' \in [Jobs -> JobRecord]
    BY <1>1, <2>1 DEF PrepareReservedJob
  <2>3. PICK p \in Periods :
          reservation' = [reservation EXCEPT ![j] = [state |-> "held", period |-> p]]
    BY <1>1 DEF PrepareReservedJob, ReserveUnits
  <2>4. reservation' \in [Jobs -> ReservationRecord]
    BY <2>3 DEF ReservationRecord
  <2>. QED BY <1>1, <2>2, <2>4 DEF PrepareReservedJob, tenancyVars
<1>2. CASE ActivatePreparedJob(j)
  <2>1. job' \in [Jobs -> JobRecord] /\ reservation' \in [Jobs -> ReservationRecord]
    <3>1. CASE CancelPending({j})
      BY <3>1, CancelPendingTyped
    <3>2. CASE job' = [job EXCEPT ![j].state = "queued"] /\ UNCHANGED reservation
      <4>1. [job[j] EXCEPT !.state = "queued"] \in JobRecord
        BY <1>0 DEF JobRecord, JobStates
      <4>. QED BY <3>2, <4>1
    <3>. QED BY <1>2, <3>1, <3>2 DEF ActivatePreparedJob
  <2>. QED BY <1>2, <2>1 DEF ActivatePreparedJob, tenancyVars
<1>3. CASE CancelPendingJob(j)
  <2>1. job' \in [Jobs -> JobRecord] /\ reservation' \in [Jobs -> ReservationRecord]
    BY <1>3, CancelPendingTyped DEF CancelPendingJob
  <2>. QED BY <1>3, <2>1 DEF CancelPendingJob, tenancyVars
<1>4. CASE RequestCancellation(j)
  <2>1. job' \in [Jobs -> JobRecord] /\ reservation' \in [Jobs -> ReservationRecord]
    <3>1. CASE CancelPending({j})
      BY <3>1, CancelPendingTyped
    <3>2. CASE job' = [job EXCEPT ![j].cancelled = TRUE] /\ UNCHANGED reservation
      <4>1. [job[j] EXCEPT !.cancelled = TRUE] \in JobRecord
        BY <1>0 DEF JobRecord
      <4>. QED BY <3>2, <4>1
    <3>. QED BY <1>4, <3>1, <3>2 DEF RequestCancellation
  <2>. QED BY <1>4, <2>1 DEF RequestCancellation, tenancyVars
<1>5. CASE ClaimJob(j)
  <2>1. job' \in [Jobs -> JobRecord]
    <3>1. job[j].errorKind \in {"other", "receipt-reconciliation"}
      BY <1>0 DEF JobRecord
    <3>2. Claimed(SweptJob(j), IF ReconciliationOnly(j) THEN "receipt-reconciliation"
                               ELSE job[j].errorKind) \in JobRecord
      BY <3>1, SweptTyped, ClaimedTyped
    <3>. QED BY <1>5, <3>2, SweptTyped DEF ClaimJob
  <2>2. reservation' \in [Jobs -> ReservationRecord]
    BY <1>5, SweptTyped DEF ClaimJob
  <2>. QED BY <1>0, <1>5, <2>1, <2>2 DEF ClaimJob, tenancyVars
<1>6. CASE ClaimJobForReconciliation(j)
  <2>1. Claimed(job[j], "receipt-reconciliation") \in JobRecord
    BY <1>0, ClaimedTyped
  <2>. QED BY <1>6, <2>1 DEF ClaimJobForReconciliation, tenancyVars
<1>7. CASE LeaseLapses(j)
  <2>1. [job[j] EXCEPT !.lease = "lapsed"] \in JobRecord
    BY <1>0 DEF JobRecord
  <2>. QED BY <1>7, <2>1 DEF LeaseLapses, tenancyVars
<1>8. CASE DeadlinePasses(j)
  BY <1>8 DEF DeadlinePasses, tenancyVars, ledgerVars
<1>. QED
  BY <1>1, <1>2, <1>3, <1>4, <1>5, <1>6, <1>7, <1>8 DEF JobStep

LEMMA AttemptStepTyped ==
  ASSUME JobsTypeOK, NEW j \in Jobs, NEW fence, AttemptStep(j, fence)
  PROVE  JobsTypeOK'
<1>. USE DEF JobsTypeOK
<1>0. job[j] \in JobRecord /\ reservation[j] \in ReservationRecord
  OBVIOUS
<1>1. ASSUME NEW r \in Results, FinishJobAndSettle(j, fence, r)
      PROVE  JobsTypeOK'
  <2>1. job' \in [Jobs -> JobRecord]
    <3>1. [ClearLease(job[j]) EXCEPT !.state = r, !.errorKind = "other"] \in JobRecord
      BY <1>0, ClearLeaseTyped, EndedTyped DEF Results, JobStates
    <3>. QED BY <1>1, <3>1 DEF FinishJobAndSettle
  <2>2. CASE Held(j)
    <3>1. /\ reservation[j].period \in Periods
          /\ [reservation[j] EXCEPT !.state = "captured"] \in ReservationRecord
      BY <1>0, <2>2 DEF Held, ReservationRecord, NoReservation
    <3>2. (IF r = "partial" THEN 0 ELSE Units[j]) \in {0, 1}
      BY ConstantsAssumption DEF ConstantsAssumption
    <3>3. [operation |-> j, period |-> reservation[j].period,
           delta |-> IF r = "partial" THEN 0 ELSE Units[j]] \in UsageRecord
      BY <3>1, <3>2 DEF UsageRecord
    <3>. QED BY <1>1, <2>1, <2>2, <3>1, <3>3 DEF FinishJobAndSettle, tenancyVars
  <2>3. CASE ~Held(j)
    BY <1>1, <2>1, <2>3 DEF FinishJobAndSettle, tenancyVars
  <2>. QED BY <2>2, <2>3
<1>2. ASSUME NEW known \in BOOLEAN, RetryJob(j, fence, known)
      PROVE  JobsTypeOK'
  <2>1. [ClearLease(job[j]) EXCEPT !.state = "queued", !.errorKind = "other"] \in JobRecord
    BY <1>0, ClearLeaseTyped, EndedTyped DEF JobStates
  <2>. QED BY <1>2, <2>1 DEF RetryJob, tenancyVars
<1>3. ASSUME NEW outcome \in {"failed", "cancelled", "needs-review"},
             NEW stopped \in BOOLEAN, StopJob(j, fence, outcome, stopped)
      PROVE  JobsTypeOK'
  <2>1. [ClearLease(job[j]) EXCEPT !.state = outcome, !.errorKind = "other"] \in JobRecord
    BY <1>0, ClearLeaseTyped, EndedTyped DEF JobStates
  <2>2. reservation' \in [Jobs -> ReservationRecord]
    BY <1>3, ReleasedTyped DEF StopJob
  <2>. QED BY <1>3, <2>1, <2>2 DEF StopJob, tenancyVars
<1>. QED
  BY <1>1, <1>2, <1>3 DEF AttemptStep

LEMMA TenantStepTyped ==
  ASSUME JobsTypeOK, NEW t \in Tenants, TenantStep(t)
  PROVE  JobsTypeOK'
<1>. USE DEF JobsTypeOK
<1>0. /\ tenant[t] \in [status: TenantStates, generation: Nat]
      /\ \A j \in Jobs : /\ job[j] \in JobRecord
                        /\ CancelledJob(j) \in JobRecord
                        /\ Released(j) \in ReservationRecord
                        /\ CancelledReservation(j) \in ReservationRecord
  BY CancelledTyped, ReleasedTyped
<1>1. CASE SuspendTenant(t)
  <2>1. job' \in [Jobs -> JobRecord] /\ reservation' \in [Jobs -> ReservationRecord]
    BY <1>1, CancelPendingTyped DEF SuspendTenant
  <2>2. tenant' \in [Tenants -> [status: TenantStates, generation: Nat]]
    BY <1>0, <1>1 DEF SuspendTenant, TenantStates
  <2>. QED BY <1>1, <2>1, <2>2 DEF SuspendTenant, SuppressDeliveries
<1>2. CASE ResumeTenant(t)
  BY <1>0, <1>2 DEF ResumeTenant, TenantStates, ledgerVars
<1>3. ASSUME NEW status \in {"active", "disabled"}, SetUserStatus(t, status)
      PROVE  JobsTypeOK'
  BY <1>3 DEF SetUserStatus, OwnerStates, ledgerVars
<1>4. CASE BeginDeletion(t)
  <2>1. job' \in [Jobs -> JobRecord]
    <3>1. \A j \in Jobs : [job[j] EXCEPT !.cancelled = TRUE] \in JobRecord
      BY <1>0 DEF JobRecord
    <3>. QED BY <1>0, <1>4, <3>1 DEF BeginDeletion
  <2>2. reservation' \in [Jobs -> ReservationRecord]
    BY <1>0, <1>4 DEF BeginDeletion
  <2>3. tenant' \in [Tenants -> [status: TenantStates, generation: Nat]]
    BY <1>0, <1>4 DEF BeginDeletion, TenantStates
  <2>. QED BY <1>4, <2>1, <2>2, <2>3 DEF BeginDeletion, SuppressDeliveries
<1>5. CASE CompleteDeletion(t)
  <2>1. job' \in [Jobs -> JobRecord]
    <3>1. ASSUME NEW j \in Jobs
          PROVE  [ClearLease(job[j]) EXCEPT !.state = "cancelled", !.fence = @ + 1,
                                            !.errorKind = "other"] \in JobRecord
      <4>1. ClearLease(job[j]) \in JobRecord
        BY <1>0, ClearLeaseTyped
      <4>2. ClearLease(job[j]).fence + 1 \in Nat
        BY <4>1 DEF JobRecord
      <4>. QED BY <4>1, <4>2 DEF JobRecord, JobStates
    <3>. QED BY <1>0, <1>5, <3>1 DEF CompleteDeletion
  <2>2. reservation' \in [Jobs -> ReservationRecord]
    BY <1>0, <1>5 DEF CompleteDeletion
  <2>3. tenant' \in [Tenants -> [status: TenantStates, generation: Nat]]
    BY <1>0, <1>5 DEF CompleteDeletion, TenantStates
  <2>. QED BY <1>5, <2>1, <2>2, <2>3 DEF CompleteDeletion, OwnerStates
<1>. QED
  BY <1>1, <1>2, <1>3, <1>4, <1>5 DEF TenantStep

LEMMA NextTyped == JobsTypeOK /\ [JobsNext]_jobsVars => JobsTypeOK'
<1>. SUFFICES ASSUME JobsTypeOK, [JobsNext]_jobsVars
              PROVE  JobsTypeOK'
  OBVIOUS
<1>1. ASSUME NEW j \in Jobs, JobStep(j) PROVE JobsTypeOK'
  BY <1>1, JobStepTyped
<1>2. ASSUME NEW j \in Jobs, NEW fence \in Fences, AttemptStep(j, fence)
      PROVE  JobsTypeOK'
  BY <1>2, AttemptStepTyped
<1>3. CASE ClaimNothing
  BY <1>3, SweptTyped DEF ClaimNothing, JobsTypeOK, tenancyVars
<1>4. ASSUME NEW t \in Tenants, TenantStep(t) PROVE JobsTypeOK'
  BY <1>4, TenantStepTyped
<1>5. ASSUME NEW p \in Periods, RevokePeriod(p) PROVE JobsTypeOK'
  <2>1. job' \in [Jobs -> JobRecord] /\ reservation' \in [Jobs -> ReservationRecord]
    BY <1>5, CancelPendingTyped DEF RevokePeriod
  <2>. QED BY <1>5, <2>1 DEF RevokePeriod, JobsTypeOK, PeriodStates
<1>6. ASSUME NEW p \in Periods, PeriodTurns(p) PROVE JobsTypeOK'
  BY <1>6 DEF PeriodTurns, JobsTypeOK, PeriodStates, ledgerVars
<1>7. CASE UNCHANGED jobsVars
  BY <1>7 DEF jobsVars, tenancyVars, ledgerVars, JobsTypeOK
<1>. QED
  BY <1>1, <1>2, <1>3, <1>4, <1>5, <1>6, <1>7 DEF JobsNext

\* Every table of the ledger keeps its type: no action of the repository can
\* leave a job, a reservation or a usage row in a shape the others do not expect.
THEOREM LedgerTyped == JobsSpec => []JobsTypeOK
  BY InitTyped, NextTyped, PTL DEF JobsSpec

-----------------------------------------------------------------------------
(* The quota.  It is inductive together with the types and the finiteness of *)
(* the usage table: a unit moves from held to captured when its operation is *)
(* settled, is dropped when it is released, and is taken only by             *)
(* prepareReservedJob, which looks at both sums first.                       *)

QuotaInv == JobsTypeOK /\ IsFiniteSet(usage) /\ QuotaNeverOvercommitted

LEMMA UnitsFinite ==
  ASSUME IsFiniteSet(usage), NEW p \in Periods
  PROVE  IsFiniteSet(CapturedUnits(p)) /\ IsFiniteSet(HeldUnits(p))
<1>1. CapturedUnits(p) \in SUBSET usage /\ HeldUnits(p) \in SUBSET Jobs
  BY DEF CapturedUnits, HeldUnits
<1>. QED BY <1>1, FS_Subset, ConstantsAssumption DEF ConstantsAssumption

\* An action that takes no unit keeps the quota.
NoNewHold == \A j \in Jobs : reservation'[j].state = "held" => reservation'[j] = reservation[j]

LEMMA QuotaKept ==
  ASSUME QuotaInv, JobsTypeOK', NoNewHold, UNCHANGED usage
  PROVE  QuotaInv'
<1>1. IsFiniteSet(usage')
  BY DEF QuotaInv
<1>2. ASSUME NEW p \in Periods
      PROVE  Cardinality(CapturedUnits(p)') + Cardinality(HeldUnits(p)')
               <= ResearchUnits[p]
  <2>1. IsFiniteSet(CapturedUnits(p)) /\ IsFiniteSet(HeldUnits(p))
    BY UnitsFinite DEF QuotaInv
  <2>2. CapturedUnits(p)' = CapturedUnits(p)
    BY DEF CapturedUnits
  <2>3. HeldUnits(p)' \in SUBSET HeldUnits(p)
    BY DEF HeldUnits, Held, NoNewHold
  <2>4. /\ Cardinality(HeldUnits(p)') <= Cardinality(HeldUnits(p))
        /\ IsFiniteSet(HeldUnits(p)')
    BY <2>1, <2>3, FS_Subset
  <2>5. /\ Cardinality(HeldUnits(p)') \in Nat /\ Cardinality(HeldUnits(p)) \in Nat
        /\ Cardinality(CapturedUnits(p)) \in Nat
    BY <2>1, <2>4, FS_CardinalityType
  <2>6. /\ ResearchUnits[p] \in Nat
        /\ Cardinality(CapturedUnits(p)) + Cardinality(HeldUnits(p)) <= ResearchUnits[p]
    BY ConstantsAssumption DEF ConstantsAssumption, QuotaInv, QuotaNeverOvercommitted
  <2>. QED BY <2>2, <2>4, <2>5, <2>6
<1>. QED BY <1>1, <1>2 DEF QuotaInv, QuotaNeverOvercommitted

LEMMA OneMoreAtMost ==
  ASSUME NEW S, IsFiniteSet(S), NEW x
  PROVE  /\ IsFiniteSet(S \cup {x})
         /\ Cardinality(S \cup {x}) <= Cardinality(S) + 1
<1>1. Cardinality(S) \in Nat
  BY FS_CardinalityType
<1>. QED BY <1>1, FS_AddElement

LEMMA PrepareKeepsQuota ==
  ASSUME QuotaInv, JobsTypeOK', NEW j \in Jobs, PrepareReservedJob(j)
  PROVE  QuotaInv'
<1>1. PICK p \in Periods :
        /\ Units[j] + Cardinality(CapturedUnits(p)) + Cardinality(HeldUnits(p))
             <= ResearchUnits[p]
        /\ reservation' = [reservation EXCEPT ![j] = [state |-> "held", period |-> p]]
  BY DEF PrepareReservedJob, Affordable, ReserveUnits
<1>2. IsFiniteSet(usage')
  BY DEF PrepareReservedJob, QuotaInv
<1>3. ASSUME NEW q \in Periods
      PROVE  Cardinality(CapturedUnits(q)') + Cardinality(HeldUnits(q)')
               <= ResearchUnits[q]
  <2>1. IsFiniteSet(CapturedUnits(q)) /\ IsFiniteSet(HeldUnits(q))
    BY UnitsFinite DEF QuotaInv
  <2>2. CapturedUnits(q)' = CapturedUnits(q)
    BY DEF CapturedUnits, PrepareReservedJob
  <2>3. /\ Units[j] \in {0, 1} /\ ResearchUnits[q] \in Nat
        /\ Cardinality(CapturedUnits(q)) + Cardinality(HeldUnits(q)) <= ResearchUnits[q]
    BY ConstantsAssumption DEF ConstantsAssumption, QuotaInv, QuotaNeverOvercommitted
  <2>4. Cardinality(CapturedUnits(q)) \in Nat /\ Cardinality(HeldUnits(q)) \in Nat
    BY <2>1, FS_CardinalityType
  <2>5. reservation \in [Jobs -> ReservationRecord]
    BY DEF QuotaInv, JobsTypeOK
  <2>6. CASE q = p /\ Units[j] = 1
    <3>1. HeldUnits(q)' \in SUBSET (HeldUnits(q) \cup {j})
      BY <1>1, <2>5 DEF HeldUnits, Held
    <3>2. /\ IsFiniteSet(HeldUnits(q) \cup {j})
          /\ Cardinality(HeldUnits(q) \cup {j}) <= Cardinality(HeldUnits(q)) + 1
      BY <2>1, OneMoreAtMost
    <3>3. /\ IsFiniteSet(HeldUnits(q)')
          /\ Cardinality(HeldUnits(q)') <= Cardinality(HeldUnits(q) \cup {j})
      BY <3>1, <3>2, FS_Subset
    <3>4. Cardinality(HeldUnits(q)') \in Nat /\ Cardinality(HeldUnits(q) \cup {j}) \in Nat
      BY <3>2, <3>3, FS_CardinalityType
    <3>5. 1 + Cardinality(CapturedUnits(q)) + Cardinality(HeldUnits(q)) <= ResearchUnits[q]
      BY <1>1, <2>6
    <3>6. Cardinality(HeldUnits(q)') <= Cardinality(HeldUnits(q)) + 1
      BY <3>2, <3>3, <3>4, <2>4
    <3>. QED BY <2>2, <2>3, <2>4, <3>4, <3>5, <3>6
  <2>7. CASE ~(q = p /\ Units[j] = 1)
    <3>1. HeldUnits(q)' \in SUBSET HeldUnits(q)
      BY <1>1, <2>3, <2>5, <2>7 DEF HeldUnits, Held
    <3>2. /\ IsFiniteSet(HeldUnits(q)')
          /\ Cardinality(HeldUnits(q)') <= Cardinality(HeldUnits(q))
      BY <2>1, <3>1, FS_Subset
    <3>3. Cardinality(HeldUnits(q)') \in Nat
      BY <3>2, FS_CardinalityType
    <3>. QED BY <2>2, <2>3, <2>4, <3>2, <3>3
  <2>. QED BY <2>6, <2>7
<1>. QED BY <1>2, <1>3 DEF QuotaInv, QuotaNeverOvercommitted

LEMMA FinishKeepsQuota ==
  ASSUME QuotaInv, JobsTypeOK', NEW j \in Jobs, NEW fence, NEW r \in Results,
         FinishJobAndSettle(j, fence, r)
  PROVE  QuotaInv'
<1>. DEFINE row == [operation |-> j, period |-> reservation[j].period,
                    delta |-> IF r = "partial" THEN 0 ELSE Units[j]]
<1>1. CASE ~Held(j)
  <2>1. NoNewHold /\ UNCHANGED usage
    BY <1>1 DEF FinishJobAndSettle, NoNewHold
  <2>. QED BY <2>1, QuotaKept
<1>2. CASE Held(j)
  <2>1. /\ reservation' = [reservation EXCEPT ![j].state = "captured"]
        /\ usage' = usage \cup {row}
        /\ reservation \in [Jobs -> ReservationRecord]
    BY <1>2 DEF FinishJobAndSettle, QuotaInv, JobsTypeOK
  <2>2. IsFiniteSet(usage')
    BY <2>1, FS_AddElement DEF QuotaInv
  <2>3. ASSUME NEW q \in Periods
        PROVE  Cardinality(CapturedUnits(q)') + Cardinality(HeldUnits(q)')
                 <= ResearchUnits[q]
    <3>1. IsFiniteSet(CapturedUnits(q)) /\ IsFiniteSet(HeldUnits(q))
      BY UnitsFinite DEF QuotaInv
    <3>2. /\ Units[j] \in {0, 1} /\ ResearchUnits[q] \in Nat
          /\ Cardinality(CapturedUnits(q)) + Cardinality(HeldUnits(q)) <= ResearchUnits[q]
      BY ConstantsAssumption DEF ConstantsAssumption, QuotaInv, QuotaNeverOvercommitted
    <3>3. Cardinality(CapturedUnits(q)) \in Nat /\ Cardinality(HeldUnits(q)) \in Nat
      BY <3>1, FS_CardinalityType
    <3>4. HeldUnits(q)' = HeldUnits(q) \ {j}
      <4>1. reservation'[j].state = "captured"
        BY <2>1 DEF ReservationRecord, NoReservation
      <4>2. \A k \in Jobs \ {j} : reservation'[k] = reservation[k]
        BY <2>1
      <4>. QED BY <4>1, <4>2 DEF HeldUnits, Held
    <3>5. /\ IsFiniteSet(HeldUnits(q)')
          /\ Cardinality(HeldUnits(q)') =
               IF j \in HeldUnits(q) THEN Cardinality(HeldUnits(q)) - 1
               ELSE Cardinality(HeldUnits(q))
      BY <3>1, <3>4, FS_RemoveElement
    <3>6. CASE j \in HeldUnits(q)
      <4>1. CapturedUnits(q)' \in SUBSET (CapturedUnits(q) \cup {row})
        BY <2>1 DEF CapturedUnits
      <4>2. /\ IsFiniteSet(CapturedUnits(q) \cup {row})
            /\ Cardinality(CapturedUnits(q) \cup {row}) <= Cardinality(CapturedUnits(q)) + 1
        BY <3>1, OneMoreAtMost
      <4>3. /\ IsFiniteSet(CapturedUnits(q)')
            /\ Cardinality(CapturedUnits(q)') <= Cardinality(CapturedUnits(q) \cup {row})
        BY <4>1, <4>2, FS_Subset
      <4>4. /\ Cardinality(CapturedUnits(q)') \in Nat
            /\ Cardinality(CapturedUnits(q) \cup {row}) \in Nat
        BY <4>2, <4>3, FS_CardinalityType
      <4>. QED BY <3>2, <3>3, <3>5, <3>6, <4>2, <4>3, <4>4
    <3>7. CASE j \notin HeldUnits(q)
      <4>1. ~(row.period = q /\ row.delta = 1)
        <5>1. row.period = reservation[j].period
              /\ row.delta = IF r = "partial" THEN 0 ELSE Units[j]
          OBVIOUS
        <5>2. reservation[j].period = q => Units[j] # 1
          BY <1>2, <3>7 DEF HeldUnits
        <5>. QED BY <3>2, <5>1, <5>2
      <4>2. CapturedUnits(q)' = CapturedUnits(q)
        BY <2>1, <4>1 DEF CapturedUnits
      <4>. QED BY <3>2, <3>3, <3>5, <3>7, <4>2
    <3>. QED BY <3>6, <3>7
  <2>. QED BY <2>2, <2>3 DEF QuotaInv, QuotaNeverOvercommitted
<1>. QED BY <1>1, <1>2

\* No other action takes a unit.
LEMMA CancelPendingHoldsNoMore ==
  ASSUME JobsTypeOK, NEW S, CancelPending(S)
  PROVE  NoNewHold
<1>1. \A j \in Jobs : Released(j).state = "held" => Released(j) = reservation[j]
  BY DEF Released, Held, JobsTypeOK, ReservationRecord, NoReservation
<1>. QED BY <1>1 DEF NoNewHold, CancelPending, CancelledReservation, JobsTypeOK

LEMMA SweepHoldsNoMore ==
  ASSUME JobsTypeOK, reservation' = [k \in Jobs |-> SweptReservation(k)]
  PROVE  NoNewHold
<1>1. \A j \in Jobs : Released(j).state = "held" => Released(j) = reservation[j]
  BY DEF Released, Held, JobsTypeOK, ReservationRecord, NoReservation
<1>. QED BY <1>1 DEF NoNewHold, SweptReservation, CancelledReservation, JobsTypeOK

LEMMA OtherStepsHoldNoMore ==
  ASSUME JobsTypeOK, [JobsNext]_jobsVars,
         \A j \in Jobs : ~PrepareReservedJob(j),
         \A j \in Jobs, fence \in Fences, r \in Results : ~FinishJobAndSettle(j, fence, r)
  PROVE  NoNewHold /\ UNCHANGED usage
<1>0. \A j \in Jobs : Released(j).state = "held" => Released(j) = reservation[j]
  BY DEF Released, Held, JobsTypeOK, ReservationRecord, NoReservation
<1>1. ASSUME NEW j \in Jobs, JobStep(j) PROVE NoNewHold /\ UNCHANGED usage
  <2>1. CASE ActivatePreparedJob(j)
    BY <2>1, CancelPendingHoldsNoMore DEF ActivatePreparedJob, NoNewHold
  <2>2. CASE CancelPendingJob(j)
    BY <2>2, CancelPendingHoldsNoMore DEF CancelPendingJob
  <2>3. CASE RequestCancellation(j)
    BY <2>3, CancelPendingHoldsNoMore DEF RequestCancellation, NoNewHold
  <2>4. CASE ClaimJob(j)
    BY <2>4, SweepHoldsNoMore DEF ClaimJob
  <2>5. CASE ClaimJobForReconciliation(j) \/ LeaseLapses(j) \/ DeadlinePasses(j)
    BY <2>5 DEF ClaimJobForReconciliation, LeaseLapses, DeadlinePasses, ledgerVars, NoNewHold
  <2>. QED BY <1>1, <2>1, <2>2, <2>3, <2>4, <2>5 DEF JobStep
<1>2. ASSUME NEW j \in Jobs, NEW fence \in Fences, AttemptStep(j, fence)
      PROVE  NoNewHold /\ UNCHANGED usage
  <2>1. ASSUME NEW known \in BOOLEAN, RetryJob(j, fence, known)
        PROVE  NoNewHold /\ UNCHANGED usage
    BY <2>1 DEF RetryJob, NoNewHold
  <2>2. ASSUME NEW outcome \in {"failed", "cancelled", "needs-review"},
               NEW stopped \in BOOLEAN, StopJob(j, fence, outcome, stopped)
        PROVE  NoNewHold /\ UNCHANGED usage
    BY <1>0, <2>2 DEF StopJob, NoNewHold, JobsTypeOK
  <2>. QED BY <1>2, <2>1, <2>2 DEF AttemptStep
<1>3. CASE ClaimNothing
  BY <1>3, SweepHoldsNoMore DEF ClaimNothing
<1>4. ASSUME NEW t \in Tenants, TenantStep(t) PROVE NoNewHold /\ UNCHANGED usage
  <2>1. CASE SuspendTenant(t)
    BY <2>1, CancelPendingHoldsNoMore DEF SuspendTenant
  <2>2. CASE ResumeTenant(t) \/ \E status \in {"active", "disabled"} : SetUserStatus(t, status)
    BY <2>2 DEF ResumeTenant, SetUserStatus, ledgerVars, NoNewHold
  <2>3. CASE BeginDeletion(t)
    BY <1>0, <2>3 DEF BeginDeletion, NoNewHold, CancelledReservation
  <2>4. CASE CompleteDeletion(t)
    BY <1>0, <2>4 DEF CompleteDeletion, NoNewHold
  <2>. QED BY <1>4, <2>1, <2>2, <2>3, <2>4 DEF TenantStep
<1>5. ASSUME NEW p \in Periods, RevokePeriod(p) \/ PeriodTurns(p)
      PROVE  NoNewHold /\ UNCHANGED usage
  BY <1>5, CancelPendingHoldsNoMore DEF RevokePeriod, PeriodTurns, ledgerVars, NoNewHold
<1>6. CASE UNCHANGED jobsVars
  BY <1>6 DEF jobsVars, ledgerVars, NoNewHold
<1>. QED
  BY <1>1, <1>2, <1>3, <1>4, <1>5, <1>6 DEF JobsNext

LEMMA QuotaStep == QuotaInv /\ [JobsNext]_jobsVars => QuotaInv'
<1>. SUFFICES ASSUME QuotaInv, [JobsNext]_jobsVars
              PROVE  QuotaInv'
  OBVIOUS
<1>1. JobsTypeOK /\ JobsTypeOK'
  BY NextTyped DEF QuotaInv
<1>2. ASSUME NEW j \in Jobs, PrepareReservedJob(j) PROVE QuotaInv'
  BY <1>1, <1>2, PrepareKeepsQuota
<1>3. ASSUME NEW j \in Jobs, NEW fence \in Fences, NEW r \in Results,
             FinishJobAndSettle(j, fence, r)
      PROVE  QuotaInv'
  BY <1>1, <1>3, FinishKeepsQuota
<1>4. ASSUME \A j \in Jobs : ~PrepareReservedJob(j),
             \A j \in Jobs, fence \in Fences, r \in Results : ~FinishJobAndSettle(j, fence, r)
      PROVE  QuotaInv'
  BY <1>1, <1>4, OtherStepsHoldNoMore, QuotaKept
<1>. QED BY <1>2, <1>3, <1>4

LEMMA QuotaInit == JobsInit => QuotaInv
<1>. SUFFICES ASSUME JobsInit PROVE QuotaInv
  OBVIOUS
<1>1. JobsTypeOK
  BY InitTyped
<1>2. ASSUME NEW p \in Periods
      PROVE  Cardinality(CapturedUnits(p)) + Cardinality(HeldUnits(p)) <= ResearchUnits[p]
  <2>1. CapturedUnits(p) = {} /\ HeldUnits(p) = {}
    BY DEF JobsInit, CapturedUnits, HeldUnits, Held, NoReservation
  <2>2. ResearchUnits[p] \in Nat
    BY ConstantsAssumption DEF ConstantsAssumption
  <2>. QED BY <2>1, <2>2, FS_EmptySet
<1>. QED BY <1>1, <1>2, FS_EmptySet DEF QuotaInv, QuotaNeverOvercommitted, JobsInit

\* For every set of operations, tenants and periods: a plan's units are never
\* overcommitted, counting what is charged and what is still held.
THEOREM QuotaHolds == JobsSpec => []QuotaNeverOvercommitted
<1>1. QuotaInv => QuotaNeverOvercommitted
  BY DEF QuotaInv
<1>. QED BY QuotaInit, QuotaStep, <1>1, PTL DEF JobsSpec

-----------------------------------------------------------------------------
(* From here on the proofs follow one operation through its states: the       *)
(* tables agree, settlement is final, an attempted job is released only by    *)
(* the attempt that ends it, a tenant runs one job at a time, and delivery    *)
(* intents follow settlements.                                                *)

-----------------------------------------------------------------------------
(* The fields the shared helpers leave.                                      *)

LEMMA EndedFields ==
  ASSUME NEW record \in JobRecord, NEW state \in JobStates,
         NEW kind \in {"other", "receipt-reconciliation"}
  PROVE  LET ended == [ClearLease(record) EXCEPT !.state = state, !.errorKind = kind]
         IN  /\ ended.state = state /\ ended.lease = "none"
             /\ ended.fence = record.fence /\ ended.attempt = record.attempt
  BY DEF ClearLease, JobRecord

LEMMA CancelledFields ==
  ASSUME JobsTypeOK, NEW k \in Jobs
  PROVE  /\ CancelledJob(k).fence = job[k].fence
         /\ ~Pending(k) => CancelledJob(k) = job[k]
         /\ Pending(k) => CancelledJob(k).lease = "none"
         /\ Pending(k) /\ AwaitsReceipt(k) => CancelledJob(k).state = job[k].state
         /\ Pending(k) /\ ~AwaitsReceipt(k) => CancelledJob(k).state = "cancelled"
<1>1. job[k] \in JobRecord
  BY DEF JobsTypeOK
<1>2. LET parked == [ClearLease(job[k]) EXCEPT !.cancelled = TRUE,
                                               !.errorKind = "receipt-reconciliation"]
      IN  parked.state = job[k].state /\ parked.lease = "none" /\ parked.fence = job[k].fence
  BY <1>1 DEF ClearLease, JobRecord
<1>3. LET ended == [ClearLease(job[k]) EXCEPT !.state = "cancelled", !.errorKind = "other"]
      IN  ended.state = "cancelled" /\ ended.lease = "none" /\ ended.fence = job[k].fence
  BY <1>1, EndedFields DEF JobStates
<1>. QED BY <1>2, <1>3 DEF CancelledJob

LEMMA SweptFields ==
  ASSUME JobsTypeOK, NEW k \in Jobs
  PROVE  /\ SweptJob(k).fence = job[k].fence
         /\ \/ SweptJob(k) = job[k] /\ ~(Stale(k) /\ job[k].attempt = 0)
            \/ /\ Pending(k) /\ SweptJob(k).lease = "none"
               /\ SweptJob(k).state = "cancelled" /\ Stale(k) /\ job[k].attempt = 0
            \/ /\ Pending(k) /\ SweptJob(k).lease = "none"
               /\ SweptJob(k).state = "needs-review" /\ job[k].attempt # 0
<1>1. job[k] \in JobRecord
  BY DEF JobsTypeOK
<1>2. LET parked == [ClearLease(job[k]) EXCEPT !.state = "needs-review",
                                               !.errorKind = "receipt-reconciliation"]
      IN  parked.state = "needs-review" /\ parked.lease = "none" /\ parked.fence = job[k].fence
  BY <1>1, EndedFields DEF JobStates
<1>3. Stale(k) => Pending(k)
  BY DEF Stale
<1>4. job[k].attempt = 0 => ~AwaitsReceipt(k)
  BY DEF AwaitsReceipt
<1>. QED BY <1>2, <1>3, <1>4, CancelledFields DEF SweptJob

LEMMA ClaimedFields ==
  ASSUME NEW record \in JobRecord, NEW kind \in {"other", "receipt-reconciliation"}
  PROVE  /\ Claimed(record, kind).state = "running"
         /\ Claimed(record, kind).errorKind = kind
         /\ Claimed(record, kind).fence = record.fence + 1
  BY DEF Claimed, JobRecord

LEMMA ReleasedFields ==
  ASSUME JobsTypeOK, NEW k \in Jobs
  PROVE  /\ Held(k) => Released(k).state = "released"
         /\ ~Held(k) => Released(k) = reservation[k]
<1>1. reservation[k] \in ReservationRecord
  BY DEF JobsTypeOK
<1>. QED BY <1>1 DEF Released, Held, ReservationRecord, NoReservation

-----------------------------------------------------------------------------
(* One operation's rows.                                                     *)

Rows(k) == {u \in usage : u.operation = k}
InPlay == {"preparing", "queued", "running"}

JobAgrees(k) ==
  /\ job[k].state = "none" =>
       job[k].fence = 0 /\ reservation[k].state = "none" /\ Rows(k) = {}
  /\ job[k].state \in InPlay => Held(k)
  /\ job[k].state \in {"failed", "cancelled"} /\ StatusOf(k) # "deleted"
       => reservation[k].state = "released"
  /\ job[k].state \in Results =>
       /\ k \in inbox
       /\ reservation[k].state \in {"captured", "released"}
  /\ reservation[k].state = "captured" =>
       {u.period : u \in Rows(k)} = {reservation[k].period}
  /\ Rows(k) # {} => reservation[k].state = "captured"
  /\ \A u, v \in Rows(k) : u = v

\* LedgerAgrees says nothing of an operation that does not exist yet; the first
\* conjunct of JobAgrees does, so that accepting one disturbs no row.
LedgerInv == JobsTypeOK /\ \A k \in Jobs : JobAgrees(k)

LEMMA InvAgrees == LedgerInv => LedgerAgrees
  BY DEF LedgerInv, JobAgrees, LedgerAgrees, InPlay, Rows

-----------------------------------------------------------------------------
(* What a step does to one operation, unless it accepts or settles it or     *)
(* erases its tenant.                                                        *)

Unmoved(k) == job'[k].state = job[k].state /\ reservation'[k] = reservation[k]

Cancelled(k) ==
  /\ Pending(k) /\ ~AwaitsReceipt(k)
  /\ job'[k].state = "cancelled" /\ reservation'[k] = Released(k)

Moved(k) ==
  /\ job[k].state \in InPlay \cup {"needs-review"} /\ Held(k)
  /\ job'[k].state \in {"queued", "running", "needs-review"}
  /\ reservation'[k] = reservation[k]

Stopped(k) ==
  /\ job[k].state = "running"
  /\ \/ job'[k].state \in {"failed", "cancelled"} /\ reservation'[k] = Released(k)
     \/ /\ job'[k].state = "needs-review"
        /\ reservation'[k] \in {reservation[k], Released(k)}

Ordinary(k) ==
  /\ Unmoved(k) \/ Cancelled(k) \/ Moved(k) \/ Stopped(k)
  /\ job[k].fence <= job'[k].fence
  /\ job'[k].state # "running" => job'[k].fence = job[k].fence

\* No step but a claim puts a job under a live lease.
GrantsNoLease(k) == Leased(k)' => Leased(k) /\ job'[k].errorKind = job[k].errorKind

LEMMA CancelOrdinary ==
  ASSUME LedgerInv, NEW k \in Jobs, job'[k] = CancelledJob(k),
         reservation'[k] = CancelledReservation(k)
  PROVE  Ordinary(k) /\ GrantsNoLease(k)
<1>1. JobsTypeOK /\ job[k].fence \in Nat
  BY DEF LedgerInv, JobsTypeOK, JobRecord
<1>2. CASE ~Pending(k)
  BY <1>1, <1>2, CancelledFields
  DEF Ordinary, Unmoved, GrantsNoLease, Leased, CancelledReservation
<1>3. CASE Pending(k) /\ AwaitsReceipt(k)
  BY <1>1, <1>3, CancelledFields
  DEF Ordinary, Unmoved, GrantsNoLease, Leased, CancelledReservation
<1>4. CASE Pending(k) /\ ~AwaitsReceipt(k)
  BY <1>1, <1>4, CancelledFields
  DEF Ordinary, Cancelled, GrantsNoLease, Leased, CancelledReservation
<1>. QED BY <1>2, <1>3, <1>4

LEMMA CancelPendingOrdinary ==
  ASSUME LedgerInv, NEW S, CancelPending(S), NEW k \in Jobs
  PROVE  Ordinary(k) /\ GrantsNoLease(k)
<1>1. CASE k \in S
  BY <1>1, CancelOrdinary DEF CancelPending
<1>2. CASE k \notin S
  <2>1. job'[k] = job[k] /\ reservation'[k] = reservation[k] /\ job[k].fence \in Nat
    BY <1>2 DEF CancelPending, LedgerInv, JobsTypeOK, JobRecord
  <2>. QED BY <2>1 DEF Ordinary, Unmoved, GrantsNoLease, Leased
<1>. QED BY <1>1, <1>2

LEMMA SweepOrdinary ==
  ASSUME LedgerInv, NEW k \in Jobs, job'[k] = SweptJob(k),
         reservation'[k] = SweptReservation(k)
  PROVE  Ordinary(k) /\ GrantsNoLease(k)
<1>0. /\ JobsTypeOK /\ job[k].fence \in Nat /\ SweptJob(k).fence = job[k].fence
      /\ Pending(k) => Held(k) /\ job[k].state \in InPlay
  BY SweptFields DEF LedgerInv, JobsTypeOK, JobRecord, JobAgrees, Pending, InPlay
<1>1. CASE SweptJob(k) = job[k] /\ ~(Stale(k) /\ job[k].attempt = 0)
  BY <1>0, <1>1 DEF SweptReservation, Ordinary, Unmoved, GrantsNoLease, Leased
<1>2. CASE /\ Pending(k) /\ SweptJob(k).lease = "none"
           /\ SweptJob(k).state = "cancelled" /\ Stale(k) /\ job[k].attempt = 0
  <2>1. ~AwaitsReceipt(k) /\ reservation'[k] = Released(k)
    BY <1>2 DEF AwaitsReceipt, SweptReservation, CancelledReservation
  <2>. QED BY <1>0, <1>2, <2>1 DEF Ordinary, Cancelled, GrantsNoLease, Leased
<1>3. CASE /\ Pending(k) /\ SweptJob(k).lease = "none"
           /\ SweptJob(k).state = "needs-review" /\ job[k].attempt # 0
  BY <1>0, <1>3 DEF SweptReservation, Ordinary, Moved, GrantsNoLease, Leased
<1>. QED BY <1>0, <1>1, <1>2, <1>3, SweptFields

\* The two claims.
LEMMA ClaimOrdinary ==
  ASSUME LedgerInv, NEW j \in Jobs, ClaimJob(j), NEW k \in Jobs
  PROVE  /\ Ordinary(k) /\ (k # j => GrantsNoLease(k))
<1>1. CASE k # j
  BY <1>1, SweepOrdinary DEF ClaimJob
<1>2. CASE k = j
  <2>1. /\ job[j] \in JobRecord /\ JobsTypeOK /\ SweptJob(j) \in JobRecord
        /\ job[j].fence \in Nat
    BY SweptTyped DEF LedgerInv, JobsTypeOK, JobRecord
  <2>2. SweptJob(j).state \in {"queued", "running"}
    BY DEF ClaimJob, Claimable, Waiting
  <2>3. SweptJob(j) = job[j] /\ SweptReservation(j) = reservation[j]
    BY <2>1, <2>2, SweptFields DEF SweptReservation
  <2>4. Held(j) /\ job[j].state \in InPlay
    BY <2>2, <2>3 DEF LedgerInv, JobAgrees, InPlay
  <2>5. job'[j].state = "running" /\ job'[j].fence = job[j].fence + 1
    <3>1. job[j].errorKind \in {"other", "receipt-reconciliation"}
      BY <2>1 DEF JobRecord
    <3>. QED BY <2>1, <2>3, <3>1, ClaimedFields DEF ClaimJob
  <2>6. reservation'[j] = reservation[j]
    BY <2>3 DEF ClaimJob
  <2>. QED BY <1>2, <2>1, <2>4, <2>5, <2>6 DEF Ordinary, Moved
<1>. QED BY <1>1, <1>2

LEMMA ReconciliationOrdinary ==
  ASSUME LedgerInv, NEW j \in Jobs, ClaimJobForReconciliation(j), NEW k \in Jobs
  PROVE  /\ Ordinary(k) /\ (k # j => GrantsNoLease(k))
         /\ job'[j].errorKind = "receipt-reconciliation"
<1>1. /\ JobsTypeOK /\ job[j] \in JobRecord /\ job[j].fence \in Nat /\ job[k].fence \in Nat
  BY DEF LedgerInv, JobsTypeOK, JobRecord
<1>2. /\ job' = [job EXCEPT ![j] = Claimed(job[j], "receipt-reconciliation")]
      /\ UNCHANGED reservation
  BY DEF ClaimJobForReconciliation
<1>3. /\ job'[j].state = "running" /\ job'[j].fence = job[j].fence + 1
      /\ job'[j].errorKind = "receipt-reconciliation"
  BY <1>1, <1>2, ClaimedFields DEF JobsTypeOK
<1>4. Held(j) /\ job[j].state \in InPlay \cup {"needs-review"}
  BY DEF ClaimJobForReconciliation, Reconcilable, InPlay
<1>5. CASE k = j
  BY <1>1, <1>2, <1>3, <1>4, <1>5 DEF Ordinary, Moved
<1>6. CASE k # j
  <2>1. job'[k] = job[k]
    BY <1>1, <1>2, <1>6 DEF JobsTypeOK
  <2>. QED BY <1>1, <1>2, <1>3, <1>6, <2>1 DEF Ordinary, Unmoved, GrantsNoLease, Leased
<1>. QED BY <1>5, <1>6

Accepts == \E j \in Jobs : PrepareReservedJob(j)
Claims == \E j \in Jobs : ClaimJob(j) \/ ClaimJobForReconciliation(j)
Settles == \E j \in Jobs, fence \in Fences, r \in Results : FinishJobAndSettle(j, fence, r)
Erases == \E t \in Tenants : CompleteDeletion(t)

LEMMA OneRecordOrdinary ==
  ASSUME LedgerInv, NEW j \in Jobs, NEW record \in JobRecord,
         job' = [job EXCEPT ![j] = record], record.fence = job[j].fence,
         UNCHANGED reservation, NEW k \in Jobs,
         \/ record.state = job[j].state
         \/ /\ job[j].state \in InPlay \cup {"needs-review"} /\ Held(j)
            /\ record.state \in {"queued", "running", "needs-review"},
         \/ record.lease # "live" \/ record.state # "running"
         \/ /\ record.lease = job[j].lease /\ record.state = job[j].state
            /\ record.errorKind = job[j].errorKind
  PROVE  Ordinary(k) /\ GrantsNoLease(k)
<1>1. job \in [Jobs -> JobRecord] /\ job[k].fence \in Nat
  BY DEF LedgerInv, JobsTypeOK, JobRecord
<1>2. CASE k = j
  BY <1>1, <1>2 DEF Ordinary, Unmoved, Moved, GrantsNoLease, Leased
<1>3. CASE k # j
  BY <1>1, <1>3 DEF Ordinary, Unmoved, GrantsNoLease, Leased
<1>. QED BY <1>2, <1>3

LEMMA JobStepOrdinary ==
  ASSUME LedgerInv, NEW j \in Jobs, JobStep(j), ~PrepareReservedJob(j), NEW k \in Jobs
  PROVE  Ordinary(k) /\ (~Claims => GrantsNoLease(k))
<1>0. job[j] \in JobRecord /\ job[k].fence \in Nat
  BY DEF LedgerInv, JobsTypeOK, JobRecord
<1>1. CASE ActivatePreparedJob(j)
  <2>1. CASE CancelPending({j})
    BY <2>1, CancelPendingOrdinary
  <2>2. CASE job' = [job EXCEPT ![j].state = "queued"] /\ UNCHANGED reservation
    <3>1. [job[j] EXCEPT !.state = "queued"] \in JobRecord
      BY <1>0 DEF JobRecord, JobStates
    <3>2. job[j].state \in InPlay /\ Held(j)
      BY <1>1 DEF ActivatePreparedJob, InPlay, LedgerInv, JobAgrees
    <3>3. /\ [job[j] EXCEPT !.state = "queued"].state = "queued"
          /\ [job[j] EXCEPT !.state = "queued"].fence = job[j].fence
      BY <1>0 DEF JobRecord
    <3>. QED BY <2>2, <3>1, <3>2, <3>3, OneRecordOrdinary
  <2>. QED BY <1>1, <2>1, <2>2 DEF ActivatePreparedJob
<1>2. CASE CancelPendingJob(j)
  BY <1>2, CancelPendingOrdinary DEF CancelPendingJob
<1>3. CASE RequestCancellation(j)
  <2>1. CASE CancelPending({j})
    BY <2>1, CancelPendingOrdinary
  <2>2. CASE job' = [job EXCEPT ![j].cancelled = TRUE] /\ UNCHANGED reservation
    <3>1. LET asked == [job[j] EXCEPT !.cancelled = TRUE]
          IN  /\ asked \in JobRecord /\ asked.state = job[j].state
              /\ asked.fence = job[j].fence /\ asked.lease = job[j].lease
              /\ asked.errorKind = job[j].errorKind
      BY <1>0 DEF JobRecord
    <3>. QED BY <2>2, <3>1, OneRecordOrdinary
  <2>. QED BY <1>3, <2>1, <2>2 DEF RequestCancellation
<1>4. CASE ClaimJob(j)
  BY <1>4, ClaimOrdinary DEF Claims
<1>5. CASE ClaimJobForReconciliation(j)
  BY <1>5, ReconciliationOrdinary DEF Claims
<1>6. CASE LeaseLapses(j)
  <2>1. LET lapsed == [job[j] EXCEPT !.lease = "lapsed"]
        IN  /\ lapsed \in JobRecord /\ lapsed.state = job[j].state
            /\ lapsed.fence = job[j].fence /\ lapsed.lease = "lapsed"
    BY <1>0 DEF JobRecord
  <2>. QED BY <1>6, <2>1, OneRecordOrdinary DEF LeaseLapses
<1>7. CASE DeadlinePasses(j)
  BY <1>0, <1>7 DEF DeadlinePasses, ledgerVars, Ordinary, Unmoved, GrantsNoLease, Leased
<1>. QED BY <1>1, <1>2, <1>3, <1>4, <1>5, <1>6, <1>7 DEF JobStep

LEMMA AttemptStepOrdinary ==
  ASSUME LedgerInv, NEW j \in Jobs, NEW fence \in Fences, AttemptStep(j, fence),
         ~Settles, NEW k \in Jobs
  PROVE  Ordinary(k) /\ GrantsNoLease(k)
<1>0. JobsTypeOK /\ job[j] \in JobRecord /\ job[k].fence \in Nat
  BY DEF LedgerInv, JobsTypeOK, JobRecord
<1>1. ASSUME NEW known \in BOOLEAN, RetryJob(j, fence, known)
      PROVE  Ordinary(k) /\ GrantsNoLease(k)
  <2>1. LET ended == [ClearLease(job[j]) EXCEPT !.state = "queued", !.errorKind = "other"]
        IN  /\ ended \in JobRecord /\ ended.state = "queued" /\ ended.fence = job[j].fence
            /\ job' = [job EXCEPT ![j] = ended]
    BY <1>0, <1>1, ClearLeaseTyped, EndedTyped, EndedFields DEF RetryJob, JobStates, JobsTypeOK
  <2>2. job[j].state \in InPlay /\ Held(j) /\ UNCHANGED reservation
    BY <1>1 DEF RetryJob, Retryable, ValidFence, Leased, InPlay, LedgerInv, JobAgrees
  <2>. QED BY <2>1, <2>2, OneRecordOrdinary
<1>2. ASSUME NEW outcome \in {"failed", "cancelled", "needs-review"},
             NEW stopped \in BOOLEAN, StopJob(j, fence, outcome, stopped)
      PROVE  Ordinary(k) /\ GrantsNoLease(k)
  <2>1. LET ended == [ClearLease(job[j]) EXCEPT !.state = outcome, !.errorKind = "other"]
        IN  /\ ended.state = outcome /\ ended.lease = "none" /\ ended.fence = job[j].fence
            /\ job' = [job EXCEPT ![j] = ended]
    BY <1>0, <1>2, EndedFields DEF StopJob, JobStates, JobsTypeOK
  <2>2. /\ job[j].state = "running"
        /\ outcome # "needs-review" => stopped
        /\ reservation' = IF stopped THEN [reservation EXCEPT ![j] = Released(j)]
                          ELSE reservation
    BY <1>2 DEF StopJob, HoldsFence
  <2>3. CASE k = j
    BY <1>0, <2>1, <2>2, <2>3 DEF Ordinary, Stopped, GrantsNoLease, Leased, JobsTypeOK
  <2>4. CASE k # j
    BY <1>0, <2>1, <2>2, <2>4 DEF Ordinary, Unmoved, GrantsNoLease, Leased, JobsTypeOK
  <2>. QED BY <2>3, <2>4
<1>. QED BY <1>1, <1>2 DEF AttemptStep, Settles

LEMMA TenantStepOrdinary ==
  ASSUME LedgerInv, NEW t \in Tenants, TenantStep(t), ~CompleteDeletion(t), NEW k \in Jobs
  PROVE  Ordinary(k) /\ GrantsNoLease(k)
<1>0. job[k] \in JobRecord /\ job[k].fence \in Nat
  BY DEF LedgerInv, JobsTypeOK, JobRecord
<1>1. CASE SuspendTenant(t)
  BY <1>1, CancelPendingOrdinary DEF SuspendTenant
<1>2. CASE ResumeTenant(t) \/ \E status \in {"active", "disabled"} : SetUserStatus(t, status)
  BY <1>0, <1>2 DEF ResumeTenant, SetUserStatus, ledgerVars, Ordinary, Unmoved, GrantsNoLease,
                    Leased
<1>3. CASE BeginDeletion(t)
  <2>1. CASE TenantOf[k] # t
    BY <1>0, <1>3, <2>1 DEF BeginDeletion, Ordinary, Unmoved, GrantsNoLease, Leased
  <2>2. CASE TenantOf[k] = t /\ job[k].state = "running"
    <3>1. LET asked == [job[k] EXCEPT !.cancelled = TRUE]
          IN  /\ asked.state = job[k].state /\ asked.fence = job[k].fence
              /\ asked.lease = job[k].lease /\ asked.errorKind = job[k].errorKind
      BY <1>0 DEF JobRecord
    <3>2. job'[k] = [job[k] EXCEPT !.cancelled = TRUE] /\ reservation'[k] = reservation[k]
      BY <1>3, <2>2 DEF BeginDeletion, CancelledReservation, Pending
    <3>. QED BY <1>0, <3>1, <3>2 DEF Ordinary, Unmoved, GrantsNoLease, Leased
  <2>3. CASE TenantOf[k] = t /\ job[k].state # "running"
    BY <1>3, <2>3, CancelOrdinary DEF BeginDeletion
  <2>. QED BY <2>1, <2>2, <2>3
<1>. QED BY <1>1, <1>2, <1>3 DEF TenantStep

\* Every other step is ordinary for every operation and leaves the usage rows
\* and the inbox alone.
LEMMA StepOrdinary ==
  ASSUME LedgerInv, [JobsNext]_jobsVars, ~Accepts, ~Settles, ~Erases, NEW k \in Jobs
  PROVE  /\ Ordinary(k) /\ (~Claims => GrantsNoLease(k))
         /\ UNCHANGED <<usage, inbox>>
<1>0. job[k] \in JobRecord /\ job[k].fence \in Nat
  BY DEF LedgerInv, JobsTypeOK, JobRecord
<1>1. ASSUME NEW j \in Jobs, JobStep(j)
      PROVE  Ordinary(k) /\ (~Claims => GrantsNoLease(k)) /\ UNCHANGED <<usage, inbox>>
  <2>1. ~PrepareReservedJob(j)
    BY DEF Accepts
  <2>2. UNCHANGED <<usage, inbox>>
    BY <1>1, <2>1 DEF JobStep, ActivatePreparedJob, CancelPendingJob, RequestCancellation,
                      ClaimJob, ClaimJobForReconciliation, LeaseLapses, DeadlinePasses,
                      ledgerVars
  <2>. QED BY <1>1, <2>1, <2>2, JobStepOrdinary
<1>2. ASSUME NEW j \in Jobs, NEW fence \in Fences, AttemptStep(j, fence)
      PROVE  Ordinary(k) /\ GrantsNoLease(k) /\ UNCHANGED <<usage, inbox>>
  <2>1. UNCHANGED <<usage, inbox>>
    BY <1>2 DEF AttemptStep, Settles, RetryJob, StopJob
  <2>. QED BY <1>2, <2>1, AttemptStepOrdinary
<1>3. CASE ClaimNothing
  BY <1>3, SweepOrdinary DEF ClaimNothing
<1>4. ASSUME NEW t \in Tenants, TenantStep(t)
      PROVE  Ordinary(k) /\ GrantsNoLease(k) /\ UNCHANGED <<usage, inbox>>
  <2>1. ~CompleteDeletion(t)
    BY DEF Erases
  <2>2. UNCHANGED <<usage, inbox>>
    BY <1>4, <2>1 DEF TenantStep, SuspendTenant, ResumeTenant, SetUserStatus, BeginDeletion,
                      ledgerVars
  <2>. QED BY <1>4, <2>1, <2>2, TenantStepOrdinary
<1>5. ASSUME NEW p \in Periods, RevokePeriod(p)
      PROVE  Ordinary(k) /\ GrantsNoLease(k) /\ UNCHANGED <<usage, inbox>>
  BY <1>5, CancelPendingOrdinary DEF RevokePeriod
<1>6. ASSUME NEW p \in Periods, PeriodTurns(p)
      PROVE  Ordinary(k) /\ GrantsNoLease(k) /\ UNCHANGED <<usage, inbox>>
  BY <1>0, <1>6 DEF PeriodTurns, ledgerVars, Ordinary, Unmoved, GrantsNoLease, Leased
<1>7. CASE UNCHANGED jobsVars
  BY <1>0, <1>7 DEF jobsVars, ledgerVars, Ordinary, Unmoved, GrantsNoLease, Leased
<1>. QED BY <1>1, <1>2, <1>3, <1>4, <1>5, <1>6, <1>7 DEF JobsNext

LEMMA DeletedForGood ==
  ASSUME JobsTypeOK, [JobsNext]_jobsVars, NEW k \in Jobs, StatusOf(k) = "deleted"
  PROVE  StatusOf(k)' = "deleted"
<1>0. TenantOf[k] \in Tenants /\ tenant \in [Tenants -> [status: TenantStates, generation: Nat]]
  BY ConstantsAssumption DEF ConstantsAssumption, JobsTypeOK
<1>1. ASSUME NEW t \in Tenants, TenantStep(t)
      PROVE  StatusOf(k)' = "deleted"
  <2>1. CASE t = TenantOf[k]
    BY <1>0, <1>1, <2>1 DEF TenantStep, SuspendTenant, ResumeTenant, SetUserStatus,
                            BeginDeletion, CompleteDeletion, StatusOf
  <2>2. CASE t # TenantOf[k]
    <3>1. tenant'[TenantOf[k]] = tenant[TenantOf[k]]
      BY <1>0, <1>1, <2>2 DEF TenantStep, SuspendTenant, ResumeTenant, SetUserStatus,
                              BeginDeletion, CompleteDeletion
    <3>. QED BY <3>1 DEF StatusOf
  <2>. QED BY <2>1, <2>2
<1>2. ASSUME UNCHANGED tenant PROVE StatusOf(k)' = "deleted"
  BY <1>2 DEF StatusOf
<1>3. (\A t \in Tenants : ~TenantStep(t)) => UNCHANGED tenant
  <2>1. ASSUME NEW j \in Jobs, JobStep(j) PROVE UNCHANGED tenant
    BY <2>1 DEF JobStep, PrepareReservedJob, ActivatePreparedJob, CancelPendingJob,
                RequestCancellation, ClaimJob, ClaimJobForReconciliation, LeaseLapses,
                DeadlinePasses, tenancyVars
  <2>2. ASSUME NEW j \in Jobs, NEW fence \in Fences, AttemptStep(j, fence)
        PROVE  UNCHANGED tenant
    BY <2>2 DEF AttemptStep, FinishJobAndSettle, RetryJob, StopJob, tenancyVars
  <2>. QED BY <2>1, <2>2 DEF JobsNext, ClaimNothing, RevokePeriod, PeriodTurns, jobsVars,
                             tenancyVars
<1>. QED BY <1>1, <1>2, <1>3

-----------------------------------------------------------------------------
(* The tables agree.                                                         *)

LEMMA OrdinaryKeepsAgreement ==
  ASSUME LedgerInv, NEW k \in Jobs, Ordinary(k), UNCHANGED <<usage, inbox>>,
         StatusOf(k) = "deleted" => StatusOf(k)' = "deleted"
  PROVE  JobAgrees(k)'
<1>1. /\ JobAgrees(k) /\ JobsTypeOK
      /\ Rows(k)' = Rows(k)
      /\ job[k].fence \in Nat
  BY DEF LedgerInv, Rows, JobsTypeOK, JobRecord
<1>2. CASE Unmoved(k)
  BY <1>1, <1>2 DEF Unmoved, Ordinary, JobAgrees, Held, InPlay, Results
<1>3. CASE Cancelled(k)
  <2>1. Held(k) /\ Released(k).state = "released" /\ Rows(k) = {}
    BY <1>1, <1>3, ReleasedFields DEF Cancelled, Pending, JobAgrees, InPlay, Held
  <2>. QED BY <1>1, <1>3, <2>1 DEF Cancelled, JobAgrees, Held, InPlay, Results
<1>4. CASE Moved(k)
  BY <1>1, <1>4 DEF Moved, JobAgrees, Held, InPlay, Results
<1>5. CASE Stopped(k)
  <2>1. Held(k) /\ Released(k).state = "released" /\ Rows(k) = {}
    BY <1>1, <1>5, ReleasedFields DEF Stopped, JobAgrees, InPlay, Held
  <2>. QED BY <1>1, <1>5, <2>1 DEF Stopped, JobAgrees, Held, InPlay, Results
<1>. QED BY <1>2, <1>3, <1>4, <1>5 DEF Ordinary

LEMMA AcceptFields ==
  ASSUME JobsTypeOK, NEW j \in Jobs, PrepareReservedJob(j)
  PROVE  /\ job'[j].state = "preparing" /\ job'[j].lease = "none" /\ job'[j].fence = 0
         /\ job[j].state = "none" /\ reservation'[j].state = "held"
         /\ \A k \in Jobs \ {j} : job'[k] = job[k] /\ reservation'[k] = reservation[k]
         /\ UNCHANGED <<usage, inbox, delivery, tenant>>
<1>1. LET fresh == [NoJob EXCEPT !.state = "preparing",
                                 !.generation = tenant[TenantOf[j]].generation]
      IN  /\ fresh.state = "preparing" /\ fresh.lease = "none" /\ fresh.fence = 0
          /\ job' = [job EXCEPT ![j] = fresh]
  BY DEF PrepareReservedJob, NoJob
<1>2. PICK p \in Periods :
        reservation' = [reservation EXCEPT ![j] = [state |-> "held", period |-> p]]
  BY DEF PrepareReservedJob, ReserveUnits
<1>3. job \in [Jobs -> JobRecord] /\ reservation \in [Jobs -> ReservationRecord]
  BY DEF JobsTypeOK
<1>4. reservation'[j].state = "held"
  BY <1>2, <1>3
<1>. QED BY <1>1, <1>2, <1>3, <1>4 DEF PrepareReservedJob, tenancyVars

LEMMA SettleFields ==
  ASSUME JobsTypeOK, NEW j \in Jobs, NEW fence, NEW r \in Results,
         FinishJobAndSettle(j, fence, r)
  PROVE  /\ job'[j].state = r /\ job'[j].fence = job[j].fence
         /\ inbox' = inbox \cup {j} /\ UNCHANGED tenant
         /\ \A k \in Jobs \ {j} : job'[k] = job[k] /\ reservation'[k] = reservation[k]
         /\ Held(j) => /\ reservation'[j].state = "captured"
                       /\ reservation'[j].period = reservation[j].period
                       /\ \E row : /\ usage' = usage \cup {row} /\ row.operation = j
                                   /\ row.period = reservation[j].period
         /\ ~Held(j) => UNCHANGED <<reservation, usage>>
<1>0. /\ job \in [Jobs -> JobRecord] /\ reservation \in [Jobs -> ReservationRecord]
      /\ r \in JobStates
  BY DEF JobsTypeOK, Results, JobStates
<1>1. LET ended == [ClearLease(job[j]) EXCEPT !.state = r, !.errorKind = "other"]
      IN  ended.state = r /\ ended.fence = job[j].fence
  BY <1>0, EndedFields
<1>2. /\ job'[j].state = r /\ job'[j].fence = job[j].fence
      /\ \A k \in Jobs \ {j} : job'[k] = job[k]
  BY <1>0, <1>1 DEF FinishJobAndSettle
<1>3. CASE ~Held(j)
  BY <1>2, <1>3 DEF FinishJobAndSettle, tenancyVars
<1>4. CASE Held(j)
  <2>. DEFINE row == [operation |-> j, period |-> reservation[j].period,
                      delta |-> IF r = "partial" THEN 0 ELSE Units[j]]
  <2>1. /\ reservation' = [reservation EXCEPT ![j].state = "captured"]
        /\ usage' = usage \cup {row}
    BY <1>4 DEF FinishJobAndSettle
  <2>2. row.operation = j /\ row.period = reservation[j].period
    OBVIOUS
  <2>3. /\ reservation'[j].state = "captured"
        /\ reservation'[j].period = reservation[j].period
        /\ \A k \in Jobs \ {j} : reservation'[k] = reservation[k]
    BY <1>0, <2>1 DEF ReservationRecord, NoReservation
  <2>4. \E u : /\ usage' = usage \cup {u} /\ u.operation = j
               /\ u.period = reservation[j].period
    <3>. WITNESS row
    <3>. QED BY <2>1, <2>2
  <2>5. inbox' = inbox \cup {j} /\ UNCHANGED tenant
    BY DEF FinishJobAndSettle, tenancyVars
  <2>. QED BY <1>2, <1>4, <2>3, <2>4, <2>5
<1>. QED BY <1>3, <1>4

LEMMA EraseFields ==
  ASSUME JobsTypeOK, NEW t \in Tenants, CompleteDeletion(t), NEW k \in Jobs
  PROVE  /\ UNCHANGED usage /\ inbox' = inbox \ JobsOf(t)
         /\ \/ /\ TenantOf[k] = t /\ job[k].state # "none" /\ job'[k].state = "cancelled"
               /\ job'[k].fence = job[k].fence + 1 /\ reservation'[k] = Released(k)
            \/ /\ TenantOf[k] # t \/ job[k].state = "none"
               /\ job'[k] = job[k] /\ reservation'[k] = reservation[k]
         /\ TenantOf[k] = t => StatusOf(k)' = "deleted"
         /\ TenantOf[k] # t => StatusOf(k)' = StatusOf(k)
<1>0. job[k] \in JobRecord /\ TenantOf[k] \in Tenants
      /\ tenant \in [Tenants -> [status: TenantStates, generation: Nat]]
  BY ConstantsAssumption DEF ConstantsAssumption, JobsTypeOK
<1>1. LET gone == [ClearLease(job[k]) EXCEPT !.state = "cancelled", !.fence = @ + 1,
                                             !.errorKind = "other"]
      IN  gone.state = "cancelled" /\ gone.fence = job[k].fence + 1
  BY <1>0 DEF ClearLease, JobRecord
<1>2. /\ TenantOf[k] = t => StatusOf(k)' = "deleted"
      /\ TenantOf[k] # t => StatusOf(k)' = StatusOf(k)
  BY <1>0 DEF CompleteDeletion, StatusOf
<1>. QED BY <1>1, <1>2 DEF CompleteDeletion

LEMMA AcceptKeepsAgreement ==
  ASSUME LedgerInv, NEW j \in Jobs, PrepareReservedJob(j), NEW k \in Jobs
  PROVE  JobAgrees(k)'
<1>1. JobAgrees(k) /\ JobsTypeOK
  BY DEF LedgerInv
<1>2. Rows(k)' = Rows(k) /\ StatusOf(k)' = StatusOf(k) /\ UNCHANGED inbox
  BY <1>1, AcceptFields DEF Rows, StatusOf
<1>3. CASE k = j
  <2>1. /\ job'[k].state = "preparing" /\ reservation'[k].state = "held"
        /\ job[k].state = "none"
    BY <1>1, <1>3, AcceptFields
  <2>. QED BY <1>1, <1>2, <2>1 DEF JobAgrees, Held, InPlay, Results
<1>4. CASE k # j
  <2>1. job'[k] = job[k] /\ reservation'[k] = reservation[k]
    BY <1>1, <1>4, AcceptFields
  <2>. QED BY <1>1, <1>2, <2>1 DEF JobAgrees, Held
<1>. QED BY <1>3, <1>4

LEMMA SettleKeepsAgreement ==
  ASSUME LedgerInv, NEW j \in Jobs, NEW fence, NEW r \in Results,
         FinishJobAndSettle(j, fence, r), NEW k \in Jobs
  PROVE  JobAgrees(k)'
<1>1. JobAgrees(k) /\ JobAgrees(j) /\ JobsTypeOK
  BY DEF LedgerInv
<1>2. StatusOf(k)' = StatusOf(k) /\ inbox' = inbox \cup {j}
  BY <1>1, SettleFields DEF StatusOf
<1>3. CASE k # j
  <2>1. job'[k] = job[k] /\ reservation'[k] = reservation[k]
    BY <1>1, <1>3, SettleFields
  <2>2. Rows(k)' = Rows(k)
    <3>1. CASE Held(j)
      <4>1. PICK row : usage' = usage \cup {row} /\ row.operation = j
        BY <1>1, <3>1, SettleFields
      <4>. QED BY <1>3, <4>1 DEF Rows
    <3>2. CASE ~Held(j)
      BY <1>1, <3>2, SettleFields DEF Rows
    <3>. QED BY <3>1, <3>2
  <2>. QED BY <1>1, <1>2, <2>1, <2>2 DEF JobAgrees, Held
<1>4. CASE k = j /\ Held(j)
  <2>1. PICK row : /\ usage' = usage \cup {row} /\ row.operation = j
                   /\ row.period = reservation[j].period
    BY <1>1, <1>4, SettleFields
  <2>2. Rows(j) = {}
    BY <1>1, <1>4 DEF JobAgrees, Held
  <2>3. Rows(j)' = {row}
    BY <2>1, <2>2 DEF Rows
  <2>4. /\ job'[j].state = r /\ reservation'[j].state = "captured"
        /\ reservation'[j].period = row.period
    BY <1>1, <1>4, <2>1, SettleFields
  <2>. QED BY <1>2, <1>4, <2>3, <2>4 DEF JobAgrees, Held, InPlay, Results
<1>5. CASE k = j /\ ~Held(j)
  <2>1. job'[j].state = r /\ reservation' = reservation /\ Rows(j)' = Rows(j)
    BY <1>1, <1>5, SettleFields DEF Rows
  <2>2. reservation[j].state \in {"captured", "released"}
    BY <1>1, <1>5 DEF FinishJobAndSettle, Settleable, ValidFence, Leased, JobAgrees, InPlay,
                      Results
  <2>. QED BY <1>1, <1>2, <1>5, <2>1, <2>2 DEF JobAgrees, Held, InPlay, Results
<1>. QED BY <1>3, <1>4, <1>5

LEMMA EraseKeepsAgreement ==
  ASSUME LedgerInv, NEW t \in Tenants, CompleteDeletion(t), NEW k \in Jobs
  PROVE  JobAgrees(k)'
<1>1. JobAgrees(k) /\ JobsTypeOK
  BY DEF LedgerInv
<1>2. Rows(k)' = Rows(k) /\ inbox' = inbox \ JobsOf(t)
  BY <1>1, EraseFields DEF Rows
<1>3. CASE /\ TenantOf[k] = t /\ job[k].state # "none" /\ job'[k].state = "cancelled"
           /\ reservation'[k] = Released(k)
  <2>1. StatusOf(k)' = "deleted"
    BY <1>1, <1>3, EraseFields
  <2>2. CASE Held(k)
    <3>1. reservation'[k].state = "released" /\ Rows(k) = {}
      BY <1>1, <1>3, <2>2, ReleasedFields DEF JobAgrees, Held
    <3>. QED BY <1>1, <1>2, <1>3, <2>1, <3>1 DEF JobAgrees, Held, InPlay, Results
  <2>3. CASE ~Held(k)
    <3>1. reservation'[k] = reservation[k]
      BY <1>1, <1>3, <2>3, ReleasedFields
    <3>. QED BY <1>1, <1>2, <1>3, <2>1, <3>1 DEF JobAgrees, Held, InPlay, Results
  <2>. QED BY <2>2, <2>3
<1>4. CASE /\ TenantOf[k] # t \/ job[k].state = "none"
           /\ job'[k] = job[k] /\ reservation'[k] = reservation[k]
  <2>1. job[k].state \in Results => k \in inbox'
    BY <1>1, <1>2, <1>4 DEF JobAgrees, JobsOf, Results
  <2>2. StatusOf(k)' # "deleted" => StatusOf(k)' = StatusOf(k)
    BY <1>1, EraseFields
  <2>. QED BY <1>1, <1>2, <1>4, <2>1, <2>2 DEF JobAgrees, Held, InPlay, Results
<1>. QED BY <1>1, <1>3, <1>4, EraseFields

LEMMA LedgerStep == LedgerInv /\ [JobsNext]_jobsVars => LedgerInv'
<1>. SUFFICES ASSUME LedgerInv, [JobsNext]_jobsVars
              PROVE  LedgerInv'
  OBVIOUS
<1>1. JobsTypeOK /\ JobsTypeOK'
  BY NextTyped DEF LedgerInv
<1>2. ASSUME NEW k \in Jobs PROVE JobAgrees(k)'
  <2>1. CASE Accepts
    BY <2>1, AcceptKeepsAgreement DEF Accepts
  <2>2. CASE Settles
    BY <2>2, SettleKeepsAgreement DEF Settles
  <2>3. CASE Erases
    BY <2>3, EraseKeepsAgreement DEF Erases
  <2>4. CASE ~Accepts /\ ~Settles /\ ~Erases
    BY <1>1, <2>4, StepOrdinary, DeletedForGood, OrdinaryKeepsAgreement
  <2>. QED BY <2>1, <2>2, <2>3, <2>4
<1>. QED BY <1>1, <1>2 DEF LedgerInv

LEMMA LedgerInit == JobsInit => LedgerInv
<1>. SUFFICES ASSUME JobsInit PROVE LedgerInv
  OBVIOUS
<1>1. JobsTypeOK
  BY InitTyped
<1>2. ASSUME NEW k \in Jobs PROVE JobAgrees(k)
  <2>1. job[k] = NoJob /\ reservation[k] = NoReservation /\ Rows(k) = {}
    BY DEF JobsInit, Rows
  <2>. QED BY <2>1 DEF JobAgrees, NoJob, NoReservation, InPlay, Results
<1>. QED BY <1>1, <1>2 DEF LedgerInv

\* For every set of operations and in every order of the repository's calls:
\* jobs in play hold their reservation, jobs that ended without a result have
\* released it, and a captured reservation has exactly one usage row.
THEOREM TablesAgree == JobsSpec => []LedgerAgrees
  BY LedgerInit, LedgerStep, InvAgrees, PTL DEF JobsSpec

LEMMA LedgerInvHolds == JobsSpec => []LedgerInv
  BY LedgerInit, LedgerStep, PTL DEF JobsSpec

-----------------------------------------------------------------------------
(* Settlement is final.                                                      *)

FinalFor(k) ==
  /\ reservation[k].state \in {"captured", "released"}
       => reservation'[k] = reservation[k]
  /\ job[k].state \in Results /\ job'[k].state # job[k].state
       => tenant'[TenantOf[k]].status = "deleted"
  /\ job[k].fence <= job'[k].fence

LEMMA StepIsFinal ==
  ASSUME LedgerInv, [JobsNext]_jobsVars
  PROVE  usage \subseteq usage' /\ \A k \in Jobs : FinalFor(k)
<1>1. ASSUME NEW k \in Jobs
      PROVE  usage \subseteq usage' /\ FinalFor(k)
  <2>1. JobAgrees(k) /\ JobsTypeOK /\ job[k].fence \in Nat
    BY <1>1 DEF LedgerInv, JobsTypeOK, JobRecord
  <2>2. ASSUME NEW j \in Jobs, PrepareReservedJob(j)
        PROVE  usage \subseteq usage' /\ FinalFor(k)
    <3>1. CASE k = j
      BY <2>1, <2>2, <3>1, AcceptFields DEF FinalFor, JobAgrees, Results
    <3>2. CASE k # j
      BY <2>1, <2>2, <3>2, AcceptFields DEF FinalFor
    <3>. QED BY <3>1, <3>2
  <2>3. ASSUME NEW j \in Jobs, NEW fence \in Fences, NEW r \in Results,
               FinishJobAndSettle(j, fence, r)
        PROVE  usage \subseteq usage' /\ FinalFor(k)
    <3>1. usage \subseteq usage'
      BY <2>1, <2>3, SettleFields
    <3>2. CASE k # j
      BY <2>1, <2>3, <3>1, <3>2, SettleFields DEF FinalFor
    <3>3. CASE k = j
      <4>1. job'[j].state = r /\ job'[j].fence = job[j].fence
            /\ (~Held(j) => UNCHANGED reservation)
        BY <2>1, <2>3, SettleFields
      <4>2. job[j].state \in Results => job[j].state = r
        BY <2>3 DEF FinishJobAndSettle, Settleable
      <4>. QED BY <2>1, <3>1, <3>3, <4>1, <4>2 DEF FinalFor, Held
    <3>. QED BY <3>2, <3>3
  <2>4. ASSUME NEW t \in Tenants, CompleteDeletion(t)
        PROVE  usage \subseteq usage' /\ FinalFor(k)
    <3>1. UNCHANGED usage
      BY <2>1, <2>4, EraseFields
    <3>2. CASE /\ TenantOf[k] = t /\ job[k].state # "none" /\ job'[k].state = "cancelled"
               /\ job'[k].fence = job[k].fence + 1 /\ reservation'[k] = Released(k)
      <4>1. tenant'[TenantOf[k]].status = "deleted"
        BY <2>1, <2>4, <3>2, EraseFields DEF StatusOf
      <4>2. reservation[k].state \in {"captured", "released"}
              => reservation'[k] = reservation[k]
        BY <2>1, <3>2, ReleasedFields DEF Held
      <4>. QED BY <2>1, <3>1, <3>2, <4>1, <4>2 DEF FinalFor
    <3>3. CASE job'[k] = job[k] /\ reservation'[k] = reservation[k]
      BY <2>1, <3>1, <3>3 DEF FinalFor
    <3>. QED BY <2>1, <2>4, <3>2, <3>3, EraseFields
  <2>5. CASE ~Accepts /\ ~Settles /\ ~Erases
    <3>1. Ordinary(k) /\ UNCHANGED usage
      BY <2>5, StepOrdinary
    <3>2. CASE Unmoved(k)
      BY <3>1, <3>2 DEF Ordinary, Unmoved, FinalFor
    <3>3. CASE Cancelled(k)
      BY <2>1, <3>1, <3>3, ReleasedFields DEF Ordinary, Cancelled, FinalFor, Pending, Results, Held
    <3>4. CASE Moved(k)
      BY <3>1, <3>4 DEF Ordinary, Moved, FinalFor, InPlay, Results
    <3>5. CASE Stopped(k)
      BY <2>1, <3>1, <3>5, ReleasedFields DEF Ordinary, Stopped, FinalFor, Results, Held
    <3>. QED BY <3>1, <3>2, <3>3, <3>4, <3>5 DEF Ordinary
  <2>. QED BY <2>2, <2>3, <2>4, <2>5 DEF Accepts, Settles, Erases
<1>2. usage \subseteq usage'
  <2>1. CASE Jobs = {}
    <3>1. UNCHANGED usage
      BY <2>1 DEF JobsNext, ClaimNothing, TenantStep, SuspendTenant, ResumeTenant,
                  SetUserStatus, BeginDeletion, CompleteDeletion, RevokePeriod, PeriodTurns,
                  ledgerVars, jobsVars
    <3>. QED BY <3>1
  <2>2. CASE Jobs # {}
    BY <1>1, <2>2
  <2>. QED BY <2>1, <2>2
<1>. QED BY <1>1, <1>2

\* Whatever is called with whatever fence, a usage row is never dropped, a
\* captured or released reservation never changes, a result changes only when
\* its tenant is erased, and fences never go back.
THEOREM SettledForGood == JobsSpec => SettlementIsFinal
<1>1. LedgerInv /\ [JobsNext]_jobsVars
        => [/\ usage \subseteq usage'
            /\ \A j \in Jobs :
                 /\ reservation[j].state \in {"captured", "released"}
                      => reservation'[j] = reservation[j]
                 /\ job[j].state \in Results /\ job'[j].state # job[j].state
                      => tenant'[TenantOf[j]].status = "deleted"
                 /\ job[j].fence <= job'[j].fence]_jobsVars
  BY StepIsFinal DEF FinalFor
<1>. QED BY <1>1, LedgerInvHolds, PTL DEF JobsSpec, SettlementIsFinal

-----------------------------------------------------------------------------
(* Attempted jobs.                                                           *)

LEMMA StepStopsFirst ==
  ASSUME LedgerInv, [JobsNext]_jobsVars, NEW k \in Jobs,
         job[k].attempt > 0, Held(k), reservation'[k].state = "released"
  PROVE  job[k].state = "running" \/ tenant'[TenantOf[k]].status = "deleted"
<1>1. JobAgrees(k) /\ JobsTypeOK
  BY DEF LedgerInv
<1>2. ASSUME NEW j \in Jobs, PrepareReservedJob(j) PROVE FALSE
  BY <1>1, <1>2, AcceptFields DEF Held
<1>3. ASSUME NEW j \in Jobs, NEW fence \in Fences, NEW r \in Results,
             FinishJobAndSettle(j, fence, r)
      PROVE  FALSE
  BY <1>1, <1>3, SettleFields DEF Held
<1>4. ASSUME NEW t \in Tenants, CompleteDeletion(t)
      PROVE  tenant'[TenantOf[k]].status = "deleted"
  BY <1>1, <1>4, EraseFields DEF Held, StatusOf
<1>5. CASE ~Accepts /\ ~Settles /\ ~Erases
  BY <1>5, StepOrdinary DEF Ordinary, Unmoved, Cancelled, Moved, Stopped, Held, AwaitsReceipt
<1>. QED BY <1>2, <1>3, <1>4, <1>5 DEF Accepts, Settles, Erases

\* The units of a job that was ever attempted, which may have left a result,
\* are given back only by a stop of the running attempt or with the data of
\* the tenant, however it is cancelled, swept, revoked or suspended.
THEOREM AttemptsEndBeforeRelease == JobsSpec => AttemptedReleaseNeedsStop
<1>1. LedgerInv /\ [JobsNext]_jobsVars
        => [\A j \in Jobs :
              job[j].attempt > 0 /\ Held(j) /\ reservation'[j].state = "released"
                => job[j].state = "running" \/ tenant'[TenantOf[j]].status = "deleted"]_jobsVars
  BY StepStopsFirst
<1>. QED BY <1>1, LedgerInvHolds, PTL DEF JobsSpec, AttemptedReleaseNeedsStop

-----------------------------------------------------------------------------
(* One execution per tenant.                                                 *)

LeaseInv == LedgerInv /\ OneExecutionPerTenant

LEMMA LeaseStep == LeaseInv /\ [JobsNext]_jobsVars => LeaseInv'
<1>. SUFFICES ASSUME LeaseInv, [JobsNext]_jobsVars
              PROVE  OneExecutionPerTenant'
  BY LedgerStep DEF LeaseInv
<1>. USE DEF LeaseInv
<1>0. JobsTypeOK
  BY DEF LedgerInv
<1>1. CASE \A k \in Jobs : GrantsNoLease(k)
  BY <1>1 DEF OneExecutionPerTenant, GrantsNoLease
<1>2. ASSUME NEW j \in Jobs, PrepareReservedJob(j), NEW k \in Jobs PROVE GrantsNoLease(k)
  BY <1>0, <1>2, AcceptFields DEF GrantsNoLease, Leased
<1>3. ASSUME NEW j \in Jobs, NEW fence \in Fences, NEW r \in Results,
             FinishJobAndSettle(j, fence, r), NEW k \in Jobs
      PROVE  GrantsNoLease(k)
  BY <1>0, <1>3, SettleFields DEF GrantsNoLease, Leased, Results
<1>4. ASSUME NEW t \in Tenants, CompleteDeletion(t), NEW k \in Jobs PROVE GrantsNoLease(k)
  BY <1>0, <1>4, EraseFields DEF GrantsNoLease, Leased
<1>5. ASSUME NEW j \in Jobs, ClaimJob(j) PROVE OneExecutionPerTenant'
  <2>1. \A k \in Jobs \ {j} : GrantsNoLease(k)
    BY <1>5, ClaimOrdinary
  <2>2. \A k \in Jobs : Leased(k) => TenantOf[k] # TenantOf[j]
    BY <1>5 DEF ClaimJob, Claimable, TenantIdle, LiveLeases
  <2>. QED BY <2>1, <2>2 DEF OneExecutionPerTenant, GrantsNoLease
<1>6. ASSUME NEW j \in Jobs, ClaimJobForReconciliation(j) PROVE OneExecutionPerTenant'
  <2>1. /\ \A k \in Jobs \ {j} : GrantsNoLease(k)
        /\ job'[j].errorKind = "receipt-reconciliation"
    BY <1>6, ReconciliationOrdinary
  <2>. QED BY <2>1 DEF OneExecutionPerTenant, GrantsNoLease
<1>7. CASE ~Accepts /\ ~Settles /\ ~Erases /\ ~Claims
  BY <1>1, <1>7, StepOrdinary
<1>. QED BY <1>1, <1>2, <1>3, <1>4, <1>5, <1>6, <1>7 DEF Accepts, Settles, Erases, Claims

LEMMA LeaseInit == JobsInit => LeaseInv
<1>. SUFFICES ASSUME JobsInit PROVE OneExecutionPerTenant
  BY LedgerInit DEF LeaseInv
<1>1. \A k \in Jobs : ~Leased(k)
  BY DEF JobsInit, NoJob, Leased
<1>. QED BY <1>1 DEF OneExecutionPerTenant

\* For any number of workers and operations, a tenant never has two attempts
\* under live leases of which neither only looks for a receipt.
THEOREM OneAtATime == JobsSpec => []OneExecutionPerTenant
<1>1. LeaseInv => OneExecutionPerTenant
  BY DEF LeaseInv
<1>. QED BY LeaseInit, LeaseStep, <1>1, PTL DEF JobsSpec

-----------------------------------------------------------------------------
(* Delivery intents.                                                         *)

IntentInv == LedgerInv /\ IntentFollowsSettlement
Closing(k) == StatusOf(k) \in {"deleting", "deleted"}

MakesNoIntent(k) ==
  /\ delivery'[k] # "none" => delivery[k] # "none"
  /\ delivery'[k] = "pending" => delivery[k] = "pending" /\ (Closing(k)' => Closing(k))

LEMMA StepMakesNoIntent ==
  ASSUME JobsTypeOK, [JobsNext]_jobsVars, ~Settles, ~Erases, NEW k \in Jobs
  PROVE  MakesNoIntent(k)
<1>0. /\ TenantOf[k] \in Tenants
      /\ tenant \in [Tenants -> [status: TenantStates, generation: Nat]]
      /\ delivery \in [Jobs -> {"none", "pending", "suppressed"}]
  BY ConstantsAssumption DEF ConstantsAssumption, JobsTypeOK
<1>1. ASSUME NEW t \in Tenants, TenantStep(t)
      PROVE  MakesNoIntent(k)
  <2>1. CASE SuspendTenant(t)
    <3>1. Closing(k)' => Closing(k)
      BY <1>0, <2>1 DEF SuspendTenant, Closing, StatusOf
    <3>. QED BY <1>0, <2>1, <3>1 DEF SuspendTenant, SuppressDeliveries, MakesNoIntent
  <2>2. CASE ResumeTenant(t) \/ \E status \in {"active", "disabled"} : SetUserStatus(t, status)
    <3>1. Closing(k)' => Closing(k)
      BY <1>0, <2>2 DEF ResumeTenant, SetUserStatus, Closing, StatusOf
    <3>. QED BY <2>2, <3>1 DEF ResumeTenant, SetUserStatus, ledgerVars, MakesNoIntent
  <2>3. CASE BeginDeletion(t) /\ TenantOf[k] = t
    BY <1>0, <2>3 DEF BeginDeletion, SuppressDeliveries, MakesNoIntent
  <2>4. CASE BeginDeletion(t) /\ TenantOf[k] # t
    <3>1. Closing(k)' => Closing(k)
      BY <1>0, <2>4 DEF BeginDeletion, Closing, StatusOf
    <3>. QED BY <1>0, <2>4, <3>1 DEF BeginDeletion, SuppressDeliveries, MakesNoIntent
  <2>. QED BY <1>1, <2>1, <2>2, <2>3, <2>4 DEF TenantStep, Erases
<1>2. ASSUME UNCHANGED <<tenant, delivery>> PROVE MakesNoIntent(k)
  BY <1>2 DEF MakesNoIntent, Closing, StatusOf
<1>3. (\A t \in Tenants : ~TenantStep(t)) => UNCHANGED <<tenant, delivery>>
  <2>1. ASSUME NEW j \in Jobs, JobStep(j) PROVE UNCHANGED <<tenant, delivery>>
    BY <2>1 DEF JobStep, PrepareReservedJob, ActivatePreparedJob, CancelPendingJob,
                RequestCancellation, ClaimJob, ClaimJobForReconciliation, LeaseLapses,
                DeadlinePasses, tenancyVars, ledgerVars
  <2>2. ASSUME NEW j \in Jobs, NEW fence \in Fences, AttemptStep(j, fence)
        PROVE  UNCHANGED <<tenant, delivery>>
    BY <2>2 DEF AttemptStep, Settles, RetryJob, StopJob, tenancyVars
  <2>. QED BY <2>1, <2>2 DEF JobsNext, ClaimNothing, RevokePeriod, PeriodTurns, jobsVars,
                             tenancyVars, ledgerVars
<1>. QED BY <1>1, <1>2, <1>3

LEMMA IntentStep == IntentInv /\ [JobsNext]_jobsVars => IntentInv'
<1>. SUFFICES ASSUME IntentInv, [JobsNext]_jobsVars, NEW k \in Jobs, delivery'[k] # "none"
              PROVE  /\ k \in inbox' /\ job'[k].state \in Results
                     /\ delivery'[k] = "pending" => ~Closing(k)'
  BY LedgerStep DEF IntentInv, IntentFollowsSettlement, Closing
<1>0. /\ LedgerInv /\ JobsTypeOK
      /\ delivery[k] # "none" => /\ k \in inbox /\ job[k].state \in Results
                                 /\ delivery[k] = "pending" => ~Closing(k)
  BY DEF IntentInv, LedgerInv, IntentFollowsSettlement, Closing
<1>1. ASSUME NEW j \in Jobs, NEW fence \in Fences, NEW r \in Results,
             FinishJobAndSettle(j, fence, r)
      PROVE  /\ k \in inbox' /\ job'[k].state \in Results
             /\ delivery'[k] = "pending" => ~Closing(k)'
  <2>1. inbox' = inbox \cup {j} /\ (Closing(k)' <=> Closing(k))
    BY <1>0, <1>1, SettleFields DEF Closing, StatusOf
  <2>2. CASE k = j
    <3>1. job'[k].state \in Results
      BY <1>0, <1>1, <2>2, SettleFields
    <3>2. ~Closing(k)
      BY <1>1, <2>2 DEF FinishJobAndSettle, Settleable, Closing
    <3>. QED BY <2>1, <2>2, <3>1, <3>2
  <2>3. CASE k # j
    <3>1. delivery'[k] = delivery[k]
      BY <1>1, <2>3 DEF FinishJobAndSettle
    <3>2. job'[k] = job[k]
      BY <1>0, <1>1, <2>3, SettleFields
    <3>. QED BY <1>0, <2>1, <3>1, <3>2
  <2>. QED BY <2>2, <2>3
<1>2. ASSUME NEW t \in Tenants, CompleteDeletion(t)
      PROVE  /\ k \in inbox' /\ job'[k].state \in Results
             /\ delivery'[k] = "pending" => ~Closing(k)'
  <2>1. TenantOf[k] # t /\ delivery'[k] = delivery[k]
    BY <1>2 DEF CompleteDeletion
  <2>2. job'[k] = job[k] /\ inbox' = inbox \ JobsOf(t) /\ (Closing(k)' <=> Closing(k))
    BY <1>0, <1>2, <2>1, EraseFields DEF Closing
  <2>. QED BY <1>0, <2>1, <2>2 DEF JobsOf
<1>3. CASE ~Settles /\ ~Erases
  <2>1. MakesNoIntent(k)
    BY <1>0, <1>3, StepMakesNoIntent
  <2>2. k \in inbox /\ job[k].state \in Results
    BY <1>0, <2>1 DEF MakesNoIntent
  <2>3. k \in inbox' /\ job'[k].state \in Results
    <3>1. ASSUME NEW j \in Jobs, PrepareReservedJob(j)
          PROVE  k \in inbox' /\ job'[k].state \in Results
      BY <1>0, <2>2, <3>1, AcceptFields DEF Results
    <3>2. CASE ~Accepts
      BY <1>0, <1>3, <2>2, <3>2, StepOrdinary DEF Ordinary, Unmoved, Cancelled, Moved, Stopped,
                                                  Pending, InPlay, Results
    <3>. QED BY <3>1, <3>2 DEF Accepts
  <2>. QED BY <1>0, <2>1, <2>3 DEF MakesNoIntent
<1>. QED BY <1>1, <1>2, <1>3 DEF Settles, Erases

\* A delivery intent exists only for a settled result, and none is pending once
\* the deletion of its tenant began, whichever of the two came first.
THEOREM IntentsFollow == JobsSpec => []IntentFollowsSettlement
<1>1. JobsInit => IntentInv
  BY LedgerInit DEF JobsInit, IntentInv, IntentFollowsSettlement
<1>2. IntentInv => IntentFollowsSettlement
  BY DEF IntentInv
<1>. QED BY <1>1, <1>2, IntentStep, PTL DEF JobsSpec

-----------------------------------------------------------------------------
(* Taking turns.                                                             *)

LEMMA TurnIsFair ==
  ASSUME NEW t \in Tenants, cursor = t, NEW j \in JobsOf(t), ClaimJob(j),
         NEW k \in Jobs, Claimable(k)
  PROVE  TenantOf[k] = t
<1>. DEFINE candidates == {TenantOf[i] : i \in {h \in Jobs : Claimable(h)}}
            later == {u \in candidates : AfterCursor(u)}
<1>1. t \in Nat /\ TenantOf[k] \in Nat /\ TenantOf[k] \in candidates /\ TenantOf[j] = t
  BY ConstantsAssumption DEF ConstantsAssumption, JobsOf
<1>2. SelectedTenant(t)
  BY <1>1 DEF ClaimJob
<1>3. t \notin later
  BY <1>1 DEF AfterCursor
<1>4. later = {} /\ t <= TenantOf[k]
  BY <1>1, <1>2, <1>3 DEF SelectedTenant
<1>5. ~AfterCursor(TenantOf[k])
  BY <1>1, <1>4
<1>. QED BY <1>1, <1>4, <1>5 DEF AfterCursor

\* However many tenants share the workers, claimJob does not serve the tenant
\* it served last while another one has a job that could run.
THEOREM Turns == JobsSpec => TurnsRotate
<1>1. [JobsNext]_jobsVars
        => [\A t \in Tenants :
              cursor = t /\ (\E j \in JobsOf(t) : job'[j].fence = job[j].fence + 1
                                                 /\ ClaimJob(j))
                => \A k \in Jobs : Claimable(k) => TenantOf[k] = t]_jobsVars
  BY TurnIsFair
<1>. QED BY <1>1, PTL DEF JobsSpec, TurnsRotate

=============================================================================
