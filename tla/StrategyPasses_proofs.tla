------------------------ MODULE StrategyPasses_proofs ------------------------
(* Theorems about StrategyPasses, for any workers, persons, runs, days and    *)
(* takeovers, with their proofs.                                              *)
EXTENDS StrategyPasses, FiniteSetTheorems, TLAPS

-----------------------------------------------------------------------------
(* The inductive invariant.                                                  *)

Started == {r \in RunIds : runs[r].status # "none"}
Observable == Formal \cap Published

Numbered == Started = 1 .. Cardinality(Started)

\* Who is named on the run lease is in the run or the sweep it took it for.
LeasePCs == {"save", "judge", "authorize", "commit", "unlock", "sweep", "swept"}
LeaseNames ==
  \A a \in Actors : runLease.owner = a => pass[a].pc \in LeasePCs /\ runLease.fence = pass[a].fence

\* The run of a process is its own, and while the process holds the lease it is
\* numbered after all that are published, of which none was missed.
OwnRun(a) ==
  LET r == pass[a].run
  IN  /\ r \in Started /\ runs[r].day = pass[a].day /\ (runs[r].scheduled <=> a \in Passers)
      /\ HoldsRunLease(a) => \A q \in Published : q < r

OwnRuns ==
  \A a \in Actors :
    /\ pass[a].pc \in {"judge", "authorize", "commit"} => OwnRun(a)
    /\ pass[a].pc \in {"authorize", "commit"} /\ HoldsRunLease(a) =>
         pass[a].seen = Cardinality(Published)

NoneAhead ==
  /\ \A a \in Actors : pass[a].day <= today
  /\ \A r \in Started : runs[r].day <= today

\* Scheduled runs are published day by day, each after the last was observed.
InOrder ==
  \A r, q \in Observable : r < q => runs[r].day < runs[q].day /\ runs[r].observed

\* A pass that may still come to publish a run ...
Heading(w) ==
  /\ MayCall(w)
  /\ \/ pass[w].pc \in {"prepare", "run", "save", "judge", "authorize"}
     \/ pass[w].pc = "recover" /\ ~pass[w].skip

Committing(w) == pass[w].pc = "commit" /\ HoldsRunLease(w)

\* ... is today's, and what was published before it is of earlier days and
\* observed, or about to be.
Clear(w) ==
  /\ pass[w].day = today
  /\ \A q \in Observable :
       /\ runs[q].day < today
       /\ runs[q].observed \/ (pass[w].pc = "recover" /\ q = pass[w].run)

OneAhead ==
  \A w \in Passers :
    /\ Heading(w) \/ Committing(w) => Clear(w)
    /\ Committing(w) => \A v \in Passers : ~Heading(v)

StrategyInv ==
  /\ StrategyTypeOK /\ Numbered /\ LeaseNames /\ OwnRuns /\ NoneAhead /\ InOrder /\ OneAhead

-----------------------------------------------------------------------------
(* Types.                                                                    *)

PassRecord ==
  [pc: PassPCs, day: Days, skip: BOOLEAN, run: 0 .. MaxRuns, fence: 0 .. MaxTakeovers,
   seen: 0 .. MaxRuns]
RunRecord ==
  [status: {"none", "running", "published", "unpublished"}, scheduled: BOOLEAN, day: Days,
   observed: BOOLEAN]

\* Every number is of a run or of none.
LEMMA Counted ==
  ASSUME NEW S, S \subseteq RunIds
  PROVE  IsFiniteSet(S) /\ Cardinality(S) \in 0 .. MaxRuns
<1>1. MaxRuns \in Nat /\ IsFiniteSet(RunIds) /\ Cardinality(RunIds) = MaxRuns
  BY StrategyAssumption, FS_Interval DEF RunIds
<1>2. IsFiniteSet(S) /\ Cardinality(S) <= MaxRuns
  BY <1>1, FS_Subset
<1>. QED BY <1>1, <1>2, FS_CardinalityType

\* The greatest of a set of runs.
LEMMA LastIsGreatest ==
  ASSUME NEW S, S \subseteq RunIds
  PROVE  /\ LastOf(S) \in 0 .. MaxRuns
         /\ S # {} => LastOf(S) \in S /\ \A r \in S : r <= LastOf(S)
         /\ LastOf(S) = 0 => S = {}
<1>1. MaxRuns \in Nat
  BY StrategyAssumption
<1>2. CASE S = {}
  BY <1>1, <1>2 DEF LastOf
<1>3. CASE S # {}
  <2>. DEFINE Gaps == {MaxRuns - r : r \in S}
  <2>1. \A r \in S : r \in Nat /\ r <= MaxRuns /\ MaxRuns - r \in Nat
    BY <1>1 DEF RunIds
  <2>2. Gaps \subseteq Nat /\ Gaps # {}
    BY <1>3, <2>1
  <2>3. PICK g \in Gaps : \A h \in Gaps : <<h, g>> \notin OpToRel(<, Nat)
    <3>. HIDE DEF Gaps
    <3>. QED BY <2>2, NatLessThanWellFounded, WFMin
  <2>4. \A h \in Gaps : ~(h < g)
    <3>. SUFFICES ASSUME NEW h \in Gaps, h < g
                  PROVE  FALSE
      OBVIOUS
    <3>1. <<h, g>> \in OpToRel(<, Nat)
      BY <2>2 DEF OpToRel
    <3>. QED BY <2>3, <3>1
  <2>5. PICK x \in S : g = MaxRuns - x
    OBVIOUS
  <2>6. \A y \in S : x >= y
    <3>. SUFFICES ASSUME NEW y \in S
                  PROVE  x >= y
      OBVIOUS
    <3>1. ~(MaxRuns - y < g)
      BY <2>4
    <3>. QED BY <1>1, <2>1, <2>5, <3>1
  <2>7. Max(S) \in S /\ \A y \in S : Max(S) >= y
    BY <2>5, <2>6 DEF Max
  <2>8. LastOf(S) = Max(S)
    BY <1>3 DEF LastOf
  <2>9. LastOf(S) \in 1 .. MaxRuns
    BY <2>7, <2>8 DEF RunIds
  <2>10. \A y \in S : y <= LastOf(S)
    BY <2>1, <2>7, <2>8, <2>9
  <2>. QED BY <1>1, <2>7, <2>8, <2>9, <2>10
<1>. QED BY <1>2, <1>3

LEMMA RestingTyped == Resting \in PassRecord /\ 1 \in Days
BY StrategyAssumption DEF Resting, PassRecord, PassPCs, Days

\* One process moves, and its record is as good as it was.
Moves(a) == \E r \in PassRecord : pass' = [pass EXCEPT ![a] = r]

LEMMA MovesTyped ==
  ASSUME StrategyTypeOK, NEW a \in Actors
  PROVE  /\ Moves(a) => pass' \in [Actors -> PassRecord]
         /\ \A pc \in PassPCs : GoTo(a, pc) => Moves(a)
         /\ pass' = [pass EXCEPT ![a] = AfterRun(a)] => Moves(a)
<1>. USE DEF Moves
<1>0. pass \in [Actors -> PassRecord] /\ pass[a] \in PassRecord
  BY DEF StrategyTypeOK, PassRecord
<1>1. Moves(a) => pass' \in [Actors -> PassRecord]
  BY <1>0
<1>2. ASSUME NEW pc \in PassPCs, GoTo(a, pc)
      PROVE  Moves(a)
  <2>1. [pass[a] EXCEPT !.pc = pc] \in PassRecord
    BY <1>0 DEF PassRecord
  <2>. QED BY <1>0, <1>2, <2>1 DEF GoTo
<1>3. AfterRun(a) \in PassRecord
  <2>1. 0 \in 0 .. MaxRuns /\ "finish" \in PassPCs
    BY StrategyAssumption DEF PassPCs
  <2>2. [pass[a] EXCEPT !.pc = "finish", !.run = 0] \in PassRecord
    BY <1>0, <2>1 DEF PassRecord
  <2>. QED BY <2>2, RestingTyped DEF AfterRun
<1>. QED BY <1>1, <1>2, <1>3

LeaseTyped ==
  /\ execution' \in [owner: Passers \cup {NoOne}, live: BOOLEAN]
  /\ schedule' \in [due: BOOLEAN, owner: Passers \cup {NoOne}, live: BOOLEAN]
  /\ runLease' \in [owner: Actors \cup {NoOne}, fence: 0 .. MaxTakeovers, live: BOOLEAN]

LEMMA RunLeaseTyped ==
  ASSUME StrategyTypeOK, NEW a \in Actors
  PROVE  /\ TakeRunLease(a) => runLease' \in [owner: Actors \cup {NoOne}, fence: 0 .. MaxTakeovers, live: BOOLEAN]
         /\ ReleaseRunLease(a) => runLease' \in [owner: Actors \cup {NoOne}, fence: 0 .. MaxTakeovers, live: BOOLEAN]
<1>1. TakeRunLease(a) => runLease' \in [owner: Actors \cup {NoOne}, fence: 0 .. MaxTakeovers, live: BOOLEAN]
  BY StrategyAssumption DEF StrategyTypeOK, TakeRunLease
<1>2. ReleaseRunLease(a) => runLease' \in [owner: Actors \cup {NoOne}, fence: 0 .. MaxTakeovers, live: BOOLEAN]
  BY StrategyAssumption DEF StrategyTypeOK, ReleaseRunLease, NoLeaseRow
<1>. QED BY <1>1, <1>2

ActorTyped(a) ==
  /\ Moves(a) /\ LeaseTyped /\ runs' \in [RunIds -> RunRecord] /\ UNCHANGED <<today, active>>

LEMMA PassTyped ==
  ASSUME StrategyTypeOK, NEW w \in Passers, PassStep(w) \/ Refused(w)
  PROVE  ActorTyped(w)
<1>0. /\ pass \in [Actors -> PassRecord] /\ pass[w] \in PassRecord /\ w \in Actors
      /\ runs \in [RunIds -> RunRecord] /\ today \in Days
      /\ UNCHANGED <<execution, schedule, runLease>> => LeaseTyped
  BY DEF StrategyTypeOK, PassRecord, RunRecord, LeaseTyped, Actors
<1>1. \A pc \in PassPCs : GoTo(w, pc) => Moves(w)
  BY <1>0, MovesTyped
<1>2. UNCHANGED <<execution, schedule>> /\ (TakeRunLease(w) \/ ReleaseRunLease(w)) => LeaseTyped
  BY <1>0, RunLeaseTyped DEF StrategyTypeOK, LeaseTyped
<1>. USE DEF ActorTyped, PassAt
<1>3. CASE AcquireExecution(w)
  BY <1>0, <1>1, <1>3 DEF AcquireExecution, LeaseTyped, StrategyTypeOK, PassPCs
<1>4. CASE SweepStale(w)
  <2>1. PICK r \in RunIds : /\ TakeRunLease(w)
          /\ pass' = [pass EXCEPT ![w].pc = "sweep", ![w].run = r, ![w].fence = runLease'.fence]
    BY <1>4 DEF SweepStale
  <2>2. runLease'.fence \in 0 .. MaxTakeovers /\ r \in 0 .. MaxRuns
    BY <1>0, <2>1, RunLeaseTyped DEF RunIds
  <2>3. [pass[w] EXCEPT !.pc = "sweep", !.run = r, !.fence = runLease'.fence] \in PassRecord
    BY <1>0, <2>2 DEF PassRecord, PassPCs
  <2>4. pass' = [pass EXCEPT ![w] = [pass[w] EXCEPT !.pc = "sweep", !.run = r, !.fence = runLease'.fence]]
    BY <1>0, <2>1
  <2>. QED BY <1>0, <1>2, <1>4, <2>1, <2>3, <2>4 DEF SweepStale, Moves
<1>5. CASE FailStale(w)
  BY <1>0, <1>1, <1>5 DEF FailStale, CommitWithFence, RunRecord, PassPCs
<1>6. CASE ReleaseStale(w)
  <2>1. 0 \in 0 .. MaxRuns /\ 0 \in 0 .. MaxTakeovers
    BY StrategyAssumption
  <2>2. [pass[w] EXCEPT !.pc = "reconcile", !.run = 0, !.fence = 0] \in PassRecord
    BY <1>0, <2>1 DEF PassRecord, PassPCs
  <2>3. pass' = [pass EXCEPT ![w] = [pass[w] EXCEPT !.pc = "reconcile", !.run = 0, !.fence = 0]]
    BY <1>0, <1>6 DEF ReleaseStale
  <2>. QED BY <1>0, <1>2, <1>6, <2>2, <2>3 DEF ReleaseStale, Moves
<1>7. CASE ClaimSchedule(w)
  <2>1. CASE GoTo(w, "release") /\ UNCHANGED schedule
    BY <1>0, <1>1, <1>7, <2>1 DEF ClaimSchedule, PassPCs
  <2>2. CASE /\ schedule' = [due |-> TRUE, owner |-> w, live |-> TRUE]
             /\ pass' = [pass EXCEPT ![w].pc = "check", ![w].skip = ~active]
    <3>1. (~active) \in BOOLEAN
      OBVIOUS
    <3>2. [pass[w] EXCEPT !.pc = "check", !.skip = ~active] \in PassRecord
      BY <1>0, <3>1 DEF PassRecord, PassPCs
    <3>3. pass' = [pass EXCEPT ![w] = [pass[w] EXCEPT !.pc = "check", !.skip = ~active]]
      BY <1>0, <2>2
    <3>. QED BY <1>0, <1>7, <2>2, <3>2, <3>3 DEF ClaimSchedule, LeaseTyped, StrategyTypeOK, Moves
  <2>. QED BY <1>7, <2>1, <2>2 DEF ClaimSchedule
<1>8. CASE CheckDay(w)
  <2>. DEFINE last == LastOf(Formal \cap Published)
              skip == pass[w].skip \/ \E r \in Formal : runs[r].day = today
              next == IF last # 0 THEN "recover" ELSE IF skip THEN "finish" ELSE "prepare"
              s == skip /\ last # 0
  <2>1. last \in 0 .. MaxRuns
    BY LastIsGreatest DEF Formal
  <2>2. next \in PassPCs /\ s \in BOOLEAN
    BY DEF PassPCs
  <2>3. pass' = [pass EXCEPT ![w].pc = next, ![w].day = today, ![w].run = last, ![w].skip = s]
    BY <1>8 DEF CheckDay, PriorRuns
  <2>. HIDE DEF last, next, s
  <2>4. [pass[w] EXCEPT !.pc = next, !.day = today, !.run = last, !.skip = s] \in PassRecord
    BY <1>0, <2>1, <2>2 DEF PassRecord
  <2>5. pass' = [pass EXCEPT ![w] = [pass[w] EXCEPT !.pc = next, !.day = today, !.run = last, !.skip = s]]
    BY <1>0, <2>3
  <2>. QED BY <1>0, <1>8, <2>4, <2>5 DEF CheckDay, Moves
<1>9. CASE RecoverObservations(w)
  <2>1. \E pc \in {"finish", "prepare"} :
          pass' = [pass EXCEPT ![w] = [pass[w] EXCEPT !.pc = pc, !.run = 0, !.skip = FALSE]]
    BY <1>0, <1>9 DEF RecoverObservations
  <2>2. 0 \in 0 .. MaxRuns /\ {"finish", "prepare"} \subseteq PassPCs
    BY StrategyAssumption DEF PassPCs
  <2>3. \A pc \in PassPCs : [pass[w] EXCEPT !.pc = pc, !.run = 0, !.skip = FALSE] \in PassRecord
    BY <1>0, <2>2 DEF PassRecord
  <2>4. runs' \in [RunIds -> RunRecord]
    BY <1>0, <1>9 DEF RecoverObservations, CreateObservations, RunRecord
  <2>. QED BY <1>0, <1>9, <2>1, <2>2, <2>3, <2>4 DEF RecoverObservations, Moves
<1>10. CASE CallRunStrategy(w)
  BY <1>0, <1>1, <1>10 DEF CallRunStrategy, PassPCs
<1>11. CASE Observe(w) \/ AbandonDay(w)
  <2>1. pass' = [pass EXCEPT ![w] = [pass[w] EXCEPT !.pc = "finish", !.run = 0]]
    BY <1>0, <1>11 DEF Observe, AbandonDay
  <2>2. 0 \in 0 .. MaxRuns
    BY StrategyAssumption
  <2>3. [pass[w] EXCEPT !.pc = "finish", !.run = 0] \in PassRecord
    BY <1>0, <2>2 DEF PassRecord, PassPCs
  <2>4. CASE Observe(w)
    <3>1. runs' \in [RunIds -> RunRecord]
      BY <1>0, <2>4 DEF Observe, CreateObservations, RunRecord
    <3>. QED BY <1>0, <2>1, <2>3, <2>4, <3>1 DEF Observe, Moves
  <2>5. CASE AbandonDay(w)
    BY <1>0, <2>1, <2>3, <2>5 DEF AbandonDay, Moves
  <2>. QED BY <1>11, <2>4, <2>5
<1>12. CASE FinishClaim(w)
  BY <1>0, <1>1, <1>12 DEF FinishClaim, LeaseTyped, StrategyTypeOK, NotDue, PassPCs
<1>13. CASE Refused(w)
  <2>1. [Resting EXCEPT !.pc = "release"] \in PassRecord
    BY RestingTyped DEF PassRecord, PassPCs
  <2>. QED BY <1>0, <1>13, <2>1 DEF Refused, Moves
<1>14. CASE ReleaseExecution(w)
  BY <1>0, <1>14, RestingTyped DEF ReleaseExecution, Moves, LeaseTyped, StrategyTypeOK, NotHeld
<1>. QED
  BY <1>3, <1>4, <1>5, <1>6, <1>7, <1>8, <1>9, <1>10, <1>11, <1>12, <1>13, <1>14 DEF PassStep

LEMMA RunTyped ==
  ASSUME StrategyTypeOK, NEW a \in Actors, RunStep(a) \/ GiveUpRunning(a) \/ (a \in Persons /\ RunByHand(a))
  PROVE  ActorTyped(a)
<1>0. /\ pass \in [Actors -> PassRecord] /\ pass[a] \in PassRecord
      /\ runs \in [RunIds -> RunRecord] /\ today \in Days
      /\ UNCHANGED <<execution, schedule, runLease>> => LeaseTyped
  BY DEF StrategyTypeOK, PassRecord, RunRecord, LeaseTyped
<1>1. \A pc \in PassPCs : GoTo(a, pc) => Moves(a)
  BY MovesTyped
<1>2. UNCHANGED <<execution, schedule>> /\ (TakeRunLease(a) \/ ReleaseRunLease(a)) => LeaseTyped
  BY <1>0, RunLeaseTyped DEF StrategyTypeOK, LeaseTyped
<1>3. 0 \in 0 .. MaxRuns /\ 0 \in 0 .. MaxTakeovers
  BY StrategyAssumption
<1>. USE DEF ActorTyped, PassAt
<1>4. CASE AcquireRunLease(a)
  <2>1. CASE pass' = [pass EXCEPT ![a] = AfterRun(a)] /\ UNCHANGED runLease
    BY <1>0, <1>4, <2>1, MovesTyped DEF AcquireRunLease
  <2>2. CASE /\ TakeRunLease(a)
             /\ pass' = [pass EXCEPT ![a].pc = "save", ![a].fence = runLease'.fence, ![a].run = 0]
    <3>1. runLease'.fence \in 0 .. MaxTakeovers
      BY <2>2, RunLeaseTyped
    <3>2. [pass[a] EXCEPT !.pc = "save", !.fence = runLease'.fence, !.run = 0] \in PassRecord
      BY <1>0, <1>3, <3>1 DEF PassRecord, PassPCs
    <3>3. pass' = [pass EXCEPT ![a] = [pass[a] EXCEPT !.pc = "save", !.fence = runLease'.fence, !.run = 0]]
      BY <1>0, <2>2
    <3>. QED BY <1>0, <1>2, <1>4, <2>2, <3>2, <3>3 DEF AcquireRunLease, Moves
  <2>. QED BY <1>4, <2>1, <2>2 DEF AcquireRunLease
<1>5. CASE SaveStartedRun(a)
  <2>1. PICK r \in RunIds :
          /\ runs' = [runs EXCEPT ![r] = [status |-> "running", scheduled |-> a \in Passers,
                                          day |-> pass[a].day, observed |-> FALSE]]
          /\ pass' = [pass EXCEPT ![a].pc = "judge", ![a].run = r]
    BY <1>5 DEF SaveStartedRun
  <2>2. (a \in Passers) \in BOOLEAN /\ pass[a].day \in Days /\ r \in 0 .. MaxRuns
    BY <1>0 DEF PassRecord, RunIds
  <2>3. [status |-> "running", scheduled |-> a \in Passers, day |-> pass[a].day, observed |-> FALSE]
          \in RunRecord
    BY <2>2 DEF RunRecord
  <2>4. [pass[a] EXCEPT !.pc = "judge", !.run = r] \in PassRecord
    BY <1>0, <2>2 DEF PassRecord, PassPCs
  <2>5. pass' = [pass EXCEPT ![a] = [pass[a] EXCEPT !.pc = "judge", !.run = r]]
    BY <1>0, <2>1
  <2>6. runs' \in [RunIds -> RunRecord]
    BY <1>0, <2>1, <2>3
  <2>. QED BY <1>0, <1>5, <2>4, <2>5, <2>6 DEF SaveStartedRun, Moves
<1>6. CASE Judge(a)
  <2>1. Cardinality(Published) \in 0 .. MaxRuns
    BY Counted DEF Published
  <2>2. [pass[a] EXCEPT !.pc = "authorize", !.seen = Cardinality(Published)] \in PassRecord
    BY <1>0, <2>1 DEF PassRecord, PassPCs
  <2>3. pass' = [pass EXCEPT ![a] = [pass[a] EXCEPT !.pc = "authorize", !.seen = Cardinality(Published)]]
    BY <1>0, <1>6 DEF Judge
  <2>. QED BY <1>0, <1>6, <2>2, <2>3 DEF Judge, Moves
<1>7. CASE AuthorizeCommit(a)
  BY <1>0, <1>1, <1>7 DEF AuthorizeCommit, PassPCs
<1>8. CASE CommitRun(a)
  <2>1. PICK status \in {"published", "unpublished"} : CommitWithFence(a, status)
    BY <1>8 DEF CommitRun
  <2>2. runs' \in [RunIds -> RunRecord]
    BY <1>0, <2>1 DEF CommitWithFence, RunRecord
  <2>. QED BY <1>0, <1>1, <1>8, <2>2 DEF CommitRun, PassPCs
<1>9. CASE GiveUpRunning(a)
  BY <1>0, <1>1, <1>9 DEF GiveUpRunning, PassPCs
<1>10. CASE Unlock(a)
  <2>1. [pass[a] EXCEPT !.pc = "observe", !.fence = 0, !.seen = 0] \in PassRecord
    BY <1>0, <1>3 DEF PassRecord, PassPCs
  <2>2. [AfterRun(a) EXCEPT !.fence = 0, !.seen = 0] \in PassRecord
    <3>1. AfterRun(a) \in PassRecord
      <4>1. [pass[a] EXCEPT !.pc = "finish", !.run = 0] \in PassRecord
        BY <1>0, <1>3 DEF PassRecord, PassPCs
      <4>. QED BY <4>1, RestingTyped DEF AfterRun
    <3>. HIDE DEF AfterRun
    <3>. QED BY <1>3, <3>1 DEF PassRecord
  <2>3. \/ pass' = [pass EXCEPT ![a] = [pass[a] EXCEPT !.pc = "observe", !.fence = 0, !.seen = 0]]
        \/ pass' = [pass EXCEPT ![a] = [AfterRun(a) EXCEPT !.fence = 0, !.seen = 0]]
    BY <1>0, <1>10 DEF Unlock
  <2>. QED BY <1>0, <1>2, <1>10, <2>1, <2>2, <2>3 DEF Unlock, Moves
<1>11. CASE a \in Persons /\ RunByHand(a)
  <2>1. [pass[a] EXCEPT !.pc = "run", !.day = today] \in PassRecord
    BY <1>0 DEF PassRecord, PassPCs
  <2>2. pass' = [pass EXCEPT ![a] = [pass[a] EXCEPT !.pc = "run", !.day = today]]
    BY <1>0, <1>11 DEF RunByHand
  <2>. QED BY <1>0, <1>11, <2>1, <2>2 DEF RunByHand, Moves
<1>. QED BY <1>4, <1>5, <1>6, <1>7, <1>8, <1>9, <1>10, <1>11 DEF RunStep

LEMMA TypedStep ==
  ASSUME StrategyTypeOK, [StrategyNext]_strategyVars
  PROVE  StrategyTypeOK'
<1>1. CASE UNCHANGED strategyVars
  BY <1>1 DEF strategyVars, StrategyTypeOK
<1>2. ASSUME NEW a \in Actors, ActorTyped(a)
      PROVE  StrategyTypeOK'
  <2>1. pass' \in [Actors -> PassRecord]
    BY <1>2, MovesTyped DEF ActorTyped
  <2>. QED BY <1>2, <2>1 DEF ActorTyped, LeaseTyped, StrategyTypeOK, PassRecord, RunRecord
<1>3. CASE \E w \in Passers : PassStep(w) \/ Refused(w)
  BY <1>2, <1>3, PassTyped DEF Actors
<1>4. CASE \/ \E u \in Persons : RunByHand(u)
           \/ \E a \in Actors : RunStep(a) \/ GiveUpRunning(a)
  BY <1>2, <1>4, RunTyped DEF Actors
<1>5. ASSUME NEW a \in Actors, Crash(a)
      PROVE  StrategyTypeOK'
  <2>1. pass' \in [Actors -> PassRecord]
    BY <1>5, RestingTyped DEF Crash, StrategyTypeOK, PassRecord
  <2>2. LeaseTyped
    BY <1>5 DEF Crash, StrategyTypeOK, LeaseTyped
  <2>. QED BY <1>5, <2>1, <2>2 DEF Crash, LeaseTyped, StrategyTypeOK, PassRecord
<1>6. CASE \/ LapseExecution \/ LapseSchedule \/ LapseRunLease \/ Reschedule \/ Occurs
  <2>0. /\ execution \in [owner: Passers \cup {NoOne}, live: BOOLEAN]
        /\ schedule \in [due: BOOLEAN, owner: Passers \cup {NoOne}, live: BOOLEAN]
        /\ runLease \in [owner: Actors \cup {NoOne}, fence: 0 .. MaxTakeovers, live: BOOLEAN]
    BY DEF StrategyTypeOK
  <2>1. CASE LapseExecution
    BY <2>0, <2>1 DEF LapseExecution, StrategyTypeOK, NotHeld
  <2>2. CASE LapseSchedule
    <3>1. schedule.due \in BOOLEAN
      BY <2>0
    <3>2. schedule' \in [due: BOOLEAN, owner: Passers \cup {NoOne}, live: BOOLEAN]
      BY <2>2, <3>1 DEF LapseSchedule, NotDue
    <3>. QED BY <2>2, <3>2 DEF LapseSchedule, StrategyTypeOK
  <2>3. CASE LapseRunLease
    BY <2>0, <2>3 DEF LapseRunLease, StrategyTypeOK
  <2>4. CASE Reschedule
    BY <2>4 DEF Reschedule, StrategyTypeOK, NotDue
  <2>5. CASE Occurs
    BY <2>0, <2>5 DEF Occurs, StrategyTypeOK
  <2>. QED BY <1>6, <2>1, <2>2, <2>3, <2>4, <2>5
<1>7. CASE Toggle
  <2>1. active' \in BOOLEAN
    BY <1>7 DEF Toggle
  <2>. QED BY <1>7, <2>1 DEF Toggle, StrategyTypeOK
<1>8. CASE NextDay
  <2>1. today' \in Days
    BY <1>8, StrategyAssumption DEF NextDay, StrategyTypeOK, Days
  <2>. QED BY <1>8, <2>1 DEF NextDay, StrategyTypeOK
<1>. QED
  BY <1>1, <1>3, <1>4, <1>5, <1>6, <1>7, <1>8 DEF StrategyNext, StrategySteps, StrategyFaults

-----------------------------------------------------------------------------
(* What a step may do, put in the terms of the invariant.                    *)

RunsKept ==
  \A r \in RunIds :
    /\ runs'[r].status = "none" <=> runs[r].status = "none"
    /\ runs'[r].status = "published" <=> runs[r].status = "published"
    /\ runs'[r].day = runs[r].day /\ runs'[r].scheduled = runs[r].scheduled
    /\ runs[r].observed => runs'[r].observed

RunLeaseStep(a) ==
  \/ /\ runLease' = runLease
     /\ \/ pass[a].pc \notin LeasePCs
        \/ pass'[a].pc \in LeasePCs /\ pass'[a].fence = pass[a].fence
  \/ TakeRunLease(a) /\ pass'[a].pc \in {"save", "sweep"} /\ pass'[a].fence = runLease'.fence
  \/ ReleaseRunLease(a)
  \/ runLease' = IF runLease.owner = a THEN [runLease EXCEPT !.owner = NoOne] ELSE runLease

ExecutionStep(a) ==
  \/ execution' = execution \/ execution' = NotHeld
  \/ execution'.owner = a /\ pass'[a].pc = "reconcile"
  \/ execution' = IF execution.owner = a THEN [execution EXCEPT !.owner = NoOne] ELSE execution

Working == {"recover", "prepare", "run", "save", "judge", "authorize", "commit"}

Onward(a, pc, next) ==
  PassAt(a, pc) /\ pass'[a].pc = next /\ pass'[a].day = pass[a].day

Authorized(a) ==
  /\ Onward(a, "authorize", "commit") /\ (a \in Passers => MayCall(a))
  /\ pass'[a].run = pass[a].run /\ pass'[a].fence = pass[a].fence /\ pass'[a].seen = pass[a].seen

Progress(a) ==
  \/ pass'[a].pc \notin Working /\ pass'[a].day \in {1, pass[a].day}
  \/ a \in Passers /\ (CheckDay(a) \/ RecoverObservations(a))
  \/ Onward(a, "prepare", "run") \/ Onward(a, "run", "save") \/ Authorized(a) \/ Judge(a)
  \/ a \in Persons /\ RunByHand(a)

\* A step of one process that neither starts nor commits a run.
Turn(a) ==
  /\ \A b \in Actors \ {a} : pass'[b] = pass[b]
  /\ RunLeaseStep(a) /\ ExecutionStep(a) /\ today' = today /\ RunsKept /\ Progress(a)

LEMMA PassTurns ==
  ASSUME StrategyTypeOK, NEW w \in Passers, PassStep(w) \/ Refused(w)
  PROVE  Turn(w)
<1>0. /\ pass \in [Actors -> PassRecord] /\ pass[w] \in PassRecord /\ w \in Actors
      /\ runs \in [RunIds -> RunRecord]
      /\ runs' = runs => RunsKept
  BY DEF StrategyTypeOK, PassRecord, RunRecord, Actors, RunsKept
<1>1. ASSUME runs' = [runs EXCEPT ![pass[w].run].observed = TRUE]
      PROVE  RunsKept
  BY <1>0, <1>1 DEF RunRecord, RunsKept
<1>. USE DEF Turn, PassAt, GoTo, RunLeaseStep, ExecutionStep, Progress, Working, LeasePCs
<1>3. CASE AcquireExecution(w)
  BY <1>0, <1>3 DEF AcquireExecution, PassRecord
<1>4. CASE SweepStale(w)
  BY <1>0, <1>4 DEF SweepStale, PassRecord
<1>5. CASE FailStale(w)
  <2>1. RunsKept
    BY <1>0, <1>5 DEF FailStale, CommitWithFence, RunRecord, RunsKept
  <2>. QED BY <1>0, <1>5, <2>1 DEF FailStale, PassRecord
<1>6. CASE ReleaseStale(w)
  BY <1>0, <1>6 DEF ReleaseStale, PassRecord
<1>7. CASE ClaimSchedule(w)
  BY <1>0, <1>7 DEF ClaimSchedule, PassRecord
<1>8. CASE CheckDay(w)
  BY <1>0, <1>8 DEF CheckDay, PriorRuns
<1>9. CASE RecoverObservations(w)
  BY <1>0, <1>1, <1>9 DEF RecoverObservations, CreateObservations
<1>10. CASE CallRunStrategy(w)
  BY <1>0, <1>10 DEF CallRunStrategy, PassRecord, Onward
<1>11. CASE Observe(w)
  BY <1>0, <1>1, <1>11 DEF Observe, CreateObservations, PassRecord
<1>12. CASE AbandonDay(w)
  BY <1>0, <1>12 DEF AbandonDay, PassRecord
<1>13. CASE FinishClaim(w)
  BY <1>0, <1>13 DEF FinishClaim, PassRecord
<1>14. CASE Refused(w)
  <2>1. pass'[w] = [Resting EXCEPT !.pc = "release"] /\ \A b \in Actors \ {w} : pass'[b] = pass[b]
    BY <1>0, <1>14 DEF Refused
  <2>2. pass'[w].pc = "release" /\ pass'[w].day = 1
    BY <2>1 DEF Resting
  <2>. QED BY <1>0, <1>14, <2>1, <2>2 DEF Refused
<1>15. CASE ReleaseExecution(w)
  BY <1>0, <1>15 DEF ReleaseExecution, Resting
<1>. QED
  BY <1>3, <1>4, <1>5, <1>6, <1>7, <1>8, <1>9, <1>10, <1>11, <1>12, <1>13, <1>14, <1>15
  DEF PassStep

LEMMA RunTurns ==
  ASSUME StrategyTypeOK, NEW a \in Actors,
         \/ RunStep(a) \/ GiveUpRunning(a) \/ Crash(a)
         \/ a \in Persons /\ RunByHand(a)
  PROVE  Turn(a) \/ SaveStartedRun(a) \/ CommitRun(a)
<1>0. /\ pass \in [Actors -> PassRecord] /\ pass[a] \in PassRecord
      /\ runs \in [RunIds -> RunRecord]
      /\ runs' = runs => RunsKept
  BY DEF StrategyTypeOK, PassRecord, RunRecord, Actors, RunsKept
<1>1. AfterRun(a).pc \notin Working \cup LeasePCs /\ AfterRun(a).day \in {1, pass[a].day}
      /\ AfterRun(a) \in PassRecord
  <2>1. [pass[a] EXCEPT !.pc = "finish", !.run = 0] \in PassRecord
    <3>. 0 \in 0 .. MaxRuns
      BY StrategyAssumption
    <3>. QED BY <1>0 DEF PassRecord, PassPCs
  <2>. QED BY <1>0, <2>1, RestingTyped DEF AfterRun, Resting, PassRecord, Working, LeasePCs
<1>. USE DEF Turn, PassAt, GoTo, RunLeaseStep, ExecutionStep, Progress, Working, LeasePCs
<1>2. CASE AcquireRunLease(a)
  <2>. HIDE DEF AfterRun
  <2>. QED BY <1>0, <1>1, <1>2 DEF AcquireRunLease, PassRecord, Onward
<1>3. CASE Judge(a)
  BY <1>0, <1>3 DEF Judge, PassRecord
<1>4. CASE AuthorizeCommit(a)
  BY <1>0, <1>4 DEF AuthorizeCommit, PassRecord, Onward, Authorized
<1>5. CASE GiveUpRunning(a)
  BY <1>0, <1>5 DEF GiveUpRunning, PassRecord
<1>6. CASE Unlock(a)
  <2>1. CASE pass' = [pass EXCEPT ![a] = [pass[a] EXCEPT !.pc = "observe", !.fence = 0, !.seen = 0]]
    <3>1. ReleaseRunLease(a) /\ UNCHANGED <<today, execution, runs>>
      BY <1>6 DEF Unlock
    <3>2. pass'[a].pc = "observe" /\ pass'[a].day = pass[a].day
      BY <1>0, <2>1 DEF PassRecord
    <3>3. \A b \in Actors \ {a} : pass'[b] = pass[b]
      BY <1>0, <2>1
    <3>. QED BY <1>0, <3>1, <3>2, <3>3
  <2>2. CASE pass' = [pass EXCEPT ![a] = [AfterRun(a) EXCEPT !.fence = 0, !.seen = 0]]
    <3>. HIDE DEF AfterRun
    <3>. QED BY <1>0, <1>1, <1>6, <2>2 DEF Unlock, PassRecord
  <2>. QED BY <1>6, <2>1, <2>2 DEF Unlock
<1>7. CASE Crash(a)
  BY <1>0, <1>7 DEF Crash, Resting
<1>8. CASE a \in Persons /\ RunByHand(a)
  BY <1>0, <1>8 DEF RunByHand
<1>. QED BY <1>2, <1>3, <1>4, <1>5, <1>6, <1>7, <1>8 DEF RunStep

\* What is around the processes leaves them as they are, and a day ends with no
\* lease held.
Around ==
  /\ UNCHANGED <<runs, pass>>
  /\ execution' \in {execution, NotHeld}
  /\ runLease' \in {runLease, [runLease EXCEPT !.live = FALSE]}
  /\ \/ today' = today
     \/ today' = today + 1 /\ ~execution.live /\ ~runLease.live

LEMMA StepIsSummed ==
  ASSUME StrategyTypeOK, [StrategyNext]_strategyVars
  PROVE  Around \/ \E a \in Actors : Turn(a) \/ SaveStartedRun(a) \/ CommitRun(a)
<1>1. CASE \/ UNCHANGED strategyVars \/ LapseExecution \/ LapseSchedule \/ LapseRunLease
           \/ Reschedule \/ Occurs \/ Toggle \/ NextDay
  BY <1>1
  DEF strategyVars, LapseExecution, LapseSchedule, LapseRunLease, Reschedule, Occurs, Toggle,
      NextDay, Around
<1>2. CASE \E w \in Passers : PassStep(w) \/ Refused(w)
  BY <1>2, PassTurns DEF Actors
<1>3. CASE \/ \E u \in Persons : RunByHand(u)
           \/ \E a \in Actors : RunStep(a) \/ GiveUpRunning(a) \/ Crash(a)
  BY <1>3, RunTurns DEF Actors
<1>. QED
  BY <1>1, <1>2, <1>3 DEF StrategyNext, StrategySteps, StrategyFaults

-----------------------------------------------------------------------------
(* A turn that neither starts nor commits a run.                             *)

LEMMA SameRuns ==
  ASSUME RunsKept
  PROVE  /\ Started' = Started /\ Published' = Published /\ Formal' = Formal
         /\ Observable' = Observable
BY DEF RunsKept, Started, Published, Formal, Observable

\* A lease is had by taking it only.
LEMMA NoNewHolder ==
  ASSUME StrategyTypeOK, LeaseNames, NEW a \in Actors, Turn(a), NEW b \in Actors
  PROVE  HoldsRunLease(b)' => HoldsRunLease(b) \/ (b = a /\ pass'[a].pc \in {"save", "sweep"})
<1>1. NoOne \notin Actors
  BY StrategyAssumption DEF Actors, NoOne
<1>2. b # a => pass'[b] = pass[b]
  BY DEF Turn
<1>3. runLease.owner = a => pass[a].pc \in LeasePCs /\ runLease.fence = pass[a].fence
  BY DEF LeaseNames
<1>. SUFFICES ASSUME HoldsRunLease(b)', b = a => pass'[a].pc \notin {"save", "sweep"}
              PROVE  HoldsRunLease(b)
  OBVIOUS
<1>4. runLease'.owner = b /\ runLease'.fence = pass'[b].fence /\ runLease'.live
  BY DEF HoldsRunLease
<1>5. RunLeaseStep(a)
  BY DEF Turn
<1>6. CASE runLease' = runLease
  BY <1>2, <1>3, <1>4, <1>5, <1>6, <1>1
  DEF HoldsRunLease, RunLeaseStep, TakeRunLease, ReleaseRunLease, NoLeaseRow, StrategyTypeOK
<1>7. CASE TakeRunLease(a) /\ pass'[a].pc \in {"save", "sweep"}
  BY <1>4, <1>7 DEF TakeRunLease
<1>8. CASE ReleaseRunLease(a) /\ runLease' # runLease
  BY <1>1, <1>4, <1>8 DEF ReleaseRunLease, NoLeaseRow
<1>9. CASE /\ runLease' = IF runLease.owner = a THEN [runLease EXCEPT !.owner = NoOne] ELSE runLease
           /\ runLease' # runLease
  BY <1>1, <1>4, <1>9 DEF StrategyTypeOK
<1>. QED BY <1>5, <1>6, <1>7, <1>8, <1>9 DEF RunLeaseStep

LEMMA NamesStayTrue ==
  ASSUME StrategyTypeOK, LeaseNames, NEW a \in Actors, Turn(a)
  PROVE  LeaseNames'
<1>1. NoOne \notin Actors
  BY StrategyAssumption DEF Actors, NoOne
<1>2. SUFFICES ASSUME NEW b \in Actors, runLease'.owner = b
               PROVE  pass'[b].pc \in LeasePCs /\ runLease'.fence = pass'[b].fence
  BY DEF LeaseNames, LeasePCs
<1>3. b # a => pass'[b] = pass[b]
  BY DEF Turn
<1>4. runLease.owner = b => pass[b].pc \in LeasePCs /\ runLease.fence = pass[b].fence
  BY DEF LeaseNames
<1>5. CASE TakeRunLease(a) /\ pass'[a].pc \in {"save", "sweep"} /\ pass'[a].fence = runLease'.fence
  BY <1>2, <1>5 DEF TakeRunLease, LeasePCs
<1>6. CASE ReleaseRunLease(a)
  BY <1>1, <1>2, <1>3, <1>4, <1>6 DEF ReleaseRunLease, NoLeaseRow
<1>7. CASE runLease' = runLease /\ (pass[a].pc \notin LeasePCs \/
             (pass'[a].pc \in LeasePCs /\ pass'[a].fence = pass[a].fence))
  BY <1>2, <1>3, <1>4, <1>7
<1>8. CASE runLease' = IF runLease.owner = a THEN [runLease EXCEPT !.owner = NoOne] ELSE runLease
  <2>1. runLease.owner # a /\ runLease' = runLease
    BY <1>1, <1>2, <1>8 DEF StrategyTypeOK
  <2>. QED BY <1>2, <1>3, <1>4, <2>1
<1>. QED BY <1>5, <1>6, <1>7, <1>8 DEF Turn, RunLeaseStep

\* A pass may call its tools because it might before.
LEMMA NoNewCaller ==
  ASSUME StrategyTypeOK, NEW a \in Actors, Turn(a), NEW w \in Passers
  PROVE  MayCall(w)' => MayCall(w) \/ (w = a /\ pass'[a].pc = "reconcile")
<1>1. NoOne \notin Actors /\ w \in Actors
  BY StrategyAssumption DEF Actors, NoOne
<1>. SUFFICES ASSUME execution'.owner = w, execution'.live
              PROVE  MayCall(w) \/ (w = a /\ pass'[a].pc = "reconcile")
  BY DEF MayCall
<1>2. CASE execution' = execution
  BY <1>2 DEF MayCall
<1>3. CASE execution' = NotHeld
  BY <1>3 DEF NotHeld
<1>4. CASE execution' = IF execution.owner = a THEN [execution EXCEPT !.owner = NoOne] ELSE execution
  BY <1>1, <1>4 DEF MayCall, StrategyTypeOK
<1>. QED BY <1>2, <1>3, <1>4 DEF Turn, ExecutionStep

\* Where a process stands after the steps that choose its day or its run.
LEMMA WhereTo ==
  ASSUME StrategyTypeOK, NEW a \in Actors
  PROVE  /\ CheckDay(a) => /\ pass'[a].day = today /\ pass'[a].run = LastOf(Observable)
                           /\ pass'[a].pc \in {"recover", "finish", "prepare"}
         /\ RecoverObservations(a) => /\ pass'[a].day = pass[a].day
                                      /\ pass'[a].pc = IF pass[a].skip THEN "finish" ELSE "prepare"
         /\ RunByHand(a) => pass'[a].day = today /\ pass'[a].pc = "run"
         /\ Judge(a) => /\ pass[a].pc = "judge" /\ pass'[a].pc = "authorize"
                        /\ pass'[a].day = pass[a].day /\ pass'[a].run = pass[a].run
                        /\ pass'[a].seen = Cardinality(Published)
<1>0. pass \in [Actors -> PassRecord] /\ pass[a] \in PassRecord
  BY DEF StrategyTypeOK, PassRecord
<1>1. CheckDay(a) => /\ pass'[a].day = today /\ pass'[a].run = LastOf(Observable)
                     /\ pass'[a].pc \in {"recover", "finish", "prepare"}
  <2>. SUFFICES ASSUME CheckDay(a)
                PROVE  /\ pass'[a].day = today /\ pass'[a].run = LastOf(Observable)
                       /\ pass'[a].pc \in {"recover", "finish", "prepare"}
    OBVIOUS
  <2>1. PICK pc \in {"recover", "finish", "prepare"}, skip \in BOOLEAN :
          pass' = [pass EXCEPT ![a].pc = pc, ![a].day = today, ![a].run = LastOf(Observable),
                               ![a].skip = skip]
    <3>. DEFINE last == LastOf(Formal \cap Published)
                skip == pass[a].skip \/ \E r \in Formal : runs[r].day = today
                next == IF last # 0 THEN "recover" ELSE IF skip THEN "finish" ELSE "prepare"
                s == skip /\ last # 0
    <3>1. pass' = [pass EXCEPT ![a].pc = next, ![a].day = today, ![a].run = last, ![a].skip = s]
      BY DEF CheckDay, PriorRuns
    <3>2. next \in {"recover", "finish", "prepare"} /\ s \in BOOLEAN
      OBVIOUS
    <3>. HIDE DEF next, s
    <3>. QED BY <3>1, <3>2 DEF Observable
  <2>. QED BY <1>0, <2>1 DEF PassRecord
<1>2. RecoverObservations(a) => /\ pass'[a].day = pass[a].day
                                /\ pass'[a].pc = IF pass[a].skip THEN "finish" ELSE "prepare"
  BY <1>0 DEF RecoverObservations, PassRecord
<1>3. RunByHand(a) => pass'[a].day = today /\ pass'[a].pc = "run"
  BY <1>0 DEF RunByHand, PassRecord
<1>4. Judge(a) => /\ pass[a].pc = "judge" /\ pass'[a].pc = "authorize"
                  /\ pass'[a].day = pass[a].day /\ pass'[a].run = pass[a].run
                  /\ pass'[a].seen = Cardinality(Published)
  BY <1>0 DEF Judge, PassAt, PassRecord
<1>. QED BY <1>1, <1>2, <1>3, <1>4

LEMMA TurnKeepsRuns ==
  ASSUME StrategyTypeOK, StrategyTypeOK', StrategyInv, NEW a \in Actors, Turn(a)
  PROVE  OwnRuns' /\ NoneAhead' /\ InOrder' /\ Numbered'
<1>1. /\ Started' = Started /\ Published' = Published /\ Formal' = Formal /\ Observable' = Observable
      /\ \A r \in RunIds : /\ runs'[r].day = runs[r].day /\ runs'[r].scheduled = runs[r].scheduled
                           /\ runs[r].observed => runs'[r].observed
      /\ Started \subseteq RunIds /\ Observable \subseteq RunIds
  BY SameRuns DEF Turn, RunsKept, Started, Observable, Published
<1>2. Numbered' /\ InOrder'
  BY <1>1 DEF StrategyInv, Numbered, InOrder
<1>3. NoneAhead'
  <2>1. ASSUME NEW b \in Actors
        PROVE  pass'[b].day <= today'
    <3>1. CASE b # a
      BY <3>1 DEF Turn, StrategyInv, NoneAhead
    <3>2. pass'[a].day \in {1, today, pass[a].day}
      BY WhereTo DEF Turn, Progress, Onward, Authorized
    <3>3. 1 <= today /\ pass[a].day <= today /\ today' = today
      BY DEF StrategyTypeOK, Days, StrategyInv, NoneAhead, Turn
    <3>4. today <= today
      BY DEF StrategyTypeOK, Days
    <3>. QED BY <3>1, <3>2, <3>3, <3>4
  <2>2. today' = today
    BY DEF Turn
  <2>. QED BY <1>1, <2>1, <2>2 DEF StrategyInv, NoneAhead
<1>4. OwnRuns'
  <2>. SUFFICES ASSUME NEW b \in Actors, pass'[b].pc \in {"judge", "authorize", "commit"}
                PROVE  /\ OwnRun(b)'
                       /\ pass'[b].pc \in {"authorize", "commit"} /\ HoldsRunLease(b)' =>
                            pass'[b].seen = Cardinality(Published')
    BY DEF OwnRuns
  <2>1. HoldsRunLease(b)' => HoldsRunLease(b)
    BY NoNewHolder DEF StrategyInv
  <2>2. /\ pass'[b].run = pass[b].run /\ pass'[b].day = pass[b].day
        /\ pass[b].pc \in {"judge", "authorize", "commit"}
        /\ \/ pass'[b].seen = pass[b].seen /\ (pass[b].pc \in {"authorize", "commit"} \/ pass'[b].pc = "judge")
           \/ pass'[b].seen = Cardinality(Published)
    <3>1. CASE b # a
      BY <3>1 DEF Turn
    <3>2. CASE b = a
      <4>1. Judge(a) \/ Authorized(a)
        <5>1. ~CheckDay(a) /\ ~RecoverObservations(a) /\ ~RunByHand(a)
          BY <3>2, WhereTo
        <5>. QED BY <3>2, <5>1 DEF Turn, Progress, Onward, Working
      <4>2. CASE Judge(a)
        BY <3>2, <4>2, WhereTo
      <4>3. CASE Authorized(a)
        BY <3>2, <4>3 DEF Authorized, Onward, PassAt
      <4>. QED BY <4>1, <4>2, <4>3
    <3>. QED BY <3>1, <3>2
  <2>3. OwnRun(b) /\ (pass[b].pc \in {"authorize", "commit"} /\ HoldsRunLease(b) =>
                        pass[b].seen = Cardinality(Published))
    BY <2>2 DEF StrategyInv, OwnRuns
  <2>4. OwnRun(b)'
    BY <1>1, <2>1, <2>2, <2>3 DEF OwnRun
  <2>. QED BY <1>1, <2>1, <2>2, <2>3, <2>4
<1>. QED BY <1>2, <1>3, <1>4

\* A pass that checks its day and goes on is the first of the day to do so.
LEMMA ChecksTheDay ==
  ASSUME StrategyTypeOK, NEW w \in Passers, CheckDay(w), \E r \in Formal : runs[r].day = today
  PROVE  \/ pass'[w].pc = "finish"
         \/ pass'[w].pc = "recover" /\ pass'[w].skip
<1>. DEFINE last == LastOf(Formal \cap Published)
            skip == pass[w].skip \/ \E r \in Formal : runs[r].day = today
            next == IF last # 0 THEN "recover" ELSE IF skip THEN "finish" ELSE "prepare"
            s == skip /\ last # 0
<1>0. pass \in [Actors -> PassRecord] /\ w \in Actors
  BY DEF StrategyTypeOK, PassRecord, Actors
<1>1. pass' = [pass EXCEPT ![w].pc = next, ![w].day = today, ![w].run = last, ![w].skip = s]
  <2>1. PriorRuns(w)
    BY DEF CheckDay
  <2>. QED BY ONLY <2>1 DEF PriorRuns
<1>2. skip
  OBVIOUS
<1>3. CASE last # 0
  <2>1. next = "recover" /\ s = TRUE
    BY <1>2, <1>3
  <2>. HIDE DEF last, next, s
  <2>2. pass' = [pass EXCEPT ![w].pc = "recover", ![w].day = today, ![w].run = last, ![w].skip = TRUE]
    BY <1>1, <2>1
  <2>. QED BY <1>0, <2>2 DEF PassRecord
<1>4. CASE last = 0
  <2>1. next = "finish"
    BY <1>2, <1>4
  <2>. HIDE DEF last, next, s
  <2>. QED BY <1>0, <1>1, <2>1 DEF PassRecord
<1>. QED BY <1>3, <1>4

LEMMA HeadsAsBefore ==
  ASSUME StrategyTypeOK, NEW a \in Actors, Turn(a), NEW w \in Passers, Heading(w)'
  PROVE  MayCall(w) /\ (Heading(w) \/ (w = a /\ CheckDay(a)))
<1>0. w \in Actors
  BY DEF Actors
<1>1. MayCall(w)
  BY NoNewCaller DEF Heading
<1>2. CASE w # a
  BY <1>0, <1>1, <1>2 DEF Turn, Heading
<1>3. CASE w = a
  <2>1. pass'[a].pc \in Working \ {"commit"}
    BY <1>3 DEF Heading, Working
  <2>2. CASE RecoverObservations(a)
    <3>1. pass[a].pc = "recover"
      BY <2>2 DEF RecoverObservations, PassAt
    <3>2. ~pass[a].skip
      BY <1>3, <2>2, WhereTo DEF Heading
    <3>. QED BY <1>1, <1>3, <3>1, <3>2 DEF Heading
  <2>3. CASE Onward(a, "prepare", "run") \/ Onward(a, "run", "save") \/ Judge(a)
    BY <1>1, <1>3, <2>3, WhereTo DEF Onward, PassAt, Heading
  <2>4. a \notin Persons
    BY <1>3, StrategyAssumption
  <2>. QED BY <1>1, <1>3, <2>1, <2>2, <2>3, <2>4 DEF Turn, Progress, Authorized, Onward
<1>. QED BY <1>2, <1>3

LEMMA CommitsAsBefore ==
  ASSUME StrategyTypeOK, LeaseNames, NEW a \in Actors, Turn(a), NEW w \in Passers, Committing(w)'
  PROVE  Committing(w) \/ (w = a /\ Authorized(a) /\ Heading(a))
<1>0. w \in Actors
  BY DEF Actors
<1>1. HoldsRunLease(w)
  BY <1>0, NoNewHolder DEF Committing
<1>2. CASE w # a
  BY <1>0, <1>1, <1>2 DEF Turn, Committing
<1>3. CASE w = a
  <2>1. pass'[a].pc = "commit"
    BY <1>3 DEF Committing
  <2>2. Authorized(a)
    BY <2>1, WhereTo DEF Turn, Progress, Working, Onward
  <2>. QED BY <1>3, <2>2 DEF Authorized, Onward, PassAt, Heading
<1>. QED BY <1>2, <1>3

LEMMA TurnStaysClear ==
  ASSUME StrategyTypeOK, StrategyInv, NEW a \in Actors, Turn(a), NEW w \in Passers,
         Heading(w)' \/ Committing(w)'
  PROVE  Clear(w)'
<1>0. w \in Actors
  BY DEF Actors
<1>1. /\ Observable' = Observable /\ today' = today
      /\ \A q \in Observable : runs'[q].day = runs[q].day /\ (runs[q].observed => runs'[q].observed)
      /\ Observable \subseteq Started /\ Observable \subseteq RunIds
  BY SameRuns DEF Turn, RunsKept, Observable, Published, Started
<1>2. CASE w = a /\ CheckDay(a) /\ Heading(a)'
  <2>1. pass'[a].day = today /\ pass'[a].run = LastOf(Observable)
    BY <1>2, WhereTo
  <2>2. \A r \in Formal : runs[r].day # today
    BY <1>2, ChecksTheDay DEF Heading
  <2>3. \A q \in Observable : runs[q].day < today
    <3>1. \A q \in Observable : q \in Formal /\ runs[q].day <= today /\ runs[q].day \in Days
      BY <1>1 DEF StrategyInv, NoneAhead, StrategyTypeOK, Observable
    <3>2. today \in Int /\ \A day \in Days : day \in Int
      BY DEF StrategyTypeOK, Days
    <3>3. \A q \in Observable : runs[q].day \in Int /\ runs[q].day <= today /\ runs[q].day # today
      BY <2>2, <3>1, <3>2
    <3>. QED BY <3>2, <3>3
  <2>4. \A q \in Observable : q = LastOf(Observable) \/ runs[q].observed
    <3>. SUFFICES ASSUME NEW q \in Observable, q # LastOf(Observable)
                  PROVE  runs[q].observed
      OBVIOUS
    <3>1. LastOf(Observable) \in Observable /\ q <= LastOf(Observable)
      BY <1>1, LastIsGreatest
    <3>2. \A r \in Observable : r \in Int
      BY <1>1 DEF RunIds
    <3>3. q < LastOf(Observable)
      BY <3>1, <3>2
    <3>. QED BY <3>1, <3>3 DEF StrategyInv, InOrder
  <2>5. pass'[a].pc = "recover" \/ Observable = {}
    <3>1. CASE LastOf(Observable) = 0
      BY <1>1, <3>1, LastIsGreatest
    <3>2. CASE LastOf(Observable) # 0
      <4>. pass \in [Actors -> PassRecord]
        BY DEF StrategyTypeOK, PassRecord
      <4>. DEFINE skip == pass[a].skip \/ \E r \in Formal : runs[r].day = today
                  s == skip /\ LastOf(Observable) # 0
      <4>1. pass' = [pass EXCEPT ![a].pc = "recover", ![a].day = today, ![a].run = LastOf(Observable),
                                 ![a].skip = s]
        BY <1>2, <3>2 DEF CheckDay, PriorRuns, Observable
      <4>. HIDE DEF s
      <4>. QED BY <4>1 DEF PassRecord
    <3>. QED BY <3>1, <3>2
  <2>. QED BY <1>1, <1>2, <2>1, <2>3, <2>4, <2>5 DEF Clear
<1>3. CASE Heading(w) \/ Committing(w)
  <2>1. Clear(w)
    BY <1>3 DEF StrategyInv, OneAhead
  <2>2. CASE pass'[w] = pass[w]
    BY <1>1, <2>1, <2>2 DEF Clear
  <2>3. CASE w = a /\ RecoverObservations(a)
    <3>0. runs' = [runs EXCEPT ![pass[a].run].observed = TRUE]
      BY <2>3 DEF RecoverObservations, CreateObservations
    <3>1. pass'[a].day = pass[a].day
      BY <2>3, WhereTo
    <3>2. \A q \in Observable : q = pass[a].run => runs'[q].observed
      BY <1>1, <3>0 DEF StrategyTypeOK
    <3>. QED BY <1>1, <2>1, <2>3, <3>1, <3>2 DEF Clear
  <2>4. CASE w = a /\ (Onward(a, "prepare", "run") \/ Onward(a, "run", "save") \/ Authorized(a) \/ Judge(a))
    <3>1. pass'[a].day = pass[a].day /\ pass[a].pc # "recover"
      BY <2>4, WhereTo DEF Onward, PassAt, Authorized
    <3>. QED BY <1>1, <2>1, <2>4, <3>1 DEF Clear
  <2>5. CASE w = a /\ pass'[a].pc \notin Working
    BY <2>5 DEF Heading, Committing, Working
  <2>6. CASE w = a /\ CheckDay(a)
    BY <2>6, <1>3 DEF CheckDay, PassAt, Heading, Committing
  <2>7. w = a => a \notin Persons
    BY StrategyAssumption
  <2>. QED BY <1>0, <2>2, <2>3, <2>4, <2>5, <2>6, <2>7 DEF Turn, Progress
<1>4. CASE w = a /\ Authorized(a) /\ Heading(a)
  BY <1>3, <1>4
<1>. QED BY <1>2, <1>3, <1>4, HeadsAsBefore, CommitsAsBefore DEF StrategyInv

LEMMA TurnKeepsOneAhead ==
  ASSUME StrategyTypeOK, StrategyInv, NEW a \in Actors, Turn(a)
  PROVE  OneAhead'
<1>1. ASSUME NEW w \in Passers, NEW v \in Passers, Committing(w)', Heading(v)'
      PROVE  FALSE
  <2>1. MayCall(v) /\ (Heading(v) \/ (v = a /\ CheckDay(a)))
    BY <1>1, HeadsAsBefore
  <2>2. CASE w = a /\ Authorized(a) /\ Heading(a)
    <3>1. v = a
      BY <2>1, <2>2 DEF Authorized, MayCall
    <3>2. pass'[a].pc = "commit"
      BY <2>2 DEF Authorized, Onward
    <3>. QED BY <1>1, <3>1, <3>2 DEF Heading
  <2>3. CASE Committing(w) /\ v = a /\ CheckDay(a)
    <3>1. w \in Actors /\ OwnRun(w)
      BY <2>3 DEF StrategyInv, OwnRuns, Committing, Actors
    <3>2. pass[w].day = today
      BY <2>3 DEF StrategyInv, OneAhead, Clear
    <3>3. \E r \in Formal : runs[r].day = today
      BY <3>1, <3>2 DEF OwnRun, Started, Formal
    <3>4. pass'[v].pc = "finish" \/ (pass'[v].pc = "recover" /\ pass'[v].skip)
      BY <2>3, <3>3, ChecksTheDay
    <3>. QED BY <1>1, <3>4 DEF Heading
  <2>4. CASE Committing(w) /\ Heading(v)
    BY <2>4 DEF StrategyInv, OneAhead
  <2>. QED BY <1>1, <2>1, <2>2, <2>3, <2>4, CommitsAsBefore DEF StrategyInv
<1>. QED BY <1>1, TurnStaysClear DEF OneAhead

-----------------------------------------------------------------------------
(* A run starts.                                                             *)

LEMMA StartKeepsInv ==
  ASSUME StrategyTypeOK, StrategyTypeOK', StrategyInv, NEW a \in Actors, SaveStartedRun(a)
  PROVE  StrategyInv'
<1>. DEFINE n == Cardinality(Started)
            new == [status |-> "running", scheduled |-> a \in Passers, day |-> pass[a].day,
                    observed |-> FALSE]
<1>0. pass \in [Actors -> PassRecord] /\ runs \in [RunIds -> RunRecord]
  BY DEF StrategyTypeOK, PassRecord, RunRecord
<1>1. PICK r \in RunIds :
        /\ r = n + 1 /\ runs' = [runs EXCEPT ![r] = new]
        /\ pass' = [pass EXCEPT ![a].pc = "judge", ![a].run = r]
  BY DEF SaveStartedRun, Started
<1>2. /\ PassAt(a, "save") /\ UNCHANGED <<today, execution, schedule, active, runLease>>
  BY DEF SaveStartedRun
<1>3. /\ \A b \in Actors \ {a} : pass'[b] = pass[b]
      /\ pass'[a].pc = "judge" /\ pass'[a].run = r /\ pass'[a].fence = pass[a].fence
      /\ pass'[a].day = pass[a].day
  BY <1>0, <1>1 DEF PassRecord
<1>4. n \in Nat /\ Started = 1 .. n /\ IsFiniteSet(Started)
  BY Counted DEF StrategyInv, Numbered, Started
<1>5. r \notin Started /\ \A q \in Started : q < r
  BY <1>1, <1>4
<1>6. runs'[r] = new /\ \A q \in RunIds \ {r} : runs'[q] = runs[q]
  BY <1>0, <1>1
<1>. HIDE DEF n
<1>7. /\ Started' = Started \cup {r} /\ Published' = Published /\ Observable' = Observable
      /\ Published \subseteq Started /\ Observable \subseteq Started /\ Started \subseteq RunIds
  BY <1>5, <1>6 DEF Started, Published, Observable, Formal
<1>8. \A q \in Started : runs'[q] = runs[q]
  BY <1>5, <1>6, <1>7
<1>9. Numbered'
  <2>1. Cardinality(Started \cup {r}) = n + 1
    BY <1>4, <1>5, FS_AddElement DEF n
  <2>2. Started \cup {r} = 1 .. (n + 1)
    BY <1>1, <1>4
  <2>. QED BY <1>7, <2>1, <2>2 DEF Numbered
<1>10. LeaseNames'
  BY <1>2, <1>3 DEF StrategyInv, LeaseNames, LeasePCs, PassAt
<1>11. OwnRuns'
  <2>. SUFFICES ASSUME NEW b \in Actors, pass'[b].pc \in {"judge", "authorize", "commit"}
                PROVE  /\ OwnRun(b)'
                       /\ pass'[b].pc \in {"authorize", "commit"} /\ HoldsRunLease(b)' =>
                            pass'[b].seen = Cardinality(Published')
    BY DEF OwnRuns
  <2>1. CASE b = a
    <3>1. runs'[r].day = pass[a].day /\ runs'[r].scheduled = (a \in Passers)
      BY <1>6
    <3>2. runs'[r].scheduled <=> a \in Passers
      BY <3>1
    <3>. QED BY <1>3, <1>5, <1>7, <2>1, <3>1, <3>2 DEF OwnRun
  <2>2. CASE b # a
    <3>1. pass'[b] = pass[b] /\ (HoldsRunLease(b)' => HoldsRunLease(b))
      BY <1>2, <1>3, <2>2 DEF HoldsRunLease
    <3>2. OwnRun(b) /\ (pass[b].pc \in {"authorize", "commit"} /\ HoldsRunLease(b) =>
                          pass[b].seen = Cardinality(Published))
      BY <3>1 DEF StrategyInv, OwnRuns
    <3>3. OwnRun(b)'
      BY <1>7, <1>8, <3>1, <3>2 DEF OwnRun
    <3>. QED BY <1>7, <3>1, <3>2, <3>3
  <2>. QED BY <2>1, <2>2
<1>12. NoneAhead'
  <2>1. \A b \in Actors : pass'[b].day <= today
    BY <1>3 DEF StrategyInv, NoneAhead
  <2>2. \A q \in Started \cup {r} : runs'[q].day <= today
    BY <1>6, <1>8 DEF StrategyInv, NoneAhead
  <2>. QED BY <1>2, <1>7, <2>1, <2>2 DEF NoneAhead
<1>13. InOrder'
  BY <1>7, <1>8 DEF StrategyInv, InOrder
<1>14. OneAhead'
  <2>1. ASSUME NEW w \in Passers, Heading(w)'
        PROVE  Heading(w) /\ (w = a => pass'[a].pc = "judge")
    BY <1>2, <1>3, <2>1 DEF Heading, MayCall, Actors, PassAt
  <2>2. ASSUME NEW w \in Passers, Committing(w)'
        PROVE  Committing(w) /\ w # a
    BY <1>2, <1>3, <2>2 DEF Committing, HoldsRunLease, Actors
  <2>3. ASSUME NEW w \in Passers, Clear(w), w # a \/ pass[a].pc = "save"
        PROVE  Clear(w)'
    BY <1>2, <1>3, <1>7, <1>8, <2>3 DEF Clear, Actors
  <2>. QED BY <1>2, <2>1, <2>2, <2>3 DEF StrategyInv, OneAhead, PassAt
<1>. QED BY <1>9, <1>10, <1>11, <1>12, <1>13, <1>14 DEF StrategyInv

-----------------------------------------------------------------------------
(* A run is committed, or its process finds that it may not be.              *)

LEMMA CommitKeepsInv ==
  ASSUME StrategyTypeOK, StrategyTypeOK', StrategyInv, NEW a \in Actors, CommitRun(a)
  PROVE  StrategyInv'
<1>. DEFINE r == pass[a].run
<1>0. /\ pass \in [Actors -> PassRecord] /\ runs \in [RunIds -> RunRecord]
      /\ OwnRun(a) /\ r \in Started /\ Started \subseteq RunIds
  BY DEF StrategyTypeOK, PassRecord, RunRecord, CommitRun, PassAt, StrategyInv, OwnRuns, OwnRun, Started
<1>1. PICK status \in {"published", "unpublished"} :
        \/ runs' = runs
        \/ /\ HoldsRunLease(a) /\ runs[r].status = "running"
           /\ runs' = [runs EXCEPT ![r].status = status]
  BY DEF CommitRun, CommitWithFence
<1>2. /\ PassAt(a, "commit") /\ UNCHANGED <<today, execution, schedule, active, runLease>>
      /\ GoTo(a, "unlock")
  BY DEF CommitRun
<1>3. /\ \A b \in Actors \ {a} : pass'[b] = pass[b]
      /\ pass'[a].pc = "unlock" /\ pass'[a].fence = pass[a].fence /\ pass'[a].day = pass[a].day
  BY <1>0, <1>2 DEF PassRecord, GoTo
<1>. HIDE DEF r
<1>4. \A q \in RunIds : /\ runs'[q].day = runs[q].day /\ runs'[q].scheduled = runs[q].scheduled
                        /\ runs'[q].observed = runs[q].observed
                        /\ runs'[q].status = "none" <=> runs[q].status = "none"
  BY <1>0, <1>1 DEF RunRecord
<1>5. Started' = Started /\ Formal' = Formal
  BY <1>4 DEF Started, Formal
<1>6. \/ Published' = Published
      \/ Published' = Published \cup {r} /\ HoldsRunLease(a) /\ r \notin Published
  <2>1. CASE runs' = runs
    BY <2>1 DEF Published
  <2>2. CASE /\ HoldsRunLease(a) /\ runs[r].status = "running"
             /\ runs' = [runs EXCEPT ![r].status = status]
    BY <1>0, <2>2 DEF Published, RunRecord
  <2>. QED BY <1>1, <2>1, <2>2
<1>7. \A b \in Actors \ {a} : HoldsRunLease(a) => ~HoldsRunLease(b)
  BY DEF HoldsRunLease
<1>8. Numbered'
  BY <1>5 DEF StrategyInv, Numbered
<1>9. LeaseNames'
  BY <1>2, <1>3 DEF StrategyInv, LeaseNames, LeasePCs, PassAt
<1>10. OwnRuns'
  <2>. SUFFICES ASSUME NEW b \in Actors, pass'[b].pc \in {"judge", "authorize", "commit"}
                PROVE  /\ OwnRun(b)'
                       /\ pass'[b].pc \in {"authorize", "commit"} /\ HoldsRunLease(b)' =>
                            pass'[b].seen = Cardinality(Published')
    BY DEF OwnRuns
  <2>1. b # a /\ pass'[b] = pass[b] /\ (HoldsRunLease(b)' => HoldsRunLease(b))
    BY <1>2, <1>3 DEF HoldsRunLease
  <2>2. OwnRun(b) /\ (pass[b].pc \in {"authorize", "commit"} /\ HoldsRunLease(b) =>
                        pass[b].seen = Cardinality(Published))
    BY <2>1 DEF StrategyInv, OwnRuns
  <2>3. HoldsRunLease(b) => Published' = Published
    BY <1>6, <1>7, <2>1
  <2>4. OwnRun(b)'
    BY <1>0, <1>4, <1>5, <2>1, <2>2, <2>3 DEF OwnRun
  <2>. QED BY <2>1, <2>2, <2>3, <2>4
<1>11. NoneAhead'
  <2>1. \A b \in Actors : pass'[b].day <= today
    BY <1>3 DEF StrategyInv, NoneAhead
  <2>2. \A q \in Started : runs'[q].day <= today
    BY <1>0, <1>4 DEF StrategyInv, NoneAhead
  <2>. QED BY <1>2, <1>5, <2>1, <2>2 DEF NoneAhead
<1>12. \/ Observable' = Observable
       \/ /\ Observable' = Observable \cup {r} /\ a \in Passers /\ Committing(a)
          /\ \A q \in Observable : q < r
  <2>1. r \in Formal <=> a \in Passers
    BY <1>0 DEF OwnRun, Formal, Started, r
  <2>2. HoldsRunLease(a) => \A q \in Published : q < r
    BY <1>0 DEF OwnRun, r
  <2>3. CASE Published' = Published
    BY <1>5, <2>3 DEF Observable
  <2>4. CASE Published' = Published \cup {r} /\ HoldsRunLease(a) /\ a \notin Passers
    BY <1>5, <2>1, <2>4 DEF Observable
  <2>5. CASE Published' = Published \cup {r} /\ HoldsRunLease(a) /\ a \in Passers
    <3>1. Observable' = Observable \cup {r}
      BY <1>5, <2>1, <2>5 DEF Observable
    <3>2. Committing(a)
      BY <1>2, <2>5 DEF Committing, PassAt
    <3>. QED BY <2>2, <2>5, <3>1, <3>2 DEF Observable
  <2>. QED BY <1>6, <2>3, <2>4, <2>5
<1>13. Observable \subseteq RunIds
  BY DEF Observable, Published
<1>14. InOrder'
  <2>1. CASE Observable' = Observable
    BY <1>4, <1>13, <2>1 DEF StrategyInv, InOrder
  <2>2. CASE /\ Observable' = Observable \cup {r} /\ a \in Passers /\ Committing(a)
             /\ \A q \in Observable : q < r
    <3>1. Clear(a) /\ pass[a].pc = "commit"
      BY <2>2 DEF StrategyInv, OneAhead, Committing
    <3>2. runs[r].day = today /\ \A q \in Observable : runs[q].day < today /\ runs[q].observed
      BY <1>0, <3>1 DEF Clear, OwnRun, r
    <3>3. ASSUME NEW p \in Observable \cup {r}, NEW q \in Observable \cup {r}, p < q
          PROVE  runs[p].day < runs[q].day /\ runs[p].observed
      <4>1. \A x \in RunIds : x \in Int
        BY DEF RunIds
      <4>2. CASE q = r
        BY <1>0, <1>13, <3>2, <3>3, <4>1, <4>2
      <4>3. CASE q # r
        <5>1. q \in Observable /\ q < r
          BY <2>2, <4>3
        <5>2. p # r
          BY <1>0, <1>13, <3>3, <4>1, <5>1
        <5>. QED BY <3>3, <5>1, <5>2 DEF StrategyInv, InOrder
      <4>. QED BY <4>2, <4>3
    <3>. QED BY <1>0, <1>4, <1>13, <2>2, <3>3 DEF InOrder
  <2>. QED BY <1>12, <2>1, <2>2
<1>15. OneAhead'
  <2>1. ASSUME NEW w \in Passers, Heading(w)'
        PROVE  Heading(w) /\ w # a
    BY <1>2, <1>3, <2>1 DEF Heading, MayCall, Actors
  <2>2. ASSUME NEW w \in Passers, Committing(w)'
        PROVE  Committing(w) /\ w # a
    BY <1>2, <1>3, <2>2 DEF Committing, HoldsRunLease, Actors
  <2>3. ASSUME NEW w \in Passers, w # a, Heading(w) \/ Committing(w)
        PROVE  Clear(w)'
    <3>1. Clear(w) /\ w \in Actors
      BY <2>3 DEF StrategyInv, OneAhead, Actors
    <3>2. Observable' = Observable
      <4>1. Committing(w) => ~Committing(a)
        BY <1>7, <2>3, <3>1 DEF Committing
      <4>2. a \in Passers /\ Committing(a) => ~Heading(w)
        BY DEF StrategyInv, OneAhead
      <4>. QED BY <1>12, <2>3, <4>1, <4>2
    <3>. QED BY <1>2, <1>3, <1>4, <1>13, <2>3, <3>1, <3>2 DEF Clear
  <2>. QED BY <2>1, <2>2, <2>3 DEF StrategyInv, OneAhead
<1>. QED BY <1>8, <1>9, <1>10, <1>11, <1>14, <1>15 DEF StrategyInv

-----------------------------------------------------------------------------
(* What is around the processes.                                             *)

LEMMA AroundKeepsInv ==
  ASSUME StrategyTypeOK, StrategyTypeOK', StrategyInv, Around
  PROVE  StrategyInv'
<1>1. /\ Started' = Started /\ Published' = Published /\ Observable' = Observable
      /\ runs' = runs /\ pass' = pass
  BY DEF Around, Started, Published, Observable, Formal
<1>2. Numbered' /\ InOrder'
  BY <1>1 DEF StrategyInv, Numbered, InOrder
<1>3. /\ runLease'.owner = runLease.owner /\ runLease'.fence = runLease.fence
      /\ runLease'.live => runLease.live
  BY DEF Around, StrategyTypeOK
<1>4. LeaseNames'
  BY <1>1, <1>3 DEF StrategyInv, LeaseNames
<1>5. \A b \in Actors : HoldsRunLease(b)' => HoldsRunLease(b)
  BY <1>1, <1>3 DEF HoldsRunLease
<1>6. OwnRuns'
  BY <1>1, <1>5 DEF StrategyInv, OwnRuns, OwnRun
<1>7. NoneAhead'
  <2>1. today \in Int /\ \A day \in Days : day \in Int
    BY DEF StrategyTypeOK, Days
  <2>2. \A b \in Actors : pass[b].day \in Days
    BY DEF StrategyTypeOK
  <2>3. \A r \in Started : runs[r].day \in Days
    BY DEF StrategyTypeOK, Started
  <2>4. today' = today \/ today' = today + 1
    BY DEF Around
  <2>5. \A b \in Actors : pass[b].day <= today'
    BY <2>1, <2>2, <2>4 DEF StrategyInv, NoneAhead
  <2>6. \A r \in Started : runs[r].day <= today'
    BY <2>1, <2>3, <2>4 DEF StrategyInv, NoneAhead
  <2>. QED BY <1>1, <2>5, <2>6 DEF NoneAhead
<1>8. OneAhead'
  <2>1. \A w \in Passers : Heading(w)' => Heading(w) /\ execution.live
    BY <1>1 DEF Around, Heading, MayCall, NotHeld
  <2>2. \A w \in Passers : Committing(w)' => Committing(w) /\ runLease.live
    BY <1>1, <1>5 DEF Committing, HoldsRunLease, Actors
  <2>3. CASE today' = today
    <3>1. \A w \in Passers : Clear(w) => Clear(w)'
      BY <1>1, <2>3 DEF Clear
    <3>. QED BY <2>1, <2>2, <3>1 DEF StrategyInv, OneAhead
  <2>4. CASE ~execution.live /\ ~runLease.live
    BY <2>1, <2>2, <2>4 DEF OneAhead
  <2>. QED BY <2>3, <2>4 DEF Around
<1>. QED BY <1>2, <1>4, <1>6, <1>7, <1>8 DEF StrategyInv

-----------------------------------------------------------------------------
(* The theorems.                                                             *)

LEMMA StrategyInvInit == StrategyInit => StrategyInv
<1>. SUFFICES ASSUME StrategyInit
              PROVE  StrategyInv
  OBVIOUS
<1>1. /\ 0 \in 0 .. MaxRuns /\ 0 \in 0 .. MaxTakeovers /\ 1 \in Days /\ NoOne \notin Actors
  BY StrategyAssumption DEF Days, Actors, NoOne
<1>2. \A r \in RunIds : runs[r] = NoRun
  BY DEF StrategyInit
<1>3. \A a \in Actors : pass[a] = Resting
  BY DEF StrategyInit
<1>4. StrategyTypeOK
  <2>1. NoRun \in RunRecord
    BY <1>1 DEF NoRun, RunRecord
  <2>2. pass \in [Actors -> PassRecord] /\ runs \in [RunIds -> RunRecord]
    BY <2>1, RestingTyped DEF StrategyInit
  <2>3. /\ execution \in [owner: Passers \cup {NoOne}, live: BOOLEAN]
        /\ schedule \in [due: BOOLEAN, owner: Passers \cup {NoOne}, live: BOOLEAN]
        /\ runLease \in [owner: Actors \cup {NoOne}, fence: 0 .. MaxTakeovers, live: BOOLEAN]
    BY <1>1 DEF StrategyInit, NotHeld, NotDue, NoLeaseRow
  <2>4. today \in Days /\ active \in BOOLEAN
    BY <1>1 DEF StrategyInit
  <2>. QED BY <2>2, <2>3, <2>4 DEF StrategyTypeOK, PassRecord, RunRecord
<1>5. Started = {} /\ Published = {} /\ Observable = {}
  BY <1>2 DEF Started, Published, Observable, NoRun
<1>6. Numbered
  BY <1>5, FS_EmptySet DEF Numbered
<1>7. LeaseNames
  BY <1>1 DEF LeaseNames, StrategyInit, NoLeaseRow
<1>8. OwnRuns
  BY <1>3 DEF OwnRuns, Resting
<1>9. NoneAhead
  BY <1>3, <1>5 DEF NoneAhead, Resting, StrategyInit
<1>10. InOrder
  BY <1>5 DEF InOrder
<1>11. OneAhead
  BY <1>3 DEF OneAhead, Heading, Committing, Resting, Actors
<1>. QED BY <1>4, <1>6, <1>7, <1>8, <1>9, <1>10, <1>11 DEF StrategyInv

LEMMA StrategyInvStep == StrategyInv /\ [StrategyNext]_strategyVars => StrategyInv'
<1>. SUFFICES ASSUME StrategyInv, [StrategyNext]_strategyVars
              PROVE  StrategyInv'
  OBVIOUS
<1>1. StrategyTypeOK /\ StrategyTypeOK'
  BY TypedStep DEF StrategyInv
<1>2. CASE Around
  BY <1>1, <1>2, AroundKeepsInv
<1>3. CASE \E a \in Actors : SaveStartedRun(a)
  BY <1>1, <1>3, StartKeepsInv
<1>4. CASE \E a \in Actors : CommitRun(a)
  BY <1>1, <1>4, CommitKeepsInv
<1>5. ASSUME NEW a \in Actors, Turn(a)
      PROVE  StrategyInv'
  <2>1. LeaseNames'
    BY <1>1, <1>5, NamesStayTrue DEF StrategyInv
  <2>. QED BY <1>1, <1>5, <2>1, TurnKeepsRuns, TurnKeepsOneAhead DEF StrategyInv
<1>. QED BY <1>1, <1>2, <1>3, <1>4, <1>5, StepIsSummed

LEMMA StrategyInvHolds == StrategySpec => []StrategyInv
BY StrategyInvInit, StrategyInvStep, PTL DEF StrategySpec

\* The type invariant, for any number of workers, persons, runs, days and
\* takeovers: every lease is held by a process or by nobody, and every run and
\* pass is in one of the states the code gives it.
THEOREM StrategyTyped == StrategySpec => []StrategyTypeOK
<1>1. StrategyInv => StrategyTypeOK
  BY DEF StrategyInv
<1>. QED BY <1>1, StrategyInvHolds, PTL

\* However passes stall, die and take over from each other (strategy-daily-cycle
\* and the three leases), a day gets one published scheduled run, and its signals
\* are observed before a later day publishes another.
THEOREM OneRunADay == StrategySpec => []OneObservedRunPerDay
<1>1. StrategyInv => OneObservedRunPerDay
  <2>. SUFFICES ASSUME StrategyInv, NEW r \in Observable, NEW q \in Observable
                PROVE  /\ runs[r].day = runs[q].day => r = q
                       /\ runs[r].day < runs[q].day => runs[r].observed
    BY DEF OneObservedRunPerDay, Observable
  <2>1. r \in Int /\ q \in Int /\ runs[r].day \in Int /\ runs[q].day \in Int
    BY DEF Observable, Published, RunIds, StrategyInv, StrategyTypeOK, Days
  <2>2. r < q => runs[r].day < runs[q].day /\ runs[r].observed
    BY DEF StrategyInv, InOrder
  <2>3. q < r => runs[q].day < runs[r].day
    BY DEF StrategyInv, InOrder
  <2>. QED BY <2>1, <2>2, <2>3
<1>. QED BY <1>1, StrategyInvHolds, PTL

\* run_strategy commits a run only under the lease it was judged under: nothing
\* was published since its signals were judged, whoever ran it.
THEOREM SignalsFollow == StrategySpec => SignalsFollowTheLast
<1>1. ASSUME StrategyInv, StrategyInv', [StrategyNext]_strategyVars, NEW a \in Actors,
             PassAt(a, "commit"), ~PassAt(a, "commit")', Published' # Published
      PROVE  pass[a].seen = Cardinality(Published)
  <2>1. StrategyTypeOK
    BY <1>1 DEF StrategyInv
  <2>2. ~Around
    BY <1>1 DEF Around, Published
  <2>3. \A b \in Actors : ~Turn(b)
    BY <1>1, SameRuns DEF Turn
  <2>4. \A b \in Actors : ~SaveStartedRun(b)
    <3>. SUFFICES ASSUME NEW b \in Actors, SaveStartedRun(b)
                  PROVE  FALSE
      OBVIOUS
    <3>1. b # a
      BY <1>1 DEF SaveStartedRun, PassAt
    <3>2. pass'[a] = pass[a]
      BY <3>1, <2>1 DEF SaveStartedRun, StrategyTypeOK
    <3>. QED BY <1>1, <3>2 DEF PassAt
  <2>5. CommitRun(a)
    <3>1. PICK b \in Actors : CommitRun(b)
      BY <1>1, <2>1, <2>2, <2>3, <2>4, StepIsSummed
    <3>2. CASE b # a
      <4>1. pass'[a] = pass[a]
        BY <2>1, <3>1, <3>2 DEF CommitRun, GoTo, StrategyTypeOK
      <4>. QED BY <1>1, <4>1 DEF PassAt
    <3>. QED BY <3>1, <3>2
  <2>6. HoldsRunLease(a)
    BY <1>1, <2>5 DEF CommitRun, CommitWithFence, Published
  <2>. QED BY <1>1, <2>6 DEF StrategyInv, OwnRuns, PassAt
<1>2. StrategyInv /\ StrategyInv' /\ [StrategyNext]_strategyVars =>
        [\A a \in Actors : PassAt(a, "commit") /\ ~PassAt(a, "commit")' /\ Published' # Published
           => pass[a].seen = Cardinality(Published)]_strategyVars
  BY <1>1
<1>. QED BY <1>2, StrategyInvHolds, PTL DEF StrategySpec, SignalsFollowTheLast
=============================================================================
