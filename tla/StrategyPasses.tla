---------------------------- MODULE StrategyPasses ----------------------------
(***************************************************************************)
(* The daily pass over the strategy of a tenant: workers take turns under  *)
(* an execution lease, claim the due schedule under a second lease, run    *)
(* the strategy once a trading day under a third, publish the run and      *)
(* record the observations of its signals.  A user of the web server may   *)
(* run the same strategy by hand.  Sources: workflows/hosted-strategy.ts,  *)
(* workflows/strategy-daily-cycle.ts, tools/run-strategy.ts and the        *)
(* repositories of workflow runs, schedules and strategy runs.             *)
(*                                                                         *)
(* One strategy with one published version and one schedule.  Each lease   *)
(* is renewed by a timer of its holder and lapses when the holder stalls   *)
(* or dies.  Every pass and every run draws an owner name of its own: a    *)
(* process holds a lease under its name only within one of them.           *)
(***************************************************************************)
EXTENDS Integers, FiniteSets, FiniteSetsExt

CONSTANTS
  Passers,     \* worker processes, each in one pass at a time
  Persons,     \* runs by hand, one at a time each
  MaxRuns,     \* bounds of the model
  MaxDays,
  MaxTakeovers

ASSUME StrategyAssumption ==
  /\ Passers \cap Persons = {} /\ "nobody" \notin Passers \cup Persons
  /\ {MaxRuns, MaxDays, MaxTakeovers} \subseteq Nat \ {0}

VARIABLES
  today,       \* the trading day
  execution,   \* workflow_runs: hosted-strategy-execution
  schedule,    \* strategy_schedules
  active,      \* strategies.status
  runLease,    \* strategy_run_leases; fence 0 when there is no row
  runs,        \* strategy_runs, numbered as they start
  pass         \* the progress of each process

strategyVars == <<today, execution, schedule, active, runLease, runs, pass>>

Actors == Passers \cup Persons
NoOne == "nobody"
RunIds == 1 .. MaxRuns
Days == 1 .. MaxDays
PassPCs == {"idle", "reconcile", "sweep", "swept", "check", "recover",
            "prepare", "run", "save", "judge", "authorize", "commit",
            "unlock", "observe", "finish", "release"}

StrategyTypeOK ==
  /\ today \in Days /\ active \in BOOLEAN
  /\ execution \in [owner: Passers \cup {NoOne}, live: BOOLEAN]
  /\ schedule \in [due: BOOLEAN, owner: Passers \cup {NoOne}, live: BOOLEAN]
  /\ runLease \in [owner: Actors \cup {NoOne}, fence: 0 .. MaxTakeovers, live: BOOLEAN]
  /\ runs \in [RunIds -> [status: {"none", "running", "published", "unpublished"},
                          scheduled: BOOLEAN, day: Days, observed: BOOLEAN]]
  /\ pass \in [Actors -> [pc: PassPCs, day: Days, skip: BOOLEAN, run: 0 .. MaxRuns,
                          fence: 0 .. MaxTakeovers, seen: 0 .. MaxRuns]]

NotHeld == [owner |-> NoOne, live |-> FALSE]
NotDue == [due |-> FALSE, owner |-> NoOne, live |-> FALSE]
NoLeaseRow == [owner |-> NoOne, fence |-> 0, live |-> FALSE]
NoRun == [status |-> "none", scheduled |-> FALSE, day |-> 1, observed |-> FALSE]
Resting == [pc |-> "idle", day |-> 1, skip |-> FALSE, run |-> 0, fence |-> 0, seen |-> 0]

StrategyInit ==
  /\ today = 1 /\ active = TRUE
  /\ execution = NotHeld /\ schedule = [NotDue EXCEPT !.due = TRUE] /\ runLease = NoLeaseRow
  /\ runs = [r \in RunIds |-> NoRun]
  /\ pass = [a \in Actors |-> Resting]

PassAt(a, pc) == pass[a].pc = pc
GoTo(a, pc) == pass' = [pass EXCEPT ![a].pc = pc]

Published == {r \in RunIds : runs[r].status = "published"}
Formal == {r \in RunIds : runs[r].scheduled}
LastOf(S) == IF S = {} THEN 0 ELSE Max(S)

-----------------------------------------------------------------------------
(* The three leases.                                                       *)

\* The guard of every tool call of a pass renews the execution lease first.
MayCall(w) == execution.owner = w /\ execution.live
HoldsSchedule(w) == schedule.owner = w /\ schedule.live
\* Mutant: the number is taken to say who holds the lease.
HasRunFence(a) == runLease.fence = pass[a].fence /\ runLease.live
HoldsRunLease(a) == runLease.owner = a /\ runLease.fence = pass[a].fence /\ runLease.live

\* Taking over a row adds one to its fence; a row that was released is gone, so
\* the next fence is the first again.
TakeRunLease(a) ==
  /\ ~runLease.live /\ runLease.fence < MaxTakeovers
  /\ runLease' = [owner |-> a, fence |-> runLease.fence + 1, live |-> TRUE]

\* The row goes whether or not the lease has lapsed, if nobody took it over.
ReleaseRunLease(a) ==
  runLease' = IF runLease.owner = a /\ runLease.fence = pass[a].fence
              THEN NoLeaseRow ELSE runLease

\* commitRunWithFence: one transaction over the lease, the run and its results.
CommitWithFence(a, status) ==
  LET r == pass[a].run
  IN  runs' = IF HoldsRunLease(a) /\ runs[r].status = "running"
              THEN [runs EXCEPT ![r].status = status] ELSE runs

-----------------------------------------------------------------------------
(* run_strategy, by a pass or by hand.                                     *)

\* After the data are prepared the schedule is renewed and the call authorized.
\* The renewal before the preparation asks no more than this one: a lease that
\* was lost is not had again in the same pass.
CallRunStrategy(w) ==
  /\ PassAt(w, "prepare") /\ MayCall(w) /\ HoldsSchedule(w) /\ GoTo(w, "run")
  /\ UNCHANGED <<today, execution, schedule, active, runLease, runs>>

RunByHand(u) ==
  /\ PassAt(u, "idle") /\ pass' = [pass EXCEPT ![u].pc = "run", ![u].day = today]
  /\ UNCHANGED <<today, execution, schedule, active, runLease, runs>>

AfterRun(a) == IF a \in Persons THEN Resting ELSE [pass[a] EXCEPT !.pc = "finish", !.run = 0]

AcquireRunLease(a) ==
  /\ PassAt(a, "run")
  /\ IF active /\ ~runLease.live
     THEN /\ TakeRunLease(a)
          /\ pass' = [pass EXCEPT ![a].pc = "save", ![a].fence = runLease'.fence, ![a].run = 0]
     ELSE pass' = [pass EXCEPT ![a] = AfterRun(a)] /\ UNCHANGED runLease
  /\ UNCHANGED <<today, execution, schedule, active, runs>>

\* The row of the run says which day it is for before any data is read.
SaveStartedRun(a) ==
  /\ PassAt(a, "save") /\ active
  /\ \E r \in RunIds :
       /\ r = Cardinality({q \in RunIds : runs[q].status # "none"}) + 1
       /\ runs' = [runs EXCEPT ![r] = [status |-> "running", scheduled |-> a \in Passers,
                                       day |-> pass[a].day, observed |-> FALSE]]
       /\ pass' = [pass EXCEPT ![a].pc = "judge", ![a].run = r]
  /\ UNCHANGED <<today, execution, schedule, active, runLease>>

\* Signals are judged against the runs published before.
Judge(a) ==
  /\ PassAt(a, "judge")
  /\ pass' = [pass EXCEPT ![a].pc = "authorize", ![a].seen = Cardinality(Published)]
  /\ UNCHANGED <<today, execution, schedule, active, runLease, runs>>

\* Mutant: the authorization of the call serves for the commit as well.
AuthorizedBefore(a) ==
  /\ PassAt(a, "authorize") /\ GoTo(a, "commit")
  /\ UNCHANGED <<today, execution, schedule, active, runLease, runs>>

\* A second authorization, after the work and before the commit; the catch block
\* asks for it as well before it commits a failed run.
AuthorizeCommit(a) ==
  /\ PassAt(a, "authorize") /\ (a \in Passers => MayCall(a)) /\ GoTo(a, "commit")
  /\ UNCHANGED <<today, execution, schedule, active, runLease, runs>>

CommitRun(a) ==
  /\ PassAt(a, "commit") /\ GoTo(a, "unlock")
  /\ \E status \in {"published", "unpublished"} : CommitWithFence(a, status)
  /\ UNCHANGED <<today, execution, schedule, active, runLease>>

\* A refusal, a lease found lost or unusable data leaves the run as it is.
GiveUpRunning(a) ==
  /\ pass[a].pc \in {"save", "judge", "authorize"} /\ GoTo(a, "unlock")
  /\ UNCHANGED <<today, execution, schedule, active, runLease, runs>>

Unlock(a) ==
  LET r == pass[a].run
  IN  /\ PassAt(a, "unlock") /\ ReleaseRunLease(a)
      /\ pass' = [pass EXCEPT ![a] =
           IF a \in Passers /\ r # 0 /\ r \in Published
           THEN [@ EXCEPT !.pc = "observe", !.fence = 0, !.seen = 0]
           ELSE [AfterRun(a) EXCEPT !.fence = 0, !.seen = 0]]
      /\ UNCHANGED <<today, execution, schedule, active, runs>>

-----------------------------------------------------------------------------
(* A pass.  Every step of it is one tool call, authorized and carried out at *)
(* once; only run_strategy and the sweep take several.                       *)

AcquireExecution(w) ==
  /\ PassAt(w, "idle") /\ ~execution.live
  /\ execution' = [owner |-> w, live |-> TRUE] /\ GoTo(w, "reconcile")
  /\ UNCHANGED <<today, schedule, active, runLease, runs>>

\* reconcile_stale_strategy_runs: old running runs whose lease can be had are
\* failed, one after the other.
SweepStale(w) ==
  /\ PassAt(w, "reconcile")
  /\ \E r \in RunIds :
       /\ runs[r].status = "running" /\ TakeRunLease(w)
       /\ pass' = [pass EXCEPT ![w].pc = "sweep", ![w].run = r, ![w].fence = runLease'.fence]
  /\ UNCHANGED <<today, execution, schedule, active, runs>>

FailStale(w) ==
  /\ PassAt(w, "sweep") /\ CommitWithFence(w, "unpublished") /\ GoTo(w, "swept")
  /\ UNCHANGED <<today, execution, schedule, active, runLease>>

ReleaseStale(w) ==
  /\ PassAt(w, "swept") /\ ReleaseRunLease(w)
  /\ pass' = [pass EXCEPT ![w].pc = "reconcile", ![w].run = 0, ![w].fence = 0]
  /\ UNCHANGED <<today, execution, schedule, active, runs>>

ClaimSchedule(w) ==
  /\ PassAt(w, "reconcile") /\ MayCall(w)
  /\ IF schedule.due /\ ~schedule.live
     THEN /\ schedule' = [due |-> TRUE, owner |-> w, live |-> TRUE]
          /\ pass' = [pass EXCEPT ![w].pc = "check", ![w].skip = ~active]
     ELSE GoTo(w, "release") /\ UNCHANGED schedule
  /\ UNCHANGED <<today, execution, active, runLease, runs>>

\* One list of the runs so far: has the day its scheduled run, and which is the
\* last scheduled run that was published?
PriorRuns(w) ==
  LET skip == pass[w].skip \/ \E r \in Formal : runs[r].day = today
      last == LastOf(Formal \cap Published)
      next == IF last # 0 THEN "recover" ELSE IF skip THEN "finish" ELSE "prepare"
  IN  pass' = [pass EXCEPT ![w].pc = next, ![w].day = today, ![w].run = last,
                           ![w].skip = skip /\ last # 0]

CheckDay(w) ==
  /\ PassAt(w, "check") /\ MayCall(w) /\ PriorRuns(w)
  /\ UNCHANGED <<today, execution, schedule, active, runLease, runs>>

\* create_strategy_observation_candidates: what exists already is left as it is.
CreateObservations(w) ==
  runs' = [runs EXCEPT ![pass[w].run].observed = TRUE]

\* The last pass may have published a run and ended before it was observed.
RecoverObservations(w) ==
  /\ PassAt(w, "recover") /\ MayCall(w) /\ CreateObservations(w)
  /\ pass' = [pass EXCEPT ![w].pc = IF pass[w].skip THEN "finish" ELSE "prepare",
                          ![w].run = 0, ![w].skip = FALSE]
  /\ UNCHANGED <<today, execution, schedule, active, runLease>>

Observe(w) ==
  /\ PassAt(w, "observe") /\ MayCall(w) /\ HoldsSchedule(w) /\ CreateObservations(w)
  /\ pass' = [pass EXCEPT ![w].pc = "finish", ![w].run = 0]
  /\ UNCHANGED <<today, execution, schedule, active, runLease>>

\* A step of the day failed, or the data are not good enough.
AbandonDay(w) ==
  /\ pass[w].pc \in {"prepare", "observe"}
  /\ pass' = [pass EXCEPT ![w].pc = "finish", ![w].run = 0]
  /\ UNCHANGED <<today, execution, schedule, active, runLease, runs>>

\* A pass that is told to stop leaves the schedule due.
FinishClaim(w) ==
  /\ PassAt(w, "finish") /\ MayCall(w) /\ HoldsSchedule(w)
  /\ \E due \in {schedule.due, FALSE} : schedule' = [NotDue EXCEPT !.due = due]
  /\ GoTo(w, "release")
  /\ UNCHANGED <<today, execution, active, runLease, runs>>

\* A call that is refused or fails ends the turn; a claim stays until it lapses.
Refused(w) ==
  /\ pass[w].pc \in {"reconcile", "check", "recover", "prepare", "observe", "finish"}
  /\ pass' = [pass EXCEPT ![w] = [Resting EXCEPT !.pc = "release"]]
  /\ UNCHANGED <<today, execution, schedule, active, runLease, runs>>

ReleaseExecution(w) ==
  /\ PassAt(w, "release") /\ pass' = [pass EXCEPT ![w] = Resting]
  /\ execution' = IF MayCall(w) THEN NotHeld ELSE execution
  /\ UNCHANGED <<today, schedule, active, runLease, runs>>

-----------------------------------------------------------------------------
(* Around the passes.                                                      *)

\* What a dead process held stays held, by nobody, until it lapses.
Crash(a) ==
  LET Orphaned(lease) == IF lease.owner = a THEN [lease EXCEPT !.owner = NoOne] ELSE lease
  IN  /\ ~PassAt(a, "idle") /\ pass' = [pass EXCEPT ![a] = Resting]
      /\ execution' = Orphaned(execution) /\ schedule' = Orphaned(schedule)
      /\ runLease' = Orphaned(runLease) /\ UNCHANGED <<today, active, runs>>

\* The holder stalls, or is no more.
LapseExecution ==
  /\ execution.live /\ execution' = NotHeld
  /\ UNCHANGED <<today, schedule, active, runLease, runs, pass>>

LapseSchedule ==
  /\ schedule.live /\ schedule' = [NotDue EXCEPT !.due = schedule.due]
  /\ UNCHANGED <<today, execution, active, runLease, runs, pass>>

LapseRunLease ==
  /\ runLease.live /\ runLease' = [runLease EXCEPT !.live = FALSE]
  /\ UNCHANGED <<today, execution, schedule, active, runs, pass>>

\* The schedule falls due, which may be more often than once a day.
Occurs ==
  /\ ~schedule.due /\ schedule' = [schedule EXCEPT !.due = TRUE]
  /\ UNCHANGED <<today, execution, active, runLease, runs, pass>>

Toggle ==
  /\ active' = ~active
  /\ UNCHANGED <<today, execution, schedule, runLease, runs, pass>>

\* A user saves the schedule anew: whoever held it has lost it.
Reschedule ==
  /\ schedule' = NotDue
  /\ UNCHANGED <<today, execution, active, runLease, runs, pass>>

\* Passes begin after the close only: no lease of one day lives on the next.
NextDay ==
  /\ today < MaxDays /\ today' = today + 1
  /\ ~execution.live /\ ~schedule.live /\ ~runLease.live
  /\ UNCHANGED <<execution, schedule, active, runLease, runs, pass>>

PassStep(w) ==
  \/ AcquireExecution(w) \/ SweepStale(w) \/ FailStale(w) \/ ReleaseStale(w)
  \/ ClaimSchedule(w) \/ CheckDay(w) \/ RecoverObservations(w)
  \/ CallRunStrategy(w) \/ Observe(w) \/ AbandonDay(w) \/ FinishClaim(w)
  \/ ~(MayCall(w) /\ HoldsSchedule(w)) /\ Refused(w)
  \/ ReleaseExecution(w)

RunStep(a) ==
  \/ AcquireRunLease(a) \/ SaveStartedRun(a) \/ Judge(a) \/ AuthorizeCommit(a)
  \/ CommitRun(a) \/ Unlock(a)
  \/ ~(active /\ HoldsRunLease(a) /\ (a \in Passers => MayCall(a))) /\ GiveUpRunning(a)

StrategySteps ==
  \/ \E w \in Passers : PassStep(w)
  \/ \E u \in Persons : RunByHand(u)
  \/ \E a \in Actors : RunStep(a)
  \/ Occurs \/ NextDay

\* What goes wrong, or comes between.
StrategyFaults ==
  \/ \E w \in Passers : Refused(w)
  \/ \E a \in Actors : GiveUpRunning(a) \/ Crash(a)
  \/ LapseExecution \/ LapseSchedule \/ LapseRunLease \/ Toggle \/ Reschedule

StrategyNext == StrategySteps \/ StrategyFaults

StrategySpec == StrategyInit /\ [][StrategyNext]_strategyVars

-----------------------------------------------------------------------------
(* Properties.                                                             *)

\* However passes stall, die and take over from each other, a day gets one
\* scheduled run that is published, and a published run is observed before a
\* later day publishes another: its signals are never left behind.
OneObservedRunPerDay ==
  \A r, q \in Formal \cap Published :
    /\ runs[r].day = runs[q].day => r = q
    /\ runs[r].day < runs[q].day => runs[r].observed

\* The signals of a published run follow from all that was published before it:
\* no run is published between the moment they are judged and their own
\* publication, whoever ran it and however late it comes.
SignalsFollowTheLast == [][\A a \in Actors :
  PassAt(a, "commit") /\ ~PassAt(a, "commit")' /\ Published' # Published
    => pass[a].seen = Cardinality(Published)]_strategyVars
=============================================================================
