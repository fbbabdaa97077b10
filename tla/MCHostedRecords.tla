--------------------------- MODULE MCHostedRecords ---------------------------
(* Finite instances for TLC of two components that share no variable, for     *)
(* whether what the databases say stays true: the units of operations that    *)
(* race, and a state that is restored in a world that has moved on.  A        *)
(* behaviour is one of one of them, as "part" says.                           *)
EXTENDS HostedJobs, HostedRestore, TLC

CONSTANTS j1, j2, v1, v2

VARIABLE part

recordsVars == <<part, jobsVars, restoreVars>>

\* One tenant, two operations of one unit, two periods.
OneTenant == {1}
OneTenantOf == [j \in {j1, j2} |-> 1]
TwoPeriods == {1, 2}
TwoPeriodsOwner == [p \in TwoPeriods |-> 1]
OneUnitEach == [j \in {j1, j2} |-> 1]
OneUnitPerPeriod == [p \in TwoPeriods |-> 1]

RecordsInit ==
  /\ part \in {"jobs", "restore"} /\ JobsInit /\ RestoreInit
  /\ part = "restore" => \A p \in Periods : period[p] = "current"

RecordsNext ==
  /\ UNCHANGED part
  /\ \/ part = "jobs" /\ JobsNext /\ UNCHANGED restoreVars
     \/ part = "restore" /\ RestoreNext /\ UNCHANGED jobsVars

RecordsSpec == RecordsInit /\ [][RecordsNext]_recordsVars

RestoredSpec == RecordsInit /\ part = "restore" /\ [][RecordsNext]_recordsVars

Interchangeable == Permutations({j1, j2}) \cup Permutations({v1, v2})
=============================================================================
