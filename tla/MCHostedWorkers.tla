--------------------------- MODULE MCHostedWorkers ---------------------------
(* Finite instances of HostedWorkers for TLC: one tenant, one period, one    *)
(* operation of one unit.                                                    *)
EXTENDS HostedWorkers, TLC

CONSTANTS j1, w1, w2

OneTenant == {1}
OnePeriod == {1}
OneTenantOf == [j \in {j1} |-> 1]
OnePeriodOwner == [p \in OnePeriod |-> 1]
OneUnit == [j \in {j1} |-> 1]
OneUnitPerPeriod == [p \in OnePeriod |-> 1]

Interchangeable == Permutations({w1, w2})
=============================================================================
