---------------------------- MODULE MCHostedRaces ----------------------------
(* Finite instances for TLC of three components that share no variable: the   *)
(* sessions of the LLM meter, the workers that deliver a notification, and    *)
(* the tenants that want the worker's one slot.  A behaviour is one of one of *)
(* them, as "part" says.                                                      *)
EXTENDS HostedMeter, HostedDelivery, HostedJobs, TLC

CONSTANTS s1, s2, s3, i1, d1, d2, j1, j2

VARIABLE part

racesVars == <<part, meterVars, deliveryVars, jobsVars>>

ThreeSessions == [s \in {s1, s2, s3} |-> IF s = s3 THEN 2 ELSE 1]
TwoOperations == {1, 2}

\* Two tenants with one operation each: the first charges a unit, the second
\* is an alert job and charges none.
TwoTenants == {1, 2}
ByTenant == [j \in {j1, j2} |-> IF j = j1 THEN 1 ELSE 2]
TwoPeriods == {1, 2}
ByTenantPeriods == [p \in TwoPeriods |-> p]
UnitAndNone == [j \in {j1, j2} |-> IF j = j1 THEN 1 ELSE 0]
OneUnitPerPeriod == [p \in TwoPeriods |-> 1]

\* Bounds of the meter: any two of three sessions begin, of one operation or of
\* two; a job competes for the units of the two.
Bounded ==
  /\ \E s \in Sessions : session'[s].pc = "idle"
  /\ jobUnits' <= IF session[s3].pc = "idle" THEN 0 ELSE 1

\* Tenants, owners and periods stand still: the run asks only how claims turn.
TurnsMove == JobsNext /\ UNCHANGED tenancyVars

RacesInit ==
  /\ part \in {"meter", "delivery", "turns"} /\ MeterInit /\ DeliveryInit /\ JobsInit
  /\ part # "delivery" => provider = "smtp"
  /\ part # "turns" => \A p \in Periods : period[p] = "current"

RacesNext ==
  /\ UNCHANGED part
  /\ \/ part = "meter" /\ MeterNext /\ Bounded /\ UNCHANGED <<deliveryVars, jobsVars>>
     \/ part = "delivery" /\ DeliveryNext /\ UNCHANGED <<meterVars, jobsVars>>
     \/ part = "turns" /\ TurnsMove /\ UNCHANGED <<meterVars, deliveryVars>>

RacesSpec == RacesInit /\ [][RacesNext]_racesVars

Interchangeable == Permutations({s1, s2}) \cup Permutations({d1, d2})
=============================================================================
