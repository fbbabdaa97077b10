---------------------------- MODULE MCHostedOnce ----------------------------
(* Finite instances for TLC of what must happen once although it is tried     *)
(* again: orders and refunds at the provider of payments, and the run a       *)
(* strategy gets in a day.  The two share no variable; a behaviour is one of  *)
(* one of them, as "part" says.                                               *)
EXTENDS MCHostedPayments, StrategyPasses

CONSTANTS w1, w2, u1, MaxFaults

VARIABLES part, faults

onceVars == <<part, faults, paymentsVars, strategyVars>>

OnceInit ==
  /\ part \in {"payments", "strategy"} /\ faults = 0
  /\ PaymentsInit /\ StrategyInit

\* Bound of the passes: how much goes wrong.
OnceNext ==
  /\ UNCHANGED part
  /\ \/ part = "payments" /\ RivalNext /\ UNCHANGED <<faults, strategyVars>>
     \/ /\ part = "strategy" /\ UNCHANGED paymentsVars
        /\ \/ StrategySteps /\ UNCHANGED faults
           \/ StrategyFaults /\ faults < MaxFaults /\ faults' = faults + 1

OnceSpec == OnceInit /\ [][OnceNext]_onceVars

AlikeOnce == InterchangeableRefunds \cup Permutations({w1, w2})
=============================================================================
