--------------------------- MODULE MCHostedWaiting ---------------------------
(* Finite instances for TLC of three components that share no variable, for   *)
(* what must happen in the end: notifications and a deletion although workers *)
(* die, money although webhooks are lost, service although the gate was left  *)
(* shut.  A behaviour is one of one of them, as "part" says.                  *)
EXTENDS MCHostedPayments, HostedRestore, HostedDelivery

CONSTANTS i1, i2, d1, v1

VARIABLE part

waitingVars == <<part, paymentsVars, restoreVars, deliveryVars>>

\* Bounds of delivery: what suppresses every intent at once is left to
\* MCHostedRaces; the intents of one result are made together; the operator
\* clears registrations when a deletion waits for it.
DeliveryMoves ==
  /\ DeliveryNext /\ standing' # "suspended" /\ ~SavePreferences
  /\ CreateIntent(i2) => intent[i1].state = "pending"
  /\ leaked /\ ~leaked' => standing = "deleting"

\* Bounds of the gate: no owner logs out or is kept out, and what a restore would
\* undo is left out but for a deletion; MCHostedRecords has both.
Undone ==
  saved.complete /\ world.restores = 0 /\ Running("open")
    => control' = control \/ control'.account # "active"

GateMoves == RestoreNext /\ Undone /\ \A w \in Writers : ~LogOut(w) /\ ~DisableOwner(w)

WaitingInit ==
  part \in {"payments", "restore", "delivery"} /\ PaymentsInit /\ RestoreInit /\ DeliveryInit

WaitingNext ==
  /\ UNCHANGED part
  /\ \/ part = "payments" /\ MoneyMoves /\ UNCHANGED <<restoreVars, deliveryVars>>
     \/ part = "restore" /\ GateMoves /\ UNCHANGED <<paymentsVars, deliveryVars>>
     \/ part = "delivery" /\ DeliveryMoves /\ UNCHANGED <<paymentsVars, restoreVars>>

WaitingSpec ==
  /\ WaitingInit /\ [][WaitingNext]_waitingVars
  /\ \/ part = "payments" /\ WorkerFairness /\ ProviderFairness
     \/ part = "restore" /\ RestoreFairness
     \/ part = "delivery" /\ DeliveryFairness

\* Two e-mails, one worker, nothing else in the way.
StarvingSpec ==
  WaitingInit /\ part = "delivery" /\ [][WaitingNext]_waitingVars /\ DeliveryFairness
=============================================================================
