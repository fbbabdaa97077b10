------------------------------ MODULE Purchase ------------------------------
(***************************************************************************)
(* What buying one service period means to its customer: money comes in,   *)
(* service is given at most once for it and never for an order that was    *)
(* paid back, and it is withdrawn for good only when money goes back.      *)
(* HostedPayments implements it order by order.                            *)
(***************************************************************************)
EXTENDS Naturals

CONSTANTS Orders, Price

VARIABLES
  money,     \* of each order, "due" or "received"
  service,   \* "none", "given" or "withdrawn"
  returned   \* what was paid back

purchaseVars == <<money, service, returned>>

PurchaseInit ==
  /\ money = [o \in Orders |-> "due"]
  /\ service = [o \in Orders |-> "none"]
  /\ returned = [o \in Orders |-> 0]

\* Service after a step that leaves n units paid back.
ServiceAfter(o, n) ==
  CASE service[o] = "none" -> {"none"} \cup (IF n = 0 THEN {"given"} ELSE {})
    [] service[o] = "given" -> (IF n > 0 THEN {"withdrawn"} ELSE {})
                               \cup (IF n = 0 \/ n < Price THEN {"given"} ELSE {})
    [] OTHER -> {"withdrawn"}

\* A payment or a refund becomes known.
Account(o) ==
  \E n \in returned[o] .. Price :
    /\ money' = [money EXCEPT ![o] = "received"]
    /\ returned' = [returned EXCEPT ![o] = n]
    /\ \E s \in ServiceAfter(o, n) : service' = [service EXCEPT ![o] = s]

PurchaseNext == \E o \in Orders : Account(o)

PurchaseSpec == PurchaseInit /\ [][PurchaseNext]_purchaseVars

=============================================================================
