--------------------------- MODULE OperationLedger ---------------------------
(***************************************************************************)
(* What the hosted service promises of a charged operation, seen from      *)
(* outside: its units are held when it is accepted; one result is produced *)
(* at most, and only while they are held; they are charged once, for a     *)
(* result that exists, and a partial result is free; they are given back   *)
(* only when there is no result to charge for.  A tenant that is being     *)
(* deleted forfeits its results, and with them the last rule.              *)
(***************************************************************************)
EXTENDS Naturals

CONSTANTS Operations, Tenants, TenantOf, Units

VARIABLES
  charge,   \* what became of an operation's units
  paid,     \* the units it was charged
  result,   \* the result it produced
  closing   \* tenants being deleted

ledger == <<charge, paid, result, closing>>

Closing(o) == TenantOf[o] \in closing

LedgerInit ==
  /\ charge = [o \in Operations |-> "none"]
  /\ paid = [o \in Operations |-> 0]
  /\ result = [o \in Operations |-> "none"]
  /\ closing = {}

Accept(o) ==
  /\ charge[o] = "none" /\ ~Closing(o)
  /\ charge' = [charge EXCEPT ![o] = "held"]
  /\ UNCHANGED <<paid, result, closing>>

Produce(o) ==
  /\ charge[o] = "held" /\ result[o] = "none"
  /\ \E r \in {"succeeded", "partial"} : result' = [result EXCEPT ![o] = r]
  /\ UNCHANGED <<charge, paid, closing>>

Capture(o) ==
  /\ charge[o] = "held" /\ result[o] # "none"
  /\ charge' = [charge EXCEPT ![o] = "captured"]
  /\ paid' = [paid EXCEPT ![o] = IF result[o] = "succeeded" THEN Units[o] ELSE 0]
  /\ UNCHANGED <<result, closing>>

\* Several operations may be given back at once, and together with the start
\* of a deletion.
GivenBack(S) ==
  /\ \A o \in S : charge[o] = "held" /\ (result[o] = "none" \/ Closing(o))
  /\ charge' = [o \in Operations |-> IF o \in S THEN "released" ELSE charge[o]]

Release(S) == GivenBack(S) /\ UNCHANGED <<paid, result, closing>>

Close(t, S) ==
  /\ GivenBack(S)
  /\ closing' = closing \cup {t}
  /\ UNCHANGED <<paid, result>>

\* The results of a tenant that is being deleted disappear with its database.
Erase(t) ==
  /\ t \in closing
  /\ result' = [o \in Operations |-> IF TenantOf[o] = t THEN "none" ELSE result[o]]
  /\ UNCHANGED <<charge, paid, closing>>

LedgerNext ==
  \/ \E o \in Operations : Accept(o) \/ Produce(o) \/ Capture(o)
  \/ \E S \in SUBSET Operations : Release(S) \/ \E t \in Tenants : Close(t, S)
  \/ \E t \in Tenants : Erase(t)

LedgerSpec == LedgerInit /\ [][LedgerNext]_ledger

=============================================================================
