--------------------------- MODULE TenantExecution ---------------------------
(***************************************************************************)
(* The execution tables of the tenants' own databases: the saved request   *)
(* of an operation, its local execution lease, the receipt of its result   *)
(* and the result outbox.  Source: packages/db/src/hosted/                 *)
(* tenant-client.ts, one immediate transaction per method.                 *)
(*                                                                         *)
(* The local lease is fenced by a counter of its own, which advances with  *)
(* every local claim: the control plane and a tenant database share no     *)
(* transaction.  A request is written once per operation with the job's    *)
(* generation, so its presence stands for both; removing the tenant's      *)
(* directory removes all of its rows.                                      *)
(***************************************************************************)
EXTENDS Naturals

CONSTANTS
  Operations,   \* operation ids
  MaxLocalFence \* bound of the model: no local claim beyond this fence

ASSUME ExecutionAssumption == MaxLocalFence \in Nat

VARIABLES
  request,     \* operations whose execution request is saved
  localLease,  \* the execution lease of each operation
  receipt,     \* the status of the committed result, or "none"
  outbox       \* the result event of each operation

executionVars == <<request, localLease, receipt, outbox>>

NoLocalLease == [fence |-> 0, state |-> "none"]

ExecutionTypeOK ==
  /\ request \subseteq Operations
  /\ localLease \in [Operations -> [fence: Nat, state: {"none", "live", "lapsed"}]]
  /\ receipt \in [Operations -> {"none", "succeeded", "partial"}]
  /\ outbox \in [Operations -> {"none", "pending", "acknowledged"}]

ExecutionInit ==
  /\ request = {}
  /\ localLease = [o \in Operations |-> NoLocalLease]
  /\ receipt = [o \in Operations |-> "none"]
  /\ outbox = [o \in Operations |-> "none"]

Committed(o) == receipt[o] # "none"

\* putExecutionRequest; saving the same request again changes nothing.
PutExecutionRequest(o) ==
  /\ request' = request \cup {o}
  /\ UNCHANGED <<localLease, receipt, outbox>>

\* claimExecution answers completed, busy or claimed; only the last writes.
LocallyBusy(o) == localLease[o].state = "live"

ClaimExecution(o) ==
  /\ o \in request /\ ~Committed(o) /\ ~LocallyBusy(o)
  /\ localLease[o].fence < MaxLocalFence
  /\ localLease' = [localLease EXCEPT ![o] = [fence |-> @.fence + 1, state |-> "live"]]
  /\ UNCHANGED <<request, receipt, outbox>>

\* Mutant: any live lease will do.
LocalFenceLoosely(o, fence) == localLease[o].state = "live"

\* The test of renewExecution, of commitFactsReport and of
\* commitPersonalAlertEvaluation.
LocalFenceValid(o, fence) ==
  localLease[o].state = "live" /\ localLease[o].fence = fence

\* Both commits: the result, its receipt and its outbox event in one
\* transaction; a committed operation is replayed and nothing is written.
CommitResult(o, fence, result) ==
  /\ o \in request
  /\ IF Committed(o) THEN UNCHANGED <<receipt, outbox>>
     ELSE /\ LocalFenceValid(o, fence)
          /\ receipt' = [receipt EXCEPT ![o] = result]
          /\ outbox' = [outbox EXCEPT ![o] = "pending"]
  /\ UNCHANGED <<request, localLease>>

\* ackOutbox, unconditional for the event of the operation.
AckOutbox(o) ==
  /\ outbox' = [outbox EXCEPT ![o] = IF @ = "none" THEN "none" ELSE "acknowledged"]
  /\ UNCHANGED <<request, localLease, receipt>>

\* Time: a lease not renewed for 120 seconds lapses.
LocalLeaseLapses(o) ==
  /\ LocallyBusy(o)
  /\ localLease' = [localLease EXCEPT ![o].state = "lapsed"]
  /\ UNCHANGED <<request, receipt, outbox>>

\* removeTenant deletes the directory that holds the rows of these operations.
RemoveRows(S) ==
  /\ request' = request \ S
  /\ localLease' = [o \in Operations |-> IF o \in S THEN NoLocalLease ELSE localLease[o]]
  /\ receipt' = [o \in Operations |-> IF o \in S THEN "none" ELSE receipt[o]]
  /\ outbox' = [o \in Operations |-> IF o \in S THEN "none" ELSE outbox[o]]

=============================================================================
