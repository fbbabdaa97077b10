-------------------------- MODULE MCHostedPayments --------------------------
(* Finite instances of HostedPayments for TLC. *)
EXTENDS HostedPayments, TLC

CONSTANTS o1, o2, o3, x1, x2, ref1, ref2, r1, r2, c1, c2

OneTenant == {1}
NoTrial == [t \in OneTenant |-> 0]
ShortTrial == [t \in OneTenant |-> 1]
OnePayer == [o \in Orders |-> 1]
AllPayFirst == [x \in Txns |-> o1]
OneMonth == [o \in Orders |-> 1]
OneOrTwoMonths == [o \in Orders |-> IF o = o1 THEN 2 ELSE 1]

\* What stands still in the runs that do not ask about it.
MoneyMoves == PaymentsNext /\ UNCHANGED <<clockVars, queued>>
MoneySpec == PaymentsInit /\ [][MoneyMoves]_paymentsVars
\* Bound: a second caller is about, and the request is expired, only before the
\* provider has told anything.
RivalsFirst == call'[c2].pc # "idle" \/ expired' # {} => told' = {}
RivalNext == PaymentsNext /\ RivalsFirst /\ UNCHANGED <<serving, now, queued>>
PeriodSpec == PaymentsInit /\ [][PaymentsNext /\ UNCHANGED expired]_paymentsVars

InterchangeableRefunds == Permutations({r1, r2})
=============================================================================
