-------------------------- MODULE MCHostedProcesses --------------------------
(* Finite instances for TLC of what two processes do to the leases of each    *)
(* other: the workers that share an operation, and the calls that share a     *)
(* quote, whichever process makes them.  The two share no variable; a         *)
(* behaviour is one of one of them, as "part" says.                           *)
EXTENDS MCHostedWorkers, MarketRequests

CONSTANTS c1, c2, c3, k1, k2

VARIABLE part

processesVars == <<part, workersVars, marketVars>>

\* Two batches want the same quotes in opposite orders, a third call one of them
\* alone.  The process of the second is the stricter one.
CrossedWants == [c \in {c1, c2, c3} |->
  IF c = c1 THEN <<k1, k2>> ELSE IF c = c2 THEN <<k2, k1>> ELSE <<k1>>]
TwoButOne == [c \in {c1, c2, c3} |-> IF c = c2 THEN 1 ELSE 2]
OneButTwo == [c \in {c1, c2, c3} |-> IF c = c2 THEN 2 ELSE 1]
TwoPagesOnce == [c \in {c1, c2, c3} |-> IF c = c1 THEN 2 ELSE 1]

\* Bound of the market: the third call comes when a lease has been lost or one of
\* the batches has ended, and while no second page is asked for.
Unhurried ==
  call'[c3].pc # "idle" =>
    /\ overran' # {} \/ \E c \in {c1, c2} : call'[c].pc = "end"
    /\ call'[c1].pages < 2

ProcessesInit == part \in {"workers", "market"} /\ WorkersInit /\ MarketInit

ProcessesNext ==
  /\ UNCHANGED part
  /\ \/ part = "workers" /\ WorkersNext /\ UNCHANGED marketVars
     \/ part = "market" /\ MarketNext /\ Unhurried /\ UNCHANGED workersVars

ProcessesSpec == ProcessesInit /\ [][ProcessesNext]_processesVars
=============================================================================
