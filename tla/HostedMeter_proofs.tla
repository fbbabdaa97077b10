-------------------------- MODULE HostedMeter_proofs --------------------------
(***************************************************************************)
(* Proofs about the metering of model calls: its types, what the sessions  *)
(* of one operation and the jobs of a period may spend together, that no   *)
(* request is served twice behind the ledger's back, and that an operation *)
(* is charged for a stored result and for nothing after it.                *)
(***************************************************************************)
EXTENDS HostedMeter, FunctionTheorems, FiniteSetTheorems, TLAPS

-----------------------------------------------------------------------------
(* The invariant.                                                          *)

\* The request of a session has an attempt that nobody can confirm but itself
\* (no answer saved) or an operator (only once the session is over).
Unsaved == {"readmit", "withdraw", "send", "refused", "stop", "save"}
Unsent == {"readmit", "withdraw", "send", "refused"}
Before == {"read", "reserve", "begin"}

SessionSound(s) ==
  /\ session[s].pc # "end" =>
       \A k \in Ordinals : k > session[s].made => attempt[<<s, k>>].state = "none"
  /\ session[s].pc \in Before =>
       session[s].made > 0 /\ attempt[Current(s)].state = "none"
  /\ session[s].pc \in Unsaved =>
       /\ session[s].made > 0 /\ attempt[Current(s)].state = "unknown"
       /\ receipt[<<Op(s), session[s].made>>] # Current(s)
  /\ session[s].pc \in Unsent => billed[Current(s)] = 0
  /\ session[s].pc = "confirm" =>
       session[s].made > 0 /\ receipt[<<Op(s), session[s].made>>] = Current(s)
  /\ session[s].pc \in {"replay", "settle"} => run[Op(s)].state = "completed"

\* An attempt counts what was reserved for it until its usage is known, and
\* then what it was billed; only an answer that was saved, or an operator,
\* makes the usage of a billed attempt known.
AttemptSound(a) ==
  /\ attempt[a].state = "none" => attempt[a].cost = 0 /\ billed[a] = 0
  /\ attempt[a].state = "unknown" =>
       attempt[a].cost = Reserved /\ held[Op(a[1])].state = "held"
  /\ attempt[a].state = "confirmed" => attempt[a].cost = billed[a]
  /\ attempt[a].state # "none" => held[Op(a[1])].state # "none"
  /\ attempt[a].state = "confirmed" /\ billed[a] > 0 /\ a \notin byHand =>
       receipt[<<Op(a[1]), a[2]>>] = a

ReceiptSound(r) ==
  receipt[r] # NoAnswer =>
    /\ receipt[r] \in Keys /\ Op(receipt[r][1]) = r[1] /\ receipt[r][2] = r[2]
    /\ attempt[receipt[r]].state # "none"

OperationSound(o) ==
  /\ CostOf(o) <= Budget
  /\ held[o].state = "captured" /\ o \notin settledBy =>
       run[o].state = "completed" /\ run[o].capture

\* While the session that sent a request holds the run, no other session that
\* is past its admission owns the reservation.
Fenced(t, s) ==
  t # s /\ Op(s) = Op(t) /\ session[t].pc \in Unsaved /\ Holds(t) /\ session[s].pc \in Before
    => held[Op(t)].owner # s

\* A session that looked for an answer before it was saved cannot begin, or
\* the answer was saved late.
Overtaken(s) ==
  LET r == <<Op(s), session[s].made>> IN
  session[s].pc \in {"reserve", "begin"} /\ receipt[r] # NoAnswer
    => receipt[r] \in late \/ held[Op(s)].owner # s

\* Of two attempts of one request, one is confirmed at no cost, or is one of
\* the exceptions.
Harmless(a) ==
  (attempt[a].state = "confirmed" /\ billed[a] = 0) \/ a \in byHand \cup late
Twins(a, b) ==
  a # b /\ Op(a[1]) = Op(b[1]) /\ a[2] = b[2]
    /\ attempt[a].state # "none" /\ attempt[b].state # "none"
  => Harmless(a) \/ Harmless(b)

MeterInv ==
  /\ MeterTypeOK
  /\ \A s \in Sessions : SessionSound(s) /\ Overtaken(s)
  /\ \A a \in Keys : AttemptSound(a)
  /\ \A r \in Operations \X Ordinals : ReceiptSound(r)
  /\ \A o \in Operations : OperationSound(o)
  /\ \A s, t \in Sessions : Fenced(t, s)
  /\ \A a, b \in Keys : Twins(a, b)
  /\ Committed <= PeriodBudget
  /\ UnitsShared

-----------------------------------------------------------------------------
(* Sums.                                                                   *)

\* A sum of finitely many naturals is a natural.
LEMMA TotalType ==
  ASSUME NEW S, IsFiniteSet(S), NEW f \in [S -> Nat]
  PROVE  IsFiniteSet(UnitsOf(f)) /\ Total(f) \in Nat
<1> DEFINE block(x) == {x} \X (1 .. f[x])
           T == {block(x) : x \in S}
           g == [x \in S |-> block(x)]
<1>1. g \in Surjection(S, T)
  BY DEF Surjection
<1>2. IsFiniteSet(T)
  BY <1>1, FS_Surjection
<1>3. ASSUME NEW b \in T PROVE IsFiniteSet(b)
  <2>1. PICK x \in S : b = {x} \X (1 .. f[x])
    OBVIOUS
  <2>2. IsFiniteSet({x})
    BY FS_Singleton
  <2>3. f[x] \in Int /\ IsFiniteSet(1 .. f[x])
    BY FS_Interval
  <2> QED
    BY <2>1, <2>2, <2>3, FS_Product
<1>4. UnitsOf(f) = UNION T
  BY DEF UnitsOf
<1>5. IsFiniteSet(UNION T)
  <2> HIDE DEF T
  <2> QED
    BY <1>2, <1>3, FS_UNION
<1> QED
  BY <1>4, <1>5, FS_CardinalityType DEF Total

\* A sum grows with its terms and with the terms it adds.
LEMMA TotalMonotone ==
  ASSUME NEW S, NEW R, IsFiniteSet(R), NEW f \in [S -> Nat], NEW g \in [R -> Nat],
         \A x \in S : f[x] = 0 \/ (x \in R /\ f[x] <= g[x])
  PROVE  Total(f) <= Total(g)
<1>1. IsFiniteSet(UnitsOf(g))
  BY TotalType
<1>2. UnitsOf(f) \subseteq UnitsOf(g)
  <2> SUFFICES ASSUME NEW x \in S, NEW i \in 1 .. f[x] PROVE <<x, i>> \in UnitsOf(g)
    BY DEF UnitsOf
  <2>1. f[x] \in Nat /\ f[x] # 0
    OBVIOUS
  <2>2. x \in R /\ g[x] \in Nat /\ i \in 1 .. g[x]
    BY <2>1
  <2> QED
    BY <2>2 DEF UnitsOf
<1> QED
  BY <1>1, <1>2, FS_Subset DEF Total

\* Where one term changes or is added, the sum grows by that term at most.
LEMMA TotalRaised ==
  ASSUME NEW S, NEW R, NEW y \in R, R \subseteq S \cup {y}, IsFiniteSet(S),
         NEW f \in [S -> Nat], NEW g \in [R -> Nat],
         \A x \in R : x = y \/ g[x] <= f[x]
  PROVE  Total(g) <= Total(f) + g[y]
<1> DEFINE B == {y} \X (1 .. g[y])
<1>1. IsFiniteSet(UnitsOf(f)) /\ Total(f) \in Nat
  BY TotalType
<1>2. g[y] \in Nat /\ IsFiniteSet(1 .. g[y]) /\ Cardinality(1 .. g[y]) = g[y]
  BY FS_Interval
<1>3. IsFiniteSet({y}) /\ Cardinality({y}) = 1
  BY FS_Singleton
<1>4. IsFiniteSet(B) /\ Cardinality(B) = g[y]
  <2>1. IsFiniteSet(B) /\ Cardinality(B) = Cardinality({y}) * Cardinality(1 .. g[y])
    BY <1>2, <1>3, FS_Product
  <2> QED
    BY <1>2, <1>3, <2>1
<1>5. UnitsOf(g) \subseteq UnitsOf(f) \cup B
  <2> SUFFICES ASSUME NEW x \in R, NEW i \in 1 .. g[x], x # y PROVE <<x, i>> \in UnitsOf(f)
    BY DEF UnitsOf
  <2>1. x \in S /\ f[x] \in Nat /\ g[x] \in Nat /\ g[x] <= f[x]
    OBVIOUS
  <2> QED
    BY <2>1 DEF UnitsOf
<1>6. /\ IsFiniteSet(UnitsOf(f) \cup B)
      /\ Cardinality(UnitsOf(f) \cup B)
           = Cardinality(UnitsOf(f)) + Cardinality(B) - Cardinality(UnitsOf(f) \cap B)
  <2> HIDE DEF B
  <2> QED
    BY <1>1, <1>4, FS_Union
<1>7. Cardinality(UnitsOf(f) \cap B) \in Nat
  <2> HIDE DEF B
  <2> QED
    BY <1>1, FS_Intersection, FS_CardinalityType
<1>8. Cardinality(UnitsOf(g)) <= Cardinality(UnitsOf(f) \cup B) /\ Cardinality(UnitsOf(g)) \in Nat
  <2> HIDE DEF B
  <2> QED
    BY <1>5, <1>6, FS_Subset, FS_CardinalityType
<1> HIDE DEF B
<1> QED
  BY <1>1, <1>2, <1>4, <1>6, <1>7, <1>8 DEF Total

\* A sum taken group by group: where each group stays within its share, the
\* whole stays within the sum of the shares.
LEMMA TotalByGroup ==
  ASSUME NEW S, NEW G, IsFiniteSet(S), IsFiniteSet(G), NEW p \in [S -> G],
         NEW f \in [S -> Nat], NEW c \in [G -> Nat],
         \A o \in G : Total([x \in {y \in S : p[y] = o} |-> f[x]]) <= c[o]
  PROVE  Total(f) <= Total(c)
<1> DEFINE members(o) == {y \in S : p[y] = o}
           part(o) == [x \in members(o) |-> f[x]]
           size == [o \in G |-> Total(part(o))]
           pick == [o \in G |-> CHOOSE h : h \in Bijection(1 .. size[o], UnitsOf(part(o)))]
<1>1. ASSUME NEW o \in G
      PROVE  /\ IsFiniteSet(UnitsOf(part(o))) /\ size[o] \in Nat /\ size[o] <= c[o]
             /\ pick[o] \in Bijection(1 .. size[o], UnitsOf(part(o)))
  <2>1. IsFiniteSet(members(o))
    BY FS_Subset
  <2>2. part(o) \in [members(o) -> Nat]
    OBVIOUS
  <2>3. IsFiniteSet(UnitsOf(part(o))) /\ Total(part(o)) \in Nat
    <3> HIDE DEF members, part
    <3> QED
      BY <2>1, <2>2, TotalType
  <2>4. ExistsBijection(1 .. size[o], UnitsOf(part(o)))
    <3> HIDE DEF part
    <3> QED
      BY <2>3, FS_CardinalityType DEF Total
  <2>5. \E h : h \in Bijection(1 .. size[o], UnitsOf(part(o)))
    <3> HIDE DEF part, size
    <3> QED
      BY <2>4 DEF ExistsBijection
  <2>6. pick[o] \in Bijection(1 .. size[o], UnitsOf(part(o)))
    <3> HIDE DEF part, size
    <3> QED
      BY <2>5
  <2> QED
    BY <2>3, <2>6
<1>2. size \in [G -> Nat]
  BY <1>1
<1>3. IsFiniteSet(UnitsOf(size))
  <2> HIDE DEF size
  <2> QED
    BY <1>2, TotalType
<1>4. Total(size) <= Total(c)
  <2>1. \A o \in G : size[o] <= c[o]
    BY <1>1
  <2> HIDE DEF size
  <2> QED
    BY <1>2, <2>1, TotalMonotone
<1> DEFINE onto == [u \in UnitsOf(size) |-> pick[u[1]][u[2]]]
<1>5. onto \in Surjection(UnitsOf(size), UnitsOf(f))
  <2>1. ASSUME NEW u \in UnitsOf(size) PROVE onto[u] \in UnitsOf(f)
    <3> HIDE DEF size, pick, part
    <3>1. u[1] \in G /\ u[2] \in 1 .. size[u[1]]
      BY <1>2 DEF UnitsOf
    <3>2. pick[u[1]][u[2]] \in UnitsOf(part(u[1]))
      BY <1>1, <3>1 DEF Bijection, Injection
    <3>3. UnitsOf(part(u[1])) \subseteq UnitsOf(f)
      BY DEF UnitsOf, part
    <3> QED
      BY <3>2, <3>3
  <2>2. ASSUME NEW v \in UnitsOf(f) PROVE \E u \in UnitsOf(size) : onto[u] = v
    <3>1. PICK x \in S : \E i \in 1 .. f[x] : v = <<x, i>>
      BY DEF UnitsOf
    <3>2. p[x] \in G /\ v \in UnitsOf(part(p[x]))
      BY <3>1 DEF UnitsOf
    <3> HIDE DEF size, pick, part
    <3>3. PICK n \in 1 .. size[p[x]] : pick[p[x]][n] = v
      BY <1>1, <3>2 DEF Bijection, Surjection
    <3>4. <<p[x], n>> \in UnitsOf(size)
      BY <1>2, <3>2 DEF UnitsOf
    <3> QED
      BY <3>3, <3>4
  <2> HIDE DEF size, pick
  <2> QED
    BY <2>1, <2>2 DEF Surjection
<1>6. Total(f) <= Total(size)
  <2> HIDE DEF onto, size
  <2> QED
    BY <1>3, <1>5, FS_Surjection DEF Total
<1>7. Total(f) \in Nat /\ Total(size) \in Nat /\ Total(c) \in Nat
  <2> HIDE DEF size
  <2> QED
    BY <1>2, TotalType
<1> HIDE DEF size
<1> QED
  BY <1>4, <1>6, <1>7

-----------------------------------------------------------------------------
(* The model's operators.                                                  *)

LEMMA KeysFinite == IsFiniteSet(Keys) /\ IsFiniteSet(Operations) /\ Ordinals \subseteq Nat \ {0}
<1>1. Requests \in Int
  BY MeterAssumption
<1>2. IsFiniteSet(Ordinals)
  BY <1>1, FS_Interval DEF Ordinals
<1>3. IsFiniteSet(Sessions) /\ IsFiniteSet(Operations)
  BY MeterAssumption
<1>4. IsFiniteSet(Keys)
  BY <1>2, <1>3, FS_Product DEF Keys
<1>5. Ordinals \subseteq Nat \ {0}
  BY DEF Ordinals
<1> QED
  BY <1>3, <1>4, <1>5

LEMMA OpType == \A s \in Sessions : Op(s) \in Operations
BY MeterAssumption DEF Op

\* The cost of an operation is the sum of what its attempts count.
LEMMA CostType ==
  ASSUME MeterTypeOK, NEW o \in Operations
  PROVE  /\ AttemptsOf(o) \subseteq Keys /\ IsFiniteSet(AttemptsOf(o))
         /\ [a \in AttemptsOf(o) |-> attempt[a].cost] \in [AttemptsOf(o) -> Nat]
         /\ CostOf(o) \in Nat
         /\ ChargeOf(o) \in Nat /\ CostOf(o) <= ChargeOf(o)
<1>1. AttemptsOf(o) \subseteq Keys
  BY DEF AttemptsOf
<1>2. IsFiniteSet(AttemptsOf(o))
  BY <1>1, KeysFinite, FS_Subset
<1>3. \A a \in Keys : attempt[a].cost \in Nat
  BY MeterAssumption DEF MeterTypeOK
<1>4. [a \in AttemptsOf(o) |-> attempt[a].cost] \in [AttemptsOf(o) -> Nat]
  BY <1>1, <1>3
<1>5. CostOf(o) \in Nat
  BY <1>2, <1>4, TotalType DEF CostOf
<1> QED
  BY <1>1, <1>2, <1>4, <1>5, MeterAssumption DEF ChargeOf

Counted == SettledOps \cup HeldOps

LEMMA CommittedType ==
  ASSUME MeterTypeOK
  PROVE  /\ IsFiniteSet(Counted) /\ [o \in Counted |-> ChargeOf(o)] \in [Counted -> Nat]
         /\ Committed \in Nat
<1>1. Counted \subseteq Operations
  BY DEF Counted, SettledOps, HeldOps
<1>2. IsFiniteSet(Counted)
  BY <1>1, KeysFinite, FS_Subset
<1>3. [o \in Counted |-> ChargeOf(o)] \in [Counted -> Nat]
  BY <1>1, CostType
<1> QED
  BY <1>2, <1>3, TotalType DEF Committed, Counted

LEMMA CardTypes ==
  /\ IsFiniteSet(HeldOps) /\ IsFiniteSet(CapturedOps)
  /\ Cardinality(HeldOps) \in Nat /\ Cardinality(CapturedOps) \in Nat
<1>1. HeldOps \subseteq Operations /\ CapturedOps \subseteq Operations
  BY DEF HeldOps, CapturedOps
<1>2. IsFiniteSet(HeldOps) /\ IsFiniteSet(CapturedOps)
  BY <1>1, KeysFinite, FS_Subset
<1> QED
  BY <1>2, FS_CardinalityType

\* Where no attempt is added and none costs more, no operation costs more.
LEMMA CostFalls ==
  ASSUME MeterTypeOK, MeterTypeOK', NEW o \in Operations,
         \A a \in Keys : /\ attempt'[a].state # "none" => attempt[a].state # "none"
                         /\ attempt'[a].cost <= attempt[a].cost
  PROVE  CostOf(o)' <= CostOf(o) /\ CostOf(o)' \in Nat
<1> DEFINE f == [a \in AttemptsOf(o)' |-> attempt'[a].cost]
           g == [a \in AttemptsOf(o) |-> attempt[a].cost]
<1>1. AttemptsOf(o)' \subseteq AttemptsOf(o) /\ AttemptsOf(o) \subseteq Keys
  BY DEF AttemptsOf
<1>2. \A a \in Keys : attempt'[a].cost \in Nat
  BY MeterAssumption DEF MeterTypeOK
<1>3. f \in [AttemptsOf(o)' -> Nat]
  BY <1>1, <1>2
<1>4. IsFiniteSet(AttemptsOf(o)) /\ g \in [AttemptsOf(o) -> Nat]
  BY CostType
<1>5. \A a \in AttemptsOf(o)' : a \in AttemptsOf(o) /\ f[a] <= g[a]
  BY <1>1
<1>6. Total(f) <= Total(g) /\ Total(f) \in Nat
  <2> SUFFICES ASSUME NEW S, S = AttemptsOf(o)', NEW h, h = f
               PROVE  Total(h) <= Total(g) /\ Total(h) \in Nat
    OBVIOUS
  <2>1. h \in [S -> Nat] /\ \A a \in S : a \in AttemptsOf(o) /\ h[a] <= g[a]
    BY <1>3, <1>5
  <2>2. IsFiniteSet(S)
    BY <1>1, <1>4, FS_Subset
  <2> HIDE DEF f, g
  <2> QED
    BY <1>4, <2>1, <2>2, TotalMonotone, TotalType
<1> QED
  BY <1>6 DEF CostOf

\* ... and where no reservation is added the period does not cost more.
LEMMA CommittedFalls ==
  ASSUME MeterTypeOK, MeterTypeOK',
         \A o \in Operations :
           /\ CostOf(o)' <= CostOf(o) /\ CostOf(o)' \in Nat
           /\ \/ held'[o].state = held[o].state
              \/ held[o].state = "held" /\ held'[o].state \in {"captured", "released"}
  PROVE  Committed' <= Committed /\ Committed' \in Nat
<1> DEFINE g == [o \in Counted |-> ChargeOf(o)]
<1>1. IsFiniteSet(Counted) /\ g \in [Counted -> Nat]
  BY CommittedType
<1>2. Counted' \subseteq Counted /\ Counted \subseteq Operations
  BY DEF Counted, SettledOps, HeldOps
<1>3. ASSUME NEW o \in Operations PROVE ChargeOf(o)' \in Nat /\ ChargeOf(o)' <= ChargeOf(o)
  <2>1. CostOf(o) \in Nat /\ Budget \in Nat
    BY CostType, MeterAssumption
  <2> QED
    BY <2>1 DEF ChargeOf
<1> SUFFICES ASSUME NEW S, S = Counted', NEW h, h = [o \in S |-> ChargeOf(o)']
             PROVE  Total(h) <= Total(g) /\ Total(h) \in Nat
  BY DEF Committed, Counted
<1>4. h \in [S -> Nat] /\ \A o \in S : o \in Counted /\ h[o] <= g[o]
  BY <1>2, <1>3
<1>5. IsFiniteSet(S)
  BY <1>1, <1>2, FS_Subset
<1> HIDE DEF g
<1> QED
  BY <1>1, <1>4, <1>5, TotalMonotone, TotalType

-----------------------------------------------------------------------------
(* Types.                                                                  *)

SessionType == [pc : PCs, made : 0 .. Requests, broken : BOOLEAN, capture : BOOLEAN]

LEMMA GotoTyped ==
  ASSUME MeterTypeOK, NEW s \in Sessions, NEW pc \in PCs, Goto(s, pc)
  PROVE  /\ session' \in [Sessions -> SessionType]
         /\ session'[s] = IF pc = "end" THEN Over ELSE [session[s] EXCEPT !.pc = pc]
         /\ session'[s].pc = pc
         /\ pc # "end" => session'[s].made = session[s].made
         /\ \A t \in Sessions : t # s => session'[t] = session[t]
<1>1. session \in [Sessions -> SessionType]
  BY DEF MeterTypeOK, SessionType
<1>2. Over \in SessionType
  BY MeterAssumption DEF Over, SessionType, PCs
<1>3. [session[s] EXCEPT !.pc = pc] \in SessionType /\ [session[s] EXCEPT !.pc = pc].pc = pc
      /\ [session[s] EXCEPT !.pc = pc].made = session[s].made
  BY <1>1 DEF SessionType
<1>4. session' = [session EXCEPT ![s] = IF pc = "end" THEN Over ELSE [session[s] EXCEPT !.pc = pc]]
  BY DEF Goto
<1>5. Over.pc = "end"
  BY DEF Over
<1> QED
  BY <1>1, <1>2, <1>3, <1>4, <1>5

LEMMA CurrentType ==
  ASSUME MeterTypeOK, NEW s \in Sessions, session[s].made > 0
  PROVE  /\ session[s].made \in Ordinals /\ Current(s) \in Keys
         /\ <<Op(s), session[s].made>> \in Operations \X Ordinals
<1>1. session[s].made \in 0 .. Requests
  BY DEF MeterTypeOK
<1>2. session[s].made \in Ordinals
  BY <1>1, MeterAssumption DEF Ordinals
<1> QED
  BY <1>2, OpType DEF Keys, Current

LEMMA ConfirmedTyped ==
  ASSUME MeterTypeOK, NEW X
  PROVE  /\ Confirmed(X) \in
              [Keys -> [state : {"none", "unknown", "confirmed"}, cost : 0 .. Reserved]]
         /\ \A a \in Keys : Confirmed(X)[a] =
              IF a \in X /\ attempt[a].state = "unknown"
              THEN [state |-> "confirmed", cost |-> billed[a]] ELSE attempt[a]
BY DEF Confirmed, MeterTypeOK

LEMMA NothingConfirmed ==
  ASSUME MeterTypeOK
  PROVE  Confirmed({}) = attempt
BY DEF Confirmed, MeterTypeOK

HeldType ==
  [state : {"none", "held", "captured", "released"}, live : BOOLEAN, owner : Sessions \cup {NoOne}]

LEMMA SettlementTyped ==
  ASSUME MeterTypeOK, NEW o \in Operations, NEW c \in BOOLEAN, held' = Settlement(o, c)
  PROVE  /\ held' \in [Operations -> HeldType]
         /\ held'[o].state = (IF c THEN "captured" ELSE "released")
         /\ held'[o].owner = held[o].owner
         /\ \A p \in Operations : p # o => held'[p] = held[p]
<1>1. held \in [Operations -> HeldType]
  BY DEF MeterTypeOK, HeldType
<1> DEFINE row == [held[o] EXCEPT !.state = IF c THEN "captured" ELSE "released"]
<1>2. row \in HeldType /\ row.owner = held[o].owner
      /\ row.state = (IF c THEN "captured" ELSE "released")
  BY <1>1 DEF HeldType
<1>3. held' = [held EXCEPT ![o] = row]
  BY DEF Settlement
<1> HIDE DEF row
<1> QED
  BY <1>1, <1>2, <1>3

RunType ==
  [state : {"none", "running", "failed", "completed"}, live : BOOLEAN,
   owner : Sessions \cup {NoOne}, capture : BOOLEAN, count : 0 .. Requests]

LEMMA GiveUpTyped ==
  ASSUME MeterTypeOK, NEW s \in Sessions, GiveUpRun(s)
  PROVE  /\ run' \in [Operations -> RunType]
         /\ \A o \in Operations :
              \/ run'[o] = run[o]
              \/ run[o].state = "running" /\ run'[o].state = "failed" /\ ~run'[o].live
<1>1. run \in [Operations -> RunType] /\ Op(s) \in Operations
  BY OpType DEF MeterTypeOK, RunType
<1> DEFINE row == [run[Op(s)] EXCEPT !.state = "failed", !.live = FALSE]
<1>2. row \in RunType /\ row.state = "failed" /\ ~row.live
  BY <1>1 DEF RunType
<1>3. CASE Holds(s)
  <2>1. run' = [run EXCEPT ![Op(s)] = row] /\ run[Op(s)].state = "running"
    BY <1>3 DEF GiveUpRun, Holds
  <2> HIDE DEF row
  <2> QED
    BY <1>1, <1>2, <2>1
<1>4. CASE ~Holds(s)
  BY <1>1, <1>4 DEF GiveUpRun
<1> QED
  BY <1>3, <1>4

\* What a step leaves of the types: each variable it assigns is typed again.
LEMMA SessionStepTyped ==
  ASSUME MeterInv, NEW s \in Sessions, SessionStep(s)
  PROVE  MeterTypeOK'
<1> USE DEF MeterInv
<1>t. /\ MeterTypeOK /\ session \in [Sessions -> SessionType] /\ session[s] \in SessionType
      /\ run \in [Operations -> RunType] /\ held \in [Operations -> HeldType]
      /\ SessionSound(s) /\ Op(s) \in Operations
  BY OpType DEF MeterTypeOK, SessionType, RunType, HeldType
<1>g. ASSUME NEW pc \in PCs, Goto(s, pc)
      PROVE  session' \in [Sessions -> SessionType]
  BY <1>g, <1>t, GotoTyped
<1>b. ASSUME Break(s) PROVE session' \in [Sessions -> SessionType]
  <2> DEFINE row == [session[s] EXCEPT !.pc = "work", !.broken = TRUE]
  <2>1. row \in SessionType
    BY <1>t DEF SessionType, PCs
  <2>2. session' = [session EXCEPT ![s] = row]
    BY <1>b DEF Break
  <2> HIDE DEF row
  <2> QED
    BY <1>t, <2>1, <2>2
<1>h. /\ held' = held => held' \in [Operations -> HeldType]
      /\ run' = run => run' \in [Operations -> RunType]
      /\ session' = session => session' \in [Sessions -> SessionType]
      /\ \A X : attempt' = Confirmed(X) \/ attempt' = attempt =>
           attempt' \in [Keys -> [state : {"none", "unknown", "confirmed"}, cost : 0 .. Reserved]]
  BY <1>t, ConfirmedTyped DEF MeterTypeOK
<1>q. ASSUME session' \in [Sessions -> SessionType], run' \in [Operations -> RunType],
             held' \in [Operations -> HeldType],
             attempt' \in [Keys -> [state : {"none", "unknown", "confirmed"}, cost : 0 .. Reserved]],
             UNCHANGED <<receipt, entitled, jobUnits, billed, byHand, settledBy, late>>
      PROVE  MeterTypeOK'
  BY <1>q, <1>t DEF MeterTypeOK, SessionType, RunType, HeldType
<1>p. PCs = {"idle", "acquire", "control", "unlock", "work", "read", "reserve", "begin",
        "readmit", "withdraw", "send", "refused", "stop", "save", "confirm",
        "commit", "replay", "settle", "failing", "refund", "release", "relinquish",
        "end"}
  BY DEF PCs
<1>m. \A r \in SessionType : session' = [session EXCEPT ![s] = r] =>
        session' \in [Sessions -> SessionType]
  BY <1>t
<1>1. CASE Start(s)
  <2>1. session' \in [Sessions -> SessionType]
    <3>1. \E pc \in PCs : Goto(s, pc)
      BY <1>1, <1>p DEF Start
    <3> QED
      BY <3>1, <1>g
  <2> QED
    BY <1>1, <2>1, <1>h, <1>q DEF Start
<1>2. CASE Acquire(s)
  <2>1. session' \in [Sessions -> SessionType]
    <3>1. \E pc \in PCs : Goto(s, pc)
      BY <1>2, <1>p DEF Acquire
    <3> QED
      BY <3>1, <1>g
  <2>2. run' \in [Operations -> RunType]
    <3> DEFINE row == [state |-> "running", live |-> TRUE, owner |-> s, capture |-> FALSE, count |-> 0]
    <3>1. row \in RunType
      BY MeterAssumption DEF RunType
    <3>2. run' = [run EXCEPT ![Op(s)] = row] \/ run' = run
      BY <1>2 DEF Acquire
    <3> HIDE DEF row
    <3> QED
      BY <1>t, <3>1, <3>2
  <2> QED
    BY <1>2, <2>1, <2>2, <1>h, <1>q DEF Acquire
<1>3. CASE AcquireControl(s)
  <2>1. session' \in [Sessions -> SessionType]
    <3>1. \E pc \in PCs : Goto(s, pc)
      BY <1>3, <1>p DEF AcquireControl
    <3> QED
      BY <3>1, <1>g
  <2>2. held' \in [Operations -> HeldType]
    <3> DEFINE row == [held[Op(s)] EXCEPT !.owner = s, !.live = TRUE]
    <3>1. row \in HeldType
      BY <1>t DEF HeldType
    <3>2. held' = [held EXCEPT ![Op(s)] = row] \/ held' = held
      BY <1>3, <1>t DEF AcquireControl
    <3> HIDE DEF row
    <3> QED
      BY <1>t, <3>1, <3>2
  <2> QED
    BY <1>3, <2>1, <2>2, <1>h, <1>q DEF AcquireControl
<1>4. CASE Unlock(s)
  <2>1. session' \in [Sessions -> SessionType]
    BY <1>4, <1>g, <1>p DEF Unlock
  <2>2. run' \in [Operations -> RunType]
    BY <1>4, <1>t, GiveUpTyped DEF Unlock
  <2> QED
    BY <1>4, <2>1, <2>2, <1>h, <1>q DEF Unlock
<1>5. CASE Admit(s)
  <2>1. session' \in [Sessions -> SessionType]
    <3> DEFINE row == [session[s] EXCEPT !.pc = "read", !.made = session[s].made + 1]
    <3>1. row \in SessionType
      <4>1. session[s].made + 1 \in 0 .. Requests
        BY <1>5, <1>t, MeterAssumption DEF Admit, SessionType
      <4>2. "read" \in PCs
        BY DEF PCs
      <4> QED
        BY <4>1, <4>2, <1>t DEF SessionType
    <3>2. session' = [session EXCEPT ![s] = row] \/ Goto(s, "end")
      BY <1>5 DEF Admit
    <3> HIDE DEF row
    <3> QED
      BY <1>t, <3>1, <3>2, <1>g, <1>p
  <2> QED
    BY <1>5, <2>1, <1>h, <1>q DEF Admit
<1>6. CASE ReadReceipt(s)
  <2>1. session' \in [Sessions -> SessionType]
    <3>1. \E pc \in PCs : Goto(s, pc)
      BY <1>6, <1>p DEF ReadReceipt
    <3> QED
      BY <3>1, <1>g
  <2>2. \E X : attempt' = Confirmed(X) \/ attempt' = attempt
    BY <1>6 DEF ReadReceipt
  <2> QED
    BY <1>6, <2>1, <2>2, <1>h, <1>q DEF ReadReceipt
<1>7. CASE Reserve(s)
  <2>1. session' \in [Sessions -> SessionType]
    <3>1. \E pc \in PCs : Goto(s, pc)
      BY <1>7, <1>p DEF Reserve
    <3> QED
      BY <3>1, <1>g
  <2>2. held' \in [Operations -> HeldType]
    <3> DEFINE row == [state |-> "held", live |-> TRUE, owner |-> s]
    <3>1. row \in HeldType
      BY DEF HeldType
    <3>2. held' = [held EXCEPT ![Op(s)] = row] \/ held' = held
      BY <1>7 DEF Reserve
    <3> HIDE DEF row
    <3> QED
      BY <1>t, <3>1, <3>2
  <2> QED
    BY <1>7, <2>1, <2>2, <1>h, <1>q DEF Reserve
<1>8. CASE Begin(s)
  <2>1. session' \in [Sessions -> SessionType]
    <3>1. \E pc \in PCs : Goto(s, pc)
      BY <1>8, <1>p DEF Begin
    <3> QED
      BY <3>1, <1>g
  <2>2. attempt' \in [Keys -> [state : {"none", "unknown", "confirmed"}, cost : 0 .. Reserved]]
    <3> DEFINE row == [state |-> "unknown", cost |-> Reserved]
    <3>1. row \in [state : {"none", "unknown", "confirmed"}, cost : 0 .. Reserved]
      BY MeterAssumption
    <3>2. attempt' = [attempt EXCEPT ![Current(s)] = row] \/ attempt' = attempt
      BY <1>8 DEF Begin
    <3> HIDE DEF row
    <3> QED
      BY <1>t, <3>1, <3>2 DEF MeterTypeOK
  <2> QED
    BY <1>8, <2>1, <2>2, <1>h, <1>q DEF Begin
<1>9. CASE Readmit(s)
  <2>1. session' \in [Sessions -> SessionType]
    <3>1. \E pc \in PCs : Goto(s, pc)
      BY <1>9, <1>p DEF Readmit
    <3> QED
      BY <3>1, <1>g
  <2> QED
    BY <1>9, <2>1, <1>h, <1>q DEF Readmit
<1>10. CASE ConfirmAtNoCost(s)
  <2>1. session' \in [Sessions -> SessionType]
    BY <1>10, <1>g, <1>p DEF ConfirmAtNoCost
  <2> QED
    BY <1>10, <2>1, <1>h, <1>q DEF ConfirmAtNoCost
<1>11. CASE Send(s)
  <2>1. session' \in [Sessions -> SessionType]
    <3>1. Break(s) \/ \E pc \in PCs : Goto(s, pc)
      BY <1>11, <1>p DEF Send
    <3> QED
      BY <3>1, <1>g, <1>b
  <2>2. billed' \in [Keys -> 0 .. Reserved]
    BY <1>11, <1>t, MeterAssumption DEF Send, MeterTypeOK
  <2> QED
    BY <1>11, <2>1, <2>2, <1>t DEF Send, MeterTypeOK, SessionType
<1>12. CASE StopStream(s)
  <2>1. session' \in [Sessions -> SessionType]
    <3>1. \E pc \in PCs : Goto(s, pc)
      BY <1>12, <1>p DEF StopStream
    <3> QED
      BY <3>1, <1>g
  <2> QED
    BY <1>12, <2>1, <1>h, <1>q DEF StopStream
<1>13. CASE SaveReceipt(s)
  <2>1. session' \in [Sessions -> SessionType]
    <3>1. Break(s) \/ \E pc \in PCs : Goto(s, pc)
      BY <1>13, <1>p DEF SaveReceipt
    <3> QED
      BY <3>1, <1>g, <1>b
  <2>2. session[s].made > 0
    BY <1>13, <1>t DEF SaveReceipt, At, SessionSound, Unsaved
  <2>3. Current(s) \in Keys
    BY <2>2, <1>t, CurrentType
  <2>4. receipt' \in [Operations \X Ordinals -> Keys \cup {NoAnswer}]
    <3>1. \E r : receipt' = [receipt EXCEPT ![r] = Current(s)] \/ receipt' = receipt
      BY <1>13 DEF SaveReceipt
    <3> QED
      BY <1>t, <2>3, <3>1 DEF MeterTypeOK
  <2>5. late' \subseteq Keys
    <3>1. late' = late \/ late' = late \cup {Current(s)}
      BY <1>13 DEF SaveReceipt
    <3> QED
      BY <1>t, <2>3, <3>1 DEF MeterTypeOK
  <2> QED
    BY <1>13, <2>1, <2>4, <2>5, <1>t DEF SaveReceipt, MeterTypeOK, SessionType
<1>14. CASE ConfirmUsage(s)
  <2>1. session' \in [Sessions -> SessionType]
    BY <1>14, <1>g, <1>p DEF ConfirmUsage
  <2> QED
    BY <1>14, <2>1, <1>h, <1>q DEF ConfirmUsage
<1>15. CASE Finish(s)
  <2>1. PICK c \in BOOLEAN : session' = [session EXCEPT ![s].pc = "commit", ![s].capture = c]
    BY <1>15 DEF Finish
  <2>2. session' \in [Sessions -> SessionType]
    <3> DEFINE row == [session[s] EXCEPT !.pc = "commit", !.capture = c]
    <3>1. row \in SessionType
      BY <1>t DEF SessionType, PCs
    <3>2. session' = [session EXCEPT ![s] = row]
      BY <2>1, <1>t
    <3> HIDE DEF row
    <3> QED
      BY <1>t, <3>1, <3>2
  <2> QED
    BY <1>15, <2>2, <1>h, <1>q DEF Finish
<1>16. CASE Commit(s)
  <2>1. session' \in [Sessions -> SessionType]
    <3>1. \E pc \in PCs : Goto(s, pc)
      BY <1>16, <1>p DEF Commit
    <3> QED
      BY <3>1, <1>g
  <2>2. run' \in [Operations -> RunType]
    <3> DEFINE row == [run[Op(s)] EXCEPT !.state = "completed", !.live = FALSE,
                          !.capture = session[s].capture, !.count = session[s].made]
    <3>1. row \in RunType
      BY <1>t DEF RunType, SessionType
    <3>2. run' = [run EXCEPT ![Op(s)] = row] \/ run' = run
      BY <1>16 DEF Commit
    <3> HIDE DEF row
    <3> QED
      BY <1>t, <3>1, <3>2
  <2> QED
    BY <1>16, <2>1, <2>2, <1>h, <1>q DEF Commit
<1>17. CASE ConfirmCached(s)
  <2>1. session' \in [Sessions -> SessionType]
    BY <1>17, <1>g, <1>p DEF ConfirmCached
  <2>2. \E X : attempt' = Confirmed(X) \/ attempt' = attempt
    BY <1>17 DEF ConfirmCached
  <2> QED
    BY <1>17, <2>1, <2>2, <1>h, <1>q DEF ConfirmCached
<1>18. CASE Settle(s)
  <2>1. session' \in [Sessions -> SessionType]
    BY <1>18, <1>g, <1>p DEF Settle
  <2>2. run[Op(s)].capture \in BOOLEAN
    BY <1>t DEF RunType
  <2>3. held' \in [Operations -> HeldType]
    BY <1>18, <1>t, <1>h, <2>2, SettlementTyped DEF Settle
  <2> QED
    BY <1>18, <2>1, <2>3, <1>h, <1>q DEF Settle
<1>19. CASE Fail(s)
  <2>1. session' \in [Sessions -> SessionType]
    BY <1>19, <1>g, <1>p DEF Fail
  <2> QED
    BY <1>19, <2>1, <1>h, <1>q DEF Fail
<1>20. CASE Failing(s)
  <2>1. session' \in [Sessions -> SessionType]
    <3>1. \E pc \in PCs : Goto(s, pc)
      BY <1>20, <1>p DEF Failing
    <3> QED
      BY <3>1, <1>g
  <2> QED
    BY <1>20, <2>1, <1>h, <1>q DEF Failing
<1>21. CASE Refund(s)
  <2>1. session' \in [Sessions -> SessionType]
    <3>1. \E pc \in PCs : Goto(s, pc)
      BY <1>21, <1>p DEF Refund
    <3> QED
      BY <3>1, <1>g
  <2>2. held' \in [Operations -> HeldType]
    BY <1>21, <1>t, <1>h, SettlementTyped DEF Refund
  <2> QED
    BY <1>21, <2>1, <2>2, <1>h, <1>q DEF Refund
<1>22. CASE ReleaseRun(s)
  <2>1. session' \in [Sessions -> SessionType]
    BY <1>22, <1>g, <1>p DEF ReleaseRun
  <2>2. run' \in [Operations -> RunType]
    BY <1>22, <1>t, GiveUpTyped DEF ReleaseRun
  <2> QED
    BY <1>22, <2>1, <2>2, <1>h, <1>q DEF ReleaseRun
<1>23. CASE ReleaseControl(s)
  <2>1. session' \in [Sessions -> SessionType]
    BY <1>23, <1>g, <1>p DEF ReleaseControl
  <2>2. held' \in [Operations -> HeldType]
    <3> DEFINE row == [held[Op(s)] EXCEPT !.live = FALSE]
    <3>1. row \in HeldType
      BY <1>t DEF HeldType
    <3>2. held' = [held EXCEPT ![Op(s)] = row] \/ held' = held
      BY <1>23, <1>t DEF ReleaseControl
    <3> HIDE DEF row
    <3> QED
      BY <1>t, <3>1, <3>2
  <2> QED
    BY <1>23, <2>1, <2>2, <1>h, <1>q DEF ReleaseControl
<1>24. CASE Crash(s)
  <2>1. session' \in [Sessions -> SessionType]
    BY <1>24, <1>g, <1>p DEF Crash
  <2> QED
    BY <1>24, <2>1, <1>h, <1>q DEF Crash
<1> QED
  BY <1>1, <1>2, <1>3, <1>4, <1>5, <1>6, <1>7, <1>8, <1>9, <1>10, <1>11, <1>12, <1>13,
     <1>14, <1>15, <1>16, <1>17, <1>18, <1>19, <1>20, <1>21, <1>22, <1>23, <1>24 DEF SessionStep

LEMMA ServiceStepTyped ==
  ASSUME MeterInv,
         (\E o \in Operations : ServiceStep(o)) \/ ChangeStanding \/ JobTakesUnit \/ JobReturnsUnit
  PROVE  MeterTypeOK'
<1>t. MeterTypeOK /\ run \in [Operations -> RunType] /\ held \in [Operations -> HeldType]
  BY DEF MeterInv, MeterTypeOK, RunType, HeldType
<1>1. ASSUME NEW o \in Operations, LapseRun(o) PROVE MeterTypeOK'
  <2> DEFINE row == [run[o] EXCEPT !.live = FALSE]
  <2>1. row \in RunType
    BY <1>t DEF RunType
  <2>2. run' = [run EXCEPT ![o] = row]
    BY <1>1, <1>t DEF LapseRun
  <2>3. run' \in [Operations -> RunType]
    <3> HIDE DEF row
    <3> QED
      BY <1>t, <2>1, <2>2
  <2> QED
    BY <1>1, <1>t, <2>3 DEF LapseRun, MeterTypeOK, RunType
<1>2. ASSUME NEW o \in Operations, LapseControl(o) PROVE MeterTypeOK'
  <2> DEFINE row == [held[o] EXCEPT !.live = FALSE]
  <2>1. row \in HeldType
    BY <1>t DEF HeldType
  <2>2. held' = [held EXCEPT ![o] = row]
    BY <1>2, <1>t DEF LapseControl
  <2>3. held' \in [Operations -> HeldType]
    <3> HIDE DEF row
    <3> QED
      BY <1>t, <2>1, <2>2
  <2> QED
    BY <1>2, <1>t, <2>3 DEF LapseControl, MeterTypeOK, HeldType
<1>3. ASSUME NEW o \in Operations, Reconcile(o) PROVE MeterTypeOK'
  <2>1. PICK a \in UnknownOf(o), c \in BOOLEAN :
          /\ attempt' = Confirmed({a}) /\ byHand' = byHand \cup {a}
          /\ \/ UNCHANGED <<held, settledBy>>
             \/ held' = Settlement(o, c) /\ settledBy' = settledBy \cup {o}
          /\ UNCHANGED <<session, run, receipt, entitled, jobUnits, billed, late>>
    BY <1>3 DEF Reconcile
  <2>2. a \in Keys
    BY DEF UnknownOf, AttemptsOf
  <2>3. attempt' \in [Keys -> [state : {"none", "unknown", "confirmed"}, cost : 0 .. Reserved]]
    BY <1>t, <2>1, ConfirmedTyped
  <2>4. held' \in [Operations -> HeldType]
    BY <1>t, <2>1, SettlementTyped
  <2> QED
    BY <1>t, <2>1, <2>2, <2>3, <2>4 DEF MeterTypeOK, HeldType
<1>4. CASE ChangeStanding
  BY <1>4, <1>t DEF ChangeStanding, MeterTypeOK
<1>5. CASE JobTakesUnit
  <2>1. Cardinality(HeldOps) \in Nat /\ Cardinality(CapturedOps) \in Nat /\ PlanUnits \in Nat
    BY CardTypes, MeterAssumption
  <2>2. jobUnits' \in 0 .. PlanUnits
    BY <1>5, <1>t, <2>1 DEF JobTakesUnit, AvailableUnits, MeterTypeOK
  <2> QED
    BY <1>5, <1>t, <2>2 DEF JobTakesUnit, MeterTypeOK
<1>6. CASE JobReturnsUnit
  <2>1. jobUnits' \in 0 .. PlanUnits
    BY <1>6, <1>t, MeterAssumption DEF JobReturnsUnit, MeterTypeOK
  <2> QED
    BY <1>6, <1>t, <2>1 DEF JobReturnsUnit, MeterTypeOK
<1> QED
  BY <1>1, <1>2, <1>3, <1>4, <1>5, <1>6 DEF ServiceStep

-----------------------------------------------------------------------------
(* Calm steps: those that confirm attempts, settle reservations and move   *)
(* sessions on, without a new attempt, answer, reservation or job.         *)

CalmSession(t, X) ==
  /\ session'[t].pc # "end" => session[t].pc # "end" /\ session'[t].made >= session[t].made
  /\ session'[t].pc \in Before =>
       /\ held'[Op(t)].owner = held[Op(t)].owner \/ held'[Op(t)].owner # t
       /\ \/ /\ session[t].pc \in Before /\ session'[t].made = session[t].made
             /\ (session[t].pc = "read" /\ session'[t].pc # "read") =>
                  receipt[<<Op(t), session[t].made>>] = NoAnswer
          \/ session'[t].made > session[t].made /\ session'[t].pc = "read" /\ Holds(t)
  /\ session'[t].pc \in Unsaved =>
       /\ session[t].pc \in Unsaved /\ session'[t].made = session[t].made
       /\ Current(t) \notin X /\ (Holds(t)' => Holds(t))
  /\ session'[t].pc \in Unsent =>
       session[t].pc \in Unsent /\ billed'[Current(t)] = billed[Current(t)]
  /\ session'[t].pc = "confirm" =>
       session[t].pc = "confirm" /\ session'[t].made = session[t].made
  /\ session'[t].pc \in {"replay", "settle"} => run'[Op(t)].state = "completed"

CalmOperation(o, X) ==
  /\ \/ held'[o].state = held[o].state
     \/ /\ held[o].state = "held" /\ held'[o].state \in {"captured", "released"}
        /\ UnknownOf(o) \subseteq X
  /\ run[o].state = "completed" => run'[o] = run[o]
  /\ held'[o].state = "captured" =>
       \/ held[o].state = "captured"
       \/ o \in settledBy'
       \/ run'[o].state = "completed" /\ run'[o].capture

CalmAttempt(a, X) ==
  /\ billed'[a] # billed[a] => attempt[a].state = "unknown" /\ a \notin X
  /\ (a \in X /\ attempt[a].state = "unknown") =>
       billed[a] = 0 \/ a \in byHand' \/ receipt[<<Op(a[1]), a[2]>>] = a

CalmStep(X) ==
  /\ attempt' = Confirmed(X) /\ UNCHANGED <<receipt, late, jobUnits>>
  /\ byHand \subseteq byHand' /\ settledBy \subseteq settledBy'
  /\ \A t \in Sessions : CalmSession(t, X)
  /\ \A o \in Operations : CalmOperation(o, X)
  /\ \A a \in Keys : CalmAttempt(a, X)

LEMMA CalmStepKeeps ==
  ASSUME MeterInv, MeterTypeOK', NEW X, CalmStep(X)
  PROVE  MeterInv'
<1> USE DEF MeterInv, CalmStep
<1>t. MeterTypeOK
  OBVIOUS
<1>a. \A a \in Keys :
        /\ attempt'[a] = IF a \in X /\ attempt[a].state = "unknown"
                         THEN [state |-> "confirmed", cost |-> billed[a]] ELSE attempt[a]
        /\ attempt[a].state \in {"none", "unknown", "confirmed"}
        /\ attempt'[a].state = "none" <=> attempt[a].state = "none"
        /\ billed[a] \in 0 .. Reserved /\ Reserved \in Nat
        /\ attempt[a].cost \in 0 .. Reserved /\ a[1] \in Sessions /\ Op(a[1]) \in Operations
        /\ a[2] \in Ordinals
  <2> TAKE a \in Keys
  <2>1. attempt'[a] = IF a \in X /\ attempt[a].state = "unknown"
                      THEN [state |-> "confirmed", cost |-> billed[a]] ELSE attempt[a]
    BY <1>t, ConfirmedTyped
  <2>2. /\ attempt[a] \in [state : {"none", "unknown", "confirmed"}, cost : 0 .. Reserved]
        /\ billed[a] \in 0 .. Reserved /\ Reserved \in Nat
    BY <1>t, MeterAssumption DEF MeterTypeOK
  <2>3. a[1] \in Sessions /\ a[2] \in Ordinals /\ Op(a[1]) \in Operations
    BY OpType DEF Keys
  <2> QED
    BY <2>1, <2>2, <2>3
<1>1. ASSUME NEW a \in Keys PROVE AttemptSound(a)'
  <2>0. AttemptSound(a) /\ CalmAttempt(a, X) /\ CalmOperation(Op(a[1]), X)
    BY <1>a
  <2>1. attempt'[a].state = "none" => attempt'[a].cost = 0 /\ billed'[a] = 0
    BY <1>a, <2>0 DEF AttemptSound, CalmAttempt
  <2>2. attempt'[a].state = "unknown" => attempt'[a].cost = Reserved /\ held'[Op(a[1])].state = "held"
    <3> SUFFICES ASSUME attempt'[a].state = "unknown"
                 PROVE  attempt'[a].cost = Reserved /\ held'[Op(a[1])].state = "held"
      OBVIOUS
    <3>1. attempt[a].state = "unknown" /\ a \notin X /\ attempt'[a] = attempt[a]
      <4>1. attempt'[a] = IF a \in X /\ attempt[a].state = "unknown"
                          THEN [state |-> "confirmed", cost |-> billed[a]] ELSE attempt[a]
        BY <1>a
      <4> QED
        BY <4>1
    <3>2. a \in UnknownOf(Op(a[1]))
      BY <3>1 DEF UnknownOf, AttemptsOf
    <3> QED
      BY <2>0, <3>1, <3>2 DEF AttemptSound, CalmOperation
  <2>n. /\ attempt'[a] = IF a \in X /\ attempt[a].state = "unknown"
                         THEN [state |-> "confirmed", cost |-> billed[a]] ELSE attempt[a]
        /\ attempt[a].state \in {"none", "unknown", "confirmed"}
    BY <1>a
  <2>3. attempt'[a].state = "confirmed" => attempt'[a].cost = billed'[a]
    BY <2>n, <2>0 DEF AttemptSound, CalmAttempt
  <2>4. attempt'[a].state # "none" => held'[Op(a[1])].state # "none"
    BY <1>a, <2>0 DEF AttemptSound, CalmOperation
  <2>5. attempt'[a].state = "confirmed" /\ billed'[a] > 0 /\ a \notin byHand' =>
          receipt'[<<Op(a[1]), a[2]>>] = a
    BY <2>n, <2>0 DEF AttemptSound, CalmAttempt
  <2> QED
    BY <2>1, <2>2, <2>3, <2>4, <2>5 DEF AttemptSound, Op
<1>2. ASSUME NEW r \in Operations \X Ordinals PROVE ReceiptSound(r)'
  BY <1>a DEF ReceiptSound, Op
<1>3. ASSUME NEW a \in Keys, NEW b \in Keys PROVE Twins(a, b)'
  <2>1. ASSUME NEW x \in Keys, Harmless(x) PROVE Harmless(x)'
    BY <1>a, <2>1 DEF Harmless, CalmAttempt
  <2> QED
    BY <1>a, <2>1 DEF Twins, Op
<1>4. ASSUME NEW o \in Operations PROVE CostOf(o)' <= CostOf(o) /\ CostOf(o)' \in Nat
  <2>1. ASSUME NEW a \in Keys
        PROVE  /\ attempt'[a].state # "none" => attempt[a].state # "none"
               /\ attempt'[a].cost <= attempt[a].cost
    <3>1. attempt[a].state = "unknown" => attempt[a].cost = Reserved
      BY DEF AttemptSound
    <3>2. /\ attempt'[a] = IF a \in X /\ attempt[a].state = "unknown"
                           THEN [state |-> "confirmed", cost |-> billed[a]] ELSE attempt[a]
          /\ billed[a] \in 0 .. Reserved /\ Reserved \in Nat /\ attempt[a].cost \in 0 .. Reserved
      BY <1>a
    <3> QED
      BY <3>1, <3>2
  <2> QED
    BY <1>t, <2>1, CostFalls
<1>5. ASSUME NEW o \in Operations PROVE OperationSound(o)'
  <2>1. CostOf(o)' <= Budget
    <3>1. CostOf(o) \in Nat /\ Budget \in Nat /\ CostOf(o) <= Budget
      BY <1>t, CostType, MeterAssumption DEF OperationSound
    <3> QED
      BY <1>4, <3>1
  <2>2. held'[o].state = "captured" /\ o \notin settledBy' => run'[o].state = "completed" /\ run'[o].capture
    <3>1. OperationSound(o) /\ CalmOperation(o, X)
      OBVIOUS
    <3> QED
      BY <3>1 DEF OperationSound, CalmOperation
  <2> QED
    BY <2>1, <2>2 DEF OperationSound
<1>6. Committed' <= PeriodBudget
  <2>1. Committed' <= Committed /\ Committed' \in Nat
    BY <1>t, <1>4, CommittedFalls DEF CalmOperation
  <2>2. Committed \in Nat /\ PeriodBudget \in Nat
    BY <1>t, CommittedType, MeterAssumption
  <2> QED
    BY <2>1, <2>2
<1>7. UnitsShared'
  <2> DEFINE U == HeldOps \cup CapturedOps
  <2>1. IsFiniteSet(HeldOps) /\ IsFiniteSet(CapturedOps) /\ HeldOps \cap CapturedOps = {}
    BY CardTypes DEF HeldOps, CapturedOps
  <2>2. Cardinality(U) = Cardinality(HeldOps) + Cardinality(CapturedOps) /\ IsFiniteSet(U)
    <3>1. Cardinality(HeldOps \cap CapturedOps) = 0
      BY <2>1, FS_EmptySet
    <3>2. Cardinality(U) = Cardinality(HeldOps) + Cardinality(CapturedOps)
                             - Cardinality(HeldOps \cap CapturedOps) /\ IsFiniteSet(U)
      BY <2>1, FS_Union
    <3> QED
      BY <3>1, <3>2, CardTypes
  <2> SUFFICES ASSUME NEW H, H = HeldOps', NEW C, C = CapturedOps'
               PROVE  Cardinality(H) + Cardinality(C) + jobUnits <= PlanUnits
    BY DEF UnitsShared
  <2>3. H \cup C \subseteq U /\ H \cap C = {}
    BY DEF HeldOps, CapturedOps, CalmOperation
  <2>4. IsFiniteSet(H \cup C) /\ Cardinality(H \cup C) <= Cardinality(U)
    BY <2>2, <2>3, FS_Subset
  <2>5. IsFiniteSet(H) /\ IsFiniteSet(C)
    BY <2>4, FS_Subset
  <2>6. Cardinality(H \cup C) = Cardinality(H) + Cardinality(C)
        /\ Cardinality(H) \in Nat /\ Cardinality(C) \in Nat
    <3>1. Cardinality(H \cap C) = 0
      BY <2>3, FS_EmptySet
    <3>2. Cardinality(H \cup C) = Cardinality(H) + Cardinality(C) - Cardinality(H \cap C)
      BY <2>5, FS_Union
    <3>3. Cardinality(H) \in Nat /\ Cardinality(C) \in Nat
      BY <2>5, FS_CardinalityType
    <3> QED
      BY <3>1, <3>2, <3>3
  <2>7. jobUnits \in Nat /\ PlanUnits \in Nat /\ Cardinality(U) + jobUnits <= PlanUnits
        /\ Cardinality(U) \in Nat
    <3>1. jobUnits \in Nat /\ PlanUnits \in Nat
      BY <1>t, MeterAssumption DEF MeterTypeOK
    <3> QED
      BY <2>2, <3>1, CardTypes DEF UnitsShared
  <2> HIDE DEF U
  <2> QED
    BY <2>4, <2>6, <2>7
<1>8. ASSUME NEW s \in Sessions PROVE SessionSound(s)'
  <2>0. /\ SessionSound(s) /\ CalmSession(s, X) /\ CalmOperation(Op(s), X)
        /\ session[s].made \in 0 .. Requests /\ session'[s].made \in 0 .. Requests
    BY <1>t, OpType DEF MeterTypeOK
  <2>1. session'[s].pc # "end" =>
          \A k \in Ordinals : k > session'[s].made => attempt'[<<s, k>>].state = "none"
    <3> SUFFICES ASSUME session'[s].pc # "end", NEW k \in Ordinals, k > session'[s].made
                 PROVE  attempt'[<<s, k>>].state = "none"
      OBVIOUS
    <3>1. session[s].pc # "end" /\ k > session[s].made
      BY <2>0, KeysFinite, MeterAssumption DEF CalmSession
    <3>2. attempt[<<s, k>>].state = "none" /\ <<s, k>> \in Keys
      BY <2>0, <3>1 DEF SessionSound, Keys
    <3> QED
      BY <1>a, <3>2
  <2>2. session'[s].pc \in Before => session'[s].made > 0 /\ attempt'[Current(s)'].state = "none"
    <3> SUFFICES ASSUME session'[s].pc \in Before
                 PROVE  session'[s].made > 0 /\ attempt'[<<s, session'[s].made>>].state = "none"
      BY DEF Current
    <3>1. CASE session[s].pc \in Before /\ session'[s].made = session[s].made
      <4>1. session[s].made > 0 /\ attempt[Current(s)].state = "none" /\ Current(s) \in Keys
        BY <1>t, <2>0, <3>1, CurrentType DEF SessionSound
      <4> QED
        BY <1>a, <3>1, <4>1 DEF Current
    <3>2. CASE session'[s].made > session[s].made
      <4>1. session'[s].made \in Ordinals /\ session'[s].made > 0
        BY <2>0, <3>2, MeterAssumption DEF Ordinals
      <4>2. session[s].pc # "end" /\ <<s, session'[s].made>> \in Keys
        BY <2>0, <4>1 DEF CalmSession, Before, Keys
      <4>3. attempt[<<s, session'[s].made>>].state = "none"
        BY <2>0, <3>2, <4>1, <4>2 DEF SessionSound
      <4> QED
        BY <1>a, <4>1, <4>2, <4>3
    <3> QED
      BY <2>0, <3>1, <3>2 DEF CalmSession
  <2>3. session'[s].pc \in Unsaved =>
          /\ session'[s].made > 0 /\ attempt'[Current(s)'].state = "unknown"
          /\ receipt'[<<Op(s), session'[s].made>>] # Current(s)'
    <3> SUFFICES ASSUME session'[s].pc \in Unsaved
                 PROVE  /\ session'[s].made > 0 /\ attempt'[<<s, session'[s].made>>].state = "unknown"
                        /\ receipt[<<Op(s), session'[s].made>>] # <<s, session'[s].made>>
      BY DEF Current
    <3>1. /\ session[s].pc \in Unsaved /\ session'[s].made = session[s].made
          /\ Current(s) \notin X
      BY <2>0 DEF CalmSession
    <3>2. /\ session[s].made > 0 /\ attempt[Current(s)].state = "unknown" /\ Current(s) \in Keys
          /\ receipt[<<Op(s), session[s].made>>] # Current(s)
      BY <1>t, <2>0, <3>1, CurrentType DEF SessionSound
    <3>3. attempt'[Current(s)] = attempt[Current(s)]
      BY <1>a, <3>1, <3>2
    <3> QED
      BY <3>1, <3>2, <3>3 DEF Current
  <2>4. session'[s].pc \in Unsent => billed'[Current(s)'] = 0
    <3> SUFFICES ASSUME session'[s].pc \in Unsent
                 PROVE  billed'[<<s, session'[s].made>>] = 0
      BY DEF Current
    <3>1. session'[s].made = session[s].made
      BY <2>0 DEF CalmSession, Unsent, Unsaved
    <3> QED
      BY <2>0, <3>1 DEF CalmSession, SessionSound, Current
  <2>5. session'[s].pc = "confirm" =>
          session'[s].made > 0 /\ receipt'[<<Op(s), session'[s].made>>] = Current(s)'
    BY <2>0 DEF CalmSession, SessionSound, Current
  <2>6. session'[s].pc \in {"replay", "settle"} => run'[Op(s)].state = "completed"
    BY <2>0 DEF CalmSession
  <2> QED
    BY <2>1, <2>2, <2>3, <2>4, <2>5, <2>6 DEF SessionSound, Op
<1>9. ASSUME NEW s \in Sessions PROVE Overtaken(s)'
  <2> SUFFICES ASSUME session'[s].pc \in {"reserve", "begin"},
                      receipt[<<Op(s), session'[s].made>>] # NoAnswer
               PROVE  \/ receipt[<<Op(s), session'[s].made>>] \in late
                      \/ held'[Op(s)].owner # s
    BY DEF Overtaken, Op
  <2>1. Overtaken(s) /\ CalmSession(s, X) /\ session'[s].pc \in Before
    BY DEF Before
  <2>2. session[s].pc \in {"reserve", "begin"} /\ session'[s].made = session[s].made
    BY <2>1 DEF CalmSession, Before
  <2> QED
    BY <2>1, <2>2 DEF CalmSession, Overtaken
<1>10. ASSUME NEW s \in Sessions, NEW t \in Sessions PROVE Fenced(t, s)'
  <2> SUFFICES ASSUME t # s, Op(s) = Op(t), session'[t].pc \in Unsaved, Holds(t)',
                      session'[s].pc \in Before
               PROVE  held'[Op(t)].owner # s
    BY DEF Fenced, Op
  <2>1. Fenced(t, s) /\ CalmSession(t, X) /\ CalmSession(s, X)
    OBVIOUS
  <2>2. session[t].pc \in Unsaved /\ Holds(t)
    BY <2>1 DEF CalmSession
  <2>3. session[s].pc \in Before
    BY <2>1, <2>2 DEF CalmSession, Holds
  <2> QED
    BY <2>1, <2>2, <2>3 DEF CalmSession, Fenced
<1> QED
  BY <1>1, <1>2, <1>3, <1>5, <1>6, <1>7, <1>8, <1>9, <1>10

\* The sessions that do not move stay calm, whatever the movers do to the
\* leases of the operation, to their own attempts and to those whose answer is
\* saved.
LEMMA OthersAreCalm ==
  ASSUME MeterInv, NEW M, NEW X,
         \A t \in Sessions : t \notin M => session'[t] = session[t],
         \A o \in Operations :
           /\ held'[o].owner \in {held[o].owner} \cup M
           /\ \/ run'[o] = run[o]
              \/ run[o].state # "completed" /\ (~run'[o].live \/ run'[o].owner \in M),
         \A a \in Keys : a[1] \notin M => billed'[a] = billed[a],
         \A a \in X : a \in Keys /\ a[1] \notin M => receipt[<<Op(a[1]), a[2]>>] = a
  PROVE  \A t \in Sessions : t \notin M => CalmSession(t, X)
<1> SUFFICES ASSUME NEW t \in Sessions, t \notin M PROVE CalmSession(t, X)
  OBVIOUS
<1>1. /\ MeterTypeOK /\ SessionSound(t) /\ session'[t] = session[t] /\ Op(t) \in Operations
      /\ session[t].made \in Nat
  BY OpType, MeterAssumption DEF MeterInv, MeterTypeOK
<1>2. held'[Op(t)].owner = held[Op(t)].owner \/ held'[Op(t)].owner # t
  BY <1>1
<1>3. Holds(t)' => Holds(t)
  <2>1. Op(t)' = Op(t)
    BY DEF Op
  <2>2. run'[Op(t)] = run[Op(t)] \/ ~run'[Op(t)].live \/ run'[Op(t)].owner \in M
    BY <1>1
  <2> QED
    BY <2>1, <2>2 DEF Holds
<1>4. session[t].pc \in Unsaved => Current(t) \notin X /\ billed'[Current(t)] = billed[Current(t)]
  <2> SUFFICES ASSUME session[t].pc \in Unsaved
               PROVE  Current(t) \notin X /\ billed'[Current(t)] = billed[Current(t)]
    OBVIOUS
  <2>1. /\ Current(t) \in Keys /\ Current(t)[1] = t /\ Current(t)[2] = session[t].made
        /\ receipt[<<Op(t), session[t].made>>] # Current(t)
    BY <1>1, CurrentType DEF SessionSound, Current
  <2> QED
    BY <2>1
<1>5. session[t].pc \in {"replay", "settle"} => run'[Op(t)].state = "completed"
  BY <1>1 DEF SessionSound
<1>6. Unsent \subseteq Unsaved
  BY DEF Unsent, Unsaved
<1> QED
  BY <1>1, <1>2, <1>3, <1>4, <1>5, <1>6 DEF CalmSession

\* Where a session may go without a further thought.
Anywhere == {"acquire", "control", "unlock", "work", "commit", "failing", "refund",
             "release", "relinquish", "end"}

LEMMA MoverIsCalm ==
  ASSUME MeterInv, NEW s \in Sessions, NEW X, session[s].pc # "end",
         session'[s].pc \in Anywhere,
         session'[s].pc # "end" => session'[s].made = session[s].made
  PROVE  CalmSession(s, X)
<1>1. session[s].made \in Nat
  BY MeterAssumption DEF MeterInv, MeterTypeOK
<1> QED
  BY <1>1 DEF CalmSession, Anywhere, Before, Unsaved, Unsent

LEMMA OperationIsCalm ==
  ASSUME NEW o \in Operations, NEW X, held'[o].state = held[o].state,
         run[o].state = "completed" => run'[o] = run[o]
  PROVE  CalmOperation(o, X)
BY DEF CalmOperation

LEMMA NothingIsCalm ==
  ASSUME MeterTypeOK, UNCHANGED <<attempt, receipt, late, jobUnits, byHand, settledBy, billed>>
  PROVE  /\ attempt' = Confirmed({}) /\ UNCHANGED <<receipt, late, jobUnits>>
         /\ byHand \subseteq byHand' /\ settledBy \subseteq settledBy'
         /\ \A a \in Keys : CalmAttempt(a, {})
BY NothingConfirmed DEF CalmAttempt

LEMMA PlainMoveKeeps ==
  ASSUME MeterInv, MeterTypeOK', NEW s \in Sessions, session[s].pc # "end",
         NEW pc \in Anywhere, Goto(s, pc),
         UNCHANGED <<attempt, receipt, late, jobUnits, byHand, settledBy, billed>>,
         \A o \in Operations :
           /\ held'[o].owner \in {held[o].owner, s} /\ held'[o].state = held[o].state
           /\ \/ run'[o] = run[o]
              \/ run[o].state # "completed" /\ (~run'[o].live \/ run'[o].owner = s)
  PROVE  MeterInv'
<1>1. MeterTypeOK /\ pc \in PCs
  BY DEF MeterInv, Anywhere, PCs
<1>2. /\ session'[s].pc = pc /\ (pc # "end" => session'[s].made = session[s].made)
      /\ \A t \in Sessions : t # s => session'[t] = session[t]
  BY <1>1, GotoTyped
<1>3. CalmSession(s, {})
  BY <1>2, MoverIsCalm
<1>4. \A t \in Sessions : t # s => CalmSession(t, {})
  <2> DEFINE M == {s}
  <2>1. /\ \A t \in Sessions : t \notin M => session'[t] = session[t]
        /\ \A o \in Operations :
             /\ held'[o].owner \in {held[o].owner} \cup M
             /\ \/ run'[o] = run[o]
                \/ run[o].state # "completed" /\ (~run'[o].live \/ run'[o].owner \in M)
        /\ \A a \in Keys : a[1] \notin M => billed'[a] = billed[a]
    BY <1>2
  <2>2. \A t \in Sessions : t \notin M => CalmSession(t, {})
    <3> HIDE DEF M
    <3> QED
      BY <2>1, OthersAreCalm
  <2> QED
    BY <2>2
<1>5. \A o \in Operations : CalmOperation(o, {})
  BY OperationIsCalm
<1>6. CalmStep({})
  BY <1>1, <1>3, <1>4, <1>5, NothingIsCalm DEF CalmStep
<1> QED
  BY <1>6, CalmStepKeeps

\* A session that moves on among the states that depend on what it has begun,
\* read or committed.
LEMMA CarefulMoveKeeps ==
  ASSUME MeterInv, MeterTypeOK', NEW s \in Sessions,
         \A t \in Sessions : t # s => session'[t] = session[t],
         CalmSession(s, {}),
         UNCHANGED <<held, attempt, receipt, late, jobUnits, byHand, settledBy, billed>>,
         \A o \in Operations :
           \/ run'[o] = run[o]
           \/ run[o].state # "completed" /\ (~run'[o].live \/ run'[o].owner = s)
  PROVE  MeterInv'
<1>1. MeterTypeOK
  BY DEF MeterInv
<1>2. \A t \in Sessions : t # s => CalmSession(t, {})
  <2> DEFINE M == {s}
  <2>1. /\ \A t \in Sessions : t \notin M => session'[t] = session[t]
        /\ \A o \in Operations :
             /\ held'[o].owner \in {held[o].owner} \cup M
             /\ \/ run'[o] = run[o]
                \/ run[o].state # "completed" /\ (~run'[o].live \/ run'[o].owner \in M)
        /\ \A a \in Keys : a[1] \notin M => billed'[a] = billed[a]
    OBVIOUS
  <2>2. \A t \in Sessions : t \notin M => CalmSession(t, {})
    <3> HIDE DEF M
    <3> QED
      BY <2>1, OthersAreCalm
  <2> QED
    BY <2>2
<1>3. \A o \in Operations : CalmOperation(o, {})
  BY OperationIsCalm
<1>4. CalmStep({})
  BY <1>1, <1>2, <1>3, NothingIsCalm DEF CalmStep
<1> QED
  BY <1>4, CalmStepKeeps

-----------------------------------------------------------------------------
(* The steps that are not calm.                                            *)

LEMMA NoAnswerIsNoKey == NoAnswer \notin Keys
BY DEF NoAnswer, Keys

\* The reservation of an operation: nothing was attempted for it before.
LEMMA ReserveKeeps ==
  ASSUME MeterInv, MeterTypeOK', NEW s \in Sessions, At(s, "reserve"),
         held[Op(s)].state = "none", CanReserve,
         held' = [held EXCEPT ![Op(s)] = [state |-> "held", live |-> TRUE, owner |-> s]],
         Goto(s, "begin"),
         UNCHANGED <<run, attempt, receipt, entitled, jobUnits, billed, byHand, settledBy, late>>
  PROVE  MeterInv'
<1> USE DEF MeterInv
<1>t. /\ MeterTypeOK /\ Op(s) \in Operations /\ held \in [Operations -> HeldType]
      /\ "begin" \in PCs
  BY OpType DEF MeterTypeOK, HeldType, PCs
<1>h. /\ held'[Op(s)] = [state |-> "held", live |-> TRUE, owner |-> s]
      /\ \A o \in Operations : o # Op(s) => held'[o] = held[o]
  BY <1>t
<1>s. /\ session'[s].pc = "begin" /\ session'[s].made = session[s].made
      /\ \A t \in Sessions : t # s => session'[t] = session[t]
  BY <1>t, GotoTyped
<1>k. \A a \in Keys : a[1] \in Sessions /\ a[2] \in Ordinals /\ Op(a[1]) \in Operations
  BY OpType DEF Keys
<1>n. \A a \in Keys : Op(a[1]) = Op(s) => attempt[a].state = "none"
  BY <1>k DEF AttemptSound
<1>c. ASSUME NEW o \in Operations PROVE CostOf(o)' = CostOf(o)
  BY DEF CostOf, AttemptsOf, Op
<1>1. ASSUME NEW a \in Keys PROVE AttemptSound(a)'
  BY <1>h, <1>k, <1>n DEF AttemptSound, Op
<1>2. ASSUME NEW r \in Operations \X Ordinals PROVE ReceiptSound(r)'
  BY DEF ReceiptSound, Op
<1>3. ASSUME NEW a \in Keys, NEW b \in Keys PROVE Twins(a, b)'
  BY DEF Twins, Harmless, Op
<1>4. ASSUME NEW o \in Operations PROVE OperationSound(o)'
  <2>1. OperationSound(o)
    OBVIOUS
  <2> QED
    BY <2>1, <1>c, <1>h DEF OperationSound
<1>5. Committed' <= PeriodBudget
  <2> DEFINE f == [o \in Counted |-> ChargeOf(o)]
  <2>1. IsFiniteSet(Counted) /\ f \in [Counted -> Nat]
    BY <1>t, CommittedType
  <2>2. Counted' = Counted \cup {Op(s)} /\ Counted \subseteq Operations /\ Op(s) \notin Counted
    BY <1>t, <1>h DEF Counted, SettledOps, HeldOps
  <2>3. \A o \in Counted : ChargeOf(o)' = ChargeOf(o)
    BY <1>c, <1>h, <2>2 DEF ChargeOf
  <2>4. ChargeOf(Op(s))' = Budget
    <3> SUFFICES ASSUME NEW o \in Operations, o = Op(s) PROVE ChargeOf(o)' = Budget
      BY <1>t DEF Op
    <3>1. CostOf(o) <= Budget
      BY DEF OperationSound
    <3> QED
      BY <1>c, <1>h, <3>1 DEF ChargeOf
  <2> SUFFICES ASSUME NEW R, R = Counted', NEW g, g = [o \in R |-> ChargeOf(o)'],
                      NEW y, y = Op(s)
               PROVE  Total(g) <= PeriodBudget
    BY DEF Committed, Counted
  <2>5. /\ R \subseteq Counted \cup {y} /\ y \in R
        /\ \A x \in R : x = y \/ g[x] <= f[x]
    <3>1. \A x \in Counted : ChargeOf(x) \in Nat
      BY <1>t, <2>2, CostType
    <3> QED
      BY <2>2, <2>3, <3>1
  <2>6. g[y] = Budget /\ Budget \in Nat /\ PeriodBudget \in Nat
    <3>1. g[y] = ChargeOf(y)'
      BY <2>5
    <3>2. ChargeOf(y)' = Budget
      BY <2>4 DEF Op
    <3> QED
      BY <3>1, <3>2, MeterAssumption
  <2>7. g \in [R -> Nat]
    <3>1. \A x \in R : x = y \/ (x \in Counted /\ g[x] = ChargeOf(x))
      BY <2>2, <2>3
    <3>2. \A x \in R : g[x] \in Nat
      BY <2>6, <3>1, <2>2, <1>t, CostType
    <3> QED
      BY <3>2
  <2>8. Total(f) + Budget <= PeriodBudget
    BY DEF CanReserve, Committed, Counted
  <2>9. IsFiniteSet(R)
    BY <2>1, <2>2, FS_AddElement
  <2> HIDE DEF f
  <2>10. Total(g) <= Total(f) + g[y]
    BY <2>1, <2>5, <2>7, TotalRaised
  <2>11. Total(g) \in Nat /\ Total(f) \in Nat
    BY <2>1, <2>7, <2>9, TotalType
  <2> QED
    BY <2>6, <2>8, <2>10, <2>11
<1>6. UnitsShared'
  <2>1. HeldOps' = HeldOps \cup {Op(s)} /\ Op(s) \notin HeldOps /\ CapturedOps' = CapturedOps
    BY <1>t, <1>h DEF HeldOps, CapturedOps
  <2> SUFFICES ASSUME NEW H, H = HeldOps'
               PROVE  Cardinality(H) + Cardinality(CapturedOps) + jobUnits <= PlanUnits
    BY <2>1 DEF UnitsShared
  <2>2. Cardinality(H) = Cardinality(HeldOps) + 1
    BY <2>1, CardTypes, FS_AddElement
  <2>3. jobUnits \in Nat /\ PlanUnits \in Nat
    BY <1>t, MeterAssumption DEF MeterTypeOK
  <2> QED
    BY <2>2, <2>3, CardTypes DEF CanReserve, AvailableUnits
<1>7. ASSUME NEW t \in Sessions PROVE SessionSound(t)'
  <2>1. CASE t = s
    BY <2>1, <1>s DEF SessionSound, Current, Op, Before, Unsaved, Unsent, At
  <2>2. CASE t # s
    BY <2>2, <1>s DEF SessionSound, Current, Op
  <2> QED
    BY <2>1, <2>2
<1>8. ASSUME NEW t \in Sessions PROVE Overtaken(t)'
  <2>1. CASE Op(t) # Op(s)
    BY <2>1, <1>h, <1>s, OpType DEF Overtaken, Op
  <2>2. CASE Op(t) = Op(s)
    <3> SUFFICES ASSUME session'[t].pc \in {"reserve", "begin"},
                        receipt[<<Op(t), session'[t].made>>] # NoAnswer
                 PROVE  FALSE
      BY DEF Overtaken, Op
    <3>1. session'[t].made = session[t].made /\ session[t].pc \in Before
      BY <1>s DEF Before, At
    <3>2. session[t].made > 0
      BY <3>1 DEF SessionSound
    <3>3. <<Op(t), session[t].made>> \in Operations \X Ordinals
      BY <1>t, <3>2, CurrentType
    <3> DEFINE a == receipt[<<Op(t), session[t].made>>]
    <3>4. a \in Keys /\ Op(a[1]) = Op(s) /\ attempt[a].state # "none"
      BY <2>2, <3>1, <3>3 DEF ReceiptSound
    <3> QED
      BY <1>n, <3>4
  <2> QED
    BY <2>1, <2>2
<1>9. ASSUME NEW t \in Sessions, NEW u \in Sessions PROVE Fenced(t, u)'
  <2> SUFFICES ASSUME t # u, Op(u) = Op(t), session'[t].pc \in Unsaved, Holds(t),
                      session'[u].pc \in Before
               PROVE  held'[Op(t)].owner # u
    BY DEF Fenced, Op, Holds
  <2>1. t # s /\ session[t].pc \in Unsaved /\ session[u].pc \in Before
    BY <1>s DEF Unsaved, Before, At
  <2>2. Op(t) # Op(s)
    <3>1. attempt[Current(t)].state = "unknown" /\ Current(t) \in Keys /\ Current(t)[1] = t
      BY <1>t, <2>1, CurrentType DEF SessionSound, Current
    <3> QED
      BY <1>n, <3>1
  <2> QED
    BY <1>h, <2>1, <2>2, OpType DEF Fenced
<1> QED
  BY <1>1, <1>2, <1>3, <1>4, <1>5, <1>6, <1>7, <1>8, <1>9

\* An attempt begins when the usage of every other is known, and within the
\* budget that was reserved for the operation.
LEMMA BeginKeeps ==
  ASSUME MeterInv, MeterTypeOK', NEW s \in Sessions, At(s, "begin"), CanBegin(s),
         attempt' = [attempt EXCEPT ![Current(s)] = [state |-> "unknown", cost |-> Reserved]],
         Goto(s, "readmit"),
         UNCHANGED <<run, held, receipt, entitled, jobUnits, billed, byHand, settledBy, late>>
  PROVE  MeterInv'
<1> USE DEF MeterInv
<1>t. /\ MeterTypeOK /\ Op(s) \in Operations /\ "readmit" \in PCs
      /\ session[s].made > 0 /\ attempt[Current(s)].state = "none"
  BY OpType DEF MeterTypeOK, PCs, SessionSound, Before, At
<1>c. /\ Current(s) \in Keys /\ Current(s)[1] = s /\ Current(s)[2] = session[s].made
      /\ <<Op(s), session[s].made>> \in Operations \X Ordinals
  BY <1>t, CurrentType DEF Current
<1>h. /\ attempt'[Current(s)] = [state |-> "unknown", cost |-> Reserved]
      /\ \A a \in Keys : a # Current(s) => attempt'[a] = attempt[a]
  BY <1>t, <1>c DEF MeterTypeOK
<1>s. /\ session'[s].pc = "readmit" /\ session'[s].made = session[s].made
      /\ \A t \in Sessions : t # s => session'[t] = session[t]
  BY <1>t, GotoTyped
<1>k. \A a \in Keys : a[1] \in Sessions /\ a[2] \in Ordinals /\ Op(a[1]) \in Operations
  BY OpType DEF Keys
<1>o. held[Op(s)].state = "held" /\ held[Op(s)].owner = s /\ UnknownOf(Op(s)) = {}
      /\ CostOf(Op(s)) + Reserved <= Budget
  BY DEF CanBegin, Owns
<1>1. ASSUME NEW a \in Keys PROVE AttemptSound(a)'
  <2>1. CASE a = Current(s)
    BY <2>1, <1>h, <1>c, <1>o DEF AttemptSound, Op
  <2>2. CASE a # Current(s)
    BY <2>2, <1>h DEF AttemptSound, Op
  <2> QED
    BY <2>1, <2>2
<1>2. ASSUME NEW r \in Operations \X Ordinals PROVE ReceiptSound(r)'
  BY <1>h DEF ReceiptSound, Op
<1>x. ASSUME NEW x \in Keys, x # Current(s), Op(x[1]) = Op(s), x[2] = session[s].made,
             attempt[x].state # "none"
      PROVE  Harmless(x)'
  <2>1. attempt[x].state = "confirmed"
    <3>1. x \notin UnknownOf(Op(s))
      BY <1>o
    <3>2. attempt[x].state # "unknown"
      BY <3>1, <1>x DEF UnknownOf, AttemptsOf
    <3> QED
      BY <1>t, <1>x, <3>2 DEF MeterTypeOK
  <2>2. CASE billed[x] > 0 /\ x \notin byHand
    <3>1. receipt[<<Op(s), session[s].made>>] = x
      BY <1>x, <2>1, <2>2 DEF AttemptSound
    <3>2. x # NoAnswer
      BY NoAnswerIsNoKey
    <3>3. x \in late
      BY <1>o, <3>1, <3>2 DEF Overtaken, At
    <3> QED
      BY <3>3 DEF Harmless
  <2>3. CASE billed[x] = 0 \/ x \in byHand
    BY <1>h, <1>x, <2>1, <2>3 DEF Harmless
  <2>4. billed[x] \in Nat
    BY <1>t, MeterAssumption DEF MeterTypeOK
  <2> QED
    BY <2>2, <2>3, <2>4
<1>3. ASSUME NEW a \in Keys, NEW b \in Keys PROVE Twins(a, b)'
  <2> SUFFICES ASSUME a # b, Op(a[1]) = Op(b[1]), a[2] = b[2],
                      attempt'[a].state # "none", attempt'[b].state # "none"
               PROVE  Harmless(a)' \/ Harmless(b)'
    BY DEF Twins, Op
  <2>1. CASE a = Current(s)
    <3>1. b # Current(s) /\ Op(b[1]) = Op(s) /\ b[2] = session[s].made /\ attempt[b].state # "none"
      BY <2>1, <1>c, <1>h
    <3> QED
      BY <3>1, <1>x
  <2>2. CASE b = Current(s)
    <3>1. a # Current(s) /\ Op(a[1]) = Op(s) /\ a[2] = session[s].made /\ attempt[a].state # "none"
      BY <2>2, <1>c, <1>h
    <3> QED
      BY <3>1, <1>x
  <2>3. CASE a # Current(s) /\ b # Current(s)
    <3>1. attempt'[a] = attempt[a] /\ attempt'[b] = attempt[b]
      BY <2>3, <1>h
    <3>2. Harmless(a) \/ Harmless(b)
      BY <3>1 DEF Twins
    <3> QED
      BY <3>1, <3>2 DEF Harmless
  <2> QED
    BY <2>1, <2>2, <2>3
<1>4. ASSUME NEW o \in Operations
      PROVE  /\ CostOf(o)' \in Nat /\ CostOf(o)' <= Budget
             /\ o # Op(s) => CostOf(o)' = CostOf(o)
  <2>1. CASE o # Op(s)
    <3>1. \A a \in AttemptsOf(o) \cup AttemptsOf(o)' : a \in Keys /\ a # Current(s)
      BY <2>1, <1>c DEF AttemptsOf, Op
    <3>2. AttemptsOf(o)' = AttemptsOf(o)
      BY <3>1, <1>h DEF AttemptsOf, Op
    <3>3. [a \in AttemptsOf(o)' |-> attempt'[a].cost] = [a \in AttemptsOf(o) |-> attempt[a].cost]
      BY <3>1, <3>2, <1>h
    <3>4. CostOf(o)' = CostOf(o)
      BY <3>3 DEF CostOf
    <3> QED
      BY <1>t, <3>4, CostType DEF OperationSound
  <2>2. CASE o = Op(s)
    <3> DEFINE f == [a \in AttemptsOf(o) |-> attempt[a].cost]
    <3>1. IsFiniteSet(AttemptsOf(o)) /\ f \in [AttemptsOf(o) -> Nat] /\ AttemptsOf(o) \subseteq Keys
      BY <1>t, CostType
    <3> SUFFICES ASSUME NEW R, R = AttemptsOf(o)', NEW g, g = [a \in R |-> attempt'[a].cost]
                 PROVE  Total(g) \in Nat /\ Total(g) <= Budget
      BY <2>2 DEF CostOf
    <3> DEFINE y == Current(s)
    <3>2. y \in R /\ R \subseteq AttemptsOf(o) \cup {y} /\ R \subseteq Keys
      BY <2>2, <1>c, <1>h DEF AttemptsOf, Op
    <3>3. \A a \in R : a = y \/ (a \in AttemptsOf(o) /\ g[a] = f[a])
      BY <3>2, <1>h
    <3>4. g[y] = Reserved /\ Reserved \in Nat /\ Budget \in Nat
      BY <3>2, <1>h, MeterAssumption
    <3>5. g \in [R -> Nat]
      <4>1. \A a \in R : g[a] \in Nat
        BY <3>1, <3>3, <3>4
      <4> QED
        BY <4>1
    <3>6. \A a \in R : a = y \/ g[a] <= f[a]
      BY <3>1, <3>3
    <3>7. IsFiniteSet(R)
      BY <3>1, <3>2, FS_AddElement, FS_Subset
    <3>8. Total(f) + Reserved <= Budget
      BY <2>2, <1>o DEF CostOf
    <3> HIDE DEF f, y
    <3>9. Total(g) <= Total(f) + g[y]
      BY <3>1, <3>2, <3>5, <3>6, TotalRaised
    <3>10. Total(g) \in Nat /\ Total(f) \in Nat
      BY <3>1, <3>5, <3>7, TotalType
    <3> QED
      BY <3>4, <3>8, <3>9, <3>10
  <2> QED
    BY <2>1, <2>2
<1>5. ASSUME NEW o \in Operations PROVE OperationSound(o)'
  BY <1>4 DEF OperationSound
<1>6. Committed' <= PeriodBudget
  <2>1. Counted' = Counted /\ Counted \subseteq Operations
    BY DEF Counted, SettledOps, HeldOps
  <2>2. ASSUME NEW o \in Operations PROVE ChargeOf(o)' = ChargeOf(o)
    <3>1. CostOf(o) <= Budget
      BY DEF OperationSound
    <3> QED
      BY <1>4, <1>o, <3>1 DEF ChargeOf
  <2>3. [o \in Counted' |-> ChargeOf(o)'] = [o \in Counted |-> ChargeOf(o)]
    BY <2>1, <2>2
  <2> QED
    BY <2>3 DEF Committed, Counted
<1>7. UnitsShared'
  BY DEF UnitsShared, HeldOps, CapturedOps
<1>8. ASSUME NEW t \in Sessions PROVE SessionSound(t)'
  <2>1. CASE t = s
    <3>1. \A k \in Ordinals : k > session[s].made => attempt'[<<s, k>>].state = "none"
      <4> SUFFICES ASSUME NEW k \in Ordinals, k > session[s].made
                   PROVE  attempt'[<<s, k>>].state = "none"
        OBVIOUS
      <4>1. attempt[<<s, k>>].state = "none"
        BY DEF SessionSound, At
      <4>2. <<s, k>> \in Keys /\ <<s, k>> # Current(s)
        <5>1. session[s].made \in Nat /\ k \in Nat
          BY <1>t, KeysFinite, MeterAssumption DEF MeterTypeOK
        <5> QED
          BY <5>1 DEF Keys, Current
      <4> QED
        BY <4>1, <4>2, <1>h
    <3>2. receipt[<<Op(s), session[s].made>>] # Current(s)
      BY <1>c, <1>t, NoAnswerIsNoKey DEF ReceiptSound
    <3>3. billed[Current(s)] = 0
      BY <1>c, <1>t DEF AttemptSound
    <3>4. Current(s)' = Current(s) /\ Op(s)' = Op(s)
      BY <1>s DEF Current, Op
    <3> QED
      BY <2>1, <3>1, <3>2, <3>3, <3>4, <1>h, <1>s, <1>t DEF SessionSound, Before, Unsaved, Unsent
  <2>2. CASE t # s
    <3>1. \A k : <<t, k>> # Current(s)
      BY <2>2 DEF Current
    <3>2. \A k \in Ordinals : <<t, k>> \in Keys /\ attempt'[<<t, k>>] = attempt[<<t, k>>]
      BY <3>1, <1>h DEF Keys
    <3>3. session[t].made > 0 => session[t].made \in Ordinals
      BY <1>t, CurrentType
    <3> QED
      BY <2>2, <3>2, <3>3, <1>s DEF SessionSound, Current, Op
  <2> QED
    BY <2>1, <2>2
<1>9. ASSUME NEW t \in Sessions PROVE Overtaken(t)'
  <2>1. CASE t = s
    BY <2>1, <1>s DEF Overtaken
  <2>2. CASE t # s
    BY <2>2, <1>s DEF Overtaken, Op
  <2> QED
    BY <2>1, <2>2
<1>10. ASSUME NEW t \in Sessions, NEW u \in Sessions PROVE Fenced(t, u)'
  <2>1. CASE t = s
    BY <2>1, <1>o DEF Fenced, Op
  <2>2. CASE u = s
    BY <2>2, <1>s DEF Fenced, Before
  <2>3. CASE t # s /\ u # s
    BY <2>3, <1>s DEF Fenced, Op, Holds
  <2> QED
    BY <2>1, <2>2, <2>3
<1> QED
  BY <1>1, <1>2, <1>3, <1>5, <1>6, <1>7, <1>8, <1>9, <1>10

\* The answer of a request is saved: under the lease no session that looked
\* for it before can still begin, and without it the attempt is late.
LEMMA SaveKeeps ==
  ASSUME MeterInv, MeterTypeOK', NEW s \in Sessions, At(s, "save"),
         receipt[<<Op(s), session[s].made>>] = NoAnswer,
         receipt' = [receipt EXCEPT ![<<Op(s), session[s].made>>] = Current(s)],
         late' = IF Holds(s) THEN late ELSE late \cup {Current(s)},
         Goto(s, "confirm"),
         UNCHANGED <<run, held, attempt, entitled, jobUnits, billed, byHand, settledBy>>
  PROVE  MeterInv'
<1> USE DEF MeterInv
<1> DEFINE r == <<Op(s), session[s].made>>
<1>t. /\ MeterTypeOK /\ Op(s) \in Operations /\ "confirm" \in PCs
      /\ session[s].made > 0 /\ attempt[Current(s)].state = "unknown"
  BY OpType DEF MeterTypeOK, PCs, SessionSound, Unsaved, At
<1>c. Current(s) \in Keys /\ Current(s)[1] = s /\ Current(s)[2] = session[s].made
      /\ r \in Operations \X Ordinals
  BY <1>t, CurrentType DEF Current
<1>h. /\ receipt'[r] = Current(s)
      /\ \A q \in Operations \X Ordinals : q # r => receipt'[q] = receipt[q]
  BY <1>t, <1>c DEF MeterTypeOK
<1>s. /\ session'[s].pc = "confirm" /\ session'[s].made = session[s].made
      /\ \A t \in Sessions : t # s => session'[t] = session[t]
  BY <1>t, GotoTyped
<1>k. \A a \in Keys : a[1] \in Sessions /\ a[2] \in Ordinals /\ Op(a[1]) \in Operations
  BY OpType DEF Keys
<1> HIDE DEF r
<1>1. ASSUME NEW a \in Keys PROVE AttemptSound(a)'
  <2>1. AttemptSound(a) /\ a # NoAnswer /\ <<Op(a[1]), a[2]>> \in Operations \X Ordinals
    BY <1>k, NoAnswerIsNoKey
  <2>2. receipt[<<Op(a[1]), a[2]>>] = a => receipt'[<<Op(a[1]), a[2]>>] = a
    BY <2>1, <1>h DEF r
  <2> QED
    BY <2>1, <2>2 DEF AttemptSound, Op
<1>2. ASSUME NEW q \in Operations \X Ordinals PROVE ReceiptSound(q)'
  <2>1. CASE q = r
    <3>1. q[1] = Op(s) /\ q[2] = session[s].made
      BY <2>1 DEF r
    <3> QED
      BY <2>1, <3>1, <1>c, <1>h, <1>t DEF ReceiptSound, Op
  <2>2. CASE q # r
    BY <2>2, <1>h DEF ReceiptSound, Op
  <2> QED
    BY <2>1, <2>2
<1>3. ASSUME NEW a \in Keys, NEW b \in Keys PROVE Twins(a, b)'
  BY DEF Twins, Harmless, Op
<1>4. ASSUME NEW o \in Operations PROVE OperationSound(o)' /\ CostOf(o)' = CostOf(o)
  <2>1. CostOf(o)' = CostOf(o)
    BY DEF CostOf, AttemptsOf, Op
  <2> QED
    BY <2>1 DEF OperationSound
<1>5. Committed' <= PeriodBudget
  <2>1. Counted' = Counted /\ Counted \subseteq Operations
    BY DEF Counted, SettledOps, HeldOps
  <2>2. \A o \in Operations : ChargeOf(o)' = ChargeOf(o)
    BY <1>4 DEF ChargeOf
  <2>3. [o \in Counted' |-> ChargeOf(o)'] = [o \in Counted |-> ChargeOf(o)]
    BY <2>1, <2>2
  <2> QED
    BY <2>3 DEF Committed, Counted
<1>6. UnitsShared'
  BY DEF UnitsShared, HeldOps, CapturedOps
<1>7. ASSUME NEW t \in Sessions PROVE SessionSound(t)'
  <2>1. CASE t = s
    <3>1. Current(s)' = Current(s) /\ Op(s)' = Op(s)
      BY <1>s DEF Current, Op
    <3> QED
      BY <2>1, <3>1, <1>h, <1>s, <1>t DEF SessionSound, Before, Unsaved, Unsent, At, r
  <2>2. CASE t # s
    <3>1. Current(t)' = Current(t) /\ Op(t)' = Op(t) /\ Current(t) # Current(s)
      BY <2>2, <1>s DEF Current, Op
    <3>2. session[t].made > 0 => <<Op(t), session[t].made>> \in Operations \X Ordinals
      BY <1>t, CurrentType
    <3>3. session[t].pc \in Unsaved =>
            session[t].made > 0 /\ receipt'[<<Op(t), session[t].made>>] # Current(t)
      BY <3>1, <3>2, <1>h DEF SessionSound
    <3>4. session[t].pc = "confirm" => receipt'[<<Op(t), session[t].made>>] = Current(t)
      <4> SUFFICES ASSUME session[t].pc = "confirm"
                   PROVE  receipt'[<<Op(t), session[t].made>>] = Current(t)
        OBVIOUS
      <4>1. session[t].made > 0 /\ receipt[<<Op(t), session[t].made>>] = Current(t)
        BY DEF SessionSound
      <4>2. Current(t) # NoAnswer
        BY <1>t, <4>1, CurrentType, NoAnswerIsNoKey
      <4> QED
        BY <4>1, <4>2, <3>2, <1>h DEF r
    <3>5. SessionSound(t) /\ session'[t] = session[t]
      BY <2>2, <1>s
    <3> QED
      BY <3>1, <3>3, <3>4, <3>5 DEF SessionSound
  <2> QED
    BY <2>1, <2>2
<1>8. ASSUME NEW t \in Sessions PROVE Overtaken(t)'
  <2>1. CASE t = s
    BY <2>1, <1>s DEF Overtaken
  <2>2. CASE t # s
    <3> SUFFICES ASSUME session[t].pc \in {"reserve", "begin"},
                        receipt'[<<Op(t), session[t].made>>] # NoAnswer
                 PROVE  \/ receipt'[<<Op(t), session[t].made>>] \in late'
                        \/ held[Op(t)].owner # t
      BY <2>2, <1>s DEF Overtaken, Op
    <3>1. session[t].pc \in Before /\ session[t].made > 0
      BY DEF SessionSound, Before
    <3>2. <<Op(t), session[t].made>> \in Operations \X Ordinals
      BY <1>t, <3>1, CurrentType
    <3>3. CASE <<Op(t), session[t].made>> # r
      BY <3>2, <3>3, <1>h DEF Overtaken
    <3>4. CASE <<Op(t), session[t].made>> = r
      <4>1. Op(t) = Op(s)
        BY <3>4 DEF r
      <4>2. CASE Holds(s)
        BY <2>2, <3>1, <4>1, <4>2 DEF Fenced, At, Unsaved
      <4>3. CASE ~Holds(s)
        BY <3>4, <4>3, <1>h
      <4> QED
        BY <4>2, <4>3
    <3> QED
      BY <3>3, <3>4
  <2> QED
    BY <2>1, <2>2
<1>9. ASSUME NEW t \in Sessions, NEW u \in Sessions PROVE Fenced(t, u)'
  <2>1. CASE t = s \/ u = s
    BY <2>1, <1>s DEF Fenced, Before, Unsaved
  <2>2. CASE t # s /\ u # s
    BY <2>2, <1>s DEF Fenced, Op, Holds
  <2> QED
    BY <2>1, <2>2
<1> QED
  BY <1>1, <1>2, <1>3, <1>4, <1>5, <1>6, <1>7, <1>8, <1>9

-----------------------------------------------------------------------------
(* Every step keeps the invariant.                                         *)

\* A step of a session that confirms attempts and leaves the leases alone.
LEMMA ConfirmKeeps ==
  ASSUME MeterInv, MeterTypeOK', NEW s \in Sessions, NEW X, attempt' = Confirmed(X),
         \A t \in Sessions : t # s => session'[t] = session[t],
         CalmSession(s, X),
         UNCHANGED <<run, held, receipt, late, jobUnits, byHand, settledBy, billed>>,
         \A a \in X : a \in Keys =>
           /\ a[1] = s \/ receipt[<<Op(a[1]), a[2]>>] = a
           /\ attempt[a].state = "unknown" => billed[a] = 0 \/ receipt[<<Op(a[1]), a[2]>>] = a
  PROVE  MeterInv'
<1> DEFINE M == {s}
<1>1. /\ \A t \in Sessions : t \notin M => session'[t] = session[t]
      /\ \A o \in Operations :
           /\ held'[o].owner \in {held[o].owner} \cup M
           /\ \/ run'[o] = run[o]
              \/ run[o].state # "completed" /\ (~run'[o].live \/ run'[o].owner \in M)
      /\ \A a \in Keys : a[1] \notin M => billed'[a] = billed[a]
      /\ \A a \in X : a \in Keys /\ a[1] \notin M => receipt[<<Op(a[1]), a[2]>>] = a
  OBVIOUS
<1>2. \A t \in Sessions : t \notin M => CalmSession(t, X)
  <2> HIDE DEF M
  <2> QED
    BY <1>1, OthersAreCalm
<1>3. \A o \in Operations : CalmOperation(o, X)
  BY OperationIsCalm
<1>4. \A a \in Keys : CalmAttempt(a, X)
  BY DEF CalmAttempt
<1>5. CalmStep(X)
  BY <1>2, <1>3, <1>4 DEF CalmStep
<1> QED
  BY <1>5, CalmStepKeeps

\* A step of a session that settles its operation: no usage is unknown, and a
\* unit is captured only for a result that is stored.
LEMMA SettleKeeps ==
  ASSUME MeterInv, MeterTypeOK', NEW s \in Sessions, NEW c \in BOOLEAN, CanSettle(Op(s)),
         held' = Settlement(Op(s), c),
         c => run[Op(s)].state = "completed" /\ run[Op(s)].capture,
         session[s].pc # "end", NEW pc \in Anywhere, Goto(s, pc),
         UNCHANGED <<run, attempt, receipt, late, jobUnits, byHand, settledBy, billed>>
  PROVE  MeterInv'
<1>1. MeterTypeOK /\ pc \in PCs /\ Op(s) \in Operations
  BY OpType DEF MeterInv, Anywhere, PCs
<1>2. /\ session'[s].pc = pc /\ (pc # "end" => session'[s].made = session[s].made)
      /\ \A t \in Sessions : t # s => session'[t] = session[t]
  BY <1>1, GotoTyped
<1>3. CalmSession(s, {})
  BY <1>2, MoverIsCalm
<1>4. /\ held'[Op(s)].state = (IF c THEN "captured" ELSE "released")
      /\ held'[Op(s)].owner = held[Op(s)].owner
      /\ \A p \in Operations : p # Op(s) => held'[p] = held[p]
  BY <1>1, SettlementTyped
<1>5. \A t \in Sessions : t # s => CalmSession(t, {})
  <2> DEFINE M == {s}
  <2>1. /\ \A t \in Sessions : t \notin M => session'[t] = session[t]
        /\ \A o \in Operations :
             /\ held'[o].owner \in {held[o].owner} \cup M
             /\ \/ run'[o] = run[o]
                \/ run[o].state # "completed" /\ (~run'[o].live \/ run'[o].owner \in M)
        /\ \A a \in Keys : a[1] \notin M => billed'[a] = billed[a]
    BY <1>2, <1>4
  <2>2. \A t \in Sessions : t \notin M => CalmSession(t, {})
    <3> HIDE DEF M
    <3> QED
      BY <2>1, OthersAreCalm
  <2> QED
    BY <2>2
<1>6. ASSUME NEW o \in Operations PROVE CalmOperation(o, {})
  <2>1. CASE o # Op(s)
    BY <2>1, <1>4, OperationIsCalm
  <2>2. CASE o = Op(s)
    BY <2>2, <1>4 DEF CalmOperation, CanSettle
  <2> QED
    BY <2>1, <2>2
<1>7. CalmStep({})
  BY <1>1, <1>3, <1>5, <1>6, NothingIsCalm DEF CalmStep
<1> QED
  BY <1>7, CalmStepKeeps

LEMMA SessionStepKeeps ==
  ASSUME MeterInv, NEW s \in Sessions, SessionStep(s)
  PROVE  MeterInv'
<1>t. /\ MeterTypeOK /\ MeterTypeOK' /\ SessionSound(s) /\ Op(s) \in Operations
      /\ session[s].made \in Nat
  <2>1. MeterTypeOK'
    BY SessionStepTyped
  <2> QED
    BY <2>1, OpType, MeterAssumption DEF MeterInv, MeterTypeOK
<1>g. ASSUME NEW pc \in PCs, Goto(s, pc)
      PROVE  /\ session'[s].pc = pc
             /\ pc # "end" => session'[s].made = session[s].made
             /\ \A t \in Sessions : t # s => session'[t] = session[t]
  BY <1>g, <1>t, GotoTyped
<1>p. Anywhere \subseteq PCs
      /\ {"replay", "read", "reserve", "begin", "withdraw", "send", "refused", "stop",
          "save", "settle"} \subseteq PCs
  BY DEF PCs, Anywhere
<1>u. UNCHANGED <<run, held>> => \A o \in Operations :
        /\ held'[o].owner \in {held[o].owner, s} /\ held'[o].state = held[o].state
        /\ \/ run'[o] = run[o]
           \/ run[o].state # "completed" /\ (~run'[o].live \/ run'[o].owner = s)
  OBVIOUS
<1>b. ASSUME Break(s)
      PROVE  /\ session'[s].pc = "work" /\ session'[s].made = session[s].made
             /\ \A t \in Sessions : t # s => session'[t] = session[t]
  BY <1>b, <1>t DEF Break, MeterTypeOK
<1>m. ASSUME session[s].pc # "end", NEW pc \in Anywhere, Goto(s, pc),
             UNCHANGED <<run, held, attempt, receipt, late, jobUnits, byHand, settledBy, billed>>
      PROVE  MeterInv'
  BY <1>m, <1>t, <1>u, PlainMoveKeeps
<1>1. CASE Start(s)
  <2>1. CASE run[Op(s)].state = "completed"
    <3>1. Goto(s, "replay")
      BY <1>1, <2>1 DEF Start
    <3>2. CalmSession(s, {})
      BY <1>1, <1>g, <1>p, <1>t, <2>1, <3>1
         DEF CalmSession, Start, At, Before, Unsaved, Unsent
    <3> QED
      BY <1>1, <1>t, <1>u, <1>g, <1>p, <3>1, <3>2, CarefulMoveKeeps DEF Start
  <2>2. CASE run[Op(s)].state # "completed"
    <3>1. Goto(s, "acquire") /\ "acquire" \in Anywhere /\ session[s].pc # "end"
      BY <1>1, <2>2 DEF Start, Anywhere, At
    <3> QED
      BY <1>1, <3>1, <1>m DEF Start
  <2> QED
    BY <2>1, <2>2
<1>2. CASE Acquire(s)
  <2>1. CASE CanAcquire(Op(s))
    <3>1. /\ Goto(s, "control") /\ "control" \in Anywhere /\ session[s].pc # "end"
          /\ run' = [run EXCEPT ![Op(s)] = [state |-> "running", live |-> TRUE, owner |-> s,
                                            capture |-> FALSE, count |-> 0]]
      BY <1>2, <2>1 DEF Acquire, Anywhere, At
    <3>2. \A o \in Operations :
            /\ held'[o].owner \in {held[o].owner, s} /\ held'[o].state = held[o].state
            /\ \/ run'[o] = run[o]
               \/ run[o].state # "completed" /\ (~run'[o].live \/ run'[o].owner = s)
      BY <1>2, <1>t, <2>1, <3>1 DEF Acquire, CanAcquire, MeterTypeOK
    <3> QED
      BY <1>2, <1>t, <3>1, <3>2, PlainMoveKeeps DEF Acquire
  <2>2. CASE ~CanAcquire(Op(s))
    <3>1. Goto(s, "end") /\ "end" \in Anywhere /\ session[s].pc # "end" /\ UNCHANGED run
      BY <1>2, <2>2 DEF Acquire, Anywhere, At
    <3> QED
      BY <1>2, <3>1, <1>m DEF Acquire
  <2> QED
    BY <2>1, <2>2
<1>3. CASE AcquireControl(s)
  <2>1. PICK pc \in Anywhere : Goto(s, pc)
    BY <1>3 DEF AcquireControl, Anywhere
  <2>2. session[s].pc # "end"
    BY <1>3 DEF AcquireControl, At
  <2>3. \A o \in Operations :
          /\ held'[o].owner \in {held[o].owner, s} /\ held'[o].state = held[o].state
          /\ \/ run'[o] = run[o]
             \/ run[o].state # "completed" /\ (~run'[o].live \/ run'[o].owner = s)
    BY <1>3, <1>t DEF AcquireControl, MeterTypeOK
  <2> QED
    BY <1>3, <1>t, <2>1, <2>2, <2>3, PlainMoveKeeps DEF AcquireControl
<1>4. CASE Unlock(s) \/ ReleaseRun(s)
  <2>1. PICK pc \in Anywhere : Goto(s, pc)
    BY <1>4 DEF Unlock, ReleaseRun, Anywhere
  <2>2. session[s].pc # "end" /\ GiveUpRun(s)
    BY <1>4 DEF Unlock, ReleaseRun, At
  <2>3. \A o \in Operations :
          \/ run'[o] = run[o]
          \/ run[o].state = "running" /\ run'[o].state = "failed" /\ ~run'[o].live
    BY <1>t, <2>2, GiveUpTyped
  <2>4. \A o \in Operations :
          /\ held'[o].owner \in {held[o].owner, s} /\ held'[o].state = held[o].state
          /\ \/ run'[o] = run[o]
             \/ run[o].state # "completed" /\ (~run'[o].live \/ run'[o].owner = s)
    BY <1>4, <2>3 DEF Unlock, ReleaseRun
  <2> QED
    BY <1>4, <1>t, <2>1, <2>2, <2>4, PlainMoveKeeps DEF Unlock, ReleaseRun
<1>5. CASE Admit(s)
  <2>1. CASE Goto(s, "end")
    <3>1. "end" \in Anywhere /\ session[s].pc # "end"
      BY <1>5 DEF Admit, Anywhere, At
    <3> QED
      BY <1>5, <2>1, <3>1, <1>m DEF Admit
  <2>2. CASE /\ Renews(s)
             /\ session' = [session EXCEPT ![s].pc = "read", ![s].made = session[s].made + 1]
    <3>1. /\ session'[s].pc = "read" /\ session'[s].made = session[s].made + 1
          /\ \A t \in Sessions : t # s => session'[t] = session[t]
      BY <2>2, <1>t DEF MeterTypeOK
    <3>2. CalmSession(s, {})
      BY <1>5, <1>t, <2>2, <3>1 DEF Admit, At, CalmSession, Before, Unsaved, Unsent, Renews
    <3> QED
      BY <1>5, <1>t, <1>u, <3>1, <3>2, CarefulMoveKeeps DEF Admit
  <2> QED
    BY <1>5, <2>1, <2>2 DEF Admit
<1>6. CASE ReadReceipt(s)
  <2> DEFINE r == <<Op(s), session[s].made>>
             cached == receipt[r]
  <2>1. session[s].pc = "read" /\ session[s].made > 0
    BY <1>6, <1>t DEF ReadReceipt, At, SessionSound, Before
  <2>2. CASE cached = NoAnswer /\ Goto(s, "reserve") /\ UNCHANGED attempt
    <3>1. CalmSession(s, {})
      BY <2>1, <2>2, <1>6, <1>g, <1>p, <1>t
         DEF CalmSession, ReadReceipt, Before, Unsaved, Unsent
    <3> QED
      BY <1>6, <1>t, <1>u, <1>g, <1>p, <2>2, <3>1, CarefulMoveKeeps DEF ReadReceipt
  <2>3. CASE cached # NoAnswer /\ attempt' = Confirmed({cached}) /\ Goto(s, "work")
    <3>1. "work" \in PCs /\ "work" \in Anywhere
      BY DEF PCs, Anywhere
    <3>2. r \in Operations \X Ordinals
      BY <1>t, <2>1, CurrentType
    <3>3. cached \in Keys /\ Op(cached[1]) = Op(s) /\ cached[2] = session[s].made
      BY <2>3, <3>2 DEF MeterInv, ReceiptSound
    <3>4. receipt[<<Op(cached[1]), cached[2]>>] = cached
      BY <3>3
    <3>5. CalmSession(s, {cached})
      BY <2>1, <2>3, <3>1, <1>g, MoverIsCalm
    <3>6. UNCHANGED <<run, held, receipt, late, jobUnits, byHand, settledBy, billed>>
      BY <1>6 DEF ReadReceipt
    <3>7. \A t \in Sessions : t # s => session'[t] = session[t]
      BY <1>g, <2>3, <3>1
    <3> HIDE DEF r, cached
    <3> QED
      BY <1>t, <2>3, <3>4, <3>5, <3>6, <3>7, ConfirmKeeps
  <2>4. CASE Goto(s, "work") /\ UNCHANGED attempt
    <3>1. "work" \in Anywhere /\ session[s].pc # "end"
      BY <2>1 DEF Anywhere
    <3> QED
      BY <1>6, <2>4, <3>1, <1>m DEF ReadReceipt
  <2> QED
    BY <1>6, <2>2, <2>3, <2>4 DEF ReadReceipt
<1>7. CASE Reserve(s)
  <2>1. session[s].pc = "reserve"
    BY <1>7 DEF Reserve, At
  <2>2. CASE held[Op(s)].state = "none" /\ CanReserve
    <3>1. /\ held' = [held EXCEPT ![Op(s)] = [state |-> "held", live |-> TRUE, owner |-> s]]
          /\ Goto(s, "begin")
      BY <1>7, <2>2 DEF Reserve
    <3> QED
      BY <1>7, <1>t, <2>2, <3>1, ReserveKeeps DEF Reserve
  <2>3. CASE Goto(s, "begin") /\ UNCHANGED held
    <3>1. CalmSession(s, {})
      BY <2>1, <2>3, <1>g, <1>p, <1>t DEF CalmSession, Before, Unsaved, Unsent
    <3> QED
      BY <1>7, <1>t, <1>u, <1>g, <1>p, <2>3, <3>1, CarefulMoveKeeps DEF Reserve
  <2>4. CASE Goto(s, "work") /\ UNCHANGED held
    <3>1. "work" \in Anywhere /\ session[s].pc # "end"
      BY <2>1 DEF Anywhere
    <3> QED
      BY <1>7, <2>4, <3>1, <1>m DEF Reserve
  <2> QED
    BY <1>7, <2>2, <2>3, <2>4 DEF Reserve
<1>8. CASE Begin(s)
  <2>1. CASE CanBegin(s)
    BY <1>8, <1>t, <2>1, BeginKeeps DEF Begin
  <2>2. CASE Goto(s, "work") /\ UNCHANGED attempt
    <3>1. "work" \in Anywhere /\ session[s].pc # "end"
      BY <1>8 DEF Anywhere, Begin, At
    <3> QED
      BY <1>8, <2>2, <3>1, <1>m DEF Begin
  <2> QED
    BY <1>8, <2>1, <2>2 DEF Begin
<1>9. CASE Readmit(s)
  <2>1. session[s].pc = "readmit"
    BY <1>9 DEF Readmit, At
  <2>2. PICK pc \in {"send", "withdraw"} : Goto(s, pc)
    BY <1>9 DEF Readmit
  <2>3. CalmSession(s, {})
    BY <1>9, <2>1, <2>2, <1>g, <1>p, <1>t
       DEF Readmit, CalmSession, Before, Unsaved, Unsent, Holds, Current, Op
  <2> QED
    BY <1>9, <1>t, <1>u, <1>g, <1>p, <2>2, <2>3, CarefulMoveKeeps DEF Readmit
<1>10. CASE ConfirmAtNoCost(s)
  <2>1. /\ session[s].pc \in Unsent /\ session[s].pc # "end" /\ Goto(s, "work")
        /\ "work" \in PCs /\ "work" \in Anywhere
    BY <1>10 DEF ConfirmAtNoCost, At, Unsent, PCs, Anywhere
  <2>2. billed[Current(s)] = 0 /\ Current(s)[1] = s
    BY <1>t, <2>1 DEF SessionSound, Current
  <2>3. CalmSession(s, {Current(s)})
    BY <2>1, <1>g, MoverIsCalm
  <2> QED
    BY <1>10, <1>t, <1>g, <2>1, <2>2, <2>3, ConfirmKeeps DEF ConfirmAtNoCost
<1>11. CASE Send(s)
  <2> DEFINE M == {s}
  <2>1. session[s].pc = "send" /\ session[s].made > 0 /\ attempt[Current(s)].state = "unknown"
        /\ Current(s)[1] = s
    BY <1>11, <1>t DEF Send, At, SessionSound, Unsaved, Current
  <2>2. /\ \A t \in Sessions : t # s => session'[t] = session[t]
        /\ session'[s].made = session[s].made /\ session'[s].pc \in {"refused", "work", "stop"}
        /\ session'[s].pc = "refused" => UNCHANGED billed
    <3>1. CASE Goto(s, "refused") /\ UNCHANGED billed
      BY <3>1, <1>g, <1>p
    <3>2. CASE Break(s)
      BY <3>2, <1>b
    <3>3. CASE Goto(s, "stop")
      BY <3>3, <1>g, <1>p
    <3> QED
      BY <1>11, <3>1, <3>2, <3>3 DEF Send
  <2>3. \A a \in Keys : a # Current(s) => billed'[a] = billed[a]
    BY <1>11, <1>t DEF Send, MeterTypeOK
  <2>4. /\ \A t \in Sessions : t \notin M => session'[t] = session[t]
        /\ \A o \in Operations :
             /\ held'[o].owner \in {held[o].owner} \cup M
             /\ \/ run'[o] = run[o]
                \/ run[o].state # "completed" /\ (~run'[o].live \/ run'[o].owner \in M)
        /\ \A a \in Keys : a[1] \notin M => billed'[a] = billed[a]
    BY <1>11, <2>1, <2>2, <2>3 DEF Send
  <2>5. \A t \in Sessions : t \notin M => CalmSession(t, {})
    <3> HIDE DEF M
    <3> QED
      BY <2>4, OthersAreCalm
  <2>6. CalmSession(s, {})
    <3>1. Holds(s)' = Holds(s)
      BY <1>11 DEF Send, Holds, Op
    <3> QED
      BY <2>1, <2>2, <1>t, <3>1 DEF CalmSession, Before, Unsaved, Unsent
  <2>7. \A a \in Keys : CalmAttempt(a, {})
    BY <2>1, <2>3 DEF CalmAttempt
  <2>8. \A o \in Operations : CalmOperation(o, {})
    BY <1>11, OperationIsCalm DEF Send
  <2>9. attempt' = Confirmed({})
    BY <1>11, <1>t, NothingConfirmed DEF Send
  <2>10. CalmStep({})
    BY <1>11, <2>5, <2>6, <2>7, <2>8, <2>9 DEF Send, CalmStep
  <2> QED
    BY <1>t, <2>10, CalmStepKeeps
<1>12. CASE StopStream(s)
  <2>1. CASE Goto(s, "end")
    <3>1. "end" \in Anywhere /\ session[s].pc # "end"
      BY <1>12 DEF Anywhere, StopStream, At
    <3> QED
      BY <1>12, <2>1, <3>1, <1>m DEF StopStream
  <2>2. CASE Goto(s, "save")
    <3>1. CalmSession(s, {})
      BY <1>12, <2>2, <1>g, <1>p, <1>t
         DEF StopStream, At, CalmSession, Before, Unsaved, Unsent, Holds, Op
    <3> QED
      BY <1>12, <1>t, <1>u, <1>g, <1>p, <2>2, <3>1, CarefulMoveKeeps DEF StopStream
  <2> QED
    BY <1>12, <2>1, <2>2 DEF StopStream
<1>13. CASE SaveReceipt(s)
  <2>1. CASE receipt[<<Op(s), session[s].made>>] = NoAnswer
    BY <1>13, <1>t, <2>1, SaveKeeps DEF SaveReceipt
  <2>2. CASE Break(s) /\ UNCHANGED <<receipt, late>>
    <3>1. CalmSession(s, {})
      <4>1. session'[s].pc \in Anywhere /\ session[s].pc # "end"
        BY <1>13, <2>2, <1>b DEF Anywhere, SaveReceipt, At
      <4> QED
        BY <2>2, <4>1, <1>b, MoverIsCalm
    <3> QED
      BY <1>13, <1>t, <1>u, <1>b, <2>2, <3>1, CarefulMoveKeeps DEF SaveReceipt
  <2> QED
    BY <1>13, <2>1, <2>2 DEF SaveReceipt
<1>14. CASE ConfirmUsage(s)
  <2>1. /\ session[s].pc = "confirm" /\ Goto(s, "work")
        /\ "work" \in PCs /\ "work" \in Anywhere
    BY <1>14 DEF ConfirmUsage, At, PCs, Anywhere
  <2>2. /\ receipt[<<Op(s), session[s].made>>] = Current(s)
        /\ Current(s)[1] = s /\ Current(s)[2] = session[s].made
    BY <1>t, <2>1 DEF SessionSound, Current
  <2>3. CalmSession(s, {Current(s)})
    BY <2>1, <1>g, MoverIsCalm
  <2> QED
    BY <1>14, <1>t, <1>g, <2>1, <2>2, <2>3, ConfirmKeeps DEF ConfirmUsage
<1>15. CASE Finish(s)
  <2>1. PICK c \in BOOLEAN : session' = [session EXCEPT ![s].pc = "commit", ![s].capture = c]
    BY <1>15 DEF Finish
  <2>2. /\ session'[s].pc = "commit" /\ session'[s].made = session[s].made
        /\ \A t \in Sessions : t # s => session'[t] = session[t]
    BY <2>1, <1>t DEF MeterTypeOK
  <2>3. CalmSession(s, {})
    <3>1. session'[s].pc \in Anywhere /\ session[s].pc # "end"
      BY <1>15, <2>2 DEF Anywhere, Finish, At
    <3> QED
      BY <2>2, <3>1, MoverIsCalm
  <2> QED
    BY <1>15, <1>t, <1>u, <2>2, <2>3, CarefulMoveKeeps DEF Finish
<1>16. CASE Commit(s)
  <2>1. CASE Renews(s)
    <3>1. /\ Goto(s, "replay")
          /\ run' = [run EXCEPT ![Op(s)] =
               [@ EXCEPT !.state = "completed", !.live = FALSE,
                         !.capture = session[s].capture, !.count = session[s].made]]
      BY <1>16, <2>1 DEF Commit, Renews
    <3>2. /\ run'[Op(s)].state = "completed" /\ ~run'[Op(s)].live
          /\ run[Op(s)].state = "running"
          /\ \A o \in Operations : o # Op(s) => run'[o] = run[o]
      BY <1>t, <2>1, <3>1 DEF MeterTypeOK, Renews, Holds
    <3>3. CalmSession(s, {})
      BY <1>16, <1>g, <1>p, <1>t, <3>1, <3>2
         DEF CalmSession, Commit, At, Before, Unsaved, Unsent
    <3>4. \A o \in Operations :
            \/ run'[o] = run[o]
            \/ run[o].state # "completed" /\ (~run'[o].live \/ run'[o].owner = s)
      BY <3>2
    <3> QED
      BY <1>16, <1>t, <1>g, <1>p, <3>1, <3>3, <3>4, CarefulMoveKeeps DEF Commit
  <2>2. CASE ~Renews(s)
    <3>1. Goto(s, "end") /\ UNCHANGED run /\ "end" \in Anywhere /\ session[s].pc # "end"
      BY <1>16, <2>2 DEF Anywhere, Commit, At
    <3> QED
      BY <1>16, <3>1, <1>m DEF Commit
  <2> QED
    BY <2>1, <2>2
<1>17. CASE ConfirmCached(s)
  <2> DEFINE Z == {receipt[<<Op(s), k>>] : k \in 1 .. run[Op(s)].count}
  <2>1. PICK X : (X = {} \/ X = Z) /\ attempt' = Confirmed(X)
    BY <1>17, <1>t, NothingConfirmed DEF ConfirmCached
  <2>2. \A a \in X : a \in Keys => receipt[<<Op(a[1]), a[2]>>] = a
    <3> SUFFICES ASSUME NEW a \in X, a \in Keys PROVE receipt[<<Op(a[1]), a[2]>>] = a
      OBVIOUS
    <3>1. PICK k \in 1 .. run[Op(s)].count : a = receipt[<<Op(s), k>>]
      BY <2>1
    <3>2. run[Op(s)].count \in 0 .. Requests
      BY <1>t DEF MeterTypeOK
    <3>3. <<Op(s), k>> \in Operations \X Ordinals
      BY <1>t, <3>1, <3>2, MeterAssumption DEF Ordinals
    <3>4. a # NoAnswer
      BY NoAnswerIsNoKey
    <3> QED
      BY <3>1, <3>3, <3>4 DEF MeterInv, ReceiptSound
  <2>3. session[s].pc = "replay" /\ Goto(s, "settle")
    BY <1>17 DEF ConfirmCached, At
  <2>4. CalmSession(s, X)
    BY <1>17, <1>g, <1>p, <1>t, <2>3
       DEF CalmSession, ConfirmCached, SessionSound, Before, Unsaved, Unsent
  <2> HIDE DEF Z
  <2> QED
    BY <1>17, <1>t, <1>g, <1>p, <2>1, <2>2, <2>3, <2>4, ConfirmKeeps DEF ConfirmCached
<1>18. CASE Settle(s)
  <2>1. /\ session[s].pc = "settle" /\ Goto(s, "end") /\ "end" \in Anywhere
        /\ run[Op(s)].state = "completed" /\ run[Op(s)].capture \in BOOLEAN
    BY <1>18, <1>t DEF Settle, At, Anywhere, SessionSound, MeterTypeOK
  <2>2. CASE CanSettle(Op(s))
    BY <1>18, <1>t, <2>1, <2>2, SettleKeeps DEF Settle
  <2>3. CASE ~CanSettle(Op(s))
    BY <1>18, <2>1, <2>3, <1>m DEF Settle
  <2> QED
    BY <2>2, <2>3
<1>19. CASE Fail(s)
  <2>1. "failing" \in Anywhere /\ session[s].pc # "end"
    BY <1>19 DEF Anywhere, Fail, At
  <2> QED
    BY <1>19, <2>1, <1>m DEF Fail
<1>20. CASE Failing(s)
  <2>1. \E pc \in Anywhere : Goto(s, pc)
    BY <1>20 DEF Anywhere, Failing
  <2>2. session[s].pc # "end"
    BY <1>20 DEF Failing, At
  <2> QED
    BY <1>20, <2>1, <2>2, <1>m DEF Failing
<1>21. CASE Refund(s)
  <2>1. session[s].pc # "end" /\ "release" \in Anywhere /\ "end" \in Anywhere
    BY <1>21 DEF Refund, At, Anywhere
  <2>2. CASE CanSettle(Op(s)) /\ held' = Settlement(Op(s), FALSE) /\ Goto(s, "release")
    BY <1>21, <1>t, <2>1, <2>2, SettleKeeps DEF Refund
  <2>3. CASE UNCHANGED held /\ (Goto(s, "release") \/ Goto(s, "end"))
    BY <1>21, <2>1, <2>3, <1>m DEF Refund
  <2> QED
    BY <1>21, <2>2, <2>3 DEF Refund
<1>22. CASE ReleaseControl(s)
  <2>1. "end" \in Anywhere /\ session[s].pc # "end" /\ Goto(s, "end")
    BY <1>22 DEF Anywhere, ReleaseControl, At
  <2>2. \A o \in Operations :
          /\ held'[o].owner \in {held[o].owner, s} /\ held'[o].state = held[o].state
          /\ \/ run'[o] = run[o]
             \/ run[o].state # "completed" /\ (~run'[o].live \/ run'[o].owner = s)
    BY <1>22, <1>t DEF ReleaseControl, MeterTypeOK
  <2> QED
    BY <1>22, <1>t, <2>1, <2>2, PlainMoveKeeps DEF ReleaseControl
<1>23. CASE Crash(s)
  <2>1. "end" \in Anywhere /\ session[s].pc # "end"
    BY <1>23 DEF Anywhere, Crash, Alive
  <2> QED
    BY <1>23, <2>1, <1>m DEF Crash
<1> QED
  BY <1>1, <1>2, <1>3, <1>4, <1>5, <1>6, <1>7, <1>8, <1>9, <1>10, <1>11, <1>12, <1>13,
     <1>14, <1>15, <1>16, <1>17, <1>18, <1>19, <1>20, <1>21, <1>22, <1>23 DEF SessionStep

\* A step of the service moves no session.
LEMMA ServiceIsCalm ==
  ASSUME MeterInv, MeterTypeOK', NEW X, UNCHANGED <<session, receipt, late, jobUnits, billed>>,
         attempt' = Confirmed(X), byHand \subseteq byHand', settledBy \subseteq settledBy',
         \A o \in Operations :
           /\ held'[o].owner = held[o].owner
           /\ run'[o] = run[o] \/ (run[o].state # "completed" /\ ~run'[o].live)
           /\ CalmOperation(o, X),
         \A a \in Keys : CalmAttempt(a, X),
         \A t \in Sessions : session[t].pc \in Unsaved => Current(t) \notin X
  PROVE  MeterInv'
<1>1. ASSUME NEW t \in Sessions PROVE CalmSession(t, X)
  <2>1. SessionSound(t) /\ Op(t) \in Operations /\ session[t].made \in Nat
    BY OpType, MeterAssumption DEF MeterInv, MeterTypeOK
  <2>2. Holds(t)' => Holds(t)
    BY <2>1 DEF Holds, Op
  <2>3. session[t].pc \in {"replay", "settle"} => run'[Op(t)].state = "completed"
    BY <2>1 DEF SessionSound
  <2> QED
    BY <2>1, <2>2, <2>3 DEF CalmSession, Unsent, Unsaved
<1>2. CalmStep(X)
  BY <1>1 DEF CalmStep
<1> QED
  BY <1>2, CalmStepKeeps

LEMMA ServiceStepKeeps ==
  ASSUME MeterInv, NEW o \in Operations, ServiceStep(o)
  PROVE  MeterInv'
<1>y. MeterTypeOK'
  BY ServiceStepTyped
<1>t. MeterTypeOK /\ Confirmed({}) = attempt
  BY NothingConfirmed DEF MeterInv
<1>1. CASE LapseRun(o)
  <2>1. /\ UNCHANGED <<session, held, attempt, receipt, late, jobUnits, byHand, settledBy, billed>>
        /\ \A p \in Operations :
             run'[p] = run[p] \/ (run[p].state # "completed" /\ ~run'[p].live)
    BY <1>1, <1>t DEF LapseRun, MeterTypeOK
  <2>2. \A p \in Operations : CalmOperation(p, {})
    BY <2>1, <1>1, <1>t, OperationIsCalm DEF LapseRun, MeterTypeOK
  <2> QED
    BY <1>y, <1>t, <2>1, <2>2, NothingIsCalm, ServiceIsCalm
<1>2. CASE LapseControl(o)
  <2>1. /\ UNCHANGED <<session, run, attempt, receipt, late, jobUnits, byHand, settledBy, billed>>
        /\ \A p \in Operations : held'[p].owner = held[p].owner /\ held'[p].state = held[p].state
    BY <1>2, <1>t DEF LapseControl, MeterTypeOK
  <2>2. \A p \in Operations : CalmOperation(p, {})
    BY <2>1, OperationIsCalm
  <2> QED
    BY <1>y, <1>t, <2>1, <2>2, NothingIsCalm, ServiceIsCalm
<1>3. CASE Reconcile(o)
  <2>1. PICK a \in UnknownOf(o), c \in BOOLEAN :
          /\ \A s \in Sessions : Op(s) = o => ~Alive(s)
          /\ attempt' = Confirmed({a}) /\ byHand' = byHand \cup {a}
          /\ \/ UNCHANGED <<held, settledBy>>
             \/ /\ UnknownOf(o) = {a} /\ held[o].state = "held"
                /\ held' = Settlement(o, c) /\ settledBy' = settledBy \cup {o}
          /\ UNCHANGED <<session, run, receipt, entitled, jobUnits, billed, late>>
    BY <1>3 DEF Reconcile
  <2>2. a \in Keys /\ Op(a[1]) = o
    BY DEF UnknownOf, AttemptsOf
  <2>3. \A b \in Keys : CalmAttempt(b, {a})
    BY <2>1 DEF CalmAttempt
  <2>4. ASSUME NEW p \in Operations
        PROVE  CalmOperation(p, {a}) /\ held'[p].owner = held[p].owner
    <3>1. CASE UNCHANGED <<held, settledBy>>
      BY <2>1, <3>1, OperationIsCalm
    <3>2. CASE /\ UnknownOf(o) = {a} /\ held[o].state = "held"
               /\ held' = Settlement(o, c) /\ settledBy' = settledBy \cup {o}
      <4>1. /\ held'[o].state \in {"captured", "released"} /\ held'[o].owner = held[o].owner
            /\ \A q \in Operations : q # o => held'[q] = held[q]
        BY <1>t, <3>2, SettlementTyped
      <4>2. CASE p = o
        BY <2>1, <3>2, <4>1, <4>2 DEF CalmOperation
      <4>3. CASE p # o
        BY <2>1, <4>1, <4>3, OperationIsCalm
      <4> QED
        BY <4>2, <4>3
    <3> QED
      BY <2>1, <3>1, <3>2
  <2>5. \A t \in Sessions : session[t].pc \in Unsaved => Current(t) \notin {a}
    BY <2>1, <2>2 DEF Unsaved, Alive, Current
  <2>6. byHand \subseteq byHand' /\ settledBy \subseteq settledBy'
    BY <2>1
  <2> QED
    BY <1>y, <2>1, <2>3, <2>4, <2>5, <2>6, ServiceIsCalm
<1> QED
  BY <1>1, <1>2, <1>3 DEF ServiceStep

LEMMA StandingStepKeeps ==
  ASSUME MeterInv, ChangeStanding
  PROVE  MeterInv'
<1>1. MeterTypeOK' /\ MeterTypeOK /\ Confirmed({}) = attempt
  BY ServiceStepTyped, NothingConfirmed DEF MeterInv
<1>2. UNCHANGED <<session, run, held, attempt, receipt, late, jobUnits, byHand, settledBy, billed>>
  BY DEF ChangeStanding
<1>3. \A o \in Operations : CalmOperation(o, {})
  BY <1>2, OperationIsCalm
<1> QED
  BY <1>1, <1>2, <1>3, NothingIsCalm, ServiceIsCalm

LEMMA JobStepKeeps ==
  ASSUME MeterInv, JobTakesUnit \/ JobReturnsUnit
  PROVE  MeterInv'
<1>1. MeterTypeOK'
  BY ServiceStepTyped
<1>2. UNCHANGED <<session, run, held, attempt, receipt, billed, byHand, settledBy, late>>
  BY DEF JobTakesUnit, JobReturnsUnit
<1>3. UnitsShared'
  <2>1. /\ Cardinality(HeldOps) \in Nat /\ Cardinality(CapturedOps) \in Nat
        /\ PlanUnits \in Nat /\ jobUnits \in Nat
    BY CardTypes, MeterAssumption DEF MeterInv, MeterTypeOK
  <2>2. HeldOps' = HeldOps /\ CapturedOps' = CapturedOps
    BY <1>2 DEF HeldOps, CapturedOps
  <2> QED
    BY <2>1, <2>2 DEF JobTakesUnit, JobReturnsUnit, AvailableUnits, UnitsShared, MeterInv
<1>4. \A o \in Operations : CostOf(o)' = CostOf(o)
  BY <1>2 DEF CostOf, AttemptsOf, Op
<1>5. Committed' = Committed
  <2>1. Counted' = Counted /\ Counted \subseteq Operations
    BY <1>2 DEF Counted, SettledOps, HeldOps
  <2>2. \A o \in Operations : ChargeOf(o)' = ChargeOf(o)
    BY <1>2, <1>4 DEF ChargeOf
  <2>3. [o \in Counted' |-> ChargeOf(o)'] = [o \in Counted |-> ChargeOf(o)]
    BY <2>1, <2>2
  <2> QED
    BY <2>3 DEF Committed, Counted
<1>6. \A s \in Sessions : SessionSound(s)' /\ Overtaken(s)'
  BY <1>2 DEF MeterInv, SessionSound, Overtaken, Current, Op
<1>7. \A a \in Keys : AttemptSound(a)'
  BY <1>2 DEF MeterInv, AttemptSound, Op
<1>8. \A r \in Operations \X Ordinals : ReceiptSound(r)'
  BY <1>2 DEF MeterInv, ReceiptSound, Op
<1>9. \A o \in Operations : OperationSound(o)'
  BY <1>2, <1>4 DEF MeterInv, OperationSound
<1>10. \A s, t \in Sessions : Fenced(t, s)'
  BY <1>2 DEF MeterInv, Fenced, Holds, Op
<1>11. \A a, b \in Keys : Twins(a, b)'
  BY <1>2 DEF MeterInv, Twins, Harmless, Op
<1> QED
  BY <1>1, <1>3, <1>5, <1>6, <1>7, <1>8, <1>9, <1>10, <1>11 DEF MeterInv

-----------------------------------------------------------------------------
(* The theorems.                                                           *)

LEMMA MeterInitInv ==
  ASSUME MeterInit
  PROVE  MeterInv
<1> USE DEF MeterInit
<1>1. MeterTypeOK
  <2>1. {Requests, Reserved, PlanUnits} \subseteq Nat
    BY MeterAssumption
  <2> QED
    BY <2>1 DEF MeterTypeOK, PCs
<1>2. ASSUME NEW s \in Sessions PROVE SessionSound(s) /\ Overtaken(s)
  BY DEF SessionSound, Overtaken, Before, Unsaved, Unsent, Keys
<1>3. \A a \in Keys : AttemptSound(a)
  BY DEF AttemptSound
<1>4. \A r \in Operations \X Ordinals : ReceiptSound(r)
  BY DEF ReceiptSound
<1>5. ASSUME NEW o \in Operations PROVE OperationSound(o)
  <2>1. AttemptsOf(o) = {}
    BY DEF AttemptsOf
  <2>2. UnitsOf([a \in AttemptsOf(o) |-> attempt[a].cost]) = {}
    BY <2>1 DEF UnitsOf
  <2>3. CostOf(o) = 0
    BY <2>2, FS_EmptySet DEF CostOf, Total
  <2> QED
    BY <2>3, MeterAssumption DEF OperationSound
<1>6. \A s, t \in Sessions : Fenced(t, s)
  BY DEF Fenced, Before
<1>7. \A a, b \in Keys : Twins(a, b)
  BY DEF Twins
<1>8. Committed <= PeriodBudget
  <2>1. Counted = {}
    BY DEF Counted, SettledOps, HeldOps
  <2>2. UnitsOf([o \in Counted |-> ChargeOf(o)]) = {}
    BY <2>1 DEF UnitsOf
  <2>3. Committed = 0
    BY <2>2, FS_EmptySet DEF Committed, Counted, Total
  <2> QED
    BY <2>3, MeterAssumption
<1>9. UnitsShared
  <2>1. HeldOps = {} /\ CapturedOps = {}
    BY DEF HeldOps, CapturedOps
  <2>2. Cardinality({}) = 0 /\ PlanUnits \in Nat
    BY FS_EmptySet, MeterAssumption
  <2> QED
    BY <2>1, <2>2 DEF UnitsShared
<1> QED
  BY <1>1, <1>2, <1>3, <1>4, <1>5, <1>6, <1>7, <1>8, <1>9 DEF MeterInv

LEMMA MeterStepInv ==
  ASSUME MeterInv, [MeterNext]_meterVars
  PROVE  MeterInv'
<1>1. CASE MeterNext
  BY <1>1, SessionStepKeeps, ServiceStepKeeps, StandingStepKeeps, JobStepKeeps DEF MeterNext
<1>2. CASE UNCHANGED meterVars
  <2>1. UNCHANGED <<session, run, held, attempt, receipt, entitled, jobUnits, billed, byHand, settledBy, late>>
    BY <1>2 DEF meterVars
  <2>2. MeterTypeOK' /\ MeterTypeOK /\ Confirmed({}) = attempt
    BY <2>1, NothingConfirmed DEF MeterInv, MeterTypeOK
  <2>3. \A o \in Operations : CalmOperation(o, {})
    BY <2>1, OperationIsCalm
  <2> QED
    BY <2>1, <2>2, <2>3, NothingIsCalm, ServiceIsCalm
<1> QED
  BY <1>1, <1>2

\* The invariant of the meter holds in every behaviour.
THEOREM MeterInvHolds == MeterSpec => []MeterInv
<1>1. MeterInit => MeterInv
  BY MeterInitInv
<1>2. MeterInv /\ [MeterNext]_meterVars => MeterInv'
  BY MeterStepInv
<1> QED
  BY <1>1, <1>2, PTL DEF MeterSpec

\* Sessions, runs, reservations, attempts and answers keep their types; jobs
\* never hold more units than the plan has.
THEOREM MeterTyped == MeterSpec => []MeterTypeOK
<1>1. MeterInv => MeterTypeOK
  BY DEF MeterInv
<1> QED
  BY <1>1, MeterInvHolds, PTL

\* Whichever sessions overlap, crash or resume, the provider bills a period no
\* more than its budget, and operations and jobs together draw no more units
\* than the plan has (reserve and begin of platform-llm.ts, entitlement of
\* platform-repositories.ts).
THEOREM WithinBudget == MeterSpec => []NothingOverdrawn
<1>1. MeterInv => NothingOverdrawn
  <2> SUFFICES ASSUME MeterInv PROVE BudgetHolds
    BY DEF NothingOverdrawn, MeterInv
  <2>t. MeterTypeOK /\ PeriodBudget \in Nat /\ Reserved \in Nat
    BY MeterAssumption DEF MeterInv
  <2> DEFINE p == [a \in Keys |-> Op(a[1])]
             c == [o \in Operations |-> IF o \in Counted THEN ChargeOf(o) ELSE 0]
             g == [o \in Counted |-> ChargeOf(o)]
  <2>1. /\ p \in [Keys -> Operations] /\ billed \in [Keys -> Nat]
        /\ IsFiniteSet(Keys) /\ IsFiniteSet(Operations)
    BY <2>t, OpType, KeysFinite DEF Keys, MeterTypeOK
  <2>2. c \in [Operations -> Nat]
    BY <2>t, CostType
  <2>3. ASSUME NEW o \in Operations
        PROVE  Total([a \in {k \in Keys : p[k] = o} |-> billed[a]]) <= c[o]
    <3> DEFINE S == {k \in Keys : p[k] = o}
               f == [a \in S |-> billed[a]]
               h == [a \in AttemptsOf(o) |-> attempt[a].cost]
    <3>1. /\ IsFiniteSet(AttemptsOf(o)) /\ h \in [AttemptsOf(o) -> Nat]
          /\ CostOf(o) \in Nat /\ ChargeOf(o) \in Nat /\ CostOf(o) <= ChargeOf(o)
      BY <2>t, CostType
    <3>2. f \in [S -> Nat] /\ S \subseteq Keys
      BY <2>1
    <3>3. ASSUME NEW a \in S PROVE f[a] = 0 \/ (a \in AttemptsOf(o) /\ f[a] <= h[a])
      <4>1. /\ a \in Keys /\ Op(a[1]) = o /\ AttemptSound(a)
            /\ attempt[a] \in [state : {"none", "unknown", "confirmed"}, cost : 0 .. Reserved]
            /\ billed[a] \in 0 .. Reserved
        BY <2>t DEF MeterInv, MeterTypeOK
      <4>2. CASE attempt[a].state = "none"
        BY <4>1, <4>2 DEF AttemptSound
      <4>3. CASE attempt[a].state # "none"
        <5>1. a \in AttemptsOf(o) /\ h[a] = attempt[a].cost
          BY <4>1, <4>3 DEF AttemptsOf
        <5>2. billed[a] <= attempt[a].cost
          BY <4>1, <4>3, <2>t DEF AttemptSound
        <5> QED
          BY <5>1, <5>2
      <4> QED
        BY <4>2, <4>3
    <3>4. Total(f) <= Total(h)
      <4> HIDE DEF f, h, S
      <4> QED
        BY <3>1, <3>2, <3>3, TotalMonotone
    <3>5. Total(f) \in Nat
      <4>1. IsFiniteSet(S)
        BY <2>1, <3>2, FS_Subset
      <4> HIDE DEF f, S
      <4> QED
        BY <3>2, <4>1, TotalType
    <3>6. CASE o \in Counted
      <4>1. Total(f) <= CostOf(o)
        BY <3>4 DEF CostOf
      <4> HIDE DEF f
      <4> QED
        BY <3>1, <3>5, <3>6, <4>1 DEF f
    <3>7. CASE o \notin Counted
      <4>1. held[o].state = "none"
        BY <2>t, <3>7 DEF Counted, SettledOps, HeldOps, MeterTypeOK
      <4>2. AttemptsOf(o) = {}
        BY <4>1 DEF AttemptsOf, MeterInv, AttemptSound
      <4>3. UnitsOf(h) = {}
        BY <4>2 DEF UnitsOf
      <4>4. Total(h) = 0
        BY <4>3, FS_EmptySet DEF Total
      <4> HIDE DEF f, h
      <4>5. Total(f) <= 0
        BY <3>4, <4>4
      <4> QED
        BY <3>7, <4>5 DEF f
    <3> QED
      BY <3>6, <3>7
  <2>4. Total(billed) <= Total(c)
    <3> HIDE DEF p, c
    <3> QED
      BY <2>1, <2>2, <2>3, TotalByGroup
  <2>5. Total(c) <= Total(g)
    <3>1. IsFiniteSet(Counted) /\ g \in [Counted -> Nat]
      BY <2>t, CommittedType
    <3>2. \A o \in Operations : c[o] = 0 \/ (o \in Counted /\ c[o] <= g[o])
      BY <3>1
    <3> HIDE DEF c, g
    <3> QED
      BY <2>2, <3>1, <3>2, TotalMonotone
  <2>6. Total(g) <= PeriodBudget
    BY DEF MeterInv, Committed, Counted
  <2>7. Total(billed) \in Nat /\ Total(c) \in Nat /\ Total(g) \in Nat
    <3>1. IsFiniteSet(Counted) /\ g \in [Counted -> Nat]
      BY <2>t, CommittedType
    <3> HIDE DEF c, g
    <3> QED
      BY <2>1, <2>2, <3>1, TotalType
  <2> HIDE DEF c, g
  <2> QED
    BY <2>t, <2>4, <2>5, <2>6, <2>7 DEF BudgetHolds
<1> QED
  BY <1>1, MeterInvHolds, PTL

\* However many sessions of an operation follow or overtake one another, a
\* request is served in two of them only past an operator's confirmation or an
\* answer that was saved after the lease (begin of platform-llm.ts, receipts of
\* hosted-meter.ts).
THEOREM NotServedTwice == MeterSpec => []ServedOnce
<1>1. MeterInv => ServedOnce
  <2> SUFFICES ASSUME MeterInv, NEW a \in Keys, NEW b \in Keys, a # b,
                      Op(a[1]) = Op(b[1]), a[2] = b[2], billed[a] > 0, billed[b] > 0
               PROVE  {a, b} \cap (byHand \cup late) # {}
    BY DEF ServedOnce
  <2>1. attempt[a].state # "none" /\ attempt[b].state # "none"
    <3>1. AttemptSound(a) /\ AttemptSound(b)
      BY DEF MeterInv
    <3> QED
      BY <3>1 DEF AttemptSound
  <2>2. Harmless(a) \/ Harmless(b)
    BY <2>1 DEF MeterInv, Twins
  <2> QED
    BY <2>2 DEF Harmless
<1> QED
  BY <1>1, MeterInvHolds, PTL

\* A unit is captured for a stored result of known cost, or by an operator
\* (settle of hosted-meter.ts and platform-llm.ts).
THEOREM ChargedForAResult == MeterSpec => []ChargedForResults
<1>1. MeterInv => ChargedForResults
  <2> SUFFICES ASSUME MeterInv, NEW o \in Operations, held[o].state = "captured"
               PROVE  /\ UnknownOf(o) = {}
                      /\ o \notin settledBy => run[o].state = "completed" /\ run[o].capture
    BY DEF ChargedForResults, CapturedOps
  <2>1. UnknownOf(o) = {}
    BY DEF UnknownOf, AttemptsOf, MeterInv, AttemptSound
  <2>2. o \notin settledBy => run[o].state = "completed" /\ run[o].capture
    BY DEF MeterInv, OperationSound
  <2> QED
    BY <2>1, <2>2
<1> QED
  BY <1>1, MeterInvHolds, PTL

\* What a step does to the ledger: attempts begin under a held reservation or
\* are confirmed, the provider bills a request that was just sent, and a
\* settled reservation keeps its state.
LEMMA SessionLedger ==
  ASSUME MeterTypeOK, NEW s \in Sessions, SessionStep(s)
  PROVE  /\ \/ attempt' = attempt \/ \E X : attempt' = Confirmed(X)
            \/ /\ held[Op(s)].state = "held"
               /\ \E v : attempt' = [attempt EXCEPT ![Current(s)] = v]
         /\ billed' = billed \/ (At(s, "send") /\ \E v : billed' = [billed EXCEPT ![Current(s)] = v])
         /\ \A o \in Operations :
              held'[o].state = held[o].state \/ held[o].state \in {"none", "held"}
<1>1. CASE Start(s) \/ Acquire(s) \/ Unlock(s) \/ Admit(s) \/ Readmit(s) \/ StopStream(s)
           \/ SaveReceipt(s) \/ Finish(s) \/ Commit(s) \/ Fail(s) \/ Failing(s) \/ ReleaseRun(s)
           \/ Crash(s)
  <2>1. UNCHANGED <<attempt, billed, held>>
    BY <1>1 DEF Start, Acquire, Unlock, Admit, Readmit, StopStream, SaveReceipt, Finish, Commit,
       Fail, Failing, ReleaseRun, Crash
  <2> QED
    BY <2>1
<1>2. CASE ReadReceipt(s) \/ ConfirmAtNoCost(s) \/ ConfirmUsage(s) \/ ConfirmCached(s)
  <2>1. UNCHANGED <<billed, held>>
    BY <1>2 DEF ReadReceipt, ConfirmAtNoCost, ConfirmUsage, ConfirmCached
  <2>2. attempt' = attempt \/ \E X : attempt' = Confirmed(X)
    BY <1>2 DEF ReadReceipt, ConfirmAtNoCost, ConfirmUsage, ConfirmCached
  <2> QED
    BY <2>1, <2>2
<1>3. CASE AcquireControl(s) \/ Reserve(s) \/ ReleaseControl(s)
  <2>1. UNCHANGED <<attempt, billed>>
    BY <1>3 DEF AcquireControl, Reserve, ReleaseControl
  <2>2. \A o \in Operations : held'[o].state = held[o].state \/ held[o].state \in {"none", "held"}
    BY <1>3, OpType DEF AcquireControl, Reserve, ReleaseControl, MeterTypeOK
  <2> QED
    BY <2>1, <2>2
<1>4. CASE Settle(s) \/ Refund(s)
  <2>1. UNCHANGED <<attempt, billed>>
    BY <1>4 DEF Settle, Refund
  <2>2. \A o \in Operations : held'[o].state = held[o].state \/ held[o].state \in {"none", "held"}
    BY <1>4, OpType DEF Settle, Refund, CanSettle, Settlement, MeterTypeOK
  <2> QED
    BY <2>1, <2>2
<1>5. CASE Begin(s)
  BY <1>5 DEF Begin, CanBegin
<1>6. CASE Send(s)
  BY <1>6 DEF Send
<1> QED
  BY <1>1, <1>2, <1>3, <1>4, <1>5, <1>6 DEF SessionStep

\* After its reservation is settled an operation costs nothing more: whatever
\* its sessions do, no attempt of it begins or changes and the provider bills
\* nothing (begin, complete and settle of platform-llm.ts).
THEOREM NothingAfterSettlement == MeterSpec => SettledIsFinal
<1> DEFINE Final(o) ==
      /\ held'[o].state = held[o].state
      /\ \A a \in Keys : Op(a[1]) = o => attempt'[a] = attempt[a] /\ billed'[a] = billed[a]
<1>1. ASSUME MeterInv, MeterNext, NEW o \in SettledOps PROVE Final(o)
  <2>t. /\ MeterTypeOK /\ o \in Operations /\ held[o].state \in {"captured", "released"}
    BY <1>1 DEF MeterInv, SettledOps
  <2>k. ASSUME NEW a \in Keys, Op(a[1]) = o PROVE attempt[a].state # "unknown"
    BY <1>1, <2>k, <2>t DEF MeterInv, AttemptSound
  <2>x. ASSUME NEW X, attempt' = Confirmed(X), NEW a \in Keys, Op(a[1]) = o
        PROVE  attempt'[a] = attempt[a]
    <3>1. attempt[a].state # "unknown"
      BY <2>x, <2>k
    <3> QED
      BY <2>x, <2>t, <3>1, ConfirmedTyped
  <2>1. ASSUME NEW s \in Sessions, SessionStep(s) PROVE Final(o)
    <3>1. /\ \/ attempt' = attempt \/ \E X : attempt' = Confirmed(X)
             \/ /\ held[Op(s)].state = "held"
                /\ \E v : attempt' = [attempt EXCEPT ![Current(s)] = v]
          /\ billed' = billed \/ (At(s, "send") /\ \E v : billed' = [billed EXCEPT ![Current(s)] = v])
          /\ held'[o].state = held[o].state
      BY <2>1, <2>t, SessionLedger
    <3>2. ASSUME NEW a \in Keys, Op(a[1]) = o PROVE attempt'[a] = attempt[a]
      <4>1. CASE \E X : attempt' = Confirmed(X)
        BY <2>x, <3>2, <4>1
      <4>2. CASE /\ held[Op(s)].state = "held"
                 /\ \E v : attempt' = [attempt EXCEPT ![Current(s)] = v]
        <5>1. a # Current(s)
          BY <2>t, <3>2, <4>2 DEF Current
        <5> QED
          BY <2>t, <4>2, <5>1 DEF MeterTypeOK
      <4> QED
        BY <3>1, <4>1, <4>2
    <3>3. ASSUME NEW a \in Keys, Op(a[1]) = o PROVE billed'[a] = billed[a]
      <4>1. CASE At(s, "send") /\ \E v : billed' = [billed EXCEPT ![Current(s)] = v]
        <5>1. attempt[Current(s)].state = "unknown"
          BY <1>1, <4>1 DEF MeterInv, SessionSound, Unsaved, At
        <5>2. a # Current(s)
          BY <2>k, <3>3, <5>1
        <5> QED
          BY <2>t, <4>1, <5>2 DEF MeterTypeOK
      <4> QED
        BY <3>1, <4>1
    <3> QED
      BY <3>1, <3>2, <3>3
  <2>2. ASSUME NEW p \in Operations, LapseRun(p) \/ LapseControl(p) PROVE Final(o)
    BY <2>2, <2>t DEF LapseRun, LapseControl, MeterTypeOK
  <2>3. ASSUME NEW p \in Operations, Reconcile(p) PROVE Final(o)
    <3>1. /\ \E X : attempt' = Confirmed(X)
          /\ UNCHANGED held \/ (held[p].state = "held" /\ \E c : held' = Settlement(p, c))
          /\ UNCHANGED billed
      BY <2>3 DEF Reconcile
    <3>2. held'[o].state = held[o].state
      BY <3>1, <2>t DEF Settlement, MeterTypeOK
    <3> QED
      BY <3>1, <3>2, <2>x
  <2>4. CASE ChangeStanding \/ JobTakesUnit \/ JobReturnsUnit
    BY <2>4 DEF ChangeStanding, JobTakesUnit, JobReturnsUnit
  <2> QED
    BY <1>1, <2>1, <2>2, <2>3, <2>4 DEF MeterNext, ServiceStep
<1>2. ASSUME UNCHANGED meterVars, NEW o \in SettledOps PROVE Final(o)
  BY <1>2 DEF meterVars
<1>3. MeterInv /\ [MeterNext]_meterVars => [\A o \in SettledOps : Final(o)]_meterVars
  BY <1>1, <1>2
<1> QED
  BY <1>3, MeterInvHolds, PTL DEF MeterSpec, SettledIsFinal
=============================================================================
