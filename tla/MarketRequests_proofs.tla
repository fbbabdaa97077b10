------------------------ MODULE MarketRequests_proofs ------------------------
(* Theorems about MarketRequests for any number of calls, quotes, processes   *)
(* with quotas of their own, leases and cooldowns.                            *)
EXTENDS MarketRequests, WellFoundedInduction, FiniteSetTheorems, TLAPS

\* A call that claims has a quote to claim, one that may ask has pages left, and
\* nothing was asked before the claims.  The requests a call has sent carry the
\* numbers of the pages it has asked for.
CallsSound ==
  \A c \in Callers :
    /\ call[c].pc = "claim" => call[c].todo # <<>>
    /\ call[c].pc \in {"idle", "claim"} => call[c].pages = 0
    /\ call[c].pc = "fetch" => call[c].pages < Pages[c]
    /\ call[c].pc \in {"wait", "end"} \/ \A s \in quota.attempts : s.by = c => s.page <= call[c].pages

\* The window's limit is that of the strictest process with a request in it,
\* and every request that QuotaKept counts is in it.
QuotaSound ==
  /\ \A s \in quota.attempts : /\ quota.limit <= LimitOf[s.by]
                               /\ Cardinality(quota.attempts) <= LimitOf[s.by]
  /\ sent \subseteq quota.attempts
  /\ \A s \in sent : s.at > now - ShortestWindow

\* A call owns what it has a lease of, and has a lease of what it owns unless
\* it has stalled; who waits or has ended owns nothing.
LeasesSound ==
  \A c \in Callers :
    /\ call[c].pc \in {"idle", "wait", "end"} => call[c].owned = {}
    /\ \A k \in Stocks : /\ k \in call[c].owned => c \in overran \/ OwnsEntry(c, k)
                         /\ OwnsEntry(c, k) => k \in call[c].owned

MarketInv == MarketTypeOK /\ CallsSound /\ QuotaSound /\ LeasesSound

-----------------------------------------------------------------------------
(* Operators.                                                               *)

LEMMA LeastOfNats ==
  ASSUME NEW S, S \subseteq Nat, S # {}
  PROVE  /\ \E x \in S : \A y \in S : x <= y
         /\ Min(S) \in S
<1>1. PICK x \in S : \A y \in S : <<y, x>> \notin OpToRel(<, Nat)
  BY NatLessThanWellFounded, WFMin
<1>2. \A y \in S : x <= y
  <2>. SUFFICES ASSUME NEW y \in S, ~(x <= y)
                PROVE  FALSE
    OBVIOUS
  <2>1. y < x /\ x \in Nat /\ y \in Nat
    OBVIOUS
  <2>. QED BY <1>1, <2>1 DEF OpToRel
<1>. QED BY <1>2 DEF Min

LEMMA ShortestIsLeast ==
  ASSUME MarketAssumption, NEW c \in Callers
  PROVE  ShortestWindow \in Nat /\ ShortestWindow <= WindowOf[c]
<1>. DEFINE S == {WindowOf[d] : d \in Callers}
<1>1. S \subseteq Nat /\ S # {}
  BY DEF MarketAssumption
<1>2. \E w \in S : \A v \in S : w <= v
  BY <1>1, LeastOfNats
<1>. QED BY <1>1, <1>2 DEF ShortestWindow

LEMMA ConfiguredTyped ==
  ASSUME MarketAssumption, MarketTypeOK, NEW c \in Callers
  PROVE  /\ Configured(c) \in ProviderEntry
         /\ Configured(c).attempts \subseteq quota.attempts
         /\ Configured(c).blocked = quota.blocked
         /\ IsFiniteSet(Configured(c).attempts)
<1>1. LimitOf[c] \in Nat \ {0} /\ WindowOf[c] \in Nat \ {0}
  BY DEF MarketAssumption
<1>2. quota \in ProviderEntry /\ IsFiniteSet(quota.attempts)
  BY DEF MarketTypeOK
<1>3. LimitKept(c) \in Nat \ {0} /\ WindowKept(c) \in Nat \ {0}
  BY <1>1, <1>2 DEF LimitKept, WindowKept, Earliest, Latest, ProviderEntry
<1>4. Recent(Latest(quota.window, WindowOf[c])) \subseteq quota.attempts
  BY DEF Recent
<1>5. Recent(Latest(quota.window, WindowOf[c])) \in SUBSET Requests
  BY <1>2, <1>4 DEF ProviderEntry
<1>6. /\ Configured(c) \in ProviderEntry
      /\ Configured(c).attempts = Recent(Latest(quota.window, WindowOf[c]))
      /\ Configured(c).blocked = quota.blocked
  BY <1>2, <1>3, <1>5 DEF Configured, ProviderEntry
<1>. QED BY <1>2, <1>4, <1>6, FS_Subset

\* What a process makes of the window before it looks at it keeps the stricter
\* limit, its own included, and forgets no request that QuotaKept counts.
LEMMA ConfiguredSound ==
  ASSUME MarketAssumption, MarketTypeOK, QuotaSound, NEW c \in Callers
  PROVE  /\ \A s \in Configured(c).attempts :
              /\ Configured(c).limit <= LimitOf[s.by]
              /\ Cardinality(Configured(c).attempts) <= LimitOf[s.by]
         /\ Configured(c).limit <= LimitOf[c]
         /\ sent \subseteq Configured(c).attempts
<1>. DEFINE w == Latest(quota.window, WindowOf[c])
<1>1. LimitOf \in [Callers -> Nat \ {0}] /\ WindowOf[c] \in Nat
  BY DEF MarketAssumption
<1>2. quota \in ProviderEntry /\ IsFiniteSet(quota.attempts) /\ sent \subseteq Requests /\ now \in Nat
  BY DEF MarketTypeOK, MarketAssumption
<1>3. quota.limit \in Nat /\ quota.window \in Nat /\ quota.attempts \subseteq Requests
  BY <1>2 DEF ProviderEntry
<1>4. w \in Nat /\ WindowOf[c] <= w
  BY <1>1, <1>3 DEF Latest
<1>5. /\ Configured(c).attempts = Recent(w)
      /\ Configured(c).limit = LimitKept(c)
  BY <1>2 DEF Configured, ProviderEntry
<1>6. /\ LimitKept(c) <= LimitOf[c]
      /\ Recent(w) # {} => LimitKept(c) <= quota.limit
  BY <1>1, <1>3 DEF LimitKept, QuotaIdle, Earliest
<1>7. Recent(w) \subseteq quota.attempts
  BY DEF Recent
<1>8. /\ IsFiniteSet(Recent(w)) /\ Cardinality(Recent(w)) \in Nat /\ Cardinality(quota.attempts) \in Nat
      /\ Cardinality(Recent(w)) <= Cardinality(quota.attempts)
  BY <1>2, <1>7, FS_Subset, FS_CardinalityType
<1>9. ASSUME NEW s \in Recent(w)
      PROVE  LimitKept(c) <= LimitOf[s.by] /\ Cardinality(Recent(w)) <= LimitOf[s.by]
  <2>1. quota.limit <= LimitOf[s.by] /\ Cardinality(quota.attempts) <= LimitOf[s.by]
    BY <1>7 DEF QuotaSound
  <2>2. LimitOf[s.by] \in Nat /\ LimitOf[c] \in Nat
    BY <1>1, <1>3, <1>7 DEF Requests
  <2>3. LimitKept(c) \in Nat
    BY <1>1, <1>3, <2>2 DEF LimitKept, Earliest
  <2>. QED BY <1>3, <1>6, <1>8, <2>1, <2>2, <2>3
<1>10. ASSUME NEW s \in sent
       PROVE  s \in Recent(w)
  <2>1. s \in quota.attempts /\ s.at > now - ShortestWindow /\ s.at \in Nat
    BY <1>2 DEF QuotaSound, Requests
  <2>. QED BY <1>1, <1>2, <1>4, <2>1, ShortestIsLeast DEF Recent
<1>. QED BY <1>5, <1>6, <1>9, <1>10

-----------------------------------------------------------------------------
(* Types.                                                                   *)

LEMMA NotBegunTyped ==
  NotBegun \in Progress /\ NotBegun.pages = 0
  BY DEF NotBegun, Progress

LEMMA InitSound ==
  ASSUME MarketAssumption, MarketInit
  PROVE  MarketInv
<1>1. NotBegun \in Progress /\ NoEntry \in RequestEntry
  BY NotBegunTyped DEF NoEntry, RequestEntry
<1>2. quota \in ProviderEntry /\ quota.attempts = {} /\ IsFiniteSet(quota.attempts)
  BY FS_EmptySet DEF MarketInit, ProviderEntry
<1>3. \A c \in Callers : call[c] = NotBegun
  BY DEF MarketInit
<1>4. \A c \in Callers : Pages[c] \in Nat
  BY DEF MarketAssumption
<1>5. MarketTypeOK
  BY <1>1, <1>2, <1>3, <1>4 DEF MarketTypeOK, MarketInit, NotBegun, MarketAssumption
<1>6. CallsSound
  BY <1>2, <1>3 DEF CallsSound, NotBegun
<1>7. QuotaSound
  BY <1>2 DEF QuotaSound, MarketInit
<1>8. LeasesSound
  BY <1>3 DEF LeasesSound, NotBegun, OwnsEntry, EntryLeased, MarketInit, NoEntry
<1>. QED BY <1>5, <1>6, <1>7, <1>8 DEF MarketInv

LEMMA ConcludeTyped ==
  ASSUME MarketTypeOK, NEW c \in Callers, NEW answered \in SUBSET Stocks, NEW retryAt \in Nat,
         NEW missing \in BOOLEAN, Conclude(c, answered, retryAt, missing)
  PROVE  /\ call' \in [Callers -> Progress]
         /\ \A d \in Callers : /\ call'[d].pages = call[d].pages
                               /\ call'[d].owned = call[d].owned
                               /\ d # c => call'[d] = call[d]
         /\ call'[c].pc = "finish"
<1>1. call \in [Callers -> Progress] /\ call[c] \in Progress
  BY DEF MarketTypeOK
<1>2. call' = [call EXCEPT ![c] = [call[c] EXCEPT !.pc = "finish", !.answered = answered,
                                                  !.retryAt = retryAt, !.batch = missing]]
  BY <1>1 DEF Conclude
<1>3. [call[c] EXCEPT !.pc = "finish", !.answered = answered,
                      !.retryAt = retryAt, !.batch = missing] \in Progress
  BY <1>1 DEF Progress
<1>4. call[c].pages = call'[c].pages /\ call[c].owned = call'[c].owned /\ call'[c].pc = "finish"
  BY <1>1, <1>2 DEF Progress
<1>. QED BY <1>1, <1>2, <1>3, <1>4

LEMMA BlockedTyped ==
  ASSUME MarketAssumption, MarketTypeOK, NEW c \in Callers, NEW delay \in Nat
  PROVE  /\ Blocked(c, delay) \in ProviderEntry
         /\ Blocked(c, delay).attempts = Configured(c).attempts
         /\ Blocked(c, delay).limit = Configured(c).limit
<1>1. Configured(c) \in ProviderEntry /\ now \in Nat
  BY ConfiguredTyped DEF MarketTypeOK, MarketAssumption
<1>2. Latest(Configured(c).blocked, now + delay) \in Nat
  BY <1>1 DEF ProviderEntry, Latest
<1>. QED BY <1>1, <1>2 DEF Blocked, ProviderEntry

\* A step of a call that leaves its own record typed and sound leaves the types
\* and the records of all the calls so.
LEMMA CallMoves ==
  ASSUME MarketAssumption, MarketTypeOK, CallsSound, NEW c \in Callers, NEW r \in Progress,
         call' = [call EXCEPT ![c] = r], r.pages <= Pages[c],
         entry' \in [Stocks -> RequestEntry],
         quota' \in ProviderEntry, IsFiniteSet(quota'.attempts),
         sent' \subseteq Requests, now' = now, overran' = overran,
         \A s \in quota'.attempts : s \in quota.attempts \/ s.by = c,
         r.pc = "claim" => r.todo # <<>>,
         r.pc \in {"idle", "claim"} => r.pages = 0,
         r.pc = "fetch" => r.pages < Pages[c],
         r.pc \in {"wait", "end"} \/ \A s \in quota'.attempts : s.by = c => s.page <= r.pages
  PROVE  MarketTypeOK' /\ CallsSound'
<1>1. call \in [Callers -> Progress]
  BY DEF MarketTypeOK
<1>2. call'[c] = r /\ \A d \in Callers : d # c => call'[d] = call[d]
  BY <1>1
<1>3. call' \in [Callers -> Progress]
  BY <1>1
<1>4. MarketTypeOK'
  BY <1>2, <1>3 DEF MarketTypeOK
<1>5. ASSUME NEW d \in Callers
      PROVE  /\ call'[d].pc = "claim" => call'[d].todo # <<>>
             /\ call'[d].pc \in {"idle", "claim"} => call'[d].pages = 0
             /\ call'[d].pc = "fetch" => call'[d].pages < Pages[d]
             /\ \/ call'[d].pc \in {"wait", "end"}
                \/ \A s \in quota'.attempts : s.by = d => s.page <= call'[d].pages
  <2>1. CASE d = c
    BY <1>2, <2>1
  <2>2. CASE d # c
    <3>1. call'[d] = call[d]
      BY <1>2, <2>2
    <3>2. \A s \in quota'.attempts : s.by = d => s \in quota.attempts
      BY <2>2
    <3>. QED BY <3>1, <3>2 DEF CallsSound
  <2>. QED BY <2>1, <2>2
<1>. QED BY <1>4, <1>5 DEF CallsSound

LEMMA BeginTyped ==
  ASSUME MarketAssumption, MarketTypeOK, CallsSound, NEW c \in Callers, BeginCall(c)
  PROVE  MarketTypeOK' /\ CallsSound'
<1>. DEFINE r == [call[c] EXCEPT !.pc = "claim", !.todo = Wants[c]]
<1>1. call \in [Callers -> Progress] /\ call[c] \in Progress /\ call[c].pc = "idle"
  BY DEF MarketTypeOK, BeginCall, CallAt
<1>2. Wants[c] \in Seq(Stocks) /\ Wants[c] # <<>>
  BY DEF MarketAssumption
<1>3. r \in Progress /\ r.pc = "claim" /\ r.todo = Wants[c] /\ r.pages = call[c].pages
  BY <1>1, <1>2 DEF Progress
<1>4. call' = [call EXCEPT ![c] = r]
  BY <1>1 DEF BeginCall
<1>5. /\ entry' \in [Stocks -> RequestEntry] /\ quota' \in ProviderEntry
      /\ IsFiniteSet(quota'.attempts) /\ sent' \subseteq Requests /\ quota' = quota
      /\ now' = now /\ overran' = overran
  BY DEF BeginCall, MarketTypeOK
<1>6. call[c].pages <= Pages[c] /\ call[c].pages = 0
  BY <1>1 DEF MarketTypeOK, CallsSound
<1>7. \A s \in quota'.attempts : s.by = c => s.page <= r.pages
  BY <1>1, <1>3, <1>5 DEF CallsSound
<1>. HIDE DEF r
<1>. QED BY <1>2, <1>3, <1>4, <1>5, <1>6, <1>7, CallMoves

LEMMA ClaimTyped ==
  ASSUME MarketAssumption, MarketTypeOK, CallsSound, NEW c \in Callers, ClaimEntry(c)
  PROVE  MarketTypeOK' /\ CallsSound'
<1>. DEFINE k == Head(call[c].todo)
            rest == Tail(call[c].todo)
            refused == Cooling(k) /\ ~MayAskAlone(c, k)
            taken == MayClaim(k) /\ ~refused
            owned == call[c].owned \cup (IF taken THEN {k} ELSE {})
            pending == call[c].pending \cup (IF ~Fresh(k) /\ ~refused /\ ~MayClaim(k) THEN {k} ELSE {})
            pc == IF rest = <<>> THEN AfterClaims(owned, pending) ELSE "claim"
            deadline == IF rest = <<>> /\ AfterClaims(owned, pending) = "wait" THEN now + Lease ELSE 0
            r == [call[c] EXCEPT !.todo = rest, !.owned = owned, !.pending = pending,
                                 !.pc = pc, !.deadline = deadline]
<1>1. call \in [Callers -> Progress] /\ call[c] \in Progress /\ call[c].pc = "claim"
  BY DEF MarketTypeOK, ClaimEntry, CallAt
<1>2. call[c].todo \in Seq(Stocks) /\ call[c].todo # <<>>
  BY <1>1 DEF CallsSound, Progress
<1>3. k \in Stocks /\ rest \in Seq(Stocks)
  BY <1>2
<1>4. now \in Nat /\ Lease \in Nat /\ now + Lease \in Nat
  BY DEF MarketTypeOK, MarketAssumption
<1>5. owned \in SUBSET Stocks /\ pending \in SUBSET Stocks /\ deadline \in Nat
  BY <1>1, <1>3, <1>4 DEF Progress
<1>6. pc \in {"fetch", "wait", "end", "claim"} /\ (pc = "claim" => rest # <<>>)
  BY DEF AfterClaims
<1>7. call' = [call EXCEPT ![c] = r]
  <2>. HIDE DEF k, rest, refused, taken, owned, pending, pc, deadline
  <2>1. call' = [call EXCEPT ![c].todo = rest, ![c].owned = owned, ![c].pending = pending,
                             ![c].pc = pc, ![c].deadline = deadline]
    BY DEF ClaimEntry, k, rest, refused, taken, owned, pending, pc, deadline
  <2>. QED BY <1>1, <2>1
<1>8. entry' \in [Stocks -> RequestEntry]
  <2>. DEFINE e == [entry[k] EXCEPT !.owner = c, !.until = now + Lease, !.retryAt = 0, !.missing = FALSE]
  <2>1. entry \in [Stocks -> RequestEntry] /\ entry[k] \in RequestEntry
    BY <1>3 DEF MarketTypeOK
  <2>2. e \in RequestEntry
    BY <1>4, <2>1 DEF RequestEntry
  <2>3. entry' = [entry EXCEPT ![k] = e] \/ entry' = entry
    BY <2>1 DEF ClaimEntry
  <2>. HIDE DEF k, e
  <2>. QED BY <1>3, <2>1, <2>2, <2>3
<1>. HIDE DEF k, rest, refused, taken, owned, pending, pc, deadline
<1>9. /\ r \in Progress /\ r.pc = pc /\ r.todo = rest /\ r.pages = call[c].pages
  BY <1>1, <1>3, <1>5, <1>6 DEF Progress
<1>10. /\ quota' \in ProviderEntry /\ IsFiniteSet(quota'.attempts) /\ sent' \subseteq Requests
       /\ quota' = quota /\ now' = now /\ overran' = overran
  BY DEF ClaimEntry, MarketTypeOK
<1>11. call[c].pages <= Pages[c] /\ call[c].pages = 0 /\ Pages[c] > 0
  BY <1>1 DEF MarketTypeOK, CallsSound, MarketAssumption
<1>12. \A s \in quota'.attempts : s.by = c => s.page <= r.pages
  BY <1>1, <1>9, <1>10 DEF CallsSound
<1>. HIDE DEF r
<1>. QED BY <1>6, <1>7, <1>8, <1>9, <1>10, <1>11, <1>12, CallMoves

LEMMA RenewTyped ==
  ASSUME MarketAssumption, MarketTypeOK, CallsSound, NEW c \in Callers, Renew(c)
  PROVE  MarketTypeOK' /\ CallsSound'
<1>1. now + Lease \in Nat
  BY DEF MarketTypeOK, MarketAssumption
<1>2. entry' \in [Stocks -> RequestEntry]
  <2>1. ASSUME NEW k \in Stocks
        PROVE  /\ entry[k] \in RequestEntry
               /\ [entry[k] EXCEPT !.until = now + Lease] \in RequestEntry
    BY <1>1 DEF MarketTypeOK, RequestEntry
  <2>. QED BY <2>1 DEF Renew
<1>. QED BY <1>2 DEF Renew, MarketTypeOK, CallsSound

\* What a request refused or sent does to the window and to the call.
LEMMA FetchTyped ==
  ASSUME MarketAssumption, MarketTypeOK, CallsSound, NEW c \in Callers, Fetch(c)
  PROVE  MarketTypeOK' /\ CallsSound'
<1>. DEFINE window == Configured(c)
            used == Cardinality(window.attempts)
            times == {s.at : s \in window.attempts}
            first == Min(times)
            request == [at |-> now, by |-> c, page |-> call[c].pages + 1]
<1>1. call \in [Callers -> Progress] /\ call[c] \in Progress /\ call[c].pc = "fetch"
  BY DEF MarketTypeOK, Fetch, CallAt
<1>2. /\ entry' = entry /\ entry' \in [Stocks -> RequestEntry] /\ now' = now /\ overran' = overran
      /\ now \in 0 .. MaxTime /\ sent \subseteq Requests /\ quota \in ProviderEntry
      /\ MaxTime \in Nat /\ now \in Nat
  BY DEF MarketTypeOK, Fetch, MarketAssumption
<1>3. /\ window \in ProviderEntry /\ window.attempts \subseteq quota.attempts
      /\ IsFiniteSet(window.attempts)
  BY ConfiguredTyped
<1>4. call[c].pages \in Nat /\ call[c].pages < Pages[c] /\ Pages[c] \in Nat
  BY <1>1 DEF Progress, CallsSound, MarketAssumption
<1>5. \A s \in quota.attempts : s.by = c => s.page <= call[c].pages
  BY <1>1 DEF CallsSound
<1>6. ASSUME NEW retryAt \in Nat, Conclude(c, {}, retryAt, FALSE), quota' = window, sent' = sent
      PROVE  MarketTypeOK' /\ CallsSound'
  <2>. DEFINE r == [call[c] EXCEPT !.pc = "finish", !.answered = {}, !.retryAt = retryAt, !.batch = FALSE]
  <2>1. r \in Progress /\ r.pc = "finish" /\ r.pages = call[c].pages
    BY <1>1 DEF Progress
  <2>2. call' = [call EXCEPT ![c] = r]
    BY <1>1, <1>6 DEF Conclude
  <2>3. r.pages <= Pages[c]
    BY <1>4, <2>1
  <2>4. quota'.attempts \subseteq quota.attempts
    BY <1>3, <1>6
  <2>5. \A s \in quota'.attempts : s.by = c => s.page <= r.pages
    BY <1>5, <2>1, <2>4
  <2>6. quota' \in ProviderEntry /\ IsFiniteSet(quota'.attempts)
    BY <1>3, <1>6
  <2>. HIDE DEF r, window
  <2>. QED BY <1>2, <1>6, <2>1, <2>2, <2>3, <2>4, <2>5, <2>6, CallMoves
<1>7. CASE quota.blocked > now /\ Conclude(c, {}, quota.blocked, FALSE) /\ quota' = window /\ sent' = sent
  <2>1. quota.blocked \in Nat
    BY <1>2 DEF ProviderEntry
  <2>. QED BY <1>6, <1>7, <2>1
<1>8. CASE /\ used >= window.limit /\ Conclude(c, {}, first + window.window, FALSE)
           /\ quota' = window /\ sent' = sent
  <2>1. window.limit \in Nat \ {0} /\ window.window \in Nat /\ window.attempts \subseteq Requests
    BY <1>3 DEF ProviderEntry
  <2>2. window.attempts # {}
    <3>1. used # 0
      <4>. HIDE DEF used, window
      <4>. QED BY <1>8, <2>1
    <3>. QED BY <3>1, FS_EmptySet
  <2>3. times \subseteq Nat /\ times # {}
    BY <1>2, <2>1, <2>2 DEF Requests
  <2>4. first \in Nat
    <3>. HIDE DEF times
    <3>. QED BY <2>3, LeastOfNats
  <2>5. first + window.window \in Nat
    <3>. HIDE DEF first, window
    <3>. QED BY <2>1, <2>4
  <2>. QED BY <1>6, <1>8, <2>5
<1>9. CASE /\ quota' = [window EXCEPT !.attempts = @ \cup {request}]
           /\ sent' = sent \cup {request}
           /\ call' = [call EXCEPT ![c].pc = "await", ![c].pages = @ + 1]
  <2>. DEFINE r == [call[c] EXCEPT !.pc = "await", !.pages = call[c].pages + 1]
  <2>1. r \in Progress /\ r.pc = "await" /\ r.pages = call[c].pages + 1
    <3>1. call[c].pages + 1 \in Nat
      BY <1>4
    <3>. QED BY <1>1, <3>1 DEF Progress
  <2>2. call' = [call EXCEPT ![c] = r]
    BY <1>1, <1>9
  <2>3. request \in Requests /\ request.by = c /\ request.page = call[c].pages + 1
    BY <1>2, <1>4 DEF Requests
  <2>4. /\ quota' \in ProviderEntry /\ quota'.attempts = window.attempts \cup {request}
    <3>. HIDE DEF window, request
    <3>. QED BY <1>3, <1>9, <2>3 DEF ProviderEntry
  <2>5. IsFiniteSet(quota'.attempts)
    <3>. HIDE DEF window, request
    <3>1. IsFiniteSet(window.attempts \cup {request})
      BY <1>3, FS_AddElement
    <3>. QED BY <2>4, <3>1
  <2>6. \A s \in quota'.attempts : s.by = c => s.page <= r.pages
    <3>. SUFFICES ASSUME NEW s \in quota'.attempts, s.by = c
                  PROVE  s.page <= r.pages
      OBVIOUS
    <3>1. CASE s = request
      BY <1>4, <2>1, <2>3, <3>1
    <3>2. CASE s \in quota.attempts
      <4>1. s.page \in Nat /\ s.page <= call[c].pages
        BY <1>2, <1>5, <3>2 DEF ProviderEntry, Requests
      <4>. QED BY <1>4, <2>1, <4>1
    <3>. QED BY <1>3, <2>4, <3>1, <3>2
  <2>7. \A s \in quota'.attempts : s \in quota.attempts \/ s.by = c
    BY <1>3, <2>3, <2>4
  <2>8. sent' \subseteq Requests
    BY <1>2, <1>9, <2>3
  <2>9. r.pages <= Pages[c]
    BY <1>4, <2>1
  <2>. HIDE DEF r, window, request
  <2>. QED BY <1>2, <2>1, <2>2, <2>4, <2>5, <2>6, <2>7, <2>8, <2>9, CallMoves
<1>. QED BY <1>7, <1>8, <1>9 DEF Fetch

\* The answer, a failure or what is no answer: the call asks for another page or
\* concludes, and the window is blocked or not.
LEMMA AwaitTyped ==
  ASSUME MarketAssumption, MarketTypeOK, CallsSound, NEW c \in Callers,
         Answered(c) \/ ProviderFails(c) \/ Unusable(c)
  PROVE  MarketTypeOK' /\ CallsSound'
<1>1. call \in [Callers -> Progress] /\ call[c] \in Progress /\ call[c].pc = "await"
  BY DEF MarketTypeOK, Answered, ProviderFails, Unusable, CallAt
<1>2. /\ entry' = entry /\ entry' \in [Stocks -> RequestEntry] /\ now' = now /\ overran' = overran
      /\ sent' = sent /\ sent' \subseteq Requests
  BY DEF MarketTypeOK, Answered, ProviderFails, Unusable
<1>3. Cooldown \in Nat /\ Delays \subseteq Nat
  BY DEF MarketAssumption
<1>4. /\ quota' \in ProviderEntry /\ IsFiniteSet(quota'.attempts)
      /\ quota'.attempts \subseteq quota.attempts
  <2>1. \A delay \in Nat : /\ Blocked(c, delay) \in ProviderEntry
                           /\ IsFiniteSet(Blocked(c, delay).attempts)
                           /\ Blocked(c, delay).attempts \subseteq quota.attempts
    BY ConfiguredTyped, BlockedTyped
  <2>2. quota' = quota \/ \E delay \in Nat : quota' = Blocked(c, delay)
    BY <1>3 DEF Answered, ProviderFails, Unusable
  <2>. QED BY <2>1, <2>2 DEF MarketTypeOK
<1>5. call[c].pages \in Nat /\ call[c].pages <= Pages[c]
  BY <1>1 DEF Progress, MarketTypeOK
<1>6. \A s \in quota'.attempts : s.by = c => s.page <= call[c].pages
  BY <1>1, <1>4 DEF CallsSound
<1>7. CASE call[c].pages < Pages[c] /\ call' = [call EXCEPT ![c].pc = "fetch"]
  <2>. DEFINE r == [call[c] EXCEPT !.pc = "fetch"]
  <2>1. r \in Progress /\ r.pc = "fetch" /\ r.pages = call[c].pages
    BY <1>1 DEF Progress
  <2>2. call' = [call EXCEPT ![c] = r]
    BY <1>1, <1>7
  <2>. HIDE DEF r
  <2>. QED BY <1>2, <1>4, <1>5, <1>6, <1>7, <2>1, <2>2, CallMoves
<1>8. ASSUME NEW answered \in SUBSET Stocks, NEW missing \in BOOLEAN, Conclude(c, answered, 0, missing)
      PROVE  MarketTypeOK' /\ CallsSound'
  <2>. DEFINE r == [call[c] EXCEPT !.pc = "finish", !.answered = answered, !.retryAt = 0, !.batch = missing]
  <2>1. r \in Progress /\ r.pc = "finish" /\ r.pages = call[c].pages
    BY <1>1 DEF Progress
  <2>2. call' = [call EXCEPT ![c] = r]
    BY <1>1, <1>8 DEF Conclude
  <2>. HIDE DEF r
  <2>. QED BY <1>2, <1>4, <1>5, <1>6, <2>1, <2>2, CallMoves
<1>9. call[c].owned \subseteq Stocks
  BY <1>1 DEF Progress
<1>10. CASE Answered(c)
  BY <1>7, <1>8, <1>9, <1>10 DEF Answered
<1>11. CASE ProviderFails(c) \/ Unusable(c)
  BY <1>7, <1>8, <1>11 DEF ProviderFails, Unusable
<1>. QED BY <1>10, <1>11

LEMMA FinishTyped ==
  ASSUME MarketAssumption, MarketTypeOK, CallsSound, NEW c \in Callers, FinishEntry(c)
  PROVE  MarketTypeOK' /\ CallsSound'
<1>1. call \in [Callers -> Progress] /\ call[c] \in Progress /\ call[c].pc = "finish"
  BY DEF MarketTypeOK, FinishEntry, CallAt
<1>2. /\ quota' = quota /\ quota' \in ProviderEntry /\ IsFiniteSet(quota'.attempts)
      /\ now' = now /\ overran' = overran /\ sent' \subseteq Requests
  BY DEF FinishEntry, MarketTypeOK
<1>3. /\ now \in Nat /\ Lease \in Nat /\ Ttl \in Nat /\ Cooldown \in Nat
      /\ Retained \in Nat /\ now + Lease \in Nat /\ now + Ttl \in Nat /\ now + Cooldown \in Nat
  BY DEF MarketTypeOK, MarketAssumption, Retained
<1>4. call[c].pages \in Nat /\ call[c].pages <= Pages[c] /\ Pages[c] \in Nat \ {0}
  BY <1>1 DEF Progress, MarketTypeOK, MarketAssumption
<1>5. PICK i \in 1 .. Len(Wants[c]) :
        LET k == Wants[c][i]
            owned == call[c].owned \ {k}
        IN  /\ k \in call[c].owned
            /\ entry' =
                 IF ~OwnsEntry(c, k) THEN entry
                 ELSE [entry EXCEPT ![k] =
                        IF k \in call[c].answered THEN [NoEntry EXCEPT !.fresh = now + Ttl]
                        ELSE [@ EXCEPT !.owner = NoOwner, !.until = 0, !.missing = call[c].batch,
                                !.retryAt = IF call[c].retryAt = 0 THEN now + Cooldown
                                            ELSE Earliest(call[c].retryAt, Retained)]]
            /\ call' = [call EXCEPT ![c] =
                 IF owned # {} THEN [@ EXCEPT !.owned = owned]
                 ELSE IF call[c].pending = {} THEN [NotBegun EXCEPT !.pc = "end"]
                 ELSE [NotBegun EXCEPT !.pc = "wait", !.pending = call[c].pending,
                                       !.deadline = now + Lease]]
  BY DEF FinishEntry
<1>. DEFINE k == Wants[c][i]
            owned == call[c].owned \ {k}
<1>6. k \in Stocks /\ owned \in SUBSET Stocks
  BY <1>1, <1>5 DEF Progress
<1>7. entry' \in [Stocks -> RequestEntry]
  <2>. DEFINE retryAt == IF call[c].retryAt = 0 THEN now + Cooldown
                         ELSE Earliest(call[c].retryAt, Retained)
              failed == [entry[k] EXCEPT !.owner = NoOwner, !.until = 0, !.missing = call[c].batch,
                                         !.retryAt = retryAt]
              served == [NoEntry EXCEPT !.fresh = now + Ttl]
  <2>1. entry \in [Stocks -> RequestEntry] /\ entry[k] \in RequestEntry
    BY <1>6 DEF MarketTypeOK
  <2>2. retryAt \in Nat /\ call[c].batch \in BOOLEAN
    BY <1>1, <1>3 DEF Progress, Earliest
  <2>3. failed \in RequestEntry
    <3>. HIDE DEF retryAt, k
    <3>. QED BY <2>1, <2>2 DEF RequestEntry
  <2>4. served \in RequestEntry
    BY <1>3 DEF RequestEntry, NoEntry
  <2>5. \/ entry' = entry
        \/ entry' = [entry EXCEPT ![k] = served]
        \/ entry' = [entry EXCEPT ![k] = failed]
    BY <1>5, <2>1
  <2>. HIDE DEF served, failed, k
  <2>. QED BY <1>6, <2>1, <2>3, <2>4, <2>5
<1>8. PICK r \in Progress :
        /\ call' = [call EXCEPT ![c] = r]
        /\ \/ r.pc = "finish" /\ r.pages = call[c].pages
           \/ r.pc \in {"wait", "end"} /\ r.pages = 0
  <2>1. CASE owned # {}
    <3>. DEFINE r == [call[c] EXCEPT !.owned = owned]
    <3>1. r \in Progress /\ r.pc = "finish" /\ r.pages = call[c].pages
      BY <1>1, <1>6 DEF Progress
    <3>2. call' = [call EXCEPT ![c] = r]
      BY <1>1, <1>5, <2>1
    <3>. HIDE DEF r
    <3>. QED BY <3>1, <3>2
  <2>2. CASE owned = {} /\ call[c].pending = {}
    <3>. DEFINE r == [NotBegun EXCEPT !.pc = "end"]
    <3>1. r \in Progress /\ r.pc = "end" /\ r.pages = 0
      BY NotBegunTyped DEF Progress
    <3>2. call' = [call EXCEPT ![c] = r]
      BY <1>1, <1>5, <2>2
    <3>. HIDE DEF r
    <3>. QED BY <3>1, <3>2
  <2>3. CASE owned = {} /\ call[c].pending # {}
    <3>. DEFINE r == [NotBegun EXCEPT !.pc = "wait", !.pending = call[c].pending, !.deadline = now + Lease]
    <3>1. r \in Progress /\ r.pc = "wait" /\ r.pages = 0
      BY <1>1, <1>3, NotBegunTyped DEF Progress
    <3>2. call' = [call EXCEPT ![c] = r]
      BY <1>1, <1>5, <2>3
    <3>. HIDE DEF r
    <3>. QED BY <3>1, <3>2
  <2>. QED BY <2>1, <2>2, <2>3
<1>9. r.pages <= Pages[c]
  BY <1>4, <1>8
<1>10. r.pc \in {"wait", "end"} \/ \A s \in quota'.attempts : s.by = c => s.page <= r.pages
  BY <1>1, <1>2, <1>8 DEF CallsSound
<1>. QED BY <1>2, <1>7, <1>8, <1>9, <1>10, CallMoves

LEMMA StopWaitingTyped ==
  ASSUME MarketAssumption, MarketTypeOK, CallsSound, NEW c \in Callers, StopWaiting(c)
  PROVE  MarketTypeOK' /\ CallsSound'
<1>1. call \in [Callers -> Progress] /\ call[c] \in Progress /\ call[c].pc = "wait"
  BY DEF MarketTypeOK, StopWaiting, CallAt
<1>2. /\ quota' = quota /\ quota' \in ProviderEntry /\ IsFiniteSet(quota'.attempts)
      /\ now' = now /\ overran' = overran /\ sent' \subseteq Requests
      /\ entry' \in [Stocks -> RequestEntry]
  BY DEF StopWaiting, MarketTypeOK
<1>3. call[c].pages \in Nat /\ call[c].pages <= Pages[c] /\ Pages[c] \in Nat \ {0}
  BY <1>1 DEF Progress, MarketTypeOK, MarketAssumption
<1>4. PICK r \in Progress : /\ call' = [call EXCEPT ![c] = r]
                           /\ r.pc \in {"wait", "end"} /\ r.pages \in {0, call[c].pages}
  <2>1. PICK k \in call[c].pending :
          call' = [call EXCEPT ![c] =
            IF call[c].pending = {k} THEN [NotBegun EXCEPT !.pc = "end"]
            ELSE [call[c] EXCEPT !.pending = call[c].pending \ {k}]]
    BY <1>1 DEF StopWaiting
  <2>2. CASE call[c].pending = {k}
    <3>. DEFINE r == [NotBegun EXCEPT !.pc = "end"]
    <3>1. r \in Progress /\ r.pc = "end" /\ r.pages = 0
      BY NotBegunTyped DEF Progress
    <3>2. call' = [call EXCEPT ![c] = r]
      BY <1>1, <2>1, <2>2
    <3>. HIDE DEF r
    <3>. QED BY <3>1, <3>2
  <2>3. CASE call[c].pending # {k}
    <3>. DEFINE r == [call[c] EXCEPT !.pending = call[c].pending \ {k}]
    <3>1. r \in Progress /\ r.pc = "wait" /\ r.pages = call[c].pages
      BY <1>1 DEF Progress
    <3>2. call' = [call EXCEPT ![c] = r]
      BY <1>1, <2>1, <2>3
    <3>. HIDE DEF r
    <3>. QED BY <3>1, <3>2
  <2>. QED BY <2>2, <2>3
<1>5. r.pages <= Pages[c]
  BY <1>3, <1>4
<1>6. \A s \in quota'.attempts : s \in quota.attempts
  BY <1>2
<1>. QED BY <1>2, <1>4, <1>5, <1>6, CallMoves

LEMMA TickTyped ==
  ASSUME MarketAssumption, MarketTypeOK, CallsSound, Tick
  PROVE  MarketTypeOK' /\ CallsSound'
<1>1. now' \in 0 .. MaxTime
  BY DEF Tick, MarketTypeOK, MarketAssumption
<1>2. overran' \subseteq Callers /\ sent' \subseteq Requests
  BY DEF Tick, MarketTypeOK
<1>3. UNCHANGED <<entry, quota, call>>
  BY DEF Tick
<1>. QED BY <1>1, <1>2, <1>3 DEF MarketTypeOK, CallsSound

LEMMA StepTyped ==
  ASSUME MarketAssumption, MarketTypeOK, CallsSound, [MarketNext]_marketVars
  PROVE  MarketTypeOK' /\ CallsSound'
<1>1. ASSUME NEW c \in Callers, CallStep(c)
      PROVE  MarketTypeOK' /\ CallsSound'
  BY <1>1, BeginTyped, ClaimTyped, RenewTyped, FetchTyped, AwaitTyped, FinishTyped,
     StopWaitingTyped DEF CallStep
<1>2. CASE UNCHANGED marketVars
  BY <1>2 DEF marketVars, MarketTypeOK, CallsSound
<1>. QED BY <1>1, <1>2, TickTyped DEF MarketNext

-----------------------------------------------------------------------------
(* The quota.                                                               *)

\* A window that has the limit and the requests of the configured one, or one
\* request more where it leaves room for it, is sound.
LEMMA FetchKeepsQuota ==
  ASSUME MarketAssumption, MarketTypeOK, QuotaSound, NEW c \in Callers, Fetch(c)
  PROVE  QuotaSound'
<1>. DEFINE window == Configured(c)
            used == Cardinality(window.attempts)
            request == [at |-> now, by |-> c, page |-> call[c].pages + 1]
<1>1. /\ window \in ProviderEntry /\ IsFiniteSet(window.attempts)
      /\ \A s \in window.attempts : window.limit <= LimitOf[s.by] /\ used <= LimitOf[s.by]
      /\ window.limit <= LimitOf[c] /\ sent \subseteq window.attempts
  BY ConfiguredTyped, ConfiguredSound
<1>2. now' = now /\ now \in Nat /\ \A s \in sent : s.at > now - ShortestWindow
  BY DEF Fetch, QuotaSound, MarketTypeOK, MarketAssumption
<1>3. CASE quota' = window /\ sent' = sent
  <2>. HIDE DEF window
  <2>. QED BY <1>1, <1>2, <1>3 DEF QuotaSound
<1>4. CASE /\ used < window.limit
           /\ quota' = [window EXCEPT !.attempts = @ \cup {request}]
           /\ sent' = sent \cup {request}
  <2>1. request.by = c /\ request.at = now
    OBVIOUS
  <2>2. ShortestWindow \in Nat /\ ShortestWindow > 0
    <3>1. ShortestWindow \in {WindowOf[d] : d \in Callers}
      <4>. DEFINE S == {WindowOf[d] : d \in Callers}
      <4>1. S \subseteq Nat /\ S # {}
        BY DEF MarketAssumption
      <4>2. \E w \in S : \A v \in S : w <= v
        BY <4>1, LeastOfNats
      <4>. QED BY <4>2 DEF ShortestWindow
    <3>. QED BY <3>1 DEF MarketAssumption
  <2>. HIDE DEF window, request
  <2>3. quota'.attempts = window.attempts \cup {request} /\ quota'.limit = window.limit
    BY <1>1, <1>4 DEF ProviderEntry
  <2>4. /\ Cardinality(window.attempts) \in Nat
        /\ Cardinality(window.attempts \cup {request}) \in Nat
        /\ Cardinality(window.attempts \cup {request}) <= Cardinality(window.attempts) + 1
    <3>1. IsFiniteSet(window.attempts)
      BY <1>1
    <3>2. Cardinality(window.attempts) \in Nat
      BY <3>1, FS_CardinalityType
    <3>3. Cardinality(window.attempts \cup {request})
            \in {Cardinality(window.attempts), Cardinality(window.attempts) + 1}
      BY <3>1, FS_AddElement
    <3>. QED BY <3>2, <3>3
  <2>5. window.limit \in Nat
    BY <1>1 DEF ProviderEntry
  <2>6. Cardinality(quota'.attempts) <= window.limit
    BY <1>4, <2>3, <2>4, <2>5
  <2>7. ASSUME NEW s \in quota'.attempts
        PROVE  quota'.limit <= LimitOf[s.by] /\ Cardinality(quota'.attempts) <= LimitOf[s.by]
    <3>1. window.limit <= LimitOf[s.by]
      BY <1>1, <2>1, <2>3
    <3>2. s.by \in Callers
      BY <1>1, <2>1, <2>3 DEF ProviderEntry, Requests
    <3>3. LimitOf[s.by] \in Nat
      BY <3>2 DEF MarketAssumption
    <3>. QED BY <2>3, <2>4, <2>5, <2>6, <3>1, <3>3
  <2>8. ASSUME NEW s \in sent'
        PROVE  s.at > now' - ShortestWindow
    <3>1. CASE s \in sent
      BY <1>2, <3>1
    <3>2. CASE s = request
      BY <1>2, <2>1, <2>2, <3>2
    <3>. QED BY <1>4, <3>1, <3>2
  <2>9. sent' \subseteq quota'.attempts
    BY <1>1, <1>4, <2>3
  <2>10. ShortestWindow' = ShortestWindow
    BY DEF ShortestWindow
  <2>. QED BY <2>7, <2>8, <2>9, <2>10 DEF QuotaSound
<1>. QED BY <1>3, <1>4 DEF Fetch

LEMMA StepKeepsQuota ==
  ASSUME MarketAssumption, MarketTypeOK, QuotaSound, [MarketNext]_marketVars
  PROVE  QuotaSound'
<1>1. ASSUME UNCHANGED <<quota, sent, now>>
      PROVE  QuotaSound'
  BY <1>1 DEF QuotaSound, ShortestWindow
<1>2. ASSUME NEW c \in Callers, NEW delay \in Nat, quota' = Blocked(c, delay), UNCHANGED <<sent, now>>
      PROVE  QuotaSound'
  <2>1. quota'.attempts = Configured(c).attempts /\ quota'.limit = Configured(c).limit
    BY <1>2, BlockedTyped
  <2>. QED BY <1>2, <2>1, ConfiguredSound DEF QuotaSound, ShortestWindow
<1>3. Cooldown \in Nat /\ Delays \subseteq Nat
  BY DEF MarketAssumption
<1>4. ASSUME NEW c \in Callers, ProviderFails(c) \/ Unusable(c)
      PROVE  QuotaSound'
  BY <1>1, <1>2, <1>3, <1>4 DEF ProviderFails, Unusable
<1>5. ASSUME NEW c \in Callers, CallStep(c)
      PROVE  QuotaSound'
  <2>1. CASE BeginCall(c) \/ ClaimEntry(c) \/ Renew(c)
    BY <1>1, <2>1 DEF BeginCall, ClaimEntry, Renew
  <2>2. CASE Answered(c) \/ FinishEntry(c) \/ StopWaiting(c)
    BY <1>1, <2>2 DEF Answered, FinishEntry, StopWaiting
  <2>. QED BY <1>4, <1>5, <2>1, <2>2, FetchKeepsQuota DEF CallStep
<1>6. CASE Tick
  <2>1. quota' = quota /\ now' = now + 1 /\ sent' = {s \in sent : s.at > now + 1 - ShortestWindow}
    BY <1>6 DEF Tick
  <2>2. ASSUME NEW s \in sent'
        PROVE  s.at > now' - ShortestWindow
    <3>1. s.at > now + 1 - ShortestWindow /\ s.by \in Callers /\ now \in Nat
      BY <2>1 DEF MarketTypeOK, MarketAssumption, Requests
    <3>2. ShortestWindow \in Nat
      BY <3>1, ShortestIsLeast
    <3>. QED BY <2>1, <3>1, <3>2
  <2>3. sent' \subseteq sent
    BY <2>1
  <2>4. ShortestWindow' = ShortestWindow
    BY DEF ShortestWindow
  <2>. QED BY <2>1, <2>2, <2>3, <2>4 DEF QuotaSound
<1>7. CASE UNCHANGED marketVars
  BY <1>1, <1>7 DEF marketVars
<1>. QED BY <1>5, <1>6, <1>7 DEF MarketNext

-----------------------------------------------------------------------------
(* The leases.                                                              *)

\* A step that touches no entry and no call's quotes.
LEMMA OwnersStay ==
  ASSUME LeasesSound, UNCHANGED <<entry, now, overran>>, NEW c \in Callers,
         \A d \in Callers : call'[d].owned = call[d].owned,
         \A d \in Callers : d # c => call'[d] = call[d],
         call'[c].pc \notin {"idle", "wait", "end"} \/ call[c].pc \in {"idle", "wait", "end"}
  PROVE  LeasesSound'
<1>1. ASSUME NEW d \in Callers
      PROVE  call'[d].pc \in {"idle", "wait", "end"} => call'[d].owned = {}
  BY DEF LeasesSound
<1>2. ASSUME NEW d \in Callers, NEW k \in Stocks
      PROVE  /\ OwnsEntry(d, k)' <=> OwnsEntry(d, k)
             /\ k \in call'[d].owned <=> k \in call[d].owned
  BY DEF OwnsEntry, EntryLeased
<1>. QED BY <1>1, <1>2 DEF LeasesSound

LEMMA AskingKeepsLeases ==
  ASSUME MarketTypeOK, LeasesSound, NEW c \in Callers,
         BeginCall(c) \/ Fetch(c) \/ Answered(c) \/ ProviderFails(c) \/ Unusable(c) \/ StopWaiting(c)
  PROVE  LeasesSound'
<1>1. call \in [Callers -> Progress]
  BY DEF MarketTypeOK
<1>2. ASSUME NEW answered, NEW retryAt, NEW missing, Conclude(c, answered, retryAt, missing)
      PROVE  /\ \A d \in Callers : call'[d].owned = call[d].owned /\ (d # c => call'[d] = call[d])
             /\ call'[c].pc = "finish"
  BY <1>1, <1>2 DEF Conclude, Progress
<1>3. ASSUME NEW pc, call' = [call EXCEPT ![c].pc = pc]
      PROVE  /\ \A d \in Callers : call'[d].owned = call[d].owned /\ (d # c => call'[d] = call[d])
             /\ call'[c].pc = pc
  BY <1>1, <1>3 DEF Progress
<1>4. CASE BeginCall(c)
  <2>1. /\ \A d \in Callers : call'[d].owned = call[d].owned /\ (d # c => call'[d] = call[d])
        /\ call'[c].pc = "claim"
    BY <1>1, <1>4 DEF BeginCall, Progress
  <2>. QED BY <1>4, <2>1, OwnersStay DEF BeginCall
<1>5. CASE Fetch(c)
  <2>1. UNCHANGED <<entry, now, overran>>
    BY <1>5 DEF Fetch
  <2>2. \/ \E retryAt : Conclude(c, {}, retryAt, FALSE)
        \/ call' = [call EXCEPT ![c].pc = "await", ![c].pages = @ + 1]
    BY <1>5 DEF Fetch
  <2>3. /\ \A d \in Callers : call'[d].owned = call[d].owned /\ (d # c => call'[d] = call[d])
        /\ call'[c].pc \in {"finish", "await"}
    <3>1. CASE call' = [call EXCEPT ![c].pc = "await", ![c].pages = @ + 1]
      BY <1>1, <3>1 DEF Progress
    <3>. QED BY <1>2, <2>2, <3>1
  <2>. QED BY <2>1, <2>3, OwnersStay
<1>6. CASE Answered(c) \/ ProviderFails(c) \/ Unusable(c)
  <2>1. UNCHANGED <<entry, now, overran>>
    BY <1>6 DEF Answered, ProviderFails, Unusable
  <2>2. \/ \E answered, retryAt, missing : Conclude(c, answered, retryAt, missing)
        \/ call' = [call EXCEPT ![c].pc = "fetch"]
    BY <1>6 DEF Answered, ProviderFails, Unusable
  <2>3. /\ \A d \in Callers : call'[d].owned = call[d].owned /\ (d # c => call'[d] = call[d])
        /\ call'[c].pc \in {"finish", "fetch"}
    BY <1>2, <1>3, <2>2
  <2>. QED BY <2>1, <2>3, OwnersStay
<1>7. CASE StopWaiting(c)
  <2>1. call[c].pc = "wait" /\ call[c].owned = {}
    BY <1>7 DEF StopWaiting, CallAt, LeasesSound
  <2>2. PICK k \in call[c].pending :
          call' = [call EXCEPT ![c] =
            IF call[c].pending = {k} THEN [NotBegun EXCEPT !.pc = "end"]
            ELSE [call[c] EXCEPT !.pending = @ \ {k}]]
    BY <1>7 DEF StopWaiting
  <2>3. \A d \in Callers : d # c => call'[d] = call[d]
    BY <1>1, <2>2
  <2>4. call'[c].owned = {}
    <3>1. CASE call[c].pending = {k}
      BY <1>1, <2>2, <3>1 DEF NotBegun
    <3>2. CASE call[c].pending # {k}
      BY <1>1, <2>1, <2>2, <3>2 DEF Progress
    <3>. QED BY <3>1, <3>2
  <2>5. \A d \in Callers : call'[d].owned = call[d].owned
    BY <2>1, <2>3, <2>4
  <2>6. UNCHANGED <<entry, now, overran>>
    BY <1>7 DEF StopWaiting
  <2>. QED BY <2>1, <2>3, <2>5, <2>6, OwnersStay
<1>. QED BY <1>4, <1>5, <1>6, <1>7

\* An entry is taken only when nobody has a lease of it: who thought to own it
\* has lost it before.
LEMMA ClaimKeepsLeases ==
  ASSUME MarketAssumption, MarketTypeOK, CallsSound, LeasesSound, NEW c \in Callers, ClaimEntry(c)
  PROVE  LeasesSound'
<1>. DEFINE k == Head(call[c].todo)
            taken == MayClaim(k) /\ ~(Cooling(k) /\ ~MayAskAlone(c, k))
            owned == call[c].owned \cup (IF taken THEN {k} ELSE {})
<1>1. call \in [Callers -> Progress] /\ call[c].pc = "claim"
  BY DEF MarketTypeOK, ClaimEntry, CallAt
<1>2. k \in Stocks
  BY <1>1 DEF CallsSound, Progress
<1>3. /\ now' = now /\ overran' = overran /\ now \in Nat /\ now + Lease \in Nat /\ now + Lease > now
      /\ entry \in [Stocks -> RequestEntry] /\ c # NoOwner
  <2>1. now' = now /\ overran' = overran
    BY DEF ClaimEntry
  <2>2. now \in Nat /\ entry \in [Stocks -> RequestEntry] /\ Lease \in Nat \ {0} /\ c # NoOwner
    BY DEF MarketTypeOK, MarketAssumption
  <2>. QED BY <2>1, <2>2
<1>4. /\ \A d \in Callers : d # c => call'[d] = call[d]
      /\ call'[c].owned = owned
      /\ call'[c].pc \in {"wait", "end"} => owned = {}
      /\ call'[c].pc # "idle"
  BY <1>1 DEF ClaimEntry, AfterClaims, Progress
<1>5. entry' = IF taken
               THEN [entry EXCEPT ![k].owner = c, ![k].until = now + Lease,
                                  ![k].retryAt = 0, ![k].missing = FALSE]
               ELSE entry
  BY DEF ClaimEntry
<1>6. ASSUME taken
      PROVE  /\ entry'[k].owner = c /\ entry'[k].until = now + Lease
             /\ \A q \in Stocks : q # k => entry'[q] = entry[q]
             /\ ~EntryLeased(k)
  BY <1>2, <1>3, <1>5, <1>6 DEF RequestEntry, MayClaim
<1>. HIDE DEF k, taken
<1>7. ASSUME NEW d \in Callers
      PROVE  call'[d].pc \in {"idle", "wait", "end"} => call'[d].owned = {}
  BY <1>4 DEF LeasesSound
<1>8. ASSUME NEW d \in Callers, NEW q \in Stocks
      PROVE  /\ q \in call'[d].owned => d \in overran' \/ OwnsEntry(d, q)'
             /\ OwnsEntry(d, q)' => q \in call'[d].owned
  <2>1. CASE taken /\ q = k
    <3>1. OwnsEntry(d, q)' <=> d = c
      BY <1>3, <1>6, <2>1 DEF OwnsEntry, EntryLeased
    <3>2. d = c => q \in call'[d].owned
      BY <1>4, <2>1
    <3>3. q \in call'[d].owned => d = c \/ d \in overran
      BY <1>4, <1>6, <2>1 DEF LeasesSound, OwnsEntry
    <3>. QED BY <1>3, <3>1, <3>2, <3>3
  <2>2. CASE ~(taken /\ q = k)
    <3>1. OwnsEntry(d, q)' <=> OwnsEntry(d, q)
      BY <1>3, <1>5, <1>6, <2>2 DEF OwnsEntry, EntryLeased
    <3>2. q \in call'[d].owned <=> q \in call[d].owned
      BY <1>4, <2>2
    <3>. QED BY <1>3, <3>1, <3>2 DEF LeasesSound
  <2>. QED BY <2>1, <2>2
<1>. QED BY <1>7, <1>8 DEF LeasesSound

LEMMA RenewKeepsLeases ==
  ASSUME MarketAssumption, MarketTypeOK, LeasesSound, NEW c \in Callers, Renew(c)
  PROVE  LeasesSound'
<1>1. /\ now' = now /\ overran' = overran /\ call' = call /\ now \in Nat /\ now + Lease > now
      /\ entry \in [Stocks -> RequestEntry]
  BY DEF Renew, MarketTypeOK, MarketAssumption
<1>2. ASSUME NEW d \in Callers, NEW k \in Stocks
      PROVE  OwnsEntry(d, k)' <=> OwnsEntry(d, k)
  <2>1. CASE k \in call[c].owned /\ OwnsEntry(c, k)
    <3>1. entry'[k].owner = entry[k].owner /\ entry'[k].until = now + Lease
      BY <1>1, <2>1 DEF Renew, RequestEntry
    <3>. QED BY <1>1, <2>1, <3>1 DEF OwnsEntry, EntryLeased
  <2>2. CASE ~(k \in call[c].owned /\ OwnsEntry(c, k))
    <3>1. entry'[k] = entry[k]
      BY <2>2 DEF Renew
    <3>. QED BY <1>1, <3>1 DEF OwnsEntry, EntryLeased
  <2>. QED BY <2>1, <2>2
<1>. QED BY <1>1, <1>2 DEF LeasesSound

\* Who finishes a quote gives it up, and its entry if it is still its own.
LEMMA FinishKeepsLeases ==
  ASSUME MarketAssumption, MarketTypeOK, LeasesSound, NEW c \in Callers, FinishEntry(c)
  PROVE  LeasesSound'
<1>1. /\ call \in [Callers -> Progress] /\ call[c].pc = "finish" /\ entry \in [Stocks -> RequestEntry]
      /\ now' = now /\ overran' = overran
  BY DEF MarketTypeOK, FinishEntry, CallAt
<1>2. PICK k \in call[c].owned :
        /\ \/ ~OwnsEntry(c, k) /\ entry' = entry
           \/ /\ OwnsEntry(c, k)
              /\ \E e : entry' = [entry EXCEPT ![k] = e] /\ e.owner = NoOwner
        /\ call' = [call EXCEPT ![c] =
             IF call[c].owned \ {k} # {} THEN [@ EXCEPT !.owned = call[c].owned \ {k}]
             ELSE IF call[c].pending = {} THEN [NotBegun EXCEPT !.pc = "end"]
             ELSE [NotBegun EXCEPT !.pc = "wait", !.pending = call[c].pending,
                                   !.deadline = now + Lease]]
  <2>1. PICK i \in 1 .. Len(Wants[c]) :
        LET k == Wants[c][i]
            owned == call[c].owned \ {k}
        IN  /\ k \in call[c].owned
            /\ entry' =
                 IF ~OwnsEntry(c, k) THEN entry
                 ELSE [entry EXCEPT ![k] =
                        IF k \in call[c].answered THEN [NoEntry EXCEPT !.fresh = now + Ttl]
                        ELSE [@ EXCEPT !.owner = NoOwner, !.until = 0, !.missing = call[c].batch,
                                !.retryAt = IF call[c].retryAt = 0 THEN now + Cooldown
                                            ELSE Earliest(call[c].retryAt, Retained)]]
            /\ call' = [call EXCEPT ![c] =
                 IF owned # {} THEN [@ EXCEPT !.owned = owned]
                 ELSE IF call[c].pending = {} THEN [NotBegun EXCEPT !.pc = "end"]
                 ELSE [NotBegun EXCEPT !.pc = "wait", !.pending = call[c].pending,
                                       !.deadline = now + Lease]]
    BY DEF FinishEntry
  <2>. DEFINE k == Wants[c][i]
  <2>2. k \in Stocks /\ entry[k] \in RequestEntry
    BY <1>1, <2>1 DEF Progress
  <2>3. ASSUME OwnsEntry(c, k)
        PROVE  \E e : entry' = [entry EXCEPT ![k] = e] /\ e.owner = NoOwner
    <3>1. [NoEntry EXCEPT !.fresh = now + Ttl].owner = NoOwner
      BY DEF NoEntry
    <3>2. \A missing, retryAt :
            [entry[k] EXCEPT !.owner = NoOwner, !.until = 0, !.missing = missing,
                             !.retryAt = retryAt].owner = NoOwner
      BY <2>2 DEF RequestEntry
    <3>. QED BY <2>1, <2>3, <3>1, <3>2
  <2>4. ~OwnsEntry(c, k) => entry' = entry
    BY <2>1
  <2>. QED BY <2>1, <2>3, <2>4
<1>3. /\ \A d \in Callers : d # c => call'[d] = call[d]
      /\ call'[c].owned = call[c].owned \ {k}
      /\ call'[c].pc \in {"idle", "wait", "end"} => call'[c].owned = {}
  <2>1. CASE call[c].owned \ {k} # {}
    BY <1>1, <1>2, <2>1 DEF Progress
  <2>2. CASE call[c].owned \ {k} = {}
    BY <1>1, <1>2, <2>2 DEF NotBegun
  <2>. QED BY <2>1, <2>2
<1>4. ASSUME NEW d \in Callers
      PROVE  call'[d].pc \in {"idle", "wait", "end"} => call'[d].owned = {}
  BY <1>3 DEF LeasesSound
<1>5. k \in Stocks
  BY <1>1, <1>2 DEF Progress
<1>6. ASSUME NEW d \in Callers, NEW q \in Stocks
      PROVE  /\ q \in call'[d].owned => d \in overran' \/ OwnsEntry(d, q)'
             /\ OwnsEntry(d, q)' => q \in call'[d].owned
  <2>1. CASE q = k /\ OwnsEntry(c, k)
    <3>1. ~OwnsEntry(d, q)'
      BY <1>1, <1>2, <1>5, <2>1 DEF OwnsEntry, EntryLeased
    <3>2. q \in call'[d].owned => d # c /\ q \in call[d].owned
      BY <1>3, <2>1
    <3>3. d # c => ~OwnsEntry(d, q)
      BY <2>1 DEF OwnsEntry
    <3>. QED BY <1>1, <3>1, <3>2, <3>3 DEF LeasesSound
  <2>2. CASE ~(q = k /\ OwnsEntry(c, k))
    <3>1. entry'[q] = entry[q]
      BY <1>1, <1>2, <2>2
    <3>2. OwnsEntry(d, q)' <=> OwnsEntry(d, q)
      BY <1>1, <3>1 DEF OwnsEntry, EntryLeased
    <3>3. q \in call'[d].owned => q \in call[d].owned
      BY <1>3
    <3>4. OwnsEntry(d, q) /\ q \in call[d].owned => q \in call'[d].owned
      BY <1>3, <2>2
    <3>. QED BY <1>1, <3>2, <3>3, <3>4 DEF LeasesSound
  <2>. QED BY <2>1, <2>2
<1>. QED BY <1>4, <1>6 DEF LeasesSound

LEMMA TickKeepsLeases ==
  ASSUME MarketAssumption, MarketTypeOK, LeasesSound, Tick
  PROVE  LeasesSound'
<1>1. /\ entry' = entry /\ call' = call /\ now' = now + 1 /\ now \in Nat
      /\ entry \in [Stocks -> RequestEntry]
  BY DEF Tick, MarketTypeOK, MarketAssumption
<1>2. ASSUME NEW d \in Callers, NEW k \in Stocks
      PROVE  /\ k \in call'[d].owned => d \in overran' \/ OwnsEntry(d, k)'
             /\ OwnsEntry(d, k)' => k \in call'[d].owned
  <2>1. entry[k].until \in Nat
    BY <1>1 DEF RequestEntry
  <2>2. OwnsEntry(d, k)' => OwnsEntry(d, k)
    BY <1>1, <2>1 DEF OwnsEntry, EntryLeased
  <2>3. k \in call[d].owned /\ OwnsEntry(d, k) => d \in overran' \/ OwnsEntry(d, k)'
    BY <1>1, <2>1 DEF Tick, OwnsEntry, EntryLeased
  <2>4. d \in overran => d \in overran'
    BY DEF Tick
  <2>. QED BY <1>1, <2>2, <2>3, <2>4 DEF LeasesSound
<1>. QED BY <1>1, <1>2 DEF LeasesSound

LEMMA StepKeepsLeases ==
  ASSUME MarketAssumption, MarketTypeOK, CallsSound, LeasesSound, [MarketNext]_marketVars
  PROVE  LeasesSound'
<1>1. ASSUME NEW c \in Callers, CallStep(c)
      PROVE  LeasesSound'
  BY <1>1, AskingKeepsLeases, ClaimKeepsLeases, RenewKeepsLeases, FinishKeepsLeases DEF CallStep
<1>2. CASE UNCHANGED marketVars
  BY <1>2 DEF marketVars, LeasesSound, OwnsEntry, EntryLeased
<1>. QED BY <1>1, <1>2, TickKeepsLeases DEF MarketNext

-----------------------------------------------------------------------------
(* The theorems.                                                            *)

THEOREM MarketInvariant ==
  ASSUME MarketAssumption
  PROVE  MarketSpec => []MarketInv
<1>1. MarketInit => MarketInv
  BY InitSound
<1>2. MarketInv /\ [MarketNext]_marketVars => MarketInv'
  BY StepTyped, StepKeepsQuota, StepKeepsLeases DEF MarketInv
<1>. QED BY <1>1, <1>2, PTL DEF MarketSpec

\* Every variable keeps its type, the window is finite, and a call never asks
\* for more pages than it has (request-coordinator.ts, RequestEntry and
\* ProviderEntry).
THEOREM MarketTyped == MarketSpec => []MarketTypeOK
<1>1. MarketSpec => []MarketInv
  BY MarketInvariant, MarketAssumption
<1>2. MarketInv => MarketTypeOK
  BY DEF MarketInv
<1>. QED BY <1>1, <1>2, PTL

\* However many processes with whatever quotas share a provider, a window never
\* holds more requests than the strictest of those who sent one allows
\* (request-coordinator.ts, provider and fetchFor).
THEOREM WindowHolds == MarketSpec => []QuotaKept
<1>1. MarketSpec => []MarketInv
  BY MarketInvariant, MarketAssumption
<1>2. ASSUME MarketInv
      PROVE  QuotaKept
  <2>1. /\ IsFiniteSet(quota.attempts) /\ quota \in ProviderEntry /\ sent \subseteq quota.attempts
        /\ \A s \in quota.attempts : Cardinality(quota.attempts) <= LimitOf[s.by]
    BY <1>2 DEF MarketInv, MarketTypeOK, QuotaSound
  <2>2. /\ Cardinality(sent) <= Cardinality(quota.attempts)
        /\ Cardinality(sent) \in Nat /\ Cardinality(quota.attempts) \in Nat
    BY <2>1, FS_Subset, FS_CardinalityType
  <2>3. ASSUME NEW s \in sent
        PROVE  LimitOf[s.by] \in Nat
    BY <2>1, MarketAssumption DEF ProviderEntry, Requests, MarketAssumption
  <2>. QED BY <2>1, <2>2, <2>3 DEF QuotaKept
<1>. QED BY <1>1, <1>2, PTL

\* QuotaKept counts requests as the members of a set: the next request of a call
\* is never one that is counted already, so that none goes uncounted.
RequestsDiffer ==
  \A c \in Callers : call[c].pc = "fetch" =>
    [at |-> now, by |-> c, page |-> call[c].pages + 1] \notin quota.attempts \cup sent

\* Two requests of one call, even at one time, are two in the window.
THEOREM EachRequestCounts == MarketSpec => []RequestsDiffer
<1>1. MarketSpec => []MarketInv
  BY MarketInvariant, MarketAssumption
<1>2. ASSUME MarketInv, NEW c \in Callers, call[c].pc = "fetch"
      PROVE  [at |-> now, by |-> c, page |-> call[c].pages + 1] \notin quota.attempts \cup sent
  <2>1. \A s \in quota.attempts : s.by = c => s.page <= call[c].pages
    BY <1>2 DEF MarketInv, CallsSound
  <2>2. sent \subseteq quota.attempts
    BY <1>2 DEF MarketInv, QuotaSound
  <2>3. call[c].pages \in Nat
    BY <1>2 DEF MarketInv, MarketTypeOK, Progress
  <2>. QED BY <2>1, <2>2, <2>3
<1>3. MarketInv => RequestsDiffer
  BY <1>2 DEF RequestsDiffer
<1>. QED BY <1>1, <1>3, PTL

\* Two calls ask for one quote at a time only if one of them has stalled past its
\* lease, and who holds a lease is never waiting for another's: no circle of
\* batches that wait for each other (request-coordinator.ts, claim, finish and
\* wait).
THEOREM SharesSafely == MarketSpec => []SharedSafely
<1>1. MarketSpec => []MarketInv
  BY MarketInvariant, MarketAssumption
<1>2. ASSUME MarketInv
      PROVE  RequestsMerged
  <2>1. SUFFICES ASSUME NEW c \in Callers, NEW d \in Callers, c # d,
                        NEW k \in call[c].owned \cap call[d].owned,
                        c \notin overran, d \notin overran
                 PROVE  FALSE
    BY DEF RequestsMerged
  <2>2. k \in Stocks
    BY <1>2 DEF MarketInv, MarketTypeOK, Progress
  <2>3. OwnsEntry(c, k) /\ OwnsEntry(d, k)
    BY <1>2, <2>1, <2>2 DEF MarketInv, LeasesSound
  <2>. QED BY <2>1, <2>3 DEF OwnsEntry
<1>3. ASSUME MarketInv
      PROVE  OwnersDoNotWait
  <2>1. SUFFICES ASSUME NEW k \in Stocks, EntryLeased(k)
                 PROVE  call[entry[k].owner].pc \notin {"wait", "end"}
    BY DEF OwnersDoNotWait
  <2>. DEFINE c == entry[k].owner
  <2>2. c \in Callers /\ OwnsEntry(c, k)
    BY <1>3, <2>1 DEF MarketInv, MarketTypeOK, RequestEntry, EntryLeased, OwnsEntry
  <2>. QED BY <1>3, <2>2 DEF MarketInv, LeasesSound
<1>4. MarketInv => SharedSafely
  BY <1>2, <1>3 DEF SharedSafely
<1>. QED BY <1>1, <1>4, PTL
=============================================================================
