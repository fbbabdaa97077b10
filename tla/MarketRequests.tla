---------------------------- MODULE MarketRequests ----------------------------
(***************************************************************************)
(* Requests for quotes that the web server and the workers share: one      *)
(* entry per quote says who is asking for it, what the answer was and how  *)
(* long a failure is to be respected; one entry per provider counts the    *)
(* requests of a sliding window.  Sources: adapters/market/                *)
(* request-coordinator.ts over db/hosted/public-market-client.ts.          *)
(*                                                                         *)
(* Each call of store.update is one transaction and one step.  A call may  *)
(* stall between any two steps, for good if its process has died; while it *)
(* asks the provider a timer renews its leases, if it comes to it.  One    *)
(* provider is modelled; a quote is told from another only by its key, an  *)
(* answer by how long it may be served.                                    *)
(***************************************************************************)
EXTENDS Integers, Sequences, FiniteSetsExt, Functions

CONSTANTS
  Callers,    \* invocations of execute, each with an owner token of its own
  Stocks,     \* the quotes they ask for, one entry each
  Wants,      \* the quotes of each call, in the order of its input
  Single,     \* calls of capability quote; the others are batches
  LimitOf,    \* requestsPerWindow and windowMs in the caller's process
  WindowOf,
  Lease, Ttl, Cooldown,
  Delays,     \* for how long a failing provider is left alone, by Retry-After
  Pages,      \* HTTP requests of each call at most
  MaxTime     \* bound of the model

NoOwner == "nobody"

ASSUME MarketAssumption ==
  /\ NoOwner \notin Callers /\ Single \subseteq Callers
  /\ Wants \in [Callers -> Seq(Stocks)]
  /\ \A c \in Callers : Wants[c] # <<>> /\ IsInjective(Wants[c])
                        /\ (c \in Single => Len(Wants[c]) = 1)
  /\ LimitOf \in [Callers -> Nat \ {0}] /\ WindowOf \in [Callers -> Nat \ {0}]
  /\ {Lease, Ttl, Cooldown} \subseteq Nat \ {0} /\ MaxTime \in Nat
  /\ Pages \in [Callers -> Nat \ {0}]
  /\ Delays \subseteq {d \in Nat : d >= Cooldown}

VARIABLES
  now,       \* the clock
  entry,     \* request:<source>:quote:<stock>
  quota,     \* provider:<source>
  call,      \* each caller's progress
  overran,   \* history: callers that lost a lease while they were asking
  sent       \* history: requests to the provider in the shortest window

marketVars == <<now, entry, quota, call, overran, sent>>

Earliest(a, b) == IF a < b THEN a ELSE b
Latest(a, b) == IF a > b THEN a ELSE b
ShortestWindow == CHOOSE w \in {WindowOf[c] : c \in Callers} : \A c \in Callers : w <= WindowOf[c]

\* A request to the provider.  The quota keeps only when it was sent; a call
\* sends its pages one after the other, so that no two requests are equal.
Requests == [at: 0 .. MaxTime, by: Callers, page: Nat]

RequestEntry == [owner: Callers \cup {NoOwner}, until: Nat, fresh: Nat, retryAt: Nat,
                 missing: BOOLEAN]
ProviderEntry == [attempts: SUBSET Requests, blocked: Nat, limit: Nat \ {0}, window: Nat \ {0}]
Progress == [pc: {"idle", "claim", "fetch", "await", "finish", "wait", "end"},
             todo: Seq(Stocks), owned: SUBSET Stocks, pending: SUBSET Stocks,
             answered: SUBSET Stocks, retryAt: Nat, batch: BOOLEAN, pages: Nat, deadline: Nat]

MarketTypeOK ==
  /\ now \in 0 .. MaxTime
  /\ entry \in [Stocks -> RequestEntry]
  /\ quota \in ProviderEntry /\ IsFiniteSet(quota.attempts)
  /\ call \in [Callers -> Progress]
  /\ \A c \in Callers : call[c].pages <= Pages[c]
  /\ overran \subseteq Callers
  /\ sent \subseteq Requests

NoEntry == [owner |-> NoOwner, until |-> 0, fresh |-> 0, retryAt |-> 0, missing |-> FALSE]
NotBegun == [pc |-> "idle", todo |-> <<>>, owned |-> {}, pending |-> {}, answered |-> {},
             retryAt |-> 0, batch |-> FALSE, pages |-> 0, deadline |-> 0]

MarketInit ==
  /\ now = 0
  /\ entry = [k \in Stocks |-> NoEntry]
  /\ quota = [attempts |-> {}, blocked |-> 0, limit |-> 1, window |-> 1]
  /\ call = [c \in Callers |-> NotBegun]
  /\ overran = {} /\ sent = {}

-----------------------------------------------------------------------------
(* The entry of a quote.                                                   *)

CallAt(c, pc) == call[c].pc = pc
Fresh(k) == entry[k].fresh > now
Cooling(k) == entry[k].retryAt > now
EntryLeased(k) == entry[k].owner # NoOwner /\ entry[k].until > now
HoldsAnyLease(c, k) == EntryLeased(k)   \* Mutant: whose lease it is does not matter.

OwnsEntry(c, k) == entry[k].owner = c /\ EntryLeased(k)

\* An entry is forgotten when it has not been written for this long; only a
\* failure to be respected for longer is cut short by it.
Retained == now + Lease + Ttl + Cooldown

\* After the claims the call asks for what it owns; only then it waits.
AfterClaims(owned, pending) ==
  IF owned # {} THEN "fetch" ELSE IF pending # {} THEN "wait" ELSE "end"

\* One quote a batch did not find may be asked for on its own.
MayAskAlone(c, k) == c \in Single /\ entry[k].missing

BeginCall(c) ==
  /\ CallAt(c, "idle")
  /\ call' = [call EXCEPT ![c].pc = "claim", ![c].todo = Wants[c]]
  /\ UNCHANGED <<now, entry, quota, overran, sent>>

MayClaim(k) == ~Fresh(k) /\ ~EntryLeased(k)

ClaimEntry(c) ==
  LET k == Head(call[c].todo)
      rest == Tail(call[c].todo)
      refused == Cooling(k) /\ ~MayAskAlone(c, k)
      taken == MayClaim(k) /\ ~refused
      owned == call[c].owned \cup (IF taken THEN {k} ELSE {})
      pending == call[c].pending
                   \cup (IF ~Fresh(k) /\ ~refused /\ ~MayClaim(k) THEN {k} ELSE {})
  IN  /\ CallAt(c, "claim")
      /\ call' = [call EXCEPT ![c].todo = rest, ![c].owned = owned, ![c].pending = pending,
            ![c].pc = IF rest = <<>> THEN AfterClaims(owned, pending) ELSE "claim",
            ![c].deadline = IF rest = <<>> /\ AfterClaims(owned, pending) = "wait"
                            THEN now + Lease ELSE 0]
      /\ entry' = IF taken
                  THEN [entry EXCEPT ![k].owner = c, ![k].until = now + Lease,
                                     ![k].retryAt = 0, ![k].missing = FALSE]
                  ELSE entry
      /\ UNCHANGED <<now, quota, overran, sent>>

\* The timer of own(), while the provider is asked.
Renew(c) ==
  /\ CallAt(c, "fetch") \/ CallAt(c, "await")
  /\ entry' = [k \in Stocks |-> IF k \in call[c].owned /\ OwnsEntry(c, k)
                                THEN [entry[k] EXCEPT !.until = now + Lease] ELSE entry[k]]
  /\ UNCHANGED <<now, quota, call, overran, sent>>

-----------------------------------------------------------------------------
(* The provider's quota.                                                   *)

Recent(w) == {s \in quota.attempts : s.at > now - w}
QuotaIdle(c) == Recent(Latest(quota.window, WindowOf[c])) = {} /\ quota.blocked <= now

LatestLimit(c) == LimitOf[c]   \* Mutant: the last process to come sets the limit.

\* While the window is in use the stricter of two configurations counts.
LimitKept(c) == IF QuotaIdle(c) THEN LimitOf[c] ELSE Earliest(quota.limit, LimitOf[c])
WindowKept(c) == IF QuotaIdle(c) THEN WindowOf[c] ELSE Latest(quota.window, WindowOf[c])

Configured(c) ==
  [quota EXCEPT !.attempts = Recent(Latest(quota.window, WindowOf[c])),
                   !.limit = LimitKept(c), !.window = WindowKept(c)]

\* The call's requests are over, with an answer for some of its quotes; a
\* batch that was answered says of the others that they are missing.
Conclude(c, answered, retryAt, missing) ==
  call' = [call EXCEPT ![c].pc = "finish", ![c].answered = answered,
                       ![c].retryAt = retryAt, ![c].batch = missing]

\* fetchFor: blocked, out of quota, or one more request.
Fetch(c) ==
  LET window == Configured(c)
      used == Cardinality(window.attempts)
      first == Min({s.at : s \in window.attempts})
      request == [at |-> now, by |-> c, page |-> call[c].pages + 1]
  IN
  /\ CallAt(c, "fetch")
  /\ \/ /\ quota.blocked > now
        /\ Conclude(c, {}, quota.blocked, FALSE) /\ quota' = window /\ UNCHANGED sent
     \/ /\ quota.blocked <= now /\ used >= window.limit
        /\ Conclude(c, {}, first + window.window, FALSE)
        /\ quota' = window /\ UNCHANGED sent
     \/ /\ quota.blocked <= now /\ used < window.limit
        /\ quota' = [window EXCEPT !.attempts = @ \cup {request}]
        /\ sent' = sent \cup {request}
        /\ call' = [call EXCEPT ![c].pc = "await", ![c].pages = @ + 1]
  /\ UNCHANGED <<now, entry, overran>>

Blocked(c, delay) == [Configured(c) EXCEPT !.blocked = Latest(@, now + delay)]

\* A page has come: there is another, or the answer is complete.
Answered(c) ==
  /\ CallAt(c, "await")
  /\ \/ call[c].pages < Pages[c] /\ call' = [call EXCEPT ![c].pc = "fetch"]
     \/ \E found \in SUBSET call[c].owned :
          /\ c \in Single => found = call[c].owned
          /\ Conclude(c, found, 0, c \notin Single)
  /\ UNCHANGED <<now, entry, quota, overran, sent>>

\* The transport fails: the provider is left alone for a while, and the
\* adapter may still try another of its hosts.
ProviderFails(c) ==
  /\ CallAt(c, "await")
  /\ \E delay \in Delays : quota' = Blocked(c, delay)
  /\ \/ call[c].pages < Pages[c] /\ call' = [call EXCEPT ![c].pc = "fetch"]
     \/ Conclude(c, {}, 0, FALSE)
  /\ UNCHANGED <<now, entry, overran, sent>>

\* What came is no answer (blockFailure): some kinds of error block, too.
Unusable(c) ==
  /\ CallAt(c, "await") /\ Conclude(c, {}, 0, FALSE)
  /\ quota' = Blocked(c, Cooldown) \/ UNCHANGED quota
  /\ UNCHANGED <<now, entry, overran, sent>>

-----------------------------------------------------------------------------
(* The end of a call.                                                      *)

\* finish, quote by quote; who has lost the lease changes nothing.
FinishEntry(c) ==
  \E i \in 1 .. Len(Wants[c]) :
  LET k == Wants[c][i]
      owned == call[c].owned \ {k}
  IN  /\ CallAt(c, "finish")
      /\ k \in call[c].owned /\ \A j \in 1 .. i - 1 : Wants[c][j] \notin call[c].owned
      /\ entry' =
           IF ~OwnsEntry(c, k) THEN entry
           ELSE [entry EXCEPT ![k] =
                  IF k \in call[c].answered THEN [NoEntry EXCEPT !.fresh = now + Ttl]
                  ELSE [@ EXCEPT !.owner = NoOwner, !.until = 0, !.missing = call[c].batch,
                          !.retryAt = IF call[c].retryAt = 0 THEN now + Cooldown
                                      ELSE Earliest(call[c].retryAt, Retained)]]
      /\ call' = [call EXCEPT ![c] =
           IF owned # {} THEN [@ EXCEPT !.owned = owned]
           ELSE IF call[c].pending = {} THEN [NotBegun EXCEPT !.pc = "end"]
           ELSE [NotBegun EXCEPT !.pc = "wait", !.pending = call[c].pending,
                                 !.deadline = now + Lease]]
      /\ UNCHANGED <<now, quota, overran, sent>>

\* wait: an answer, a failure, nobody who asks any more, or the deadline.
StopWaiting(c) ==
  /\ CallAt(c, "wait")
  /\ \E k \in call[c].pending :
       /\ Fresh(k) \/ Cooling(k) \/ ~EntryLeased(k) \/ call[c].deadline <= now
       /\ call' = [call EXCEPT ![c] =
            IF call[c].pending = {k} THEN [NotBegun EXCEPT !.pc = "end"]
            ELSE [call[c] EXCEPT !.pending = @ \ {k}]]
  /\ UNCHANGED <<now, entry, quota, overran, sent>>

Asking(c) == call[c].pc \in {"fetch", "await", "finish"}

Tick ==
  /\ now < MaxTime /\ now' = now + 1
  /\ overran' = overran \cup
       {c \in Callers : \E k \in call[c].owned :
                          entry[k].owner = c /\ entry[k].until <= now + 1}
  /\ sent' = {s \in sent : s.at > now + 1 - ShortestWindow}
  /\ UNCHANGED <<entry, quota, call>>

CallStep(c) ==
  \/ BeginCall(c) \/ ClaimEntry(c) \/ Renew(c) \/ Fetch(c)
  \/ Answered(c) \/ ProviderFails(c) \/ Unusable(c) \/ FinishEntry(c) \/ StopWaiting(c)

MarketNext == (\E c \in Callers : CallStep(c)) \/ Tick

MarketSpec == MarketInit /\ [][MarketNext]_marketVars

-----------------------------------------------------------------------------
(* What the coordinator promises.                                          *)

\* In a window (the shortest of those configured) there are no more requests
\* to the provider than each of the processes that sent one of them is
\* configured to allow, whatever the others allow (request-coordinator.ts
\* provider, fetchFor).
QuotaKept == \A s \in sent : Cardinality(sent) <= LimitOf[s.by]

\* One request for a quote is under way at a time, unless who makes the
\* earlier one has stalled past its lease.
RequestsMerged ==
  \A c, d \in Callers :
    (c # d /\ Asking(c) /\ Asking(d) /\ call[c].owned \cap call[d].owned # {})
      => {c, d} \cap overran # {}

\* Who is waited for is at work: two batches that want each other's quotes
\* never wait for one another until the deadline.
OwnersDoNotWait ==
  \A k \in Stocks : EntryLeased(k) => call[entry[k].owner].pc \notin {"wait", "end"}

SharedSafely == RequestsMerged /\ OwnersDoNotWait
=============================================================================
