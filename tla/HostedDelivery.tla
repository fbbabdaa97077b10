---------------------------- MODULE HostedDelivery ----------------------------
(***************************************************************************)
(* Delivery of the notifications of one tenant: the intents a settlement   *)
(* leaves in the control database, the workers' passes that dispatch them  *)
(* and reconcile the attempts of unknown outcome, and the deletion of the  *)
(* tenant under way.  Sources: the deliveries of db/hosted/                *)
(* platform-repositories.ts, tools/platform/notifications.ts, the dispatch *)
(* loop of apps/web/hosted-worker.ts, hosted-privacy.ts, and the tenant    *)
(* registrations of db/hosted/maintenance.ts.                              *)
(*                                                                         *)
(* Every await is a step: a sender may stall between any two of them, and  *)
(* an attempt that is 120 seconds old is taken for abandoned although its  *)
(* sender may still be on its way.                                         *)
(*                                                                         *)
(* An intent's attempt number stands for its attemptId.  Entitlement and   *)
(* quiet hours change at any time, so each test of them is a free choice.  *)
(* A saved preference raises bindingVersion, which unbinds every e-mail    *)
(* intent made before.  Receipts (markDelivered) change nothing that any   *)
(* step reads and are left out.                                            *)
(***************************************************************************)
EXTENDS Naturals, FiniteSets, Sequences

CONSTANTS
  Intents,     \* delivery intents
  InApp,       \* those for the in-app channel; the others are e-mails
  Triggers,    \* those of watch triggers, whose condition is judged again
  Senders,     \* worker processes
  Window,      \* how many due intents a pass looks at (20)
  Attempts,    \* attempts of an intent (3)
  Providers,   \* the providers a deployment may have configured
  MaxCrashes   \* bound of the model

\* "smtp" answers no lookup and is not idempotent, "fixture" is both;
\* "lookup" is what the port allows besides: lookups without idempotency.
ASSUME DeliveryAssumption ==
  /\ InApp \subseteq Intents /\ Triggers \subseteq Intents
  /\ Window \in Nat \ {0} /\ Attempts \in Nat \ {0} /\ MaxCrashes \in Nat
  /\ Providers \subseteq {"smtp", "fixture", "lookup"}

VARIABLES
  intent,      \* the deliveries table
  byTime,      \* the intents in the order of availableAt
  standing,    \* the tenant's status
  sender,      \* each worker's pass
  registered,  \* the workers that hold a registration for the tenant
  leaked,      \* a crashed worker's registration is still in the table
  flight,      \* messages handed to the provider and not yet judged by it
  mails,       \* history: how often the provider took each intent's message
  provider,    \* the configured provider
  crashes

deliveryVars ==
  <<intent, byTime, standing, sender, registered, leaked, flight, mails, provider, crashes>>

SenderPCs == {"idle", "next", "recover", "lookup", "resolve", "suppress", "read", "claim",
              "in-app", "recheck", "hand", "await", "complete", "mark"}
Replies == {"none", "accepted", "failed", "unknown", "suppressed"}
Unsent == {"pending", "failed"}

DeliveryTypeOK ==
  /\ intent \in [Intents ->
       [state: {"none", "pending", "sending", "accepted", "failed", "unknown",
                "suppressed", "erased"},
        attempt: 0 .. Attempts, due: BOOLEAN, old: BOOLEAN, expired: BOOLEAN, bound: BOOLEAN]]
  /\ byTime \in Seq(Intents)
  /\ standing \in {"active", "suspended", "deleting", "deleted"}
  /\ \A d \in Senders :
       /\ sender[d].pc \in SenderPCs /\ sender[d].answer \in Replies
       /\ sender[d].attempt \in 0 .. Attempts
  /\ registered \subseteq Senders /\ leaked \in BOOLEAN
  /\ flight \subseteq Intents \X (1 .. Attempts)
  /\ mails \in [Intents -> 0 .. Attempts]
  /\ provider \in Providers /\ crashes \in 0 .. MaxCrashes

Resting == [pc |-> "idle", todo |-> <<>>, attempt |-> 0, answer |-> "none"]

DeliveryInit ==
  /\ intent = [i \in Intents |-> [state |-> "none", attempt |-> 0, due |-> FALSE,
                                  old |-> FALSE, expired |-> FALSE, bound |-> TRUE]]
  /\ byTime = <<>>
  /\ standing = "active"
  /\ sender = [d \in Senders |-> Resting]
  /\ registered = {} /\ leaked = FALSE
  /\ flight = {} /\ mails = [i \in Intents |-> 0]
  /\ provider \in Providers /\ crashes = 0

-----------------------------------------------------------------------------
(* The deliveries table.                                                   *)

Put(i, state) == intent' = [intent EXCEPT ![i].state = state, ![i].old = FALSE]

Undelivered == Unsent \cup {"sending", "unknown"}

\* Where the due intents stand that are in one of the states.
Ready(states) ==
  {k \in DOMAIN byTime : intent[byTime[k]].due /\ intent[byTime[k]].state \in states}

\* The first Window of them: the set of the one list of their places.
FirstDue(states) ==
  LET ready == Ready(states)
      n == IF Cardinality(ready) < Window THEN Cardinality(ready) ELSE Window
  IN  {ks \in [1 .. n -> ready] :
         \A a \in 1 .. n : Cardinality({k \in ready : k < ks[a]}) = a - 1}

UnclaimedIntents == FirstDue(Unsent)   \* Mutant: what has been claimed is not looked at again.

ListedIntents == FirstDue(Undelivered)

\* The intent becomes the last to be due.
Later(i) ==
  LET k == CHOOSE k \in DOMAIN byTime : byTime[k] = i
  IN  SubSeq(byTime, 1, k - 1) \o SubSeq(byTime, k + 1, Len(byTime)) \o <<i>>

\* The attempt failed: the next may come after a minute or five.
PutBack(i) ==
  /\ intent' = [intent EXCEPT ![i].state = "failed", ![i].due = FALSE, ![i].old = FALSE]
  /\ byTime' = Later(i)

Suppressed(S) ==
  [i \in Intents |-> IF i \in S /\ intent[i].state \in Unsent
                     THEN [intent[i] EXCEPT !.state = "suppressed"] ELSE intent[i]]

CanSend(i) == standing = "active" /\ ~intent[i].expired /\ (i \in InApp \/ intent[i].bound)

LooksAbandoned(i) == intent[i].state = "sending" /\ intent[i].old

Looked(i) ==
  IF provider = "smtp" THEN "unknown"
  ELSE IF mails[i] > 0 THEN "accepted" ELSE "not-found"

RetriesBlindly(answer) == answer = "not-found"   \* Mutant: whatever the provider's idempotency.

\* Only an absence that an idempotent provider confirms permits a retry.
Retries(answer) == answer = "not-found" /\ provider = "fixture"

-----------------------------------------------------------------------------
(* A worker's pass.                                                        *)

SenderAt(d, pc) == sender[d].pc = pc
Item(d) == Head(sender[d].todo).id
Continue(d, pc) == sender' = [sender EXCEPT ![d].pc = pc] /\ UNCHANGED registered
Mine(d) == intent[Item(d)].attempt = sender[d].attempt

\* The item is done; the finally block gives the registration back.
NextItem(d) ==
  /\ sender' = [sender EXCEPT ![d] = [Resting EXCEPT !.pc = "next", !.todo = Tail(sender[d].todo)]]
  /\ registered' = registered \ {d}

\* An error that value() throws: what is left of the pass is dropped.
PassEnds(d) ==
  /\ sender' = [sender EXCEPT ![d] = Resting]
  /\ registered' = registered \ {d}

\* A pass works on the states its list was read with.
ListDeliveries(d) ==
  /\ SenderAt(d, "idle")
  /\ \E ks \in ListedIntents :
       /\ ks # <<>>
       /\ sender' = [sender EXCEPT ![d].pc = "next", ![d].todo =
            [a \in DOMAIN ks |-> [id |-> byTime[ks[a]], seen |-> intent[byTime[ks[a]]].state]]]
  /\ UNCHANGED <<intent, byTime, standing, registered, leaked, flight, mails, provider, crashes>>

FinishPass(d) ==
  /\ SenderAt(d, "next") /\ sender[d].todo = <<>>
  /\ sender' = [sender EXCEPT ![d] = Resting]
  /\ UNCHANGED <<intent, byTime, standing, registered, leaked, flight, mails, provider, crashes>>

\* registerTenantRuntime: null for a tenant that is being deleted.
Register(d) ==
  /\ SenderAt(d, "next") /\ sender[d].todo # <<>>
  /\ \/ /\ standing \notin {"active", "suspended"} /\ NextItem(d)
     \/ /\ standing \in {"active", "suspended"}
        /\ registered' = registered \cup {d}
        /\ LET seen == Head(sender[d].todo).seen IN
           \E pc \in IF seen = "sending" THEN {"recover"}
                     ELSE IF seen = "unknown" THEN {"lookup"}
                     ELSE IF Item(d) \in Triggers THEN {"read", "suppress"} ELSE {"read"} :
             sender' = [sender EXCEPT ![d].pc = pc]
  /\ UNCHANGED <<intent, byTime, standing, leaked, flight, mails, provider, crashes>>

Recover(d) ==
  /\ SenderAt(d, "recover") /\ NextItem(d)
  /\ IF LooksAbandoned(Item(d)) THEN Put(Item(d), "unknown") ELSE UNCHANGED intent
  /\ UNCHANGED <<byTime, standing, leaked, flight, mails, provider, crashes>>

\* The provider is asked about an attempt that is still unknown.
LookUp(d) ==
  LET answer == Looked(Item(d)) IN
  /\ SenderAt(d, "lookup")
  /\ IF intent[Item(d)].state = "unknown" /\ (answer = "accepted" \/ Retries(answer))
     THEN /\ sender' = [sender EXCEPT ![d].pc = "resolve", ![d].attempt = intent[Item(d)].attempt,
                          ![d].answer = IF answer = "accepted" THEN "accepted" ELSE "failed"]
          /\ UNCHANGED registered
     ELSE NextItem(d)
  /\ UNCHANGED <<intent, byTime, standing, leaked, flight, mails, provider, crashes>>

LookUpFails(d) ==
  /\ SenderAt(d, "lookup") /\ intent[Item(d)].state = "unknown" /\ provider # "smtp"
  /\ PassEnds(d)
  /\ UNCHANGED <<intent, byTime, standing, leaked, flight, mails, provider, crashes>>

ResolveUnknown(d) ==
  LET i == Item(d) IN
  /\ SenderAt(d, "resolve")
  /\ \/ /\ intent[i].state = "unknown" /\ Mine(d) /\ NextItem(d)
        /\ \/ sender[d].answer = "failed" /\ PutBack(i)
           \/ sender[d].answer = "accepted" /\ Put(i, "accepted") /\ UNCHANGED byTime
     \/ /\ ~(intent[i].state = "unknown" /\ Mine(d)) /\ PassEnds(d)
        /\ UNCHANGED <<intent, byTime>>
  /\ UNCHANGED <<standing, leaked, flight, mails, provider, crashes>>

\* The condition behind a watch trigger no longer holds.
Suppress(d) ==
  /\ SenderAt(d, "suppress") /\ NextItem(d)
  /\ intent' = Suppressed({Item(d)})
  /\ UNCHANGED <<byTime, standing, leaked, flight, mails, provider, crashes>>

\* In quiet hours an e-mail waits for their end, which may be past its expiry.
ReadIntent(d) ==
  LET i == Item(d) IN
  /\ SenderAt(d, "read")
  /\ \/ intent[i].state \notin Unsent /\ NextItem(d) /\ UNCHANGED <<intent, byTime>>
     \/ intent[i].state \in Unsent /\ Continue(d, "claim") /\ UNCHANGED <<intent, byTime>>
     \/ /\ intent[i].state \in Unsent /\ i \notin InApp /\ CanSend(i) /\ NextItem(d)
        /\ \/ intent' = [intent EXCEPT ![i].due = FALSE] /\ byTime' = Later(i)
           \/ intent' = Suppressed({i}) /\ UNCHANGED byTime
  /\ UNCHANGED <<standing, leaked, flight, mails, provider, crashes>>

Claim(d) ==
  LET i == Item(d) IN
  /\ SenderAt(d, "claim")
  /\ \/ /\ intent[i].state \notin Unsent \/ ~intent[i].due
        /\ NextItem(d) /\ UNCHANGED intent
     \/ /\ intent[i].state \in Unsent /\ intent[i].due
        /\ CanSend(i) /\ intent[i].attempt < Attempts   \* and entitled
        /\ intent' = [intent EXCEPT ![i].state = "sending", ![i].old = FALSE,
                                    ![i].attempt = @ + 1]
        /\ sender' = [sender EXCEPT ![d].attempt = intent[i].attempt + 1,
                                    ![d].pc = IF i \in InApp THEN "in-app" ELSE "recheck"]
        /\ UNCHANGED registered
     \/ /\ intent[i].state \in Unsent /\ intent[i].due   \* not eligible, or not entitled
        /\ intent' = Suppressed({i}) /\ NextItem(d)
  /\ UNCHANGED <<byTime, standing, leaked, flight, mails, provider, crashes>>

AcceptInApp(d) ==
  LET i == Item(d) IN
  /\ SenderAt(d, "in-app")
  /\ IF intent[i].state = "sending" /\ Mine(d) THEN Put(i, "accepted") /\ NextItem(d)
     ELSE PassEnds(d) /\ UNCHANGED intent
  /\ UNCHANGED <<byTime, standing, leaked, flight, mails, provider, crashes>>

Recheck(d) ==
  /\ SenderAt(d, "recheck")
  /\ \/ CanSend(Item(d)) /\ sender' = [sender EXCEPT ![d].pc = "hand"]
     \/ sender' = [sender EXCEPT ![d].pc = "complete", ![d].answer = "suppressed"]
  /\ UNCHANGED <<intent, byTime, standing, registered, leaked, flight, mails, provider, crashes>>

HandOver(d) ==
  /\ SenderAt(d, "hand") /\ Continue(d, "await")
  /\ flight' = flight \cup {<<Item(d), sender[d].attempt>>}
  /\ UNCHANGED <<intent, byTime, standing, leaked, mails, provider, crashes>>

UnknownAsFailed(answer) ==   \* Mutant: no answer is taken for a refusal.
  IF answer = "unknown" THEN "failed" ELSE answer

Outcome(answer) == answer

\* The sender has its answer, or none before the time-out.
Heard(d, answer) ==
  sender' = [sender EXCEPT ![d].pc = "complete", ![d].answer = Outcome(answer)]

GiveUp(d) ==
  /\ SenderAt(d, "await") /\ Heard(d, "unknown")
  /\ UNCHANGED <<intent, byTime, standing, registered, leaked, flight, mails, provider, crashes>>

Complete(d) ==
  LET i == Item(d)
      answer == sender[d].answer
      open == intent[i].state = "sending" /\ Mine(d)
      replay == intent[i].state = answer /\ Mine(d)
  IN  /\ SenderAt(d, "complete")
      /\ \/ open /\ answer = "failed" /\ PutBack(i) /\ NextItem(d)
         \/ open /\ answer # "failed" /\ Put(i, answer) /\ NextItem(d) /\ UNCHANGED byTime
         \/ ~open /\ replay /\ NextItem(d) /\ UNCHANGED <<intent, byTime>>
         \/ /\ ~open /\ ~replay /\ UNCHANGED <<intent, byTime>>
            /\ IF answer = "suppressed" THEN PassEnds(d) ELSE Continue(d, "mark")
      /\ UNCHANGED <<standing, leaked, flight, mails, provider, crashes>>

\* complete threw: the attempt is marked unknown if it is still the current one.
MarkUnknown(d) ==
  LET i == Item(d) IN
  /\ SenderAt(d, "mark") /\ PassEnds(d)
  /\ IF Mine(d) /\ intent[i].state \in {"sending", "unknown"} THEN Put(i, "unknown")
     ELSE UNCHANGED intent
  /\ UNCHANGED <<byTime, standing, leaked, flight, mails, provider, crashes>>

\* A worker dies; the process that replaces it begins a pass of its own, but
\* the registration stays in the table.
SenderCrash(d) ==
  /\ ~SenderAt(d, "idle") /\ crashes < MaxCrashes /\ crashes' = crashes + 1
  /\ leaked' = (leaked \/ d \in registered)
  /\ PassEnds(d)
  /\ UNCHANGED <<intent, byTime, standing, flight, mails, provider>>

-----------------------------------------------------------------------------
(* The provider, the tenant and the clock.                                 *)

\* What a message handed over comes to; the answer may be lost on the way.
Judge(m, answer) ==
  \/ \E d \in Senders : SenderAt(d, "await") /\ <<Item(d), sender[d].attempt>> = m
                        /\ Heard(d, answer)
  \/ UNCHANGED sender

TakeMail(m) ==
  /\ m \in flight /\ flight' = flight \ {m} /\ Judge(m, "accepted")
  /\ mails' = IF provider = "fixture" /\ mails[m[1]] > 0 THEN mails
              ELSE [mails EXCEPT ![m[1]] = @ + 1]
  /\ UNCHANGED <<intent, byTime, standing, registered, leaked, provider, crashes>>

RefuseMail(m) ==
  /\ m \in flight /\ flight' = flight \ {m} /\ Judge(m, "failed")
  /\ UNCHANGED <<intent, byTime, standing, registered, leaked, mails, provider, crashes>>

\* finishJobAndSettle makes the intents of a result.
CreateIntent(i) ==
  /\ intent[i].state = "none" /\ standing \in {"active", "suspended"}
  /\ intent' = [intent EXCEPT ![i].state = "pending", ![i].due = TRUE, ![i].bound = TRUE]
  /\ byTime' = Append(byTime, i)
  /\ UNCHANGED <<standing, sender, registered, leaked, flight, mails, provider, crashes>>

SavePreferences ==
  /\ standing \in {"active", "suspended"}
  /\ intent' = [i \in Intents |-> [intent[i] EXCEPT !.bound = FALSE]]
  /\ intent' # intent
  /\ UNCHANGED <<byTime, standing, sender, registered, leaked, flight, mails, provider, crashes>>

SuspendService ==
  /\ standing = "active" /\ standing' = "suspended" /\ intent' = Suppressed(Intents)
  /\ UNCHANGED <<byTime, sender, registered, leaked, flight, mails, provider, crashes>>

ResumeService ==
  /\ standing = "suspended" /\ standing' = "active"
  /\ UNCHANGED <<intent, byTime, sender, registered, leaked, flight, mails, provider, crashes>>

DeletionBegins ==
  /\ standing \in {"active", "suspended"} /\ standing' = "deleting"
  /\ intent' = Suppressed(Intents)
  /\ UNCHANGED <<byTime, sender, registered, leaked, flight, mails, provider, crashes>>

DrainedLoosely == TRUE   \* Mutant: the deletion does not wait for registrations.

Drained == registered = {} /\ ~leaked

\* The deletion pass recovers what crashed workers left as sending ...
DeletionRecovers(i) ==
  /\ standing = "deleting" /\ Drained /\ LooksAbandoned(i) /\ Put(i, "unknown")
  /\ UNCHANGED <<byTime, standing, sender, registered, leaked, flight, mails, provider, crashes>>

\* ... and erases the tenant when nothing is being sent.
DeletionCompletes ==
  /\ standing = "deleting" /\ Drained
  /\ \A i \in Intents : intent[i].state # "sending"
  /\ standing' = "deleted" /\ byTime' = <<>>
  /\ intent' = [i \in Intents |-> [intent[i] EXCEPT !.state = "erased"]]
  /\ UNCHANGED <<sender, registered, leaked, flight, mails, provider, crashes>>

\* recoverStoppedWriters: the operator vouches that every worker has stopped.
ClearRegistrations ==
  /\ leaked /\ \A d \in Senders : SenderAt(d, "idle")
  /\ leaked' = FALSE /\ registered' = {}
  /\ UNCHANGED <<intent, byTime, standing, sender, flight, mails, provider, crashes>>

Grows(i, field) ==
  /\ intent[i].state \notin {"none", "erased"} /\ ~intent[i][field]
  /\ intent' = [intent EXCEPT ![i][field] = TRUE]
  /\ UNCHANGED <<byTime, standing, sender, registered, leaked, flight, mails, provider, crashes>>

FallDue(i) == intent[i].state \in Unsent /\ Grows(i, "due")
Expire(i) == intent[i].state \in Unsent \cup {"sending"} /\ Grows(i, "expired")
GetOld(i) == intent[i].state = "sending" /\ Grows(i, "old")

SenderStep(d) ==
  \/ ListDeliveries(d) \/ FinishPass(d) \/ Register(d) \/ Recover(d)
  \/ LookUp(d) \/ ResolveUnknown(d) \/ Suppress(d) \/ ReadIntent(d) \/ Claim(d)
  \/ AcceptInApp(d) \/ Recheck(d) \/ HandOver(d) \/ GiveUp(d) \/ Complete(d) \/ MarkUnknown(d)

ErasesOnly == DeletionCompletes   \* Mutant: the pass recovers nothing.

DeletionStep == DeletionCompletes \/ \E i \in Intents : DeletionRecovers(i)

DeliveryNext ==
  \/ \E d \in Senders : SenderStep(d) \/ LookUpFails(d) \/ SenderCrash(d)
  \/ \E m \in flight : TakeMail(m) \/ RefuseMail(m)
  \/ \E i \in Intents : CreateIntent(i) \/ FallDue(i) \/ Expire(i) \/ GetOld(i)
  \/ SavePreferences \/ SuspendService \/ ResumeService
  \/ DeletionBegins \/ DeletionStep \/ ClearRegistrations

DeliverySpec == DeliveryInit /\ [][DeliveryNext]_deliveryVars

\* Workers make passes for ever, a pass takes its steps, the deletion pass is
\* part of the worker's tick, time goes on, and a provider that cannot be
\* asked now can be asked again and again until it answers.
DeliveryFairness ==
  /\ \A d \in Senders : WF_deliveryVars(SenderStep(d)) /\ SF_deliveryVars(LookUp(d))
  /\ \A i \in Intents : WF_deliveryVars(FallDue(i)) /\ WF_deliveryVars(Expire(i))
                        /\ WF_deliveryVars(GetOld(i))
  /\ WF_deliveryVars(DeletionStep)

FairDelivery == DeliverySpec /\ DeliveryFairness

-----------------------------------------------------------------------------
(* What delivery promises.                                                 *)

\* A user gets at most one mail of an intent, whatever answers are lost and
\* whichever workers stall or die: an attempt of unknown outcome is never
\* repeated blindly (reconcileHostedDeliveryTool, recoverSending...).
MailedAtMostOnce == \A i \in Intents : mails[i] <= 1

\* What the tenant is shown is true: an accepted mail was taken by the
\* provider, and where retries are not idempotent one that is said to have
\* failed or to be withheld was not taken and will not be.
ReportsAreTrue ==
  \A i \in Intents \ InApp :
    /\ intent[i].state = "accepted" => mails[i] > 0
    /\ intent[i].state \in {"failed", "suppressed"} /\ provider # "fixture" =>
         mails[i] = 0 /\ \A m \in flight : m[1] # i

\* Nothing is handed to the provider for a tenant whose deletion is complete,
\* even by a worker that stalled between its last look and the provider.
NoMailAfterDeletion == [][standing = "deleted" => flight' \subseteq flight]_deliveryVars

Stuck == standing = "deleting" /\ leaked

\* Every intent comes to an end: accepted, withheld, erased, or unknown and
\* left to the user.  The exception is a deletion in whose way a crashed
\* worker's registration stands until an operator clears it.
EveryIntentEnds ==
  \A i \in Intents : intent[i].state = "pending" ~>
    (intent[i].state \in {"accepted", "suppressed", "unknown", "erased"} \/ Stuck)

\* With the same exception a deletion ends, although the tenant's messages
\* are no longer dispatched and a worker may have left one as sending.
DeletionEnds == standing = "deleting" ~> (standing = "deleted" \/ Stuck)

\* docs/ddd/hosted-personal-subscription-detailed-design.md:526: a mail past
\* its expiry is suppressed, not kept pending for ever.
ExpiredIsSuppressed ==
  \A i \in Intents :
    intent[i].state \in Unsent /\ intent[i].expired ~> intent[i].state \notin Unsent
=============================================================================
