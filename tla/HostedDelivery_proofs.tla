------------------------ MODULE HostedDelivery_proofs ------------------------
(* Theorems about HostedDelivery, for any intents and senders, any number of  *)
(* attempts and any window, with their proofs.                                *)
EXTENDS HostedDelivery, FiniteSetTheorems, SequenceTheorems, TLAPS

-----------------------------------------------------------------------------
(* The inductive invariant.                                                  *)

IntentStates == {"none", "pending", "sending", "accepted", "failed", "unknown",
                 "suppressed", "erased"}
IntentRecord ==
  [state: IntentStates, attempt: 0 .. Attempts, due: BOOLEAN, old: BOOLEAN,
   expired: BOOLEAN, bound: BOOLEAN]
Listing == [id: Intents, seen: IntentStates]
PassRecord ==
  [pc: SenderPCs, todo: Seq(Listing), attempt: 0 .. Attempts, answer: Replies]

Typed ==
  /\ intent \in [Intents -> IntentRecord]
  /\ byTime \in Seq(Intents)
  /\ standing \in {"active", "suspended", "deleting", "deleted"}
  /\ sender \in [Senders -> PassRecord]
  /\ registered \subseteq Senders /\ leaked \in BOOLEAN
  /\ flight \subseteq Intents \X (1 .. Attempts)
  /\ mails \in [Intents -> Nat]
  /\ provider \in Providers /\ crashes \in 0 .. MaxCrashes

\* Whoever has an item in hand is registered, and the item is on the list;
\* a tenant is erased only when nobody is.
InHand(d) == sender[d].pc \notin {"idle", "next"}
Exists(i) == intent[i].state \notin {"none", "erased"}

Passes ==
  /\ \A d \in Senders : InHand(d) => d \in registered /\ sender[d].todo # <<>>
  /\ standing = "deleted" => registered = {}
  /\ standing # "deleted" => \A i \in Intents : intent[i].state # "erased"
  /\ \A i \in Intents : Exists(i) => \E k \in DOMAIN byTime : byTime[k] = i
  /\ \A d \in Senders : \A k \in DOMAIN sender[d].todo :
       intent[sender[d].todo[k].id].state # "none"

\* The steps of an attempt at an e-mail, from its claim on.
Attempting == {"recheck", "hand", "await", "complete", "mark"}

\* What a sender believes of its attempt is so.
Believes(d) ==
  /\ sender[d].pc \in Attempting => sender[d].attempt \in 1 .. Attempts /\ Item(d) \notin InApp
  /\ sender[d].pc = "in-app" => Item(d) \in InApp
  /\ sender[d].pc = "resolve" =>
       /\ sender[d].answer \in {"accepted", "failed"}
       /\ sender[d].answer = "failed" => provider = "fixture"
  /\ sender[d].pc = "complete" => sender[d].answer # "none"
  /\ sender[d].pc \in {"resolve", "complete"} /\ sender[d].answer = "accepted" => mails[Item(d)] > 0

Beliefs ==
  /\ \A d \in Senders : Believes(d)
  /\ \A i \in Intents \ InApp : intent[i].state = "accepted" => mails[i] > 0
  /\ MailedAtMostOnce

\* The provider has, or may come to have, a message of the intent.
Outside(i) == mails[i] > 0 \/ \E m \in flight : m[1] = i

\* Without idempotency an attempt is the last until it is known to have failed:
\* its intent stays out of reach of a claim, its sender is the only one, and
\* before it hands over, or once it knows it did not, the provider has nothing.
Underway == {"sending", "unknown", "accepted"}

CurrentAttempt(d) ==
  /\ intent[Item(d)].state \in Underway
  /\ intent[Item(d)].attempt = sender[d].attempt
  /\ \/ sender[d].pc \in {"recheck", "hand"}
     \/ sender[d].pc = "complete" /\ sender[d].answer \in {"failed", "suppressed"}
     => ~Outside(Item(d))

LastAttempt ==
  /\ \A i \in Intents : Outside(i) => intent[i].state \in Underway \cup {"erased"}
  /\ \A m \in flight : mails[m[1]] = 0
  /\ \A m, n \in flight : m[1] = n[1] => m = n
  /\ \A d \in Senders : sender[d].pc \in Attempting => CurrentAttempt(d)
  /\ \A d, e \in Senders :
       d # e /\ sender[d].pc \in Attempting /\ sender[e].pc \in Attempting => Item(d) # Item(e)

DeliveryInv ==
  /\ Typed /\ Passes /\ Beliefs
  /\ provider # "fixture" => LastAttempt

-----------------------------------------------------------------------------
(* The list of the intents, and a pass's place in its own.                   *)

\* The first due intents are places on the list.
LEMMA DuePlaces ==
  ASSUME Typed, NEW states, NEW ks \in FirstDue(states)
  PROVE  /\ ks \in Seq(DOMAIN byTime)
         /\ \A a \in DOMAIN ks : intent[byTime[ks[a]]].state \in states
<1>. DEFINE n == IF Cardinality(Ready(states)) < Window THEN Cardinality(Ready(states)) ELSE Window
<1>1. Ready(states) \subseteq 1 .. Len(byTime) /\ Len(byTime) \in Nat
  BY DEF Ready, Typed
<1>2. Cardinality(Ready(states)) \in Nat
  <2>1. IsFiniteSet(1 .. Len(byTime))
    BY <1>1, FS_Interval
  <2>. QED BY <1>1, <2>1, FS_Subset, FS_CardinalityType
<1>3. n \in Nat
  BY <1>2, DeliveryAssumption
<1>4. ks \in [1 .. n -> Ready(states)]
  BY DEF FirstDue
<1>5. ks \in Seq(Ready(states)) /\ DOMAIN ks = 1 .. n
  <2>. HIDE DEF n
  <2>. QED BY <1>3, <1>4
<1>6. \A a \in DOMAIN ks : ks[a] \in Ready(states)
  BY <1>4, <1>5
<1>7. Ready(states) \subseteq DOMAIN byTime
  BY DEF Ready
<1>8. ks \in Seq(DOMAIN byTime)
  BY <1>5, <1>7
<1>. QED BY <1>6, <1>8 DEF Ready

\* Putting an intent last loses none of the list.
LEMMA LaterKeepsAll ==
  ASSUME Typed, NEW i \in Intents, NEW p \in DOMAIN byTime, byTime[p] = i
  PROVE  /\ Later(i) \in Seq(Intents)
         /\ \A q \in DOMAIN byTime : \E k \in DOMAIN Later(i) : Later(i)[k] = byTime[q]
<1>. DEFINE k == CHOOSE k \in DOMAIN byTime : byTime[k] = i
            n == Len(byTime)
            before == SubSeq(byTime, 1, k - 1)
            after == SubSeq(byTime, k + 1, n)
<1>1. k \in 1 .. n /\ byTime[k] = i /\ n \in Nat /\ DOMAIN byTime = 1 .. n
  BY DEF Typed
<1>2. Later(i) = before \o after \o <<i>>
  BY DEF Later
<1>. HIDE DEF k
<1>3. /\ before \in Seq(Intents) /\ Len(before) = k - 1
      /\ \A a \in 1 .. k - 1 : before[a] = byTime[a]
  BY <1>1 DEF Typed
<1>4. /\ after \in Seq(Intents) /\ Len(after) = n - k
      /\ \A a \in 1 .. n - k : after[a] = byTime[k + a]
  <2>1. after \in Seq(Intents)
    BY <1>1 DEF Typed
  <2>2. Len(after) = n - k
    <3>. HIDE DEF n
    <3>1. byTime \in Seq(Intents) /\ n = Len(byTime)
      BY DEF Typed, n
    <3>2. CASE k = n
      BY <1>1, <3>1, <3>2
    <3>3. CASE k < n
      <4>1. k + 1 \in 1 .. n /\ n - (k + 1) + 1 = n - k
        BY <1>1, <3>3
      <4>2. Len(SubSeq(byTime, k + 1, n)) = n - (k + 1) + 1
        BY <1>1, <3>1, <4>1, SubSeqProperties
      <4>. QED BY <4>1, <4>2
    <3>. QED BY <1>1, <3>2, <3>3
  <2>3. ASSUME NEW a \in 1 .. n - k
        PROVE  after[a] = byTime[k + a]
    BY <1>1 DEF Typed
  <2>. QED BY <2>1, <2>2, <2>3
<1>. HIDE DEF before, after, n
<1>5. Later(i) \in Seq(Intents) /\ Len(Later(i)) = n
  <2>1. before \o after \in Seq(Intents)
    BY <1>3, <1>4
  <2>2. Len(before \o after) = n - 1
    <3>1. Len(before \o after) = Len(before) + Len(after)
      BY <1>3, <1>4
    <3>. QED BY <1>1, <1>3, <1>4, <3>1
  <2>3. <<i>> \in Seq(Intents) /\ Len(<<i>>) = 1
    OBVIOUS
  <2>. QED BY <1>1, <1>2, <2>1, <2>2, <2>3
<1>6. ASSUME NEW q \in DOMAIN byTime
      PROVE  \E a \in 1 .. n : Later(i)[a] = byTime[q]
  <2>1. CASE q < k
    <3>1. q \in 1 .. k - 1 /\ Later(i)[q] = before[q]
      BY <1>1, <1>2, <1>3, <1>4, <2>1
    <3>. QED BY <1>1, <1>3, <3>1
  <2>2. CASE q = k
    BY <1>1, <1>2, <1>3, <1>4, <2>2
  <2>3. CASE q > k
    <3>1. q - k \in 1 .. n - k /\ q - 1 \in 1 .. n
      BY <1>1, <2>3
    <3>2. Later(i)[q - 1] = after[q - k]
      BY <1>1, <1>2, <1>3, <1>4, <3>1
    <3>3. after[q - k] = byTime[q]
      BY <1>1, <1>4, <3>1
    <3>. QED BY <3>1, <3>2, <3>3
  <2>. QED BY <1>1, <2>1, <2>2, <2>3
<1>. QED BY <1>5, <1>6

\* The item in hand is an intent that exists and stands on the list.
LEMMA ItemInHand ==
  ASSUME Typed, Passes, NEW d \in Senders, sender[d].todo # <<>>
  PROVE  /\ Item(d) \in Intents
         /\ intent[Item(d)].state # "none"
         /\ Tail(sender[d].todo) \in Seq(Listing)
         /\ \A k \in DOMAIN Tail(sender[d].todo) :
              \E l \in DOMAIN sender[d].todo : Tail(sender[d].todo)[k] = sender[d].todo[l]
         /\ InHand(d) => standing # "deleted" /\ Exists(Item(d))
<1>. DEFINE s == sender[d].todo
<1>1. s \in Seq(Listing)
  BY DEF Typed, PassRecord
<1>2. Head(s) = s[1] /\ 1 \in DOMAIN s /\ s[1] \in Listing
  BY <1>1
<1>3. Tail(s) \in Seq(Listing) /\ \A k \in DOMAIN Tail(s) : k + 1 \in DOMAIN s /\ Tail(s)[k] = s[k + 1]
  BY <1>1
<1>. HIDE DEF s
<1>4. Item(d) = s[1].id
  BY <1>2 DEF Item, s
<1>5. intent[s[1].id].state # "none" /\ s[1].id \in Intents
  BY <1>2 DEF Passes, Listing, s
<1>6. InHand(d) => standing # "deleted" /\ intent[s[1].id].state # "erased"
  BY <1>5 DEF Passes
<1>. QED BY <1>3, <1>4, <1>5, <1>6 DEF Exists, s

-----------------------------------------------------------------------------
(* Types.                                                                    *)

\* What a sender's step does to its own pass.
PassMoves(d) ==
  /\ \E r \in PassRecord : sender' = [sender EXCEPT ![d] = r]
  /\ registered' \subseteq Senders

LEMMA RestingTyped == Resting \in PassRecord
<1>1. <<>> \in Seq(Listing) /\ 0 \in 0 .. Attempts
  BY DeliveryAssumption
<1>. QED BY <1>1 DEF Resting, PassRecord, SenderPCs, Replies

LEMMA PassesMove ==
  ASSUME Typed, Passes, NEW d \in Senders, sender[d].todo # <<>>
  PROVE  /\ NextItem(d) => PassMoves(d)
         /\ PassEnds(d) => PassMoves(d)
         /\ \A pc \in SenderPCs : Continue(d, pc) => PassMoves(d)
<1>. USE DEF PassMoves, Typed
<1>1. Tail(sender[d].todo) \in Seq(Listing) /\ sender[d] \in PassRecord
  BY ItemInHand
<1>2. Resting \in PassRecord
  BY RestingTyped
<1>3. [Resting EXCEPT !.pc = "next", !.todo = Tail(sender[d].todo)] \in PassRecord
  BY <1>1, <1>2 DEF Resting, PassRecord, SenderPCs
<1>4. ASSUME NEW pc \in SenderPCs
      PROVE  [sender[d] EXCEPT !.pc = pc] \in PassRecord
  BY <1>1 DEF PassRecord
<1>5. NextItem(d) => PassMoves(d)
  BY <1>3 DEF NextItem
<1>6. PassEnds(d) => PassMoves(d)
  BY <1>2 DEF PassEnds
<1>7. ASSUME NEW pc \in SenderPCs, Continue(d, pc)
      PROVE  PassMoves(d)
  BY <1>4, <1>7 DEF Continue
<1>. QED BY <1>5, <1>6, <1>7

\* What the steps do to the deliveries table.
LEMMA TableTyped ==
  ASSUME Typed, NEW i \in Intents
  PROVE  /\ \A state \in IntentStates : Put(i, state) => intent' \in [Intents -> IntentRecord]
         /\ \A S : Suppressed(S) \in [Intents -> IntentRecord]
         /\ PutBack(i) => intent' \in [Intents -> IntentRecord]
<1>. USE DEF Typed, IntentRecord, IntentStates
<1>1. ASSUME NEW state \in IntentStates, Put(i, state)
      PROVE  intent' \in [Intents -> IntentRecord]
  BY <1>1 DEF Put
<1>2. ASSUME NEW S
      PROVE  Suppressed(S) \in [Intents -> IntentRecord]
  BY DEF Suppressed
<1>3. ASSUME PutBack(i)
      PROVE  intent' \in [Intents -> IntentRecord]
  <2>1. [intent[i] EXCEPT !.state = "failed", !.due = FALSE, !.old = FALSE] \in IntentRecord
    OBVIOUS
  <2>2. intent' = [intent EXCEPT ![i] =
          [intent[i] EXCEPT !.state = "failed", !.due = FALSE, !.old = FALSE]]
    BY <1>3 DEF PutBack
  <2>. QED BY <2>1, <2>2
<1>. QED BY <1>1, <1>2, <1>3

\* The sender has an item in hand, and what its step may do.
SenderTyped(d) ==
  /\ PassMoves(d) /\ intent' \in [Intents -> IntentRecord] /\ byTime' \in Seq(Intents)
  /\ flight' \subseteq Intents \X (1 .. Attempts)
  /\ UNCHANGED <<standing, leaked, mails, provider, crashes>>

LEMMA SenderActs ==
  ASSUME Typed, Passes, Beliefs, NEW d \in Senders, SenderStep(d) \/ LookUpFails(d)
  PROVE  SenderTyped(d)
<1>. DEFINE i == Item(d)
<1>. USE DEF SenderTyped, SenderAt
<1>0. intent \in [Intents -> IntentRecord] /\ byTime \in Seq(Intents) /\ sender[d] \in PassRecord
      /\ flight \subseteq Intents \X (1 .. Attempts) /\ registered \subseteq Senders
      /\ sender \in [Senders -> PassRecord]
  BY DEF Typed
<1>1. CASE ListDeliveries(d)
  <2>1. PICK ks \in ListedIntents : sender' = [sender EXCEPT ![d].pc = "next", ![d].todo =
          [a \in DOMAIN ks |-> [id |-> byTime[ks[a]], seen |-> intent[byTime[ks[a]]].state]]]
    BY <1>1 DEF ListDeliveries
  <2>. DEFINE todo == [a \in DOMAIN ks |-> [id |-> byTime[ks[a]], seen |-> intent[byTime[ks[a]]].state]]
  <2>2. ks \in Seq(DOMAIN byTime)
    BY <2>1, DuePlaces DEF ListedIntents
  <2>3. \A p \in DOMAIN byTime : [id |-> byTime[p], seen |-> intent[byTime[p]].state] \in Listing
    BY <1>0 DEF Listing, IntentRecord
  <2>4. todo \in Seq(Listing)
    BY <2>2, <2>3
  <2>. HIDE DEF todo
  <2>5. [sender[d] EXCEPT !.pc = "next", !.todo = todo] \in PassRecord
    BY <1>0, <2>4 DEF PassRecord, SenderPCs
  <2>6. sender' = [sender EXCEPT ![d] = [sender[d] EXCEPT !.pc = "next", !.todo = todo]]
    BY <1>0, <2>1 DEF todo
  <2>. QED BY <1>0, <1>1, <2>5, <2>6 DEF ListDeliveries, PassMoves
<1>2. CASE FinishPass(d)
  BY <1>0, <1>2, RestingTyped DEF FinishPass, PassMoves
<1>3. sender[d].pc # "idle" /\ sender[d].todo # <<>> =>
        /\ i \in Intents
        /\ NextItem(d) => PassMoves(d)
        /\ PassEnds(d) => PassMoves(d)
        /\ \A pc \in SenderPCs : Continue(d, pc) => PassMoves(d)
  BY ItemInHand, PassesMove
<1>4. InHand(d) => sender[d].todo # <<>>
  BY DEF Passes
<1>. DEFINE moved(pc, attempt, answer) ==
              [sender[d] EXCEPT !.pc = pc, !.attempt = attempt, !.answer = answer]
<1>5. \A pc \in SenderPCs, attempt \in 0 .. Attempts, answer \in Replies :
        moved(pc, attempt, answer) \in PassRecord
  BY <1>0 DEF PassRecord
<1>6. sender[d].attempt \in 0 .. Attempts /\ sender[d].answer \in Replies
  BY <1>0 DEF PassRecord
<1>7. ASSUME NEW pc \in SenderPCs, NEW attempt \in 0 .. Attempts, NEW answer \in Replies,
             sender' = [sender EXCEPT ![d] = moved(pc, attempt, answer)]
      PROVE  \E r \in PassRecord : sender' = [sender EXCEPT ![d] = r]
  BY <1>5, <1>7
<1>8. ASSUME NEW pc \in SenderPCs, sender' = [sender EXCEPT ![d].pc = pc]
      PROVE  \E r \in PassRecord : sender' = [sender EXCEPT ![d] = r]
  <2>1. [sender[d] EXCEPT !.pc = pc] \in PassRecord
    BY <1>0 DEF PassRecord
  <2>. QED BY <1>0, <1>8, <2>1
<1>9. CASE Register(d)
  <2>1. CASE NextItem(d)
    BY <1>0, <1>3, <1>9, <2>1 DEF Register
  <2>2. CASE registered' = registered \cup {d} /\ \E pc \in SenderPCs : sender' = [sender EXCEPT ![d].pc = pc]
    BY <1>0, <1>8, <1>9, <2>2 DEF Register, PassMoves
  <2>. QED BY <1>9, <2>1, <2>2 DEF Register, SenderPCs
<1>10. CASE Recover(d)
  BY <1>0, <1>3, <1>4, <1>10, TableTyped DEF Recover, InHand, IntentStates
<1>11. CASE LookUp(d)
  <2>1. i \in Intents /\ sender[d].todo # <<>>
    BY <1>3, <1>4, <1>11 DEF LookUp, InHand
  <2>2. intent[i].attempt \in 0 .. Attempts
    BY <1>0, <2>1 DEF IntentRecord
  <2>3. CASE NextItem(d)
    BY <1>0, <1>3, <1>11, <2>1, <2>3 DEF LookUp
  <2>4. CASE /\ sender' = [sender EXCEPT ![d].pc = "resolve", ![d].attempt = intent[i].attempt,
                             ![d].answer = IF Looked(i) = "accepted" THEN "accepted" ELSE "failed"]
             /\ UNCHANGED registered
    <3>1. \E answer \in {"accepted", "failed"} :
            sender' = [sender EXCEPT ![d] = moved("resolve", intent[i].attempt, answer)]
      BY <1>0, <2>4
    <3>2. \E r \in PassRecord : sender' = [sender EXCEPT ![d] = r]
      BY <1>7, <2>2, <3>1 DEF SenderPCs, Replies
    <3>. QED BY <1>0, <1>11, <2>4, <3>2 DEF LookUp, PassMoves
  <2>. QED BY <1>11, <2>3, <2>4 DEF LookUp
<1>12. CASE LookUpFails(d)
  BY <1>0, <1>3, <1>4, <1>12 DEF LookUpFails, InHand
<1>13. CASE ResolveUnknown(d)
  <2>1. i \in Intents /\ sender[d].todo # <<>> /\ Exists(i)
    BY <1>3, <1>4, <1>13, ItemInHand DEF ResolveUnknown, InHand
  <2>2. PICK p \in DOMAIN byTime : byTime[p] = i
    BY <2>1 DEF Passes
  <2>3. Later(i) \in Seq(Intents)
    BY <2>1, <2>2, LaterKeepsAll
  <2>. QED BY <1>0, <1>3, <1>13, <2>1, <2>3, TableTyped DEF ResolveUnknown, PutBack, IntentStates
<1>14. CASE Suppress(d)
  BY <1>0, <1>3, <1>4, <1>14, TableTyped DEF Suppress, InHand
<1>15. CASE ReadIntent(d)
  <2>1. i \in Intents /\ sender[d].todo # <<>> /\ Exists(i)
    BY <1>3, <1>4, <1>15, ItemInHand DEF ReadIntent, InHand
  <2>2. PICK p \in DOMAIN byTime : byTime[p] = i
    BY <2>1 DEF Passes
  <2>3. Later(i) \in Seq(Intents)
    BY <2>1, <2>2, LaterKeepsAll
  <2>4. [intent EXCEPT ![i].due = FALSE] \in [Intents -> IntentRecord]
    BY <1>0 DEF IntentRecord
  <2>. QED BY <1>0, <1>3, <1>15, <2>1, <2>3, <2>4, TableTyped DEF ReadIntent, SenderPCs
<1>16. CASE Claim(d)
  <2>1. i \in Intents /\ sender[d].todo # <<>>
    BY <1>3, <1>4, <1>16 DEF Claim, InHand
  <2>2. CASE NextItem(d) /\ (UNCHANGED intent \/ intent' = Suppressed({i}))
    BY <1>0, <1>3, <1>16, <2>1, <2>2, TableTyped DEF Claim
  <2>3. CASE /\ intent[i].attempt < Attempts
             /\ intent' = [intent EXCEPT ![i].state = "sending", ![i].old = FALSE, ![i].attempt = @ + 1]
             /\ sender' = [sender EXCEPT ![d].attempt = intent[i].attempt + 1,
                                         ![d].pc = IF i \in InApp THEN "in-app" ELSE "recheck"]
             /\ UNCHANGED registered
    <3>1. intent[i].attempt + 1 \in 0 .. Attempts
      BY <1>0, <2>1, <2>3, DeliveryAssumption DEF IntentRecord
    <3>2. [intent[i] EXCEPT !.state = "sending", !.old = FALSE, !.attempt = intent[i].attempt + 1]
            \in IntentRecord
      BY <1>0, <2>1, <3>1 DEF IntentRecord, IntentStates
    <3>3. intent' = [intent EXCEPT ![i] =
            [intent[i] EXCEPT !.state = "sending", !.old = FALSE, !.attempt = intent[i].attempt + 1]]
      BY <1>0, <2>1, <2>3
    <3>4. \E pc \in {"in-app", "recheck"} :
            sender' = [sender EXCEPT ![d] = moved(pc, intent[i].attempt + 1, sender[d].answer)]
      BY <1>0, <2>3 DEF PassRecord
    <3>5. \E r \in PassRecord : sender' = [sender EXCEPT ![d] = r]
      BY <1>6, <1>7, <3>1, <3>4 DEF SenderPCs
    <3>6. intent' \in [Intents -> IntentRecord]
      BY <1>0, <3>2, <3>3
    <3>. QED BY <1>0, <1>16, <2>3, <3>5, <3>6 DEF Claim, PassMoves
  <2>. QED BY <1>16, <2>2, <2>3 DEF Claim
<1>17. CASE AcceptInApp(d)
  BY <1>0, <1>3, <1>4, <1>17, TableTyped DEF AcceptInApp, InHand, IntentStates
<1>18. CASE Recheck(d) \/ GiveUp(d)
  <2>1. \E pc \in {"hand", "complete"}, answer \in {"suppressed", "unknown", sender[d].answer} :
          sender' = [sender EXCEPT ![d] = moved(pc, sender[d].attempt, answer)]
    BY <1>0, <1>18 DEF Recheck, GiveUp, Heard, Outcome, PassRecord
  <2>2. \E r \in PassRecord : sender' = [sender EXCEPT ![d] = r]
    BY <1>6, <1>7, <2>1 DEF SenderPCs, Replies
  <2>. QED BY <1>0, <1>18, <2>2 DEF Recheck, GiveUp, PassMoves
<1>19. CASE HandOver(d)
  <2>1. i \in Intents /\ sender[d].todo # <<>>
    BY <1>3, <1>4, <1>19 DEF HandOver, InHand
  <2>2. sender[d].attempt \in 1 .. Attempts
    BY <1>19 DEF HandOver, Beliefs, Believes, Attempting
  <2>. QED BY <1>0, <1>3, <1>19, <2>1, <2>2 DEF HandOver, SenderPCs
<1>20. CASE Complete(d)
  <2>1. i \in Intents /\ sender[d].todo # <<>> /\ Exists(i)
    BY <1>3, <1>4, <1>20, ItemInHand DEF Complete, InHand
  <2>2. PICK p \in DOMAIN byTime : byTime[p] = i
    BY <2>1 DEF Passes
  <2>3. Later(i) \in Seq(Intents)
    BY <2>1, <2>2, LaterKeepsAll
  <2>4. sender[d].answer \in IntentStates
    BY <1>6, <1>20 DEF Complete, Beliefs, Believes, IntentStates, Replies
  <2>. QED BY <1>0, <1>3, <1>20, <2>1, <2>3, <2>4, TableTyped DEF Complete, PutBack, SenderPCs
<1>21. CASE MarkUnknown(d)
  BY <1>0, <1>3, <1>4, <1>21, TableTyped DEF MarkUnknown, InHand, IntentStates
<1>. QED
  BY <1>1, <1>2, <1>9, <1>10, <1>11, <1>12, <1>13, <1>14, <1>15, <1>16, <1>17, <1>18, <1>19,
     <1>20, <1>21
  DEF SenderStep

\* The step of a sender leaves everything well typed.
LEMMA SenderTypedStep ==
  ASSUME Typed, NEW d \in Senders, SenderTyped(d)
  PROVE  Typed'
<1>1. sender' \in [Senders -> PassRecord]
  BY DEF Typed, SenderTyped, PassMoves
<1>. QED BY <1>1 DEF Typed, SenderTyped, PassMoves

LEMMA TypedStep ==
  ASSUME Typed, Passes, Beliefs, [DeliveryNext]_deliveryVars
  PROVE  Typed'
<1>1. CASE UNCHANGED deliveryVars
  BY <1>1 DEF deliveryVars, Typed
<1>2. CASE \E d \in Senders : SenderStep(d) \/ LookUpFails(d)
  BY <1>2, SenderActs, SenderTypedStep
<1>3. ASSUME NEW d \in Senders, SenderCrash(d)
      PROVE  Typed'
  <2>1. sender' = [sender EXCEPT ![d] = Resting] /\ registered' = registered \ {d}
    BY <1>3 DEF SenderCrash, PassEnds
  <2>2. crashes' \in 0 .. MaxCrashes
    BY <1>3, DeliveryAssumption DEF SenderCrash, Typed
  <2>3. leaked' \in BOOLEAN
    BY <1>3 DEF SenderCrash
  <2>. QED BY <1>3, <2>1, <2>2, <2>3, RestingTyped DEF SenderCrash, Typed
<1>4. ASSUME NEW m \in flight, TakeMail(m) \/ RefuseMail(m)
      PROVE  Typed'
  <2>1. sender' \in [Senders -> PassRecord]
    <3>1. CASE UNCHANGED sender
      BY <3>1 DEF Typed
    <3>2. ASSUME NEW d \in Senders, NEW answer \in {"accepted", "failed"}, Heard(d, answer)
          PROVE  sender' \in [Senders -> PassRecord]
      <4>1. [sender[d] EXCEPT !.pc = "complete", !.answer = answer] \in PassRecord
        BY DEF Typed, PassRecord, SenderPCs, Replies
      <4>2. sender' = [sender EXCEPT ![d] = [sender[d] EXCEPT !.pc = "complete", !.answer = answer]]
        BY <3>2 DEF Heard, Outcome, Typed
      <4>. QED BY <4>1, <4>2 DEF Typed
    <3>. QED BY <1>4, <3>1, <3>2 DEF TakeMail, RefuseMail, Judge
  <2>2. m[1] \in Intents
    BY DEF Typed
  <2>3. mails' \in [Intents -> Nat]
    BY <1>4, <2>2 DEF TakeMail, RefuseMail, Typed
  <2>4. flight' \subseteq Intents \X (1 .. Attempts)
    BY <1>4 DEF TakeMail, RefuseMail, Typed
  <2>. QED BY <1>4, <2>1, <2>3, <2>4 DEF TakeMail, RefuseMail, Typed
<1>5. ASSUME NEW i \in Intents, CreateIntent(i) \/ FallDue(i) \/ Expire(i) \/ GetOld(i)
      PROVE  Typed'
  <2>1. intent' \in [Intents -> IntentRecord]
    <3>1. CASE CreateIntent(i)
      <4>1. [intent[i] EXCEPT !.state = "pending", !.due = TRUE, !.bound = TRUE] \in IntentRecord
        BY DEF Typed, IntentRecord, IntentStates
      <4>2. intent' = [intent EXCEPT ![i] =
              [intent[i] EXCEPT !.state = "pending", !.due = TRUE, !.bound = TRUE]]
        BY <3>1 DEF CreateIntent, Typed
      <4>. QED BY <4>1, <4>2 DEF Typed
    <3>2. CASE FallDue(i)
      BY <3>2 DEF FallDue, Grows, Typed, IntentRecord
    <3>3. CASE Expire(i)
      BY <3>3 DEF Expire, Grows, Typed, IntentRecord
    <3>4. CASE GetOld(i)
      BY <3>4 DEF GetOld, Grows, Typed, IntentRecord
    <3>. QED BY <1>5, <3>1, <3>2, <3>3, <3>4
  <2>2. byTime' \in Seq(Intents)
    <3>1. CASE byTime' = Append(byTime, i)
      BY <3>1 DEF Typed
    <3>2. CASE byTime' = byTime
      BY <3>2 DEF Typed
    <3>. QED BY <1>5, <3>1, <3>2 DEF CreateIntent, FallDue, Expire, GetOld, Grows
  <2>. QED BY <1>5, <2>1, <2>2 DEF CreateIntent, FallDue, Expire, GetOld, Grows, Typed
<1>6. CASE SavePreferences
  BY <1>6 DEF SavePreferences, Typed, IntentRecord
<1>7. CASE SuspendService \/ ResumeService \/ DeletionBegins
  <2>1. Suppressed(Intents) \in [Intents -> IntentRecord]
    BY DEF Suppressed, Typed, IntentRecord, IntentStates
  <2>. QED BY <1>7, <2>1 DEF SuspendService, ResumeService, DeletionBegins, Typed
<1>8. CASE DeletionStep
  <2>1. CASE DeletionCompletes
    <3>1. <<>> \in Seq(Intents)
      OBVIOUS
    <3>. QED BY <2>1, <3>1 DEF DeletionCompletes, Typed, IntentRecord, IntentStates
  <2>2. ASSUME NEW i \in Intents, DeletionRecovers(i)
        PROVE  Typed'
    BY <2>2 DEF DeletionRecovers, Put, Typed, IntentRecord, IntentStates
  <2>. QED BY <1>8, <2>1, <2>2 DEF DeletionStep
<1>9. CASE ClearRegistrations
  BY <1>9 DEF ClearRegistrations, Typed
<1>. QED BY <1>1, <1>2, <1>3, <1>4, <1>5, <1>6, <1>7, <1>8, <1>9 DEF DeliveryNext

-----------------------------------------------------------------------------
(* Passes: who is registered, and what is on the list.                       *)

\* No intent comes to be, ends or leaves the list.
TableKept ==
  /\ \A i \in Intents : /\ intent'[i].state = "none" <=> intent[i].state = "none"
                        /\ intent'[i].state = "erased" <=> intent[i].state = "erased"
  /\ \A p \in DOMAIN byTime : \E k \in DOMAIN byTime' : byTime'[k] = byTime[p]

PassGoes(d) ==
  /\ TableKept /\ standing' = standing
  /\ \A e \in Senders \ {d} : sender'[e] = sender[e] /\ (e \in registered' <=> e \in registered)
  /\ registered' \subseteq Senders
  /\ d \in registered' => d \in registered \/ standing # "deleted"
  /\ InHand(d)' => d \in registered' /\ sender'[d].todo # <<>>
  /\ \A k \in DOMAIN sender'[d].todo : intent[sender'[d].todo[k].id].state # "none"

LEMMA PassGoesOn ==
  ASSUME Typed, Passes, NEW d \in Senders
  PROVE  /\ sender[d].todo # <<>> /\ NextItem(d) /\ TableKept /\ standing' = standing => PassGoes(d)
         /\ PassEnds(d) /\ TableKept /\ standing' = standing => PassGoes(d)
         /\ InHand(d) /\ TableKept /\ standing' = standing /\ UNCHANGED registered
              /\ (\E r \in PassRecord : r.todo = sender[d].todo /\ sender' = [sender EXCEPT ![d] = r])
              => PassGoes(d)
<1>0. /\ sender \in [Senders -> PassRecord] /\ registered \subseteq Senders
      /\ \A k \in DOMAIN sender[d].todo : intent[sender[d].todo[k].id].state # "none"
  BY DEF Typed, Passes
<1>1. ASSUME sender[d].todo # <<>>, NextItem(d), TableKept, standing' = standing
      PROVE  PassGoes(d)
  <2>1. sender'[d].pc = "next" /\ sender'[d].todo = Tail(sender[d].todo)
    BY <1>0, <1>1 DEF NextItem, Resting
  <2>2. \A k \in DOMAIN Tail(sender[d].todo) : intent[Tail(sender[d].todo)[k].id].state # "none"
    BY <1>0, <1>1, ItemInHand
  <2>. QED BY <1>0, <1>1, <2>1, <2>2 DEF NextItem, PassGoes, InHand
<1>2. ASSUME PassEnds(d), TableKept, standing' = standing
      PROVE  PassGoes(d)
  <2>1. sender'[d].pc = "idle" /\ sender'[d].todo = <<>>
    BY <1>0, <1>2 DEF PassEnds, Resting
  <2>. QED BY <1>0, <1>2, <2>1 DEF PassEnds, PassGoes, InHand
<1>3. ASSUME InHand(d), TableKept, standing' = standing, UNCHANGED registered,
             NEW r \in PassRecord, r.todo = sender[d].todo, sender' = [sender EXCEPT ![d] = r]
      PROVE  PassGoes(d)
  <2>1. sender'[d].todo = sender[d].todo
    BY <1>0, <1>3
  <2>2. d \in registered /\ sender[d].todo # <<>>
    BY <1>3 DEF Passes
  <2>. QED BY <1>0, <1>3, <2>1, <2>2 DEF PassGoes
<1>. QED BY <1>1, <1>2, <1>3

\* Every write of a sender to the table keeps what TableKept says.
LEMMA WritesKeep ==
  ASSUME Typed, Passes, NEW i \in Intents, Exists(i)
  PROVE  /\ UNCHANGED <<intent, byTime>> => TableKept
         /\ UNCHANGED byTime /\ (\E state \in IntentStates \ {"none", "erased"} : Put(i, state)) => TableKept
         /\ UNCHANGED byTime /\ intent' = Suppressed({i}) => TableKept
         /\ PutBack(i) => TableKept
         /\ intent' = [intent EXCEPT ![i].due = FALSE] /\ byTime' = Later(i) => TableKept
<1>. USE DEF TableKept, Exists
<1>0. intent \in [Intents -> IntentRecord]
  BY DEF Typed
<1>1. UNCHANGED <<intent, byTime>> => TableKept
  OBVIOUS
<1>2. ASSUME UNCHANGED byTime, NEW state \in IntentStates \ {"none", "erased"}, Put(i, state)
      PROVE  TableKept
  BY <1>0, <1>2 DEF Put, IntentRecord
<1>3. UNCHANGED byTime /\ intent' = Suppressed({i}) => TableKept
  BY <1>0 DEF Suppressed, IntentRecord, Unsent
<1>4. PICK p \in DOMAIN byTime : byTime[p] = i
  BY DEF Passes
<1>5. \A q \in DOMAIN byTime : \E k \in DOMAIN Later(i) : Later(i)[k] = byTime[q]
  BY <1>4, LaterKeepsAll
<1>6. ASSUME PutBack(i)
      PROVE  TableKept
  <2>1. \A x \in Intents : intent'[x].state = IF x = i THEN "failed" ELSE intent[x].state
    BY <1>0, <1>6 DEF PutBack, IntentRecord
  <2>2. byTime' = Later(i)
    BY <1>6 DEF PutBack
  <2>. QED BY <1>5, <2>1, <2>2
<1>7. ASSUME intent' = [intent EXCEPT ![i].due = FALSE], byTime' = Later(i)
      PROVE  TableKept
  <2>1. \A x \in Intents : intent'[x].state = intent[x].state
    BY <1>0, <1>7 DEF IntentRecord
  <2>. QED BY <1>5, <1>7, <2>1
<1>. QED BY <1>1, <1>2, <1>3, <1>6, <1>7

LEMMA SenderPasses ==
  ASSUME Typed, Passes, Beliefs, NEW d \in Senders,
         SenderStep(d) \/ LookUpFails(d) \/ SenderCrash(d)
  PROVE  PassGoes(d)
<1>. DEFINE i == Item(d)
<1>. USE DEF SenderAt
<1>0. intent \in [Intents -> IntentRecord] /\ sender \in [Senders -> PassRecord]
      /\ sender[d] \in PassRecord /\ registered \subseteq Senders
  BY DEF Typed
<1>1. InHand(d) => i \in Intents /\ Exists(i) /\ sender[d].todo # <<>>
  BY ItemInHand DEF Passes
<1>2. ASSUME UNCHANGED <<intent, byTime>>
      PROVE  TableKept
  BY <1>2 DEF TableKept
<1>3. ASSUME InHand(d), TableKept, standing' = standing, UNCHANGED registered,
             NEW pc, sender' = [sender EXCEPT ![d].pc = pc], pc \in SenderPCs
      PROVE  PassGoes(d)
  <2>1. [sender[d] EXCEPT !.pc = pc] \in PassRecord
    BY <1>0, <1>3 DEF PassRecord
  <2>2. [sender[d] EXCEPT !.pc = pc].todo = sender[d].todo
    BY <1>0 DEF PassRecord
  <2>3. sender' = [sender EXCEPT ![d] = [sender[d] EXCEPT !.pc = pc]]
    BY <1>0, <1>3
  <2>. QED BY <1>3, <2>1, <2>2, <2>3, PassGoesOn
<1>4. ASSUME InHand(d), TableKept, standing' = standing, UNCHANGED registered,
             NEW pc \in SenderPCs, NEW attempt \in 0 .. Attempts, NEW answer \in Replies,
             sender' = [sender EXCEPT ![d] =
               [sender[d] EXCEPT !.pc = pc, !.attempt = attempt, !.answer = answer]]
      PROVE  PassGoes(d)
  <2>. DEFINE r == [sender[d] EXCEPT !.pc = pc, !.attempt = attempt, !.answer = answer]
  <2>1. r \in PassRecord /\ r.todo = sender[d].todo
    BY <1>0 DEF PassRecord
  <2>. QED BY <1>4, <2>1, PassGoesOn
<1>5. CASE ListDeliveries(d)
  <2>1. PICK ks \in ListedIntents : sender' = [sender EXCEPT ![d].pc = "next", ![d].todo =
          [a \in DOMAIN ks |-> [id |-> byTime[ks[a]], seen |-> intent[byTime[ks[a]]].state]]]
    BY <1>5 DEF ListDeliveries
  <2>. DEFINE todo == [a \in DOMAIN ks |-> [id |-> byTime[ks[a]], seen |-> intent[byTime[ks[a]]].state]]
  <2>2. \A a \in DOMAIN ks : intent[byTime[ks[a]]].state # "none"
    BY <2>1, DuePlaces DEF ListedIntents, Undelivered, Unsent
  <2>3. \A a \in DOMAIN todo : intent[todo[a].id].state # "none"
    BY <2>2
  <2>. HIDE DEF todo
  <2>4. sender'[d].pc = "next" /\ sender'[d].todo = todo
    BY <1>0, <2>1 DEF todo, PassRecord
  <2>5. \A e \in Senders \ {d} : sender'[e] = sender[e]
    BY <1>0, <2>1
  <2>. QED BY <1>0, <1>2, <1>5, <2>3, <2>4, <2>5 DEF ListDeliveries, PassGoes, InHand
<1>6. CASE FinishPass(d)
  <2>1. sender'[d].pc = "idle" /\ sender'[d].todo = <<>>
    BY <1>0, <1>6 DEF FinishPass, Resting
  <2>. QED BY <1>0, <1>2, <1>6, <2>1 DEF FinishPass, PassGoes, InHand
<1>7. CASE Register(d)
  <2>1. CASE NextItem(d)
    BY <1>2, <1>7, <2>1, PassGoesOn DEF Register
  <2>2. CASE /\ standing # "deleted" /\ registered' = registered \cup {d}
             /\ \E pc \in SenderPCs : sender' = [sender EXCEPT ![d].pc = pc]
    <3>1. sender'[d].todo = sender[d].todo /\ \A e \in Senders \ {d} : sender'[e] = sender[e]
      BY <1>0, <2>2 DEF PassRecord
    <3>2. \A k \in DOMAIN sender[d].todo : intent[sender[d].todo[k].id].state # "none"
      BY DEF Passes
    <3>. QED BY <1>0, <1>2, <1>7, <2>2, <3>1, <3>2 DEF Register, PassGoes
  <2>. QED BY <1>7, <2>1, <2>2 DEF Register, SenderPCs
<1>8. CASE SenderCrash(d)
  BY <1>2, <1>8, PassGoesOn DEF SenderCrash
<1>9. ASSUME InHand(d)
      PROVE  /\ UNCHANGED <<intent, byTime>> => TableKept
             /\ UNCHANGED byTime /\ (\E state \in IntentStates \ {"none", "erased"} : Put(i, state)) => TableKept
             /\ UNCHANGED byTime /\ intent' = Suppressed({i}) => TableKept
             /\ PutBack(i) => TableKept
             /\ intent' = [intent EXCEPT ![i].due = FALSE] /\ byTime' = Later(i) => TableKept
  BY <1>1, <1>9, WritesKeep
<1>10. CASE Recover(d)
  BY <1>1, <1>9, <1>10, PassGoesOn DEF Recover, InHand, IntentStates
<1>11. CASE LookUp(d)
  <2>1. InHand(d) /\ TableKept /\ standing' = standing
    BY <1>2, <1>11 DEF LookUp, InHand
  <2>2. CASE NextItem(d)
    BY <1>1, <2>1, <2>2, PassGoesOn
  <2>3. CASE /\ sender' = [sender EXCEPT ![d].pc = "resolve", ![d].attempt = intent[i].attempt,
                             ![d].answer = IF Looked(i) = "accepted" THEN "accepted" ELSE "failed"]
             /\ UNCHANGED registered
    <3>1. intent[i].attempt \in 0 .. Attempts
      BY <1>0, <1>1, <2>1 DEF IntentRecord
    <3>2. PICK answer \in {"accepted", "failed"} : sender' = [sender EXCEPT ![d] =
            [sender[d] EXCEPT !.pc = "resolve", !.attempt = intent[i].attempt, !.answer = answer]]
      BY <1>0, <2>3
    <3>3. "resolve" \in SenderPCs /\ answer \in Replies /\ UNCHANGED registered
      BY <2>3 DEF SenderPCs, Replies
    <3>. HIDE DEF i
    <3>. QED BY <1>4, <2>1, <3>1, <3>2, <3>3
  <2>. QED BY <1>11, <2>2, <2>3 DEF LookUp
<1>12. CASE LookUpFails(d)
  BY <1>2, <1>12, PassGoesOn DEF LookUpFails
<1>13. CASE ResolveUnknown(d)
  BY <1>1, <1>9, <1>13, PassGoesOn DEF ResolveUnknown, InHand, IntentStates
<1>14. CASE Suppress(d)
  BY <1>1, <1>9, <1>14, PassGoesOn DEF Suppress, InHand
<1>15. CASE ReadIntent(d)
  <2>1. InHand(d) /\ TableKept /\ standing' = standing
    BY <1>9, <1>15 DEF ReadIntent, InHand
  <2>2. CASE NextItem(d)
    BY <1>1, <2>1, <2>2, PassGoesOn
  <2>3. CASE Continue(d, "claim")
    BY <1>3, <2>1, <2>3 DEF Continue, SenderPCs
  <2>. QED BY <1>15, <2>2, <2>3 DEF ReadIntent
<1>16. CASE Claim(d)
  <2>1. InHand(d) /\ standing' = standing
    BY <1>16 DEF Claim, InHand
  <2>2. CASE NextItem(d) /\ (UNCHANGED intent \/ intent' = Suppressed({i}))
    BY <1>1, <1>9, <1>16, <2>1, <2>2, PassGoesOn DEF Claim
  <2>3. CASE /\ intent[i].attempt < Attempts /\ intent[i].state \in Unsent
             /\ intent' = [intent EXCEPT ![i].state = "sending", ![i].old = FALSE, ![i].attempt = @ + 1]
             /\ sender' = [sender EXCEPT ![d].attempt = intent[i].attempt + 1,
                                         ![d].pc = IF i \in InApp THEN "in-app" ELSE "recheck"]
             /\ UNCHANGED registered
    <3>1. intent[i].attempt + 1 \in 0 .. Attempts /\ sender[d].answer \in Replies
      BY <1>0, <1>1, <2>1, <2>3, DeliveryAssumption DEF IntentRecord, PassRecord
    <3>2. PICK pc \in {"in-app", "recheck"} : sender' = [sender EXCEPT ![d] =
            [sender[d] EXCEPT !.pc = pc, !.attempt = intent[i].attempt + 1, !.answer = sender[d].answer]]
      BY <1>0, <2>3 DEF PassRecord
    <3>3. \A x \in Intents : intent'[x].state = IF x = i THEN "sending" ELSE intent[x].state
      BY <1>0, <2>3 DEF IntentRecord
    <3>4. TableKept
      <4>1. UNCHANGED byTime
        BY <1>16 DEF Claim
      <4>2. intent[i].state \notin {"none", "erased"}
        BY <2>3 DEF Unsent
      <4>. HIDE DEF i
      <4>. QED BY <3>3, <4>1, <4>2 DEF TableKept
    <3>5. pc \in SenderPCs /\ UNCHANGED registered
      BY <2>3 DEF SenderPCs
    <3>. HIDE DEF i
    <3>. QED BY <1>4, <2>1, <3>1, <3>2, <3>4, <3>5
  <2>. QED BY <1>16, <2>2, <2>3 DEF Claim
<1>17. CASE AcceptInApp(d)
  BY <1>1, <1>9, <1>17, PassGoesOn DEF AcceptInApp, InHand, IntentStates
<1>18. CASE Recheck(d) \/ GiveUp(d)
  <2>1. InHand(d) /\ TableKept /\ standing' = standing /\ UNCHANGED registered
    BY <1>2, <1>18 DEF Recheck, GiveUp, InHand
  <2>2. PICK pc \in {"hand", "complete"}, answer \in {"suppressed", "unknown", sender[d].answer} :
          sender' = [sender EXCEPT ![d] =
            [sender[d] EXCEPT !.pc = pc, !.attempt = sender[d].attempt, !.answer = answer]]
    BY <1>0, <1>18 DEF Recheck, GiveUp, Heard, Outcome, PassRecord
  <2>3. sender[d].attempt \in 0 .. Attempts /\ answer \in Replies
    BY <1>0 DEF PassRecord, Replies
  <2>. QED BY <1>4, <2>1, <2>2, <2>3 DEF SenderPCs
<1>19. CASE HandOver(d)
  BY <1>2, <1>3, <1>19 DEF HandOver, Continue, InHand, SenderPCs
<1>20. CASE Complete(d)
  <2>1. InHand(d) /\ TableKept /\ standing' = standing
    <3>1. sender[d].answer \in IntentStates \ {"none", "erased"}
      BY <1>0, <1>20 DEF Complete, Beliefs, Believes, IntentStates, Replies, PassRecord
    <3>. QED BY <1>9, <1>20, <3>1 DEF Complete, InHand
  <2>2. CASE NextItem(d) \/ PassEnds(d)
    BY <1>1, <2>1, <2>2, PassGoesOn
  <2>3. CASE Continue(d, "mark")
    BY <1>3, <2>1, <2>3 DEF Continue, SenderPCs
  <2>. QED BY <1>20, <2>2, <2>3 DEF Complete
<1>21. CASE MarkUnknown(d)
  BY <1>1, <1>9, <1>21, PassGoesOn DEF MarkUnknown, InHand, IntentStates
<1>. QED
  BY <1>5, <1>6, <1>7, <1>8, <1>10, <1>11, <1>12, <1>13, <1>14, <1>15, <1>16, <1>17, <1>18, <1>19,
     <1>20, <1>21
  DEF SenderStep

\* Nobody works on an item unregistered, whatever the deletion does meanwhile.
LEMMA PassesStep ==
  ASSUME Typed, Passes, Beliefs, [DeliveryNext]_deliveryVars
  PROVE  Passes'
<1>0. intent \in [Intents -> IntentRecord] /\ sender \in [Senders -> PassRecord]
      /\ registered \subseteq Senders /\ byTime \in Seq(Intents)
  BY DEF Typed
<1>1. CASE UNCHANGED deliveryVars
  BY <1>1 DEF deliveryVars, Passes, InHand, Exists
<1>2. ASSUME NEW d \in Senders, PassGoes(d)
      PROVE  Passes'
  <2>. DEFINE listed(x) == \E k \in DOMAIN byTime : byTime[k] = x
  <2>1. \A e \in Senders : InHand(e)' => e \in registered' /\ sender'[e].todo # <<>>
    BY <1>0, <1>2 DEF Passes, PassGoes, InHand
  <2>2. standing' = "deleted" => registered' = {}
    BY <1>0, <1>2 DEF Passes, PassGoes
  <2>3. \A i \in Intents : Exists(i)' => Exists(i)
    BY <1>2 DEF PassGoes, TableKept, Exists
  <2>4. \A i \in Intents : Exists(i)' => \E k \in DOMAIN byTime' : byTime'[k] = i
    BY <1>2, <2>3 DEF Passes, PassGoes, TableKept
  <2>5. standing' # "deleted" => \A i \in Intents : intent'[i].state # "erased"
    BY <1>2 DEF Passes, PassGoes, TableKept
  <2>6. ASSUME NEW e \in Senders, NEW k \in DOMAIN sender'[e].todo
        PROVE  intent'[sender'[e].todo[k].id].state # "none"
    <3>1. sender'[e].todo \in Seq(Listing)
      BY <1>2, TypedStep DEF Typed, PassRecord
    <3>2. sender'[e].todo[k].id \in Intents
      <4>1. sender'[e].todo[k] \in Listing
        BY <3>1, <2>6
      <4>. QED BY <4>1 DEF Listing
    <3>3. intent[sender'[e].todo[k].id].state # "none"
      BY <1>2 DEF Passes, PassGoes
    <3>. QED BY <1>2, <3>2, <3>3 DEF PassGoes, TableKept
  <2>. QED BY <2>1, <2>2, <2>4, <2>5, <2>6 DEF Passes
<1>3. CASE \E d \in Senders : SenderStep(d) \/ LookUpFails(d) \/ SenderCrash(d)
  BY <1>2, <1>3, SenderPasses
<1>4. ASSUME NEW m \in flight, TakeMail(m) \/ RefuseMail(m)
      PROVE  Passes'
  <2>1. \A d \in Senders : sender'[d].todo = sender[d].todo /\ (InHand(d)' <=> InHand(d))
    <3>1. ASSUME NEW e \in Senders, NEW answer, sender[e].pc = "await", Heard(e, answer)
          PROVE  \A d \in Senders : sender'[d].todo = sender[d].todo /\ (InHand(d)' <=> InHand(d))
      <4>1. sender' = [sender EXCEPT ![e] = [sender[e] EXCEPT !.pc = "complete", !.answer = answer]]
        BY <1>0, <3>1 DEF Heard, Outcome
      <4>. QED BY <1>0, <3>1, <4>1 DEF InHand, PassRecord
    <3>2. CASE UNCHANGED sender
      BY <3>2 DEF InHand
    <3>. QED BY <1>4, <3>1, <3>2 DEF TakeMail, RefuseMail, Judge, SenderAt
  <2>. QED BY <1>4, <2>1 DEF TakeMail, RefuseMail, Passes, Exists
<1>5. ASSUME NEW i \in Intents, CreateIntent(i)
      PROVE  Passes'
  <2>1. \A x \in Intents : intent'[x].state = IF x = i THEN "pending" ELSE intent[x].state
    BY <1>0, <1>5 DEF CreateIntent, IntentRecord
  <2>2. /\ \A k \in DOMAIN byTime : k \in DOMAIN byTime' /\ byTime'[k] = byTime[k]
        /\ Len(byTime) + 1 \in DOMAIN byTime' /\ byTime'[Len(byTime) + 1] = i
    BY <1>0, <1>5 DEF CreateIntent
  <2>3. \A x \in Intents : Exists(x)' => \E k \in DOMAIN byTime' : byTime'[k] = x
    BY <2>1, <2>2 DEF Passes, Exists
  <2>4. standing' = standing /\ sender' = sender /\ registered' = registered
    BY <1>5 DEF CreateIntent
  <2>5. ASSUME NEW e \in Senders, NEW k \in DOMAIN sender[e].todo
        PROVE  intent'[sender[e].todo[k].id].state # "none"
    <3>1. sender[e].todo \in Seq(Listing)
      BY <1>0 DEF PassRecord
    <3>2. sender[e].todo[k] \in Listing
      BY <3>1
    <3>. QED BY <2>1, <3>2 DEF Passes, Listing
  <2>6. standing' # "deleted" => \A x \in Intents : intent'[x].state # "erased"
    BY <2>1, <2>4 DEF Passes
  <2>. QED BY <2>3, <2>4, <2>5, <2>6 DEF Passes, InHand
<1>6. ASSUME \/ \E i \in Intents : FallDue(i) \/ Expire(i) \/ GetOld(i) \/ DeletionRecovers(i)
             \/ SavePreferences \/ SuspendService \/ ResumeService \/ DeletionBegins
      PROVE  Passes'
  <2>1. \A x \in Intents : /\ intent'[x].state = "none" <=> intent[x].state = "none"
                           /\ intent'[x].state = "erased" <=> intent[x].state = "erased"
    <3>1. ASSUME NEW i \in Intents, FallDue(i) \/ Expire(i) \/ GetOld(i)
          PROVE  \A x \in Intents : intent'[x].state = intent[x].state
      <4>1. CASE FallDue(i)
        BY <1>0, <4>1 DEF FallDue, Grows, IntentRecord
      <4>2. CASE Expire(i)
        BY <1>0, <4>2 DEF Expire, Grows, IntentRecord
      <4>3. CASE GetOld(i)
        BY <1>0, <4>3 DEF GetOld, Grows, IntentRecord
      <4>. QED BY <3>1, <4>1, <4>2, <4>3
    <3>2. ASSUME NEW i \in Intents, DeletionRecovers(i)
          PROVE  \A x \in Intents : intent'[x].state = IF x = i THEN "unknown" ELSE intent[x].state
      BY <1>0, <3>2 DEF DeletionRecovers, Put, IntentRecord
    <3>3. CASE SavePreferences
      BY <1>0, <3>3 DEF SavePreferences, IntentRecord
    <3>4. CASE SuspendService \/ DeletionBegins
      BY <1>0, <3>4 DEF SuspendService, DeletionBegins, Suppressed, Unsent, IntentRecord
    <3>. QED BY <1>6, <3>1, <3>2, <3>3, <3>4 DEF ResumeService, DeletionRecovers, LooksAbandoned
  <2>2. UNCHANGED <<byTime, sender, registered>> /\ (standing' = "deleted" <=> standing = "deleted")
    BY <1>6
    DEF FallDue, Expire, GetOld, Grows, DeletionRecovers, SavePreferences, SuspendService,
        ResumeService, DeletionBegins
  <2>3. ASSUME NEW e \in Senders, NEW k \in DOMAIN sender[e].todo
        PROVE  intent'[sender[e].todo[k].id].state # "none"
    <3>1. sender[e].todo \in Seq(Listing)
      BY <1>0 DEF PassRecord
    <3>2. sender[e].todo[k] \in Listing
      BY <3>1
    <3>. QED BY <2>1, <3>2 DEF Passes, Listing
  <2>. QED BY <2>1, <2>2, <2>3 DEF Passes, Exists, InHand
<1>7. CASE DeletionCompletes
  <2>1. \A x \in Intents : intent'[x].state = "erased"
    BY <1>0, <1>7 DEF DeletionCompletes, IntentRecord
  <2>2. registered = {} /\ standing' = "deleted" /\ sender' = sender /\ registered' = registered
    BY <1>7 DEF DeletionCompletes, Drained
  <2>3. ASSUME NEW e \in Senders, NEW k \in DOMAIN sender[e].todo
        PROVE  intent'[sender[e].todo[k].id].state # "none"
    <3>1. sender[e].todo \in Seq(Listing)
      BY <1>0 DEF PassRecord
    <3>2. sender[e].todo[k] \in Listing
      BY <3>1
    <3>. QED BY <2>1, <3>2 DEF Listing
  <2>. QED BY <2>1, <2>2, <2>3 DEF Passes, Exists, InHand
<1>8. CASE ClearRegistrations
  BY <1>8 DEF ClearRegistrations, SenderAt, Passes, InHand, Exists
<1>. QED
  BY <1>1, <1>3, <1>4, <1>5, <1>6, <1>7, <1>8 DEF DeliveryNext, DeletionStep

-----------------------------------------------------------------------------
(* Attempts: what a sender knows of its own, and that it is the last.        *)

\* What a step of d may do to the intents without a claim: an attempt that is
\* under way stays so, unless d made it and the provider has nothing of it.
WriteKeeps(d) ==
  \A x \in Intents :
    /\ intent[x].state \in Underway =>
         /\ intent'[x].attempt = intent[x].attempt
         /\ \/ intent'[x].state \in Underway
            \/ sender[d].pc \in Attempting /\ Item(d) = x /\ ~Outside(x)
    /\ intent[x].state = "erased" => intent'[x].state = "erased"
    /\ x \notin InApp /\ intent'[x].state = "accepted" => mails[x] > 0

\* A step after which d has no attempt at an e-mail in hand.
LeavesAttempt(d) ==
  /\ UNCHANGED <<mails, flight, provider>>
  /\ \A e \in Senders \ {d} : sender'[e] = sender[e]
  /\ sender'[d].pc \notin Attempting
  /\ sender'[d].pc = "in-app" => Item(d)' \in InApp
  /\ sender'[d].pc = "resolve" =>
       \/ sender'[d].answer = "accepted" /\ mails[Item(d)'] > 0
       \/ sender'[d].answer = "failed" /\ provider = "fixture"

LEMMA Leaving ==
  ASSUME Typed, Passes, NEW d \in Senders, LeavesAttempt(d)
  PROVE  /\ Beliefs /\ (\A x \in Intents \ InApp : intent'[x].state = "accepted" => mails[x] > 0)
              => Beliefs'
         /\ LastAttempt /\ WriteKeeps(d) => LastAttempt'
<1>1. ASSUME Beliefs, \A x \in Intents \ InApp : intent'[x].state = "accepted" => mails[x] > 0
      PROVE  Beliefs'
  <2>1. ASSUME NEW e \in Senders
        PROVE  Believes(e)'
    <3>1. CASE e = d
      BY <3>1 DEF LeavesAttempt, Attempting, Believes
    <3>2. CASE e # d
      <4>1. sender'[e] = sender[e]
        BY <3>2 DEF LeavesAttempt
      <4>2. Item(e)' = Item(e)
        BY <4>1 DEF Item
      <4>3. UNCHANGED <<mails, provider>>
        BY DEF LeavesAttempt
      <4>. QED BY <1>1, <4>1, <4>2, <4>3 DEF Beliefs, Believes
    <3>. QED BY <3>1, <3>2
  <2>2. MailedAtMostOnce'
    BY <1>1 DEF LeavesAttempt, Beliefs, Believes, MailedAtMostOnce
  <2>3. \A x \in Intents \ InApp : intent'[x].state = "accepted" => mails'[x] > 0
    BY <1>1 DEF LeavesAttempt
  <2>. QED BY <2>1, <2>2, <2>3 DEF Beliefs, Believes
<1>2. ASSUME LastAttempt, WriteKeeps(d)
      PROVE  LastAttempt'
  <2>1. \A x : Outside(x)' <=> Outside(x)
    BY DEF LeavesAttempt, Outside
  <2>2. \A e \in Senders : sender'[e].pc \in Attempting =>
          e # d /\ sender'[e] = sender[e] /\ Item(e)' = Item(e)
    BY DEF LeavesAttempt, Item
  <2>3. \A x \in Intents : Outside(x)' => intent'[x].state \in Underway \cup {"erased"}
    BY <1>2, <2>1 DEF LastAttempt, WriteKeeps
  <2>4. ASSUME NEW e \in Senders, sender'[e].pc \in Attempting
        PROVE  CurrentAttempt(e)'
    <3>1. e # d /\ sender'[e] = sender[e] /\ Item(e)' = Item(e)
      BY <2>2, <2>4
    <3>2. Item(e) \in Intents
      BY <2>4, <3>1, ItemInHand DEF Passes, InHand, Attempting
    <3>3. CurrentAttempt(e) /\ (sender[d].pc \in Attempting => Item(e) # Item(d))
      BY <1>2, <2>4, <3>1 DEF LastAttempt
    <3>4. UNCHANGED <<mails, flight>>
      BY DEF LeavesAttempt
    <3>. QED BY <1>2, <3>1, <3>2, <3>3, <3>4 DEF WriteKeeps, CurrentAttempt, Outside
  <2>5. UNCHANGED <<mails, flight>>
    BY DEF LeavesAttempt
  <2>6. \A e, f \in Senders :
          e # f /\ sender'[e].pc \in Attempting /\ sender'[f].pc \in Attempting => Item(e)' # Item(f)'
    BY <1>2, <2>2 DEF LastAttempt
  <2>. QED BY <1>2, <2>3, <2>4, <2>5, <2>6 DEF LastAttempt
<1>. QED BY <1>1, <1>2

Writes(i, state) ==
  \A x \in Intents :
    /\ intent'[x].attempt = intent[x].attempt
    /\ intent'[x].state = IF x = i THEN state ELSE intent[x].state

LEMMA TableWrites ==
  ASSUME Typed, NEW i \in Intents
  PROVE  /\ \A state : Put(i, state) => Writes(i, state)
         /\ PutBack(i) => Writes(i, "failed")
         /\ UNCHANGED intent \/ intent' = [intent EXCEPT ![i].due = FALSE] => Writes(i, intent[i].state)
         /\ intent' = Suppressed({i}) =>
              Writes(i, IF intent[i].state \in Unsent THEN "suppressed" ELSE intent[i].state)
<1>. USE DEF Typed, Writes, IntentRecord
<1>1. \A state : Put(i, state) => Writes(i, state)
  BY DEF Put
<1>2. PutBack(i) => Writes(i, "failed")
  BY DEF PutBack
<1>3. UNCHANGED intent => Writes(i, intent[i].state)
  OBVIOUS
<1>4. intent' = [intent EXCEPT ![i].due = FALSE] => Writes(i, intent[i].state)
  OBVIOUS
<1>5. intent' = Suppressed({i}) =>
        Writes(i, IF intent[i].state \in Unsent THEN "suppressed" ELSE intent[i].state)
  BY DEF Suppressed
<1>. QED BY <1>1, <1>2, <1>3, <1>4, <1>5

\* A sender that is done with its item and has written what it may.
LEMMA LeavingWith ==
  ASSUME Typed, Passes, Beliefs, NEW d \in Senders, LeavesAttempt(d),
         NEW i \in Intents, NEW state, Writes(i, state),
         i \notin InApp /\ state = "accepted" => mails[i] > 0,
         provider # "fixture" =>
           /\ LastAttempt
           /\ intent[i].state \in Underway /\ state \notin Underway =>
                sender[d].pc \in Attempting /\ Item(d) = i /\ ~Outside(i)
           /\ intent[i].state = "erased" => state = "erased"
  PROVE  Beliefs' /\ (provider' # "fixture" => LastAttempt')
<1>1. \A x \in Intents \ InApp : intent'[x].state = "accepted" => mails[x] > 0
  BY DEF Writes, Beliefs, Believes
<1>2. Beliefs'
  BY <1>1, Leaving
<1>3. UNCHANGED provider
  BY DEF LeavesAttempt
<1>4. provider # "fixture" => WriteKeeps(d)
  BY <1>1 DEF WriteKeeps, Writes
<1>. QED BY <1>2, <1>3, <1>4, Leaving

\* A sender that goes on with its attempt and has written nothing.
LEMMA Staying ==
  ASSUME Typed, Passes, Beliefs, NEW d \in Senders, provider # "fixture" => LastAttempt,
         UNCHANGED <<intent, mails, flight, provider>>,
         sender[d].pc \in Attempting, NEW r \in PassRecord, sender' = [sender EXCEPT ![d] = r],
         r.todo = sender[d].todo, r.attempt = sender[d].attempt,
         r.pc \in Attempting \ {"recheck"},
         r.pc = "complete" => r.answer \notin {"none", "accepted"},
         r.pc = "hand" => sender[d].pc \in {"recheck", "hand"},
         r.pc = "complete" /\ r.answer \in {"failed", "suppressed"} => sender[d].pc \in {"recheck", "hand"}
  PROVE  Beliefs' /\ (provider' # "fixture" => LastAttempt')
<1>1. sender'[d] = r /\ \A e \in Senders \ {d} : sender'[e] = sender[e]
  BY DEF Typed
<1>2. \A e \in Senders : Item(e)' = Item(e)
  BY <1>1 DEF Item
<1>3. Beliefs'
  <2>1. ASSUME NEW e \in Senders
        PROVE  Believes(e)'
    <3>1. CASE e = d
      BY <1>1, <1>2, <3>1 DEF Attempting, Beliefs, Believes
    <3>2. CASE e # d
      BY <1>1, <1>2, <3>2 DEF Beliefs, Believes
    <3>. QED BY <3>1, <3>2
  <2>. QED BY <2>1 DEF Beliefs, Believes, MailedAtMostOnce
<1>4. ASSUME LastAttempt
      PROVE  LastAttempt'
  <2>1. ASSUME NEW e \in Senders, sender'[e].pc \in Attempting
        PROVE  CurrentAttempt(e)'
    <3>1. CASE e = d
      <4>1. CurrentAttempt(d)
        BY <1>4 DEF LastAttempt
      <4>2. Item(d)' = Item(d)
        BY <1>2
      <4>. QED BY <1>1, <3>1, <4>1, <4>2 DEF CurrentAttempt, Outside
    <3>2. CASE e # d
      BY <1>1, <1>2, <1>4, <2>1, <3>2 DEF LastAttempt, CurrentAttempt, Outside
    <3>. QED BY <3>1, <3>2
  <2>2. \A e, f \in Senders :
          e # f /\ sender'[e].pc \in Attempting /\ sender'[f].pc \in Attempting => Item(e)' # Item(f)'
    BY <1>1, <1>2, <1>4 DEF LastAttempt
  <2>. QED BY <1>4, <2>1, <2>2 DEF LastAttempt, Outside
<1>. QED BY <1>3, <1>4

LEMMA SenderAttempts ==
  ASSUME Typed, Passes, Beliefs, provider # "fixture" => LastAttempt, NEW d \in Senders,
         SenderStep(d) \/ LookUpFails(d) \/ SenderCrash(d)
  PROVE  Beliefs' /\ (provider' # "fixture" => LastAttempt')
<1>. DEFINE i == Item(d)
            Goal == Beliefs /\ (provider # "fixture" => LastAttempt)
<1>. USE DEF SenderAt
<1>0. /\ intent \in [Intents -> IntentRecord] /\ sender \in [Senders -> PassRecord]
      /\ sender[d] \in PassRecord /\ flight \subseteq Intents \X (1 .. Attempts)
  BY DEF Typed
<1>1. InHand(d) => i \in Intents /\ Exists(i)
  BY ItemInHand DEF Passes
<1>2. UNCHANGED <<mails, flight, provider>> /\ (NextItem(d) \/ PassEnds(d)) => LeavesAttempt(d)
  <2>1. ASSUME NextItem(d), UNCHANGED <<mails, flight, provider>>
        PROVE  LeavesAttempt(d)
    BY <1>0, <2>1 DEF LeavesAttempt, NextItem, Resting, Attempting
  <2>2. ASSUME PassEnds(d), UNCHANGED <<mails, flight, provider>>
        PROVE  LeavesAttempt(d)
    BY <1>0, <2>2 DEF LeavesAttempt, PassEnds, Resting, Attempting
  <2>. QED BY <2>1, <2>2
<1>3. ASSUME UNCHANGED intent, LeavesAttempt(d)
      PROVE  Goal'
  <2>1. \A x \in Intents \ InApp : intent'[x].state = "accepted" => mails[x] > 0
    BY <1>3 DEF Beliefs, Believes
  <2>2. WriteKeeps(d)
    BY <1>3, <2>1 DEF WriteKeeps
  <2>3. UNCHANGED provider
    BY <1>3 DEF LeavesAttempt
  <2>. QED BY <1>3, <2>1, <2>2, <2>3, Leaving
<1>4. InHand(d) =>
        /\ \A state : Put(i, state) => Writes(i, state)
        /\ PutBack(i) => Writes(i, "failed")
        /\ intent' = [intent EXCEPT ![i].due = FALSE] => Writes(i, intent[i].state)
        /\ intent' = Suppressed({i}) =>
             Writes(i, IF intent[i].state \in Unsent THEN "suppressed" ELSE intent[i].state)
  BY <1>1, TableWrites
<1>5. ASSUME InHand(d), LeavesAttempt(d), NEW state, Writes(i, state),
             i \notin InApp /\ state = "accepted" => mails[i] > 0,
             provider # "fixture" /\ intent[i].state \in Underway /\ state \notin Underway =>
               sender[d].pc \in Attempting /\ ~Outside(i)
      PROVE  Goal'
  BY <1>1, <1>5, LeavingWith DEF Exists
<1>6. CASE ListDeliveries(d)
  <2>1. sender'[d].pc = "next" /\ \A e \in Senders \ {d} : sender'[e] = sender[e]
    <3>1. PICK ks : sender' = [sender EXCEPT ![d].pc = "next", ![d].todo =
            [a \in DOMAIN ks |-> [id |-> byTime[ks[a]], seen |-> intent[byTime[ks[a]]].state]]]
      BY <1>6 DEF ListDeliveries
    <3>. DEFINE todo == [a \in DOMAIN ks |-> [id |-> byTime[ks[a]], seen |-> intent[byTime[ks[a]]].state]]
    <3>2. sender' = [sender EXCEPT ![d] = [sender[d] EXCEPT !.pc = "next", !.todo = todo]]
      BY <1>0, <3>1
    <3>. HIDE DEF todo
    <3>. QED BY <1>0, <3>2 DEF PassRecord
  <2>. QED BY <1>3, <1>6, <2>1 DEF ListDeliveries, LeavesAttempt, Attempting
<1>7. CASE FinishPass(d)
  <2>1. LeavesAttempt(d)
    BY <1>0, <1>7 DEF FinishPass, LeavesAttempt, Resting, Attempting
  <2>. QED BY <1>3, <1>7, <2>1 DEF FinishPass
<1>8. CASE Register(d)
  <2>1. CASE NextItem(d)
    BY <1>2, <1>3, <1>8, <2>1 DEF Register
  <2>2. CASE \E pc \in {"recover", "lookup", "read", "suppress"} : sender' = [sender EXCEPT ![d].pc = pc]
    <3>1. LeavesAttempt(d)
      BY <1>0, <1>8, <2>2 DEF Register, LeavesAttempt, Attempting, PassRecord
    <3>. QED BY <1>3, <1>8, <3>1 DEF Register
  <2>. QED BY <1>8, <2>1, <2>2 DEF Register
<1>9. CASE SenderCrash(d)
  BY <1>2, <1>3, <1>9 DEF SenderCrash
<1>10. CASE Recover(d)
  <2>1. CASE LooksAbandoned(i)
    BY <1>2, <1>4, <1>5, <1>10, <2>1 DEF Recover, InHand, Underway
  <2>2. CASE ~LooksAbandoned(i)
    BY <1>2, <1>3, <1>10, <2>2 DEF Recover
  <2>. QED BY <2>1, <2>2
<1>11. CASE LookUpFails(d)
  BY <1>2, <1>3, <1>11 DEF LookUpFails
<1>12. CASE ResolveUnknown(d)
  <2>1. InHand(d)
    BY <1>12 DEF ResolveUnknown, InHand
  <2>2. CASE sender[d].answer = "failed" /\ PutBack(i) /\ NextItem(d)
    <3>1. provider = "fixture"
      BY <1>12, <2>2 DEF ResolveUnknown, Beliefs, Believes
    <3>. QED BY <1>2, <1>4, <1>5, <1>12, <2>1, <2>2, <3>1 DEF ResolveUnknown
  <2>3. CASE sender[d].answer = "accepted" /\ Put(i, "accepted") /\ NextItem(d)
    <3>1. mails[i] > 0
      BY <1>12, <2>3 DEF ResolveUnknown, Beliefs, Believes
    <3>. QED BY <1>2, <1>4, <1>5, <1>12, <2>1, <2>3, <3>1 DEF ResolveUnknown, Underway
  <2>4. CASE PassEnds(d) /\ UNCHANGED intent
    BY <1>2, <1>3, <1>12, <2>4 DEF ResolveUnknown
  <2>. QED BY <1>12, <2>2, <2>3, <2>4 DEF ResolveUnknown
<1>13. ASSUME InHand(d), LeavesAttempt(d), intent' = Suppressed({i})
       PROVE  Goal'
  <2>1. CASE intent[i].state \in Unsent
    BY <1>4, <1>5, <1>13, <2>1 DEF Unsent, Underway
  <2>2. CASE intent[i].state \notin Unsent
    <3>1. i \notin InApp /\ intent[i].state = "accepted" => mails[i] > 0
      BY <1>1, <1>13 DEF Beliefs, Believes
    <3>2. Writes(i, intent[i].state)
      BY <1>4, <1>13, <2>2
    <3>. QED BY <1>5, <1>13, <3>1, <3>2
  <2>. QED BY <2>1, <2>2
<1>14. CASE Suppress(d)
  BY <1>2, <1>13, <1>14 DEF Suppress, InHand
<1>15. CASE ReadIntent(d)
  <2>1. InHand(d) /\ UNCHANGED <<mails, flight, provider>>
    BY <1>15 DEF ReadIntent, InHand
  <2>2. CASE NextItem(d) /\ (UNCHANGED intent \/ intent' = Suppressed({i}))
    BY <1>2, <1>3, <1>13, <2>1, <2>2
  <2>3. CASE NextItem(d) /\ intent' = [intent EXCEPT ![i].due = FALSE]
    <3>1. i \notin InApp /\ intent[i].state = "accepted" => mails[i] > 0
      BY <1>1, <2>1 DEF Beliefs, Believes
    <3>. QED BY <1>2, <1>4, <1>5, <2>1, <2>3, <3>1
  <2>4. CASE Continue(d, "claim") /\ UNCHANGED intent
    <3>1. LeavesAttempt(d)
      BY <1>0, <2>1, <2>4 DEF Continue, LeavesAttempt, Attempting, PassRecord
    <3>. QED BY <1>3, <2>4, <3>1
  <2>. QED BY <1>15, <2>2, <2>3, <2>4 DEF ReadIntent
<1>16. CASE AcceptInApp(d)
  <2>1. InHand(d) /\ i \in InApp /\ UNCHANGED <<mails, flight, provider>>
    BY <1>16 DEF AcceptInApp, InHand, Beliefs, Believes
  <2>2. CASE Put(i, "accepted") /\ NextItem(d)
    BY <1>2, <1>4, <1>5, <2>1, <2>2 DEF Underway
  <2>3. CASE PassEnds(d) /\ UNCHANGED intent
    BY <1>2, <1>3, <2>1, <2>3
  <2>. QED BY <1>16, <2>2, <2>3 DEF AcceptInApp
<1>17. CASE MarkUnknown(d)
  <2>1. InHand(d) /\ PassEnds(d) /\ UNCHANGED <<mails, flight, provider>>
    BY <1>17 DEF MarkUnknown, InHand
  <2>2. CASE Put(i, "unknown")
    BY <1>2, <1>4, <1>5, <2>1, <2>2 DEF Underway
  <2>3. CASE UNCHANGED intent
    BY <1>2, <1>3, <2>1, <2>3
  <2>. QED BY <1>17, <2>2, <2>3 DEF MarkUnknown
<1>18. CASE Recheck(d) \/ GiveUp(d)
  <2>. DEFINE r(pc, answer) == [sender[d] EXCEPT !.pc = pc, !.answer = answer]
  <2>1. /\ UNCHANGED <<intent, mails, flight, provider>>
        /\ sender[d].pc \in Attempting /\ sender[d].answer \in Replies
    BY <1>0, <1>18 DEF Recheck, GiveUp, Attempting, PassRecord
  <2>2. \/ sender[d].pc = "recheck" /\ sender' = [sender EXCEPT ![d] = r("hand", sender[d].answer)]
        \/ sender[d].pc = "recheck" /\ sender' = [sender EXCEPT ![d] = r("complete", "suppressed")]
        \/ sender[d].pc = "await" /\ sender' = [sender EXCEPT ![d] = r("complete", "unknown")]
    BY <1>0, <1>18 DEF Recheck, GiveUp, Heard, Outcome, PassRecord
  <2>3. ASSUME NEW pc \in {"hand", "complete"}, NEW answer \in Replies
        PROVE  /\ r(pc, answer) \in PassRecord
               /\ r(pc, answer).pc = pc /\ r(pc, answer).answer = answer
               /\ r(pc, answer).todo = sender[d].todo
               /\ r(pc, answer).attempt = sender[d].attempt
    BY <1>0 DEF PassRecord, SenderPCs
  <2>4. {"suppressed", "unknown"} \subseteq Replies /\ {"hand", "complete"} \subseteq Attempting
    BY DEF Replies, Attempting
  <2>. HIDE DEF r
  <2>. QED BY <2>1, <2>2, <2>3, <2>4, Staying
<1>19. CASE Complete(d)
  <2>1. InHand(d) /\ UNCHANGED <<mails, flight, provider>> /\ sender[d].pc \in Attempting
    BY <1>19 DEF Complete, InHand, Attempting
  <2>2. CASE (NextItem(d) \/ PassEnds(d)) /\ UNCHANGED intent
    BY <1>2, <1>3, <2>1, <2>2
  <2>3. CASE NextItem(d) /\ sender[d].answer = "failed" /\ PutBack(i)
    <3>1. provider # "fixture" => ~Outside(i)
      BY <1>19, <2>1, <2>3 DEF Complete, LastAttempt, CurrentAttempt
    <3>. QED BY <1>2, <1>4, <1>5, <2>1, <2>3, <3>1
  <2>4. CASE NextItem(d) /\ sender[d].answer # "failed" /\ Put(i, sender[d].answer)
    <3>1. sender[d].answer \in {"accepted", "unknown", "suppressed"}
      BY <1>0, <1>19, <2>4 DEF Complete, Beliefs, Believes, PassRecord, Replies
    <3>2. provider # "fixture" /\ sender[d].answer = "suppressed" => ~Outside(i)
      BY <1>19, <2>1 DEF Complete, LastAttempt, CurrentAttempt
    <3>3. sender[d].answer = "accepted" => mails[i] > 0
      BY <1>19 DEF Complete, Beliefs, Believes
    <3>. QED BY <1>2, <1>4, <1>5, <2>1, <2>4, <3>1, <3>2, <3>3 DEF Underway
  <2>5. CASE Continue(d, "mark") /\ UNCHANGED intent
    <3>. DEFINE r == [sender[d] EXCEPT !.pc = "mark"]
    <3>1. /\ r \in PassRecord /\ r.pc = "mark" /\ r.todo = sender[d].todo
          /\ r.attempt = sender[d].attempt
      BY <1>0 DEF PassRecord, SenderPCs
    <3>2. sender' = [sender EXCEPT ![d] = r]
      BY <1>0, <2>5 DEF Continue
    <3>3. "mark" \in Attempting \ {"recheck"}
      BY DEF Attempting
    <3>. HIDE DEF r
    <3>. QED BY <2>1, <2>5, <3>1, <3>2, <3>3, Staying
  <2>. QED BY <1>19, <2>2, <2>3, <2>4, <2>5 DEF Complete
<1>20. CASE LookUp(d)
  <2>1. InHand(d) /\ i \in Intents /\ UNCHANGED <<intent, mails, flight, provider>>
    BY <1>1, <1>20 DEF LookUp, InHand
  <2>2. CASE NextItem(d)
    BY <1>2, <1>3, <2>1, <2>2
  <2>3. CASE /\ Looked(i) = "accepted" \/ Retries(Looked(i))
             /\ sender' = [sender EXCEPT ![d].pc = "resolve", ![d].attempt = intent[i].attempt,
                             ![d].answer = IF Looked(i) = "accepted" THEN "accepted" ELSE "failed"]
    <3>1. /\ sender'[d].pc = "resolve" /\ sender'[d].todo = sender[d].todo
          /\ \A e \in Senders \ {d} : sender'[e] = sender[e]
          /\ sender'[d].answer = IF Looked(i) = "accepted" THEN "accepted" ELSE "failed"
      BY <1>0, <2>3 DEF PassRecord
    <3>2. Item(d)' = i
      BY <3>1 DEF Item
    <3>3. Looked(i) = "accepted" => mails[i] > 0
      BY DEF Looked
    <3>4. Looked(i) # "accepted" => provider = "fixture"
      BY <2>3 DEF Retries
    <3>5. LeavesAttempt(d)
      BY <2>1, <3>1, <3>2, <3>3, <3>4 DEF LeavesAttempt, Attempting
    <3>. QED BY <1>3, <2>1, <3>5
  <2>. QED BY <1>20, <2>2, <2>3 DEF LookUp
<1>21. CASE Claim(d)
  <2>1. InHand(d) /\ i \in Intents /\ UNCHANGED <<mails, flight, provider>>
    BY <1>1, <1>21 DEF Claim, InHand
  <2>2. CASE NextItem(d) /\ (UNCHANGED intent \/ intent' = Suppressed({i}))
    BY <1>2, <1>3, <1>13, <2>1, <2>2
  <2>3. CASE /\ intent[i].attempt < Attempts /\ intent[i].state \in Unsent
             /\ intent' = [intent EXCEPT ![i].state = "sending", ![i].old = FALSE, ![i].attempt = @ + 1]
             /\ sender' = [sender EXCEPT ![d].attempt = intent[i].attempt + 1,
                                         ![d].pc = IF i \in InApp THEN "in-app" ELSE "recheck"]
    <3>1. /\ sender'[d].pc = IF i \in InApp THEN "in-app" ELSE "recheck"
          /\ sender'[d].attempt = intent[i].attempt + 1 /\ sender'[d].todo = sender[d].todo
          /\ \A e \in Senders \ {d} : sender'[e] = sender[e]
      BY <1>0, <2>3 DEF PassRecord
    <3>2. \A e \in Senders : Item(e)' = Item(e)
      BY <3>1 DEF Item
    <3>3. \A x \in Intents :
            /\ intent'[x].state = IF x = i THEN "sending" ELSE intent[x].state
            /\ intent'[x].attempt = IF x = i THEN intent[i].attempt + 1 ELSE intent[x].attempt
      BY <1>0, <2>3 DEF IntentRecord
    <3>4. \A x \in Intents \ InApp : intent'[x].state = "accepted" => mails[x] > 0
      BY <3>3 DEF Beliefs, Believes
    <3>5. CASE i \in InApp
      <4>1. LeavesAttempt(d)
        BY <2>1, <3>1, <3>2, <3>5 DEF LeavesAttempt, Attempting
      <4>2. WriteKeeps(d)
        BY <2>3, <3>3, <3>4 DEF WriteKeeps, Underway, Unsent
      <4>. QED BY <2>1, <3>4, <4>1, <4>2, Leaving
    <3>6. CASE i \notin InApp
      <4>1. intent[i].attempt + 1 \in 1 .. Attempts
        BY <1>0, <2>1, <2>3, DeliveryAssumption DEF IntentRecord
      <4>2. Beliefs'
        <5>1. ASSUME NEW e \in Senders
              PROVE  Believes(e)'
          <6>1. CASE e = d
            BY <3>1, <3>2, <3>6, <4>1, <6>1 DEF Believes
          <6>2. CASE e # d
            BY <2>1, <3>1, <3>2, <6>2 DEF Beliefs, Believes
          <6>. QED BY <6>1, <6>2
        <5>2. MailedAtMostOnce'
          BY <2>1 DEF MailedAtMostOnce, Beliefs, Believes
        <5>. QED BY <2>1, <3>4, <5>1, <5>2 DEF Beliefs, Believes
      <4>3. ASSUME LastAttempt
            PROVE  LastAttempt'
        <5>1. ~Outside(i) /\ i \in Intents
          BY <2>1, <2>3, <4>3 DEF LastAttempt, Unsent, Underway
        <5>2. ASSUME NEW e \in Senders, e # d, sender'[e].pc \in Attempting
              PROVE  CurrentAttempt(e) /\ Item(e) # i /\ Item(e) \in Intents
          <6>1. sender[e].pc \in Attempting /\ Item(e) \in Intents
            BY <3>1, <5>2, ItemInHand DEF Passes, InHand, Attempting
          <6>. QED BY <2>3, <4>3, <6>1 DEF LastAttempt, CurrentAttempt, Unsent, Underway
        <5>3. ASSUME NEW e \in Senders, sender'[e].pc \in Attempting
              PROVE  CurrentAttempt(e)'
          <6>1. CASE e = d
            BY <2>1, <3>1, <3>2, <3>3, <5>1, <6>1 DEF CurrentAttempt, Outside, Underway
          <6>2. CASE e # d
            BY <2>1, <3>1, <3>2, <3>3, <5>2, <5>3, <6>2 DEF CurrentAttempt, Outside
          <6>. QED BY <6>1, <6>2
        <5>4. \A e, f \in Senders :
                e # f /\ sender'[e].pc \in Attempting /\ sender'[f].pc \in Attempting => Item(e)' # Item(f)'
          BY <3>1, <3>2, <4>3, <5>2 DEF LastAttempt
        <5>5. \A x \in Intents : Outside(x)' => intent'[x].state \in Underway \cup {"erased"}
          BY <2>1, <3>3, <4>3 DEF LastAttempt, Outside, Underway
        <5>. QED BY <2>1, <4>3, <5>3, <5>4, <5>5 DEF LastAttempt
      <4>. QED BY <2>1, <4>2, <4>3
    <3>. QED BY <3>5, <3>6
  <2>. QED BY <1>21, <2>2, <2>3 DEF Claim
<1>22. CASE HandOver(d)
  <2>1. InHand(d) /\ i \in Intents /\ UNCHANGED <<intent, mails, provider>>
    BY <1>1, <1>22 DEF HandOver, InHand
  <2>2. /\ sender[d].pc = "hand" /\ sender'[d].pc = "await"
        /\ sender'[d].attempt = sender[d].attempt /\ sender'[d].todo = sender[d].todo
        /\ \A e \in Senders \ {d} : sender'[e] = sender[e]
        /\ flight' = flight \cup {<<i, sender[d].attempt>>}
    BY <1>0, <1>22 DEF HandOver, Continue, PassRecord
  <2>3. \A e \in Senders : Item(e)' = Item(e)
    BY <2>2 DEF Item
  <2>4. Beliefs'
    <3>1. ASSUME NEW e \in Senders
          PROVE  Believes(e)'
      <4>1. CASE e = d
        BY <2>2, <2>3, <4>1 DEF Beliefs, Believes, Attempting
      <4>2. CASE e # d
        BY <2>1, <2>2, <2>3, <4>2 DEF Beliefs, Believes
      <4>. QED BY <4>1, <4>2
    <3>. QED BY <2>1, <3>1 DEF Beliefs, Believes, MailedAtMostOnce
  <2>5. ASSUME LastAttempt
        PROVE  LastAttempt'
    <3>1. CurrentAttempt(d) /\ ~Outside(i)
      BY <2>2, <2>5 DEF LastAttempt, CurrentAttempt, Attempting
    <3>2. \A x \in Intents : x # i => (Outside(x)' <=> Outside(x))
      BY <2>1, <2>2 DEF Outside
    <3>3. \A m \in flight' : mails'[m[1]] = 0
      BY <1>0, <2>1, <2>2, <2>5, <3>1 DEF LastAttempt, Outside, Typed
    <3>4. \A m, n \in flight' : m[1] = n[1] => m = n
      BY <2>2, <2>5, <3>1 DEF LastAttempt, Outside
    <3>5. ASSUME NEW e \in Senders, sender'[e].pc \in Attempting
          PROVE  CurrentAttempt(e)'
      <4>1. CASE e = d
        BY <2>1, <2>2, <2>3, <3>1, <4>1 DEF CurrentAttempt
      <4>2. CASE e # d
        <5>1. CurrentAttempt(e) /\ Item(e) # i /\ Item(e) \in Intents
          BY <2>2, <2>5, <3>5, <4>2, ItemInHand DEF LastAttempt, Attempting, Passes, InHand
        <5>. QED BY <2>1, <2>2, <2>3, <4>2, <5>1 DEF CurrentAttempt, Outside
      <4>. QED BY <4>1, <4>2
    <3>6. \A e, f \in Senders :
            e # f /\ sender'[e].pc \in Attempting /\ sender'[f].pc \in Attempting => Item(e)' # Item(f)'
      BY <2>2, <2>3, <2>5 DEF LastAttempt, Attempting
    <3>7. \A x \in Intents : Outside(x)' => intent'[x].state \in Underway \cup {"erased"}
      BY <2>1, <2>5, <3>1, <3>2 DEF LastAttempt, CurrentAttempt
    <3>. QED BY <3>3, <3>4, <3>5, <3>6, <3>7 DEF LastAttempt
  <2>. QED BY <2>1, <2>4, <2>5
<1>. QED
  BY <1>6, <1>7, <1>8, <1>9, <1>10, <1>11, <1>12, <1>14, <1>15, <1>16, <1>17, <1>18, <1>19, <1>20,
     <1>21, <1>22
  DEF SenderStep

\* What the judgement of m is to the sender e.
Hears(e, m) ==
  \/ sender'[e] = sender[e]
  \/ /\ sender[e].pc = "await" /\ <<Item(e), sender[e].attempt>> = m
     /\ sender'[e].pc = "complete" /\ sender'[e].attempt = sender[e].attempt
     /\ sender'[e].todo = sender[e].todo
     /\ \/ TakeMail(m) /\ sender'[e].answer = "accepted"
        \/ RefuseMail(m) /\ sender'[e].answer = "failed"

\* A message is taken once, and its answer reaches nobody but its sender.
LEMMA MailAttempts ==
  ASSUME Typed, Passes, Beliefs, provider # "fixture" => LastAttempt,
         NEW m \in flight, TakeMail(m) \/ RefuseMail(m)
  PROVE  Beliefs' /\ (provider' # "fixture" => LastAttempt')
<1>0. /\ intent \in [Intents -> IntentRecord] /\ sender \in [Senders -> PassRecord]
      /\ flight \subseteq Intents \X (1 .. Attempts) /\ mails \in [Intents -> Nat]
      /\ m[1] \in Intents
  BY DEF Typed
<1>1. UNCHANGED <<intent, provider>> /\ flight' = flight \ {m}
  BY DEF TakeMail, RefuseMail
<1>2. /\ \A x \in Intents : mails'[x] >= mails[x]
      /\ \A x \in Intents : x # m[1] => mails'[x] = mails[x]
      /\ TakeMail(m) => mails'[m[1]] > 0
      /\ RefuseMail(m) => mails' = mails
      /\ mails'[m[1]] <= 1
  <2>1. CASE RefuseMail(m)
    <3>1. ~TakeMail(m) \/ mails'[m[1]] > 0
      BY <1>0 DEF TakeMail
    <3>. QED BY <1>0, <2>1, <3>1 DEF RefuseMail, Beliefs, MailedAtMostOnce
  <2>2. CASE TakeMail(m)
    <3>1. CASE provider = "fixture" /\ mails[m[1]] > 0
      <4>1. mails' = mails
        BY <2>2, <3>1 DEF TakeMail
      <4>. QED BY <1>0, <3>1, <4>1 DEF Beliefs, MailedAtMostOnce
    <3>2. CASE ~(provider = "fixture" /\ mails[m[1]] > 0)
      <4>1. mails[m[1]] = 0
        BY <1>0, <3>2 DEF LastAttempt
      <4>2. mails' = [mails EXCEPT ![m[1]] = mails[m[1]] + 1]
        BY <1>0, <2>2, <3>2 DEF TakeMail
      <4>3. mails'[m[1]] = 1 /\ \A x \in Intents : x # m[1] => mails'[x] = mails[x]
        BY <1>0, <4>1, <4>2
      <4>4. RefuseMail(m) => mails' = mails
        BY DEF RefuseMail
      <4>. QED BY <1>0, <4>1, <4>3, <4>4
    <3>. QED BY <3>1, <3>2
  <2>. QED BY <2>1, <2>2
<1>3. \A e \in Senders : Hears(e, m)
  <2>1. ASSUME NEW d \in Senders, NEW answer, Heard(d, answer)
        PROVE  /\ \A e \in Senders \ {d} : sender'[e] = sender[e]
               /\ sender'[d].pc = "complete" /\ sender'[d].attempt = sender[d].attempt
               /\ sender'[d].todo = sender[d].todo /\ sender'[d].answer = answer
    <3>1. sender' = [sender EXCEPT ![d] = [sender[d] EXCEPT !.pc = "complete", !.answer = answer]]
      BY <1>0, <2>1 DEF Heard, Outcome
    <3>. QED BY <1>0, <3>1 DEF PassRecord
  <2>2. CASE UNCHANGED sender
    BY <2>2 DEF Hears
  <2>3. ASSUME TakeMail(m), NEW d \in Senders, sender[d].pc = "await",
               <<Item(d), sender[d].attempt>> = m, Heard(d, "accepted")
        PROVE  \A e \in Senders : Hears(e, m)
    BY <2>1, <2>3 DEF Hears
  <2>4. ASSUME RefuseMail(m), NEW d \in Senders, sender[d].pc = "await",
               <<Item(d), sender[d].attempt>> = m, Heard(d, "failed")
        PROVE  \A e \in Senders : Hears(e, m)
    BY <2>1, <2>4 DEF Hears
  <2>. QED BY <2>2, <2>3, <2>4 DEF Hears, TakeMail, RefuseMail, Judge, SenderAt
<1>4. \A e \in Senders : Item(e)' = Item(e)
  BY <1>3 DEF Hears, Item
<1>5. \A e \in Senders : sender[e].pc \in Attempting \cup {"resolve"} => Item(e) \in Intents
  BY ItemInHand DEF Passes, InHand, Attempting
<1>6. Beliefs'
  <2>1. ASSUME NEW e \in Senders
        PROVE  Believes(e)'
    <3>1. CASE sender'[e] = sender[e]
      BY <1>0, <1>1, <1>2, <1>4, <1>5, <3>1 DEF Beliefs, Believes, Attempting
    <3>2. CASE sender'[e] # sender[e]
      <4>1. /\ sender[e].pc = "await" /\ Item(e) = m[1] /\ sender'[e].pc = "complete"
            /\ sender'[e].attempt = sender[e].attempt
            /\ \/ TakeMail(m) /\ sender'[e].answer = "accepted"
               \/ RefuseMail(m) /\ sender'[e].answer = "failed"
        BY <1>3, <3>2 DEF Hears
      <4>. QED BY <1>2, <1>4, <4>1 DEF Beliefs, Believes, Attempting
    <3>. QED BY <3>1, <3>2
  <2>2. \A x \in Intents \ InApp : intent'[x].state = "accepted" => mails'[x] > 0
    BY <1>0, <1>1, <1>2 DEF Beliefs
  <2>3. \A x \in Intents : mails'[x] <= 1
    BY <1>0, <1>2 DEF Beliefs, MailedAtMostOnce
  <2>. QED BY <2>1, <2>2, <2>3 DEF Beliefs, MailedAtMostOnce
<1>7. ASSUME LastAttempt
      PROVE  LastAttempt'
  <2>1. \A x \in Intents : Outside(x)' => Outside(x)
    BY <1>0, <1>1, <1>2 DEF Outside
  <2>2. \A n \in flight' : n # m /\ n \in flight /\ n[1] # m[1] /\ n[1] \in Intents
    BY <1>0, <1>1, <1>7 DEF LastAttempt
  <2>3. \A n \in flight' : mails'[n[1]] = 0
    BY <1>2, <1>7, <2>2 DEF LastAttempt
  <2>4. ASSUME NEW e \in Senders, sender'[e].pc \in Attempting
        PROVE  CurrentAttempt(e)'
    <3>1. CASE sender'[e] = sender[e]
      BY <1>1, <1>4, <1>5, <1>7, <2>1, <2>4, <3>1 DEF LastAttempt, CurrentAttempt
    <3>2. CASE sender'[e] # sender[e]
      <4>1. /\ sender[e].pc = "await" /\ Item(e) = m[1] /\ sender'[e].pc = "complete"
            /\ sender'[e].attempt = sender[e].attempt
            /\ \/ TakeMail(m) /\ sender'[e].answer = "accepted"
               \/ RefuseMail(m) /\ sender'[e].answer = "failed"
        BY <1>3, <3>2 DEF Hears
      <4>2. CurrentAttempt(e)
        BY <1>7, <4>1 DEF LastAttempt, Attempting
      <4>3. RefuseMail(m) => ~Outside(m[1])'
        BY <1>2, <1>7, <2>2 DEF LastAttempt, Outside
      <4>. QED BY <1>1, <1>4, <4>1, <4>2, <4>3 DEF CurrentAttempt
    <3>. QED BY <3>1, <3>2
  <2>5. \A e, f \in Senders :
          e # f /\ sender'[e].pc \in Attempting /\ sender'[f].pc \in Attempting => Item(e)' # Item(f)'
    BY <1>3, <1>4, <1>7 DEF Hears, LastAttempt, Attempting
  <2>. QED BY <1>1, <1>7, <2>1, <2>2, <2>3, <2>4, <2>5 DEF LastAttempt
<1>. QED BY <1>1, <1>6, <1>7

\* What the others do to an intent: none is accepted, and an attempt that is
\* under way stays so, but for the deletion of a tenant nobody works for.
Undisturbed(x) ==
  /\ intent'[x].state = "accepted" => intent[x].state = "accepted"
  /\ intent'[x].attempt = intent[x].attempt
  /\ intent[x].state \in Underway =>
       intent'[x].state \in Underway \/ (intent'[x].state = "erased" /\ registered = {})
  /\ intent[x].state = "erased" => intent'[x].state = "erased"

LEMMA OthersDisturbNothing ==
  ASSUME Typed,
         \/ \E i \in Intents :
              CreateIntent(i) \/ FallDue(i) \/ Expire(i) \/ GetOld(i) \/ DeletionRecovers(i)
         \/ SavePreferences \/ SuspendService \/ ResumeService
         \/ DeletionBegins \/ DeletionCompletes \/ ClearRegistrations
         \/ UNCHANGED deliveryVars
  PROVE  \A x \in Intents : Undisturbed(x)
<1>0. intent \in [Intents -> IntentRecord]
  BY DEF Typed
<1>. USE DEF Undisturbed, Underway, IntentRecord
<1>1. ASSUME NEW i \in Intents, CreateIntent(i)
      PROVE  \A x \in Intents : Undisturbed(x)
  <2>1. intent' = [intent EXCEPT ![i] =
          [intent[i] EXCEPT !.state = "pending", !.due = TRUE, !.bound = TRUE]]
    BY <1>0, <1>1 DEF CreateIntent
  <2>2. intent[i].state = "none"
    BY <1>1 DEF CreateIntent
  <2>3. \A x \in Intents : /\ intent'[x].state = IF x = i THEN "pending" ELSE intent[x].state
                           /\ intent'[x].attempt = intent[x].attempt
    BY <1>0, <2>1
  <2>. QED BY <2>2, <2>3
<1>2. ASSUME NEW i \in Intents, FallDue(i) \/ Expire(i) \/ GetOld(i)
      PROVE  \A x \in Intents : Undisturbed(x)
  <2>1. CASE FallDue(i)
    BY <1>0, <2>1 DEF FallDue, Grows
  <2>2. CASE Expire(i)
    BY <1>0, <2>2 DEF Expire, Grows
  <2>3. CASE GetOld(i)
    BY <1>0, <2>3 DEF GetOld, Grows
  <2>. QED BY <1>2, <2>1, <2>2, <2>3
<1>3. ASSUME NEW i \in Intents, DeletionRecovers(i)
      PROVE  \A x \in Intents : Undisturbed(x)
  BY <1>0, <1>3 DEF DeletionRecovers, LooksAbandoned, Put
<1>4. CASE SavePreferences
  BY <1>0, <1>4 DEF SavePreferences
<1>5. CASE SuspendService \/ DeletionBegins
  BY <1>0, <1>5 DEF SuspendService, DeletionBegins, Suppressed, Unsent
<1>6. CASE DeletionCompletes
  BY <1>0, <1>6 DEF DeletionCompletes, Drained
<1>7. CASE ResumeService \/ ClearRegistrations \/ UNCHANGED deliveryVars
  BY <1>7 DEF ResumeService, ClearRegistrations, deliveryVars
<1>. QED BY <1>1, <1>2, <1>3, <1>4, <1>5, <1>6, <1>7

LEMMA OthersAttempts ==
  ASSUME Typed, Passes, Beliefs, provider # "fixture" => LastAttempt,
         \A x \in Intents : Undisturbed(x), UNCHANGED <<sender, mails, flight, provider>>
  PROVE  Beliefs' /\ (provider' # "fixture" => LastAttempt')
<1>1. \A e \in Senders : Item(e)' = Item(e)
  BY DEF Item
<1>2. Beliefs'
  <2>1. \A e \in Senders : Believes(e)'
    BY <1>1 DEF Beliefs, Believes
  <2>2. \A x \in Intents \ InApp : intent'[x].state = "accepted" => mails'[x] > 0
    BY DEF Beliefs, Undisturbed
  <2>. QED BY <2>1, <2>2 DEF Beliefs, MailedAtMostOnce
<1>3. ASSUME LastAttempt
      PROVE  LastAttempt'
  <2>1. ASSUME NEW e \in Senders, sender'[e].pc \in Attempting
        PROVE  CurrentAttempt(e)'
    <3>1. e \in registered /\ Item(e) \in Intents /\ CurrentAttempt(e)
      BY <1>3, <2>1, ItemInHand DEF Passes, InHand, Attempting, LastAttempt
    <3>2. intent'[Item(e)].state \in Underway /\ intent'[Item(e)].attempt = intent[Item(e)].attempt
      BY <3>1 DEF CurrentAttempt, Undisturbed
    <3>. QED BY <1>1, <3>1, <3>2 DEF CurrentAttempt, Outside
  <2>2. \A x \in Intents : Outside(x)' => intent'[x].state \in Underway \cup {"erased"}
    BY <1>3 DEF LastAttempt, Outside, Undisturbed
  <2>. QED BY <1>1, <1>3, <2>1, <2>2 DEF LastAttempt
<1>. QED BY <1>2, <1>3

LEMMA AttemptsStep ==
  ASSUME Typed, Passes, Beliefs, provider # "fixture" => LastAttempt, [DeliveryNext]_deliveryVars
  PROVE  Beliefs' /\ (provider' # "fixture" => LastAttempt')
<1>. DEFINE others ==
       \/ \E i \in Intents :
            CreateIntent(i) \/ FallDue(i) \/ Expire(i) \/ GetOld(i) \/ DeletionRecovers(i)
       \/ SavePreferences \/ SuspendService \/ ResumeService
       \/ DeletionBegins \/ DeletionCompletes \/ ClearRegistrations
       \/ UNCHANGED deliveryVars
<1>1. CASE \E d \in Senders : SenderStep(d) \/ LookUpFails(d) \/ SenderCrash(d)
  BY <1>1, SenderAttempts
<1>2. CASE \E m \in flight : TakeMail(m) \/ RefuseMail(m)
  BY <1>2, MailAttempts
<1>3. CASE others
  <2>1. \A x \in Intents : Undisturbed(x)
    BY <1>3, OthersDisturbNothing
  <2>2. UNCHANGED <<sender, mails, flight, provider>>
    BY <1>3
    DEF CreateIntent, FallDue, Expire, GetOld, Grows, DeletionRecovers, SavePreferences,
        SuspendService, ResumeService, DeletionBegins, DeletionCompletes, ClearRegistrations,
        deliveryVars
  <2>. QED BY <2>1, <2>2, OthersAttempts
<1>. QED BY <1>1, <1>2, <1>3 DEF DeliveryNext, DeletionStep

-----------------------------------------------------------------------------
(* The theorems.                                                             *)

LEMMA InitDelivers == DeliveryInit => DeliveryInv
<1>. SUFFICES ASSUME DeliveryInit
              PROVE  DeliveryInv
  OBVIOUS
<1>1. Typed
  <2>1. <<>> \in Seq(Intents) /\ 0 \in 0 .. Attempts /\ 0 \in 0 .. MaxCrashes
    BY DeliveryAssumption
  <2>2. sender \in [Senders -> PassRecord]
    BY RestingTyped DEF DeliveryInit
  <2>3. intent \in [Intents -> IntentRecord]
    BY <2>1 DEF DeliveryInit, IntentRecord, IntentStates
  <2>. QED BY <2>1, <2>2, <2>3 DEF DeliveryInit, Typed
<1>2. \A d \in Senders : sender[d].pc = "idle" /\ sender[d].todo = <<>>
  BY DEF DeliveryInit, Resting
<1>3. \A i \in Intents : intent[i].state = "none" /\ mails[i] = 0
  BY DEF DeliveryInit
<1>4. Passes
  BY <1>2, <1>3 DEF DeliveryInit, Passes, InHand, Exists
<1>5. Beliefs
  BY <1>2, <1>3 DEF Beliefs, Believes, Attempting, MailedAtMostOnce
<1>6. LastAttempt
  BY <1>2, <1>3 DEF DeliveryInit, LastAttempt, Outside, Attempting
<1>. QED BY <1>1, <1>4, <1>5, <1>6 DEF DeliveryInv

LEMMA DeliveryStep == DeliveryInv /\ [DeliveryNext]_deliveryVars => DeliveryInv'
BY TypedStep, PassesStep, AttemptsStep DEF DeliveryInv

LEMMA DeliveryInvHolds == DeliverySpec => []DeliveryInv
BY InitDelivers, DeliveryStep, PTL DEF DeliverySpec

\* Every variable keeps its type: in particular no attempt is numbered beyond
\* the last, and what is with the provider is of an attempt that was made.
THEOREM DeliveryTyped == DeliverySpec => []DeliveryTypeOK
<1>1. DeliveryInv => DeliveryTypeOK
  <2>. SUFFICES ASSUME DeliveryInv
                PROVE  DeliveryTypeOK
    OBVIOUS
  <2>1. Typed /\ MailedAtMostOnce
    BY DEF DeliveryInv, Beliefs
  <2>2. mails \in [Intents -> 0 .. Attempts]
    <3>1. \A i \in Intents : mails[i] \in 0 .. Attempts
      BY <2>1, DeliveryAssumption DEF Typed, MailedAtMostOnce
    <3>. QED BY <2>1, <3>1 DEF Typed
  <2>3. \A d \in Senders : /\ sender[d].pc \in SenderPCs /\ sender[d].answer \in Replies
                           /\ sender[d].attempt \in 0 .. Attempts
    BY <2>1 DEF Typed, PassRecord
  <2>. QED BY <2>1, <2>2, <2>3 DEF DeliveryTypeOK, Typed, IntentRecord, IntentStates
<1>. QED BY <1>1, DeliveryInvHolds, PTL

\* A user gets at most one mail of an intent, with any number of workers, whichever
\* of them stall or die and whatever answers are lost: without idempotency the
\* attempt in hand is the last one until it is known to have failed.
THEOREM MailOnce == DeliverySpec => []MailedAtMostOnce
<1>1. DeliveryInv => MailedAtMostOnce
  BY DEF DeliveryInv, Beliefs
<1>. QED BY <1>1, DeliveryInvHolds, PTL

\* What the tenant is shown of an e-mail is true: one that is said to be accepted
\* was taken, and where retries are not idempotent one that is said to have failed
\* or to be withheld was not taken and is not on its way.
THEOREM ReportsTrue == DeliverySpec => []ReportsAreTrue
<1>1. DeliveryInv => ReportsAreTrue
  <2>. SUFFICES ASSUME DeliveryInv, NEW i \in Intents \ InApp
                PROVE  /\ intent[i].state = "accepted" => mails[i] > 0
                       /\ intent[i].state \in {"failed", "suppressed"} /\ provider # "fixture" =>
                            mails[i] = 0 /\ \A m \in flight : m[1] # i
    BY DEF ReportsAreTrue
  <2>1. intent[i].state = "accepted" => mails[i] > 0
    BY DEF DeliveryInv, Beliefs
  <2>2. ASSUME intent[i].state \in {"failed", "suppressed"}, provider # "fixture"
        PROVE  mails[i] = 0 /\ \A m \in flight : m[1] # i
    <3>1. ~Outside(i)
      BY <2>2 DEF DeliveryInv, LastAttempt, Underway
    <3>2. mails[i] \in Nat
      BY DEF DeliveryInv, Typed
    <3>. QED BY <3>1, <3>2 DEF Outside
  <2>. QED BY <2>1, <2>2
<1>. QED BY <1>1, DeliveryInvHolds, PTL

\* Once the deletion of the tenant is complete nothing is handed to the provider,
\* even by a worker that stalled on its way there: it is still registered, and
\* the deletion has waited for it.
THEOREM NoMailOnceDeleted == DeliverySpec => NoMailAfterDeletion
<1>1. ASSUME DeliveryInv, standing = "deleted", [DeliveryNext]_deliveryVars
      PROVE  flight' \subseteq flight
  <2>1. \A d \in Senders : ~InHand(d)
    BY <1>1 DEF DeliveryInv, Passes
  <2>2. \A d \in Senders : ~HandOver(d)
    BY <2>1 DEF HandOver, SenderAt, InHand
  <2>. QED
    BY <1>1, <2>2
    DEF deliveryVars, DeliveryNext, SenderStep, ListDeliveries, FinishPass, Register, Recover,
        LookUp, ResolveUnknown, Suppress, ReadIntent, Claim, AcceptInApp, Recheck, GiveUp, Complete,
        MarkUnknown, LookUpFails, SenderCrash, TakeMail, RefuseMail, CreateIntent, FallDue, Expire,
        GetOld, Grows, SavePreferences, SuspendService, ResumeService, DeletionBegins, DeletionStep,
        DeletionCompletes, DeletionRecovers, ClearRegistrations
<1>2. DeliveryInv /\ [DeliveryNext]_deliveryVars =>
        [standing = "deleted" => flight' \subseteq flight]_deliveryVars
  BY <1>1
<1>. QED BY <1>2, DeliveryInvHolds, PTL DEF DeliverySpec, NoMailAfterDeletion
=============================================================================
