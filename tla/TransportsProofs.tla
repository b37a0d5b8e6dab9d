--------------------------- MODULE TransportsProofs ---------------------------
(***************************************************************************)
(* Proofs about the real-time update servers of MCTransports, for any      *)
(* number of clients, messages, requests and deliveries.  The servers      *)
(* share no state: each has an inductive invariant of its own, first the   *)
(* ones that push (webhooks, long polling, server-sent events, rooms),     *)
(* then the polling server, whose messages are stamped by a clock.  The    *)
(* theorems are at the end.                                                *)
(***************************************************************************)
EXTENDS MCTransports, SequenceTheorems, FiniteSetTheorems, WellFoundedInduction, TLAPS

-----------------------------------------------------------------------------
(* The webhooks.                                                           *)

\* What the receiver has answered with success it has shipped; what it has
\* shipped, once, is among the ids it knows.
ReceiverKnows ==
  /\ \A a \in answers : a.status = 200 => shipped[a.delivery] = 1
  /\ shipped \in [Hook!Deliveries -> 0..1]
  /\ \A d \in Hook!Deliveries : shipped[d] = 1 <=> d \in processed

\* A delivery that goes on has begun.
VendorTries ==
  \A d \in Hook!Deliveries : delivery[d].at \in {"ready", "posting"} => delivery[d].attempt > 0

HookInv == Hook!TypeOK /\ ReceiverKnows /\ VendorTries /\ VendorKnows

Delivery == [at : {"unborn", "ready", "posting", "ok", "failed"}, attempt : 0..MaxAttempts]

\* Nothing is triggered, logged or shipped at the start.
LEMMA HookInit == Hook!Init => HookInv
BY TransportsAssumption DEF Hook!Init, HookInv, Hook!TypeOK, ReceiverKnows, VendorKnows, Hook!VendorKnows,
       VendorTries, Hook!Deliveries, Hook!Unborn

\* A turn of the vendor changes one delivery, which was not over, and logs one
\* attempt at most: a success if that is the end of it.
LEMMA VendorTurn ==
  ASSUME HookInv, NEW d \in Hook!Deliveries, delivery[d].at \in {"ready", "posting"},
         NEW new \in Delivery, new.at \in {"ready", "posting"} => new.attempt > 0,
         delivery' = [delivery EXCEPT ![d] = new],
         NEW entry \in [delivery : {d}, attempt : 1..MaxAttempts, ok : BOOLEAN],
         deliveries' \subseteq deliveries \cup {entry},
         entry.ok => shipped[d] = 1 /\ new = [at |-> "ok", attempt |-> entry.attempt],
         answers' \subseteq answers, requests' \subseteq Hook!Requests,
         UNCHANGED <<subscriptions, made, processed, shipped>>
  PROVE  HookInv'
<1>1. delivery \in [Hook!Deliveries -> Delivery] /\ delivery' \in [Hook!Deliveries -> Delivery]
  BY DEF HookInv, Hook!TypeOK, Delivery
<1>2. delivery'[d] = new /\ \A e \in Hook!Deliveries : e # d => delivery'[e] = delivery[e]
  BY <1>1
<1>3. VendorTries'
  BY <1>2 DEF HookInv, VendorTries
<1>4. ReceiverKnows'
  BY DEF HookInv, ReceiverKnows
<1>5. Hook!TypeOK'
  <2>1. deliveries' \subseteq [delivery : Hook!Deliveries, attempt : 1..MaxAttempts, ok : BOOLEAN]
    BY DEF HookInv, Hook!TypeOK
  <2>2. answers' \subseteq [delivery : Hook!Deliveries, attempt : 1..MaxAttempts, status : {200, 401}]
    BY DEF HookInv, Hook!TypeOK
  <2> QED
    BY <1>1, <2>1, <2>2 DEF HookInv, Hook!TypeOK, Delivery
<1>6. VendorKnows'
  <2> SUFFICES ASSUME NEW l \in deliveries', l.ok
               PROVE  /\ shipped[l.delivery] > 0
                      /\ delivery'[l.delivery] = [at |-> "ok", attempt |-> l.attempt]
    BY DEF VendorKnows, Hook!VendorKnows
  <2>1. CASE l \in deliveries
    <3>1. shipped[l.delivery] > 0 /\ delivery[l.delivery] = [at |-> "ok", attempt |-> l.attempt]
      BY <2>1 DEF HookInv, VendorKnows, Hook!VendorKnows
    <3>2. l.delivery \in Hook!Deliveries /\ l.delivery # d
      BY <2>1, <3>1 DEF HookInv, Hook!TypeOK
    <3> QED
      BY <1>2, <3>1, <3>2
  <2>2. CASE l = entry
    BY <1>2, <2>2
  <2> QED
    BY <2>1, <2>2
<1> QED
  BY <1>3, <1>4, <1>5, <1>6 DEF HookInv

\* The turn after an attempt that failed is one of the loop's.
LEMMA NextTurnIs ==
  ASSUME NEW n \in 1..MaxAttempts
  PROVE  Hook!NextTurn(n) \in Delivery /\ Hook!NextTurn(n).at # "ok" /\ Hook!NextTurn(n).attempt > 0
BY TransportsAssumption DEF Hook!NextTurn, Delivery

\* Every step of the vendor and of the receiver keeps the invariant.
LEMMA HookStep == HookInv /\ [Hook!Next]_hookVars => HookInv'
<1> SUFFICES ASSUME HookInv, [Hook!Next]_hookVars PROVE HookInv'
  OBVIOUS
<1> USE TransportsAssumption
<1>0. /\ delivery \in [Hook!Deliveries -> Delivery]
      /\ \A d \in Hook!Deliveries :
           delivery[d].at \in {"ready", "posting"} => delivery[d].attempt \in 1..MaxAttempts
  BY DEF HookInv, Hook!TypeOK, VendorTries, Delivery
<1>1. ASSUME UNCHANGED <<delivery, requests, answers, deliveries, processed, shipped>>,
             subscriptions' \subseteq made', made' \subseteq Subs
      PROVE  HookInv'
  BY <1>1 DEF HookInv, Hook!TypeOK, ReceiverKnows, VendorTries, VendorKnows, Hook!VendorKnows, Hook!Deliveries
<1>2. ASSUME NEW s \in Subs, Hook!Subscribe(s) \/ Hook!Unsubscribe(s) PROVE HookInv'
  BY <1>1, <1>2 DEF Hook!Subscribe, Hook!Unsubscribe, HookInv, Hook!TypeOK
<1>3. ASSUME NEW t \in Triggers, Hook!Trigger(t) PROVE HookInv'
  <2>1. ASSUME NEW d \in Hook!Deliveries, d[1] = t PROVE delivery[d].at = "unborn"
    <3>1. d = <<t, d[2]>> /\ d[2] \in Subs
      BY <2>1 DEF Hook!Deliveries
    <3>2. delivery[d] = Hook!Unborn
      BY <1>3, <3>1 DEF Hook!Trigger
    <3> QED BY <3>2 DEF Hook!Unborn
  <2> DEFINE new == [at |-> "ready", attempt |-> 1]
  <2>a. new \in Delivery /\ new.attempt = 1 /\ new.at = "ready"
    BY DEF Delivery
  <2>b. delivery' = [d \in Hook!Deliveries |-> IF d[1] = t /\ d[2] \in subscriptions
                                              THEN new ELSE delivery[d]]
    BY <1>3 DEF Hook!Trigger
  <2> HIDE DEF new
  <2>2. \A d \in Hook!Deliveries : delivery'[d] \in Delivery
          /\ (delivery'[d] = delivery[d] \/ (delivery[d].at = "unborn" /\ delivery'[d].attempt = 1))
    BY <1>0, <2>1, <2>a, <2>b
  <2>3. delivery' \in [Hook!Deliveries -> Delivery]
    BY <1>3, <2>2 DEF Hook!Trigger
  <2>4. Hook!TypeOK'
    BY <1>3, <2>3 DEF Hook!Trigger, HookInv, Hook!TypeOK, Delivery
  <2>5. VendorTries'
    BY <2>2 DEF HookInv, VendorTries
  <2>6. ReceiverKnows'
    BY <1>3 DEF Hook!Trigger, HookInv, ReceiverKnows
  <2>7. VendorKnows'
    <3> SUFFICES ASSUME NEW l \in deliveries, l.ok
                 PROVE  shipped[l.delivery] > 0 /\ delivery'[l.delivery] = [at |-> "ok", attempt |-> l.attempt]
      BY <1>3 DEF Hook!Trigger, VendorKnows, Hook!VendorKnows
    <3>1. shipped[l.delivery] > 0 /\ delivery[l.delivery] = [at |-> "ok", attempt |-> l.attempt]
          /\ l.delivery \in Hook!Deliveries
      BY DEF HookInv, VendorKnows, Hook!VendorKnows, Hook!TypeOK
    <3> QED BY <2>2, <3>1
  <2> QED BY <2>4, <2>5, <2>6, <2>7 DEF HookInv
<1>4. ASSUME NEW d \in Hook!Deliveries, Hook!Attempt(d) PROVE HookInv'
  <2> DEFINE new == [at |-> "posting", attempt |-> delivery[d].attempt]
  <2>1. delivery[d] \in Delivery /\ delivery[d].at = "ready" /\ delivery[d].attempt \in 1..MaxAttempts
    BY <1>0, <1>4 DEF Hook!Attempt
  <2>2. new \in Delivery /\ new.at = "posting" /\ new.attempt = delivery[d].attempt
    BY <2>1 DEF Delivery
  <2>3. [delivery[d] EXCEPT !.at = "posting"] = new
    BY <2>1 DEF Delivery
  <2>5. delivery' = [delivery EXCEPT ![d] = new]
    BY <1>4, <2>3 DEF Hook!Attempt
  <2>4. requests' \subseteq Hook!Requests
    BY <1>4, <2>1 DEF Hook!Attempt, Hook!Requests, HookInv, Hook!TypeOK
  <2>6. UNCHANGED <<subscriptions, made, answers, deliveries, processed, shipped>>
    BY <1>4 DEF Hook!Attempt
  <2> DEFINE entry == [delivery |-> d, attempt |-> delivery[d].attempt, ok |-> FALSE]
  <2>7. entry \in [delivery : {d}, attempt : 1..MaxAttempts, ok : BOOLEAN] /\ ~ entry.ok
    BY <2>1
  <2>8. /\ deliveries' \subseteq deliveries \cup {entry} /\ answers' \subseteq answers
        /\ UNCHANGED <<subscriptions, made, processed, shipped>>
    BY <2>6
  <2>9. new.attempt > 0
    BY <2>1, <2>2
  <2> HIDE DEF new, entry
  <2> QED BY <2>1, <2>2, <2>4, <2>5, <2>7, <2>8, <2>9, VendorTurn
<1>5. ASSUME NEW d \in Hook!Deliveries, Hook!Answered(d) PROVE HookInv'
  <2>1. PICK a \in answers :
          /\ a.delivery = d /\ a.attempt = delivery[d].attempt /\ answers' = answers \ {a}
          /\ deliveries' = deliveries \cup
               {[delivery |-> d, attempt |-> a.attempt, ok |-> Hook!Acknowledged(a.status)]}
          /\ delivery' = [delivery EXCEPT ![d] = IF Hook!Acknowledged(a.status) THEN [@ EXCEPT !.at = "ok"]
                                                 ELSE Hook!NextTurn(a.attempt)]
    BY <1>5 DEF Hook!Answered
  <2>2. delivery[d] \in Delivery /\ delivery[d].at = "posting" /\ a.attempt \in 1..MaxAttempts
        /\ a.status \in {200, 401} /\ requests' \subseteq Hook!Requests
        /\ UNCHANGED <<subscriptions, made, processed, shipped>>
    BY <1>0, <1>5, <2>1 DEF Hook!Answered, HookInv, Hook!TypeOK
  <2>3. CASE Hook!Acknowledged(a.status)
    <3> DEFINE new == [at |-> "ok", attempt |-> a.attempt]
    <3>1. new \in Delivery
      BY <2>2 DEF Delivery
    <3>2. [delivery[d] EXCEPT !.at = "ok"] = new
      BY <2>1, <2>2 DEF Delivery
    <3>3. delivery' = [delivery EXCEPT ![d] = new]
      BY <2>1, <2>3, <3>2
    <3>4. a.status = 200
      BY <2>2, <2>3 DEF Hook!Acknowledged
    <3>5. shipped[d] = 1
      BY <2>1, <3>4 DEF HookInv, ReceiverKnows
    <3> DEFINE entry == [delivery |-> d, attempt |-> a.attempt, ok |-> TRUE]
    <3>6. deliveries' \subseteq deliveries \cup {entry}
      BY <2>1, <2>3
    <3>7. entry \in [delivery : {d}, attempt : 1..MaxAttempts, ok : BOOLEAN]
          /\ (entry.ok => shipped[d] = 1 /\ new = [at |-> "ok", attempt |-> entry.attempt])
      BY <2>2, <3>5
    <3>8. new.at = "ok" /\ answers' \subseteq answers
      BY <2>1
    <3> HIDE DEF new, entry
    <3> QED BY <2>2, <3>1, <3>3, <3>6, <3>7, <3>8, VendorTurn
  <2>4. CASE ~ Hook!Acknowledged(a.status)
    <3> DEFINE new == Hook!NextTurn(a.attempt)
    <3>1. new \in Delivery /\ new.at # "ok" /\ new.attempt > 0
      BY <2>2, NextTurnIs
    <3> DEFINE entry == [delivery |-> d, attempt |-> a.attempt, ok |-> FALSE]
    <3>2. delivery' = [delivery EXCEPT ![d] = new]
          /\ deliveries' \subseteq deliveries \cup {entry}
      <4>1. Hook!Acknowledged(a.status) = FALSE
        BY <2>4 DEF Hook!Acknowledged
      <4> QED BY <2>1, <4>1
    <3>3. entry \in [delivery : {d}, attempt : 1..MaxAttempts, ok : BOOLEAN] /\ ~ entry.ok
      BY <2>2
    <3>4. answers' \subseteq answers
      BY <2>1
    <3> HIDE DEF new, entry
    <3> QED BY <2>2, <3>1, <3>2, <3>3, <3>4, VendorTurn
  <2> QED BY <2>3, <2>4
<1>6. ASSUME NEW d \in Hook!Deliveries, Hook!Excepted(d) PROVE HookInv'
  <2> DEFINE n == delivery[d].attempt  new == Hook!NextTurn(n)
  <2>1. n \in 1..MaxAttempts /\ delivery[d].at = "posting"
    BY <1>0, <1>6 DEF Hook!Excepted
  <2>2. new \in Delivery /\ new.at # "ok" /\ new.attempt > 0
    BY <2>1, NextTurnIs
  <2> DEFINE entry == [delivery |-> d, attempt |-> n, ok |-> FALSE]
  <2>3. delivery' = [delivery EXCEPT ![d] = new]
        /\ deliveries' = deliveries \cup {entry}
        /\ requests' \subseteq Hook!Requests
        /\ UNCHANGED <<subscriptions, made, answers, processed, shipped>>
    BY <1>6 DEF Hook!Excepted, HookInv, Hook!TypeOK
  <2>4. entry \in [delivery : {d}, attempt : 1..MaxAttempts, ok : BOOLEAN] /\ ~ entry.ok
    BY <2>1
  <2> HIDE DEF new, n, entry
  <2> QED BY <2>1, <2>2, <2>3, <2>4, VendorTurn
<1>7. ASSUME NEW r \in requests, Hook!Hook(r) PROVE HookInv'
  <2>1. r \in Hook!Requests /\ r.delivery \in Hook!Deliveries /\ shipped[r.delivery] \in 0..1
    BY DEF HookInv, Hook!TypeOK, ReceiverKnows, Hook!Requests
  <2>2. answers' = answers \cup {[delivery |-> r.delivery, attempt |-> r.attempt, status |-> 200]}
        /\ requests' \subseteq requests
        /\ UNCHANGED <<subscriptions, made, delivery, deliveries>>
    BY <1>7 DEF Hook!Hook, Hook!Reply
  <2>3. /\ shipped' \in [Hook!Deliveries -> 0..1] /\ shipped'[r.delivery] = 1
        /\ \A d \in Hook!Deliveries : shipped[d] = 1 => shipped'[d] = 1
        /\ \A d \in Hook!Deliveries : shipped'[d] = 1 <=> d \in processed'
        /\ processed' \subseteq Hook!Deliveries
    <3>1. CASE r.delivery \in processed
      <4>1. UNCHANGED <<processed, shipped>>
        BY <1>7, <3>1 DEF Hook!Hook, Hook!DeliveryId
      <4>2. shipped[r.delivery] = 1
        BY <2>1, <3>1 DEF HookInv, ReceiverKnows
      <4> QED BY <4>1, <4>2 DEF HookInv, ReceiverKnows, Hook!TypeOK
    <3>2. CASE r.delivery \notin processed
      <4>1. shipped[r.delivery] = 0
        BY <2>1, <3>2 DEF HookInv, ReceiverKnows
      <4>2. processed' = processed \cup {r.delivery}
            /\ shipped' = [shipped EXCEPT ![r.delivery] = shipped[r.delivery] + 1]
        BY <1>7, <3>2 DEF Hook!Hook, Hook!DeliveryId
      <4> QED BY <2>1, <4>1, <4>2 DEF HookInv, ReceiverKnows, Hook!TypeOK
    <3> QED BY <3>1, <3>2
  <2>4. ReceiverKnows'
    BY <2>1, <2>2, <2>3 DEF HookInv, ReceiverKnows, Hook!TypeOK
  <2>5. Hook!TypeOK' /\ VendorTries'
    BY <2>1, <2>2, <2>3 DEF HookInv, Hook!TypeOK, Hook!Requests, VendorTries
  <2>6. VendorKnows'
    BY <2>1, <2>2, <2>3 DEF HookInv, VendorKnows, Hook!VendorKnows, Hook!TypeOK, ReceiverKnows
  <2> QED BY <2>4, <2>5, <2>6 DEF HookInv
<1>8. ASSUME NEW r \in requests, Hook!Reject(r) \/ Hook!Vanish(r) PROVE HookInv'
  <2>1. r \in Hook!Requests
    BY DEF HookInv, Hook!TypeOK
  <2>2. answers' \subseteq answers \cup {[delivery |-> r.delivery, attempt |-> r.attempt, status |-> 401]}
        /\ requests' \subseteq requests
        /\ UNCHANGED <<subscriptions, made, delivery, deliveries, processed, shipped>>
    BY <1>8 DEF Hook!Reject, Hook!Vanish, Hook!Reply
  <2> QED BY <2>1, <2>2 DEF HookInv, Hook!TypeOK, Hook!Requests, Hook!Deliveries, ReceiverKnows, VendorTries, VendorKnows, Hook!VendorKnows
<1>9. CASE UNCHANGED hookVars
  BY <1>9 DEF hookVars, HookInv, Hook!TypeOK, ReceiverKnows, VendorTries, VendorKnows, Hook!VendorKnows
<1> QED
  BY <1>2, <1>3, <1>4, <1>5, <1>6, <1>7, <1>8, <1>9 DEF Hook!Next, hookVars, Hook!Subscribe

-----------------------------------------------------------------------------
(* The long poll.                                                          *)

\* Consecutive messages: the k that follow lo.
Run(lo, k) == [i \in 1..k |-> lo + i]

\* A client has the messages up to its cursor.  Its request carries those that
\* follow, and a request that is held all of them.
LongAnswers ==
  \A c \in Pollers :
    LET k == Len(poll[c].messages)
    IN  /\ cursor[c] + k <= posted
        /\ got[c] = Run(0, cursor[c])
        /\ poll[c].messages = Run(cursor[c], k)
        /\ poll[c].at = "held" => cursor[c] + k = posted

LongInv == Long!TypeOK /\ LongAnswers

LongRequest == [at : {"client", "held", "answer"}, messages : Seq(1..LongMessages), set : BOOLEAN]

\* A run is a sequence of messages, as long as it says.
LEMMA RunIs ==
  ASSUME NEW lo \in Nat, NEW k \in Nat
  PROVE  /\ \A max \in Nat : lo + k <= max => Run(lo, k) \in Seq(1..max)
         /\ Run(lo, k) \in Seq(Nat) /\ Len(Run(lo, k)) = k
         /\ \A i \in 1..k : Run(lo, k)[i] = lo + i
         /\ k = 0 <=> Run(lo, k) = << >>
<1> DEFINE run == Run(lo, k)
<1>1. run \in [1..k -> Nat] /\ \A i \in 1..k : run[i] = lo + i
  BY DEF Run
<1>2. run \in Seq(Nat) /\ Len(run) = k
  BY <1>1
<1>3. ASSUME NEW max \in Nat, lo + k <= max PROVE run \in Seq(1..max)
  <2>1. run \in [1..k -> 1..max]
    BY <1>1, <1>3
  <2> QED BY <2>1
<1> HIDE DEF run
<1> QED BY <1>1, <1>2, <1>3 DEF run

\* Sequences of the length of a run, and with its elements, are the run.
LEMMA IsRun ==
  ASSUME NEW lo \in Nat, NEW k \in Nat, NEW s \in Seq(Nat), Len(s) = k,
         \A i \in 1..k : s[i] = lo + i
  PROVE  s = Run(lo, k)
BY DEF Run

\* A run with the next message,
LEMMA RunAppend ==
  ASSUME NEW lo \in Nat, NEW k \in Nat
  PROVE  Append(Run(lo, k), lo + k + 1) = Run(lo, k + 1)
<1> DEFINE run == Run(lo, k)  s == Append(run, lo + k + 1)
<1>0. run \in Seq(Nat) /\ Len(run) = k /\ \A i \in 1..k : run[i] = lo + i
  BY RunIs
<1> HIDE DEF run
<1>1. s \in Seq(Nat) /\ Len(s) = k + 1
  BY <1>0
<1>2. \A i \in 1..k + 1 : s[i] = lo + i
  BY <1>0
<1>3. k + 1 \in Nat
  OBVIOUS
<1> HIDE DEF s
<1>4. s = Run(lo, k + 1)
  BY <1>1, <1>2, <1>3, IsRun
<1> QED BY <1>4 DEF s, run

\* and with the run that begins where it ends.
LEMMA RunConcat ==
  ASSUME NEW lo \in Nat, NEW k \in Nat
  PROVE  Run(0, lo) \o Run(lo, k) = Run(0, lo + k)
<1> DEFINE low == Run(0, lo)  high == Run(lo, k)  s == low \o high
<1>0. /\ low \in Seq(Nat) /\ Len(low) = lo /\ \A i \in 1..lo : low[i] = i
      /\ high \in Seq(Nat) /\ Len(high) = k /\ \A i \in 1..k : high[i] = lo + i
  <2>1. 0 \in Nat /\ \A i \in 1..lo : 0 + i = i
    OBVIOUS
  <2>2. low \in Seq(Nat) /\ Len(low) = lo /\ \A i \in 1..lo : low[i] = 0 + i
    BY <2>1, RunIs
  <2>3. high \in Seq(Nat) /\ Len(high) = k /\ \A i \in 1..k : high[i] = lo + i
    BY RunIs
  <2> HIDE DEF low, high
  <2> QED BY <2>1, <2>2, <2>3
<1> HIDE DEF low, high
<1>1. s \in Seq(Nat) /\ Len(s) = lo + k
      /\ \A i \in 1..lo + k : s[i] = IF i <= lo THEN low[i] ELSE high[i - lo]
  BY <1>0, ConcatProperties
<1>2. \A i \in 1..lo + k : s[i] = 0 + i
  <2> HIDE DEF s
  <2> QED BY <1>0, <1>1
<1>3. 0 \in Nat /\ lo + k \in Nat
  OBVIOUS
<1> HIDE DEF s
<1>4. s = Run(0, lo + k)
  BY <1>1, <1>2, <1>3, IsRun
<1> QED BY <1>4 DEF s, low, high

\* The requests that are not held.
LEMMA RequestsAre ==
  /\ Long!Idle \in LongRequest /\ Long!Idle.messages = << >> /\ Long!Idle.at = "client"
  /\ Long!Held \in LongRequest /\ Long!Held.messages = << >>
  /\ \A s \in Seq(1..LongMessages) :
       Long!Answer(s) \in LongRequest /\ Long!Answer(s).messages = s /\ Long!Answer(s).at = "answer"
<1>1. Long!Idle \in LongRequest /\ Long!Idle.messages = << >> /\ Long!Idle.at = "client"
  BY EmptySeq DEF Long!Idle, LongRequest
<1>2. Long!Held \in LongRequest /\ Long!Held.messages = << >>
  BY <1>1 DEF Long!Held, LongRequest
<1>3. ASSUME NEW s \in Seq(1..LongMessages)
      PROVE  Long!Answer(s) \in LongRequest /\ Long!Answer(s).messages = s /\ Long!Answer(s).at = "answer"
  BY <1>1 DEF Long!Answer, LongRequest
<1> QED BY <1>1, <1>2, <1>3

\* At the start there are no messages, and no requests.
LEMMA LongInit == Long!Init => LongInv
<1> SUFFICES ASSUME Long!Init PROVE LongInv
  OBVIOUS
<1>1. Long!TypeOK
  BY TransportsAssumption DEF Long!Init, Long!TypeOK, Long!Idle, Long!Messages
<1>2. Run(0, 0) = << >>
  BY RunIs
<1>3. LongAnswers
  BY <1>2 DEF Long!Init, LongAnswers, Long!Idle
<1> QED BY <1>1, <1>3 DEF LongInv

\* What a client has, and its request, before a step.
LEMMA ClientIs ==
  ASSUME LongInv, NEW c \in Pollers
  PROVE  /\ poll[c] \in LongRequest /\ cursor[c] \in Nat /\ LongMessages \in Nat /\ posted \in 0..LongMessages
         /\ Len(poll[c].messages) \in Nat
         /\ cursor[c] + Len(poll[c].messages) <= posted /\ got[c] = Run(0, cursor[c])
         /\ poll[c].messages = Run(cursor[c], Len(poll[c].messages))
         /\ poll[c].at = "held" => cursor[c] + Len(poll[c].messages) = posted
<1>0. LongMessages \in Nat
  BY TransportsAssumption
<1>1. poll[c] \in LongRequest /\ cursor[c] \in Nat /\ posted \in 0..LongMessages
  BY <1>0 DEF LongInv, Long!TypeOK, Long!Messages, LongRequest
<1>2. Len(poll[c].messages) \in Nat
  BY <1>1 DEF LongRequest
<1> QED BY <1>0, <1>1, <1>2 DEF LongInv, LongAnswers

\* A step of one client that leaves its cursor alone and gives its request a run
\* of messages.
LEMMA OneRequest ==
  ASSUME LongInv, NEW c \in Pollers, NEW r \in LongRequest, poll' = [poll EXCEPT ![c] = r],
         UNCHANGED <<posted, cursor, got>>, lost' \in 0..LongLost,
         NEW k \in Nat, r.messages = Run(cursor[c], k), Len(r.messages) = k,
         cursor[c] + k <= posted, r.at = "held" => cursor[c] + k = posted
  PROVE  LongInv'
<1>1. Long!TypeOK'
  BY DEF LongInv, Long!TypeOK, Long!Messages, LongRequest
<1>2. LongAnswers'
  <2> SUFFICES ASSUME NEW d \in Pollers
               PROVE  LET n == Len(poll'[d].messages)
                      IN  /\ cursor[d] + n <= posted
                          /\ got[d] = Run(0, cursor[d])
                          /\ poll'[d].messages = Run(cursor[d], n)
                          /\ poll'[d].at = "held" => cursor[d] + n = posted
    BY DEF LongAnswers
  <2>1. CASE d = c
    <3>1. poll'[d] = r
      BY <2>1 DEF LongInv, Long!TypeOK
    <3> QED BY <2>1, <3>1 DEF LongInv, LongAnswers
  <2>2. CASE d # c
    <3>1. poll'[d] = poll[d]
      BY <2>2 DEF LongInv, Long!TypeOK
    <3> QED BY <3>1 DEF LongInv, LongAnswers
  <2> QED BY <2>1, <2>2
<1> QED BY <1>1, <1>2 DEF LongInv

\* A delivery of the messages that follow is a step of the feed.
LEMMA RunDelivered ==
  ASSUME NEW c \in Pollers, NEW lo \in Nat, NEW k \in Nat \ {0}, posted \in Nat, lo + k <= posted,
         got[c] = Run(0, lo), got'[c] = Run(0, lo + k),
         \A d \in Pollers \ {c} : got'[d] = got[d], posted' = posted
  PROVE  Long!AsFeed!Deliver(c)
<1> DEFINE before == Run(0, lo)  after == Run(0, lo + k)  new == SubSeq(after, lo + 1, lo + k)
<1>0. 0 \in Nat /\ lo + k \in Nat /\ \A i \in 1..lo + k : 0 + i = i
  OBVIOUS
<1>1. before \in Seq(Nat) /\ Len(before) = lo /\ \A i \in 1..lo : before[i] = i
  <2>1. before \in Seq(Nat) /\ Len(before) = lo /\ \A i \in 1..lo : before[i] = 0 + i
    BY <1>0, RunIs
  <2> HIDE DEF before
  <2> QED BY <1>0, <2>1
<1>2. after \in Seq(Nat) /\ Len(after) = lo + k /\ \A i \in 1..lo + k : after[i] = i
  <2>1. after \in Seq(Nat) /\ Len(after) = lo + k /\ \A i \in 1..lo + k : after[i] = 0 + i
    BY <1>0, RunIs
  <2> HIDE DEF after
  <2> QED BY <1>0, <2>1
<1> HIDE DEF before, after
<1>3. new \in Seq(Nat) /\ Len(new) = k /\ (\A i \in 1..k : new[i] = lo + i) /\ new # << >>
  <2>1. \A i \in lo + 1..lo + k : after[i] \in Nat
    BY <1>2
  <2>2. lo + 1 \in Int /\ lo + k \in Int /\ lo + 1 <= lo + k /\ lo + k - (lo + 1) + 1 = k
    OBVIOUS
  <2>3. /\ new \in Seq(Nat) /\ Len(new) = lo + k - (lo + 1) + 1
        /\ \A i \in 1..lo + k - (lo + 1) + 1 : new[i] = after[lo + 1 + i - 1]
    BY <2>1, <2>2, SubSeqProperties
  <2> HIDE DEF new
  <2>4. ASSUME NEW i \in 1..k PROVE new[i] = lo + i
    <3>1. i \in 1..lo + k - (lo + 1) + 1 /\ lo + 1 + i - 1 = lo + i /\ lo + i \in 1..lo + k
      OBVIOUS
    <3> QED BY <1>2, <2>3, <3>1
  <2> QED BY <2>2, <2>3, <2>4
<1>4. SubSeq(after, 1, lo) = before
  <2> DEFINE old == SubSeq(after, 1, lo)
  <2>1. old \in Seq(Nat) /\ Len(old) = lo /\ \A i \in 1..lo : old[i] = before[i]
    <3>1. \A i \in 1..lo : after[i] \in Nat /\ after[i] = before[i]
      BY <1>1, <1>2
    <3>2. /\ old \in Seq(Nat) /\ Len(old) = (IF 1 <= lo THEN lo - 1 + 1 ELSE 0)
          /\ \A i \in 1..lo - 1 + 1 : old[i] = after[1 + i - 1]
      BY <3>1, SubSeqProperties
    <3> HIDE DEF old
    <3>3. Len(old) = lo
      BY <3>2
    <3>4. ASSUME NEW i \in 1..lo PROVE old[i] = before[i]
      <4>1. i \in 1..lo - 1 + 1 /\ 1 + i - 1 = i
        OBVIOUS
      <4> QED BY <3>1, <3>2, <4>1
    <3> QED BY <3>2, <3>3, <3>4
  <2> HIDE DEF old
  <2>2. old = before
    BY <1>1, <2>1, SeqEqual
  <2> QED BY <2>2 DEF old
<1> HIDE DEF new
<1>5. Long!AsFeed!Last(before) = lo /\ Long!AsFeed!Last(new) = lo + k
  BY <1>1, <1>3 DEF Long!AsFeed!Last
<1>6. Long!AsFeed!Ascending(<<lo>> \o new)
  <2> DEFINE s == <<lo>> \o new
  <2> DEFINE head == <<lo>>
  <2>0. head \in Seq(Nat) /\ Len(head) = 1 /\ head[1] = lo
    OBVIOUS
  <2> HIDE DEF head
  <2>1. Len(s) = k + 1 /\ \A i \in 1..k + 1 : s[i] = lo + i - 1
    BY <1>3, <2>0 DEF head
  <2> HIDE DEF s
  <2>2. Long!AsFeed!Ascending(s)
    BY <2>1 DEF Long!AsFeed!Ascending
  <2> QED BY <2>2 DEF s
<1>7. got[c] = before /\ got'[c] = after /\ Len(got[c]) = lo /\ Len(got'[c]) = lo + k
  BY <1>1, <1>2 DEF before, after
<1>8. SubSeq(got'[c], Len(got[c]) + 1, Len(got'[c])) = new /\ SubSeq(got'[c], 1, Len(got[c])) = got[c]
  BY <1>4, <1>7 DEF new
<1>9. /\ Long!AsFeed!Ascending(<<Long!AsFeed!Last(got[c])>> \o new)
      /\ Long!AsFeed!Last(new) <= posted
      /\ Len(new) = Long!AsFeed!Last(new) - Long!AsFeed!Last(got[c])
  BY <1>3, <1>5, <1>6, <1>7
<1> QED BY <1>3, <1>8, <1>9 DEF Long!AsFeed!Deliver

\* A step of the server or of a client keeps the invariant, and is one of a feed
\* without gaps, or none.
LEMMA LongStep ==
  LongInv /\ [Long!Next]_longVars => LongInv' /\ [Long!AsFeed!Next]_<<posted, got>>
<1> SUFFICES ASSUME LongInv, [Long!Next]_longVars
             PROVE  LongInv' /\ [Long!AsFeed!Next]_<<posted, got>>
  OBVIOUS
<1> USE TransportsAssumption
<1>0. Long!Idle \in LongRequest /\ Long!Idle.messages = << >> /\ Long!Idle.at = "client"
  BY RequestsAre DEF LongRequest
<1>1. ASSUME Long!Post PROVE LongInv' /\ Long!AsFeed!Publish
  <2>1. posted' = posted + 1 /\ posted + 1 \in 1..LongMessages /\ UNCHANGED <<cursor, got, lost>>
    <3>1. LongMessages \in Nat
      OBVIOUS
    <3>2. posted \in 0..LongMessages
      BY DEF LongInv, Long!TypeOK
    <3>3. posted < LongMessages /\ posted' = posted + 1 /\ UNCHANGED <<cursor, got, lost>>
      BY <1>1 DEF Long!Post
    <3> QED BY <3>1, <3>2, <3>3
  <2>2. ASSUME NEW c \in Pollers
        PROVE  LET n == Len(poll'[c].messages)
               IN  /\ poll'[c] \in LongRequest
                   /\ cursor[c] + n <= posted + 1
                   /\ poll'[c].messages = Run(cursor[c], n)
                   /\ poll'[c].at = "held" => cursor[c] + n = posted + 1
    <3> DEFINE k == Len(poll[c].messages)
    <3>1. /\ poll[c] \in LongRequest /\ k \in Nat /\ cursor[c] \in Nat /\ posted \in Nat
          /\ cursor[c] + k <= posted
          /\ poll[c].messages = Run(cursor[c], k)
          /\ poll[c].at = "held" => cursor[c] + k = posted
      BY ClientIs
    <3>2. CASE poll[c].at = "held"
      <4> DEFINE new == Append(poll[c].messages, posted + 1)
      <4>1. new \in Seq(1..LongMessages) /\ Len(new) = k + 1
        BY <2>1, <3>1 DEF LongRequest
      <4>2. poll'[c] = [at |-> "held", messages |-> new, set |-> TRUE]
        BY <1>1, <3>1, <3>2 DEF Long!Post, LongRequest
      <4>3. posted + 1 = cursor[c] + k + 1
        BY <3>1, <3>2
      <4>4. new = Run(cursor[c], k + 1)
        <5>1. new = Append(Run(cursor[c], k), cursor[c] + k + 1)
          BY <3>1, <4>3
        <5> HIDE DEF k, new
        <5> QED BY <3>1, <5>1, RunAppend
      <4> HIDE DEF new, k
      <4>5. poll'[c] \in LongRequest /\ Len(poll'[c].messages) = k + 1 /\ poll'[c].messages = new
        BY <4>1, <4>2 DEF LongRequest
      <4> QED BY <3>1, <4>3, <4>4, <4>5, SMTT(30)
    <3>3. CASE poll[c].at # "held"
      <4>1. poll'[c] = poll[c]
        BY <1>1, <3>3 DEF Long!Post
      <4> QED BY <3>1, <3>3, <4>1
    <3> QED BY <3>2, <3>3
  <2>3. poll' \in [Pollers -> LongRequest]
    <3>1. poll' = [c \in Pollers |-> poll'[c]]
      BY <1>1 DEF Long!Post
    <3> QED BY <2>2, <3>1
  <2>4. Long!TypeOK'
    BY <2>1, <2>3 DEF LongInv, Long!TypeOK, Long!Messages, LongRequest
  <2>5. LongAnswers'
    BY <2>1, <2>2 DEF LongInv, LongAnswers
  <2>6. Long!AsFeed!Publish
    BY <2>1 DEF Long!AsFeed!Publish
  <2> QED BY <2>4, <2>5, <2>6 DEF LongInv
<1>2. ASSUME NEW c \in Pollers, Long!Poll(c) PROVE LongInv' /\ UNCHANGED <<posted, got>>
  <2> DEFINE k == posted - cursor[c]  new == Run(cursor[c], k)
  <2>1. cursor[c] \in Nat /\ posted \in 0..LongMessages /\ k \in Nat /\ cursor[c] + k = posted
    BY ClientIs, SMTT(30)
  <2>2. new = Long!NewMessages(cursor[c])
    BY DEF Long!NewMessages, Long!After, Run
  <2>3. new \in Seq(1..LongMessages) /\ Len(new) = k /\ (k = 0 <=> new = << >>)
    <3>1. LongMessages \in Nat /\ cursor[c] + k <= LongMessages
      BY <2>1
    <3> HIDE DEF k
    <3> QED BY <2>1, <3>1, RunIs
  <2> DEFINE r == IF new # << >> THEN Long!Answer(new) ELSE Long!Held
  <2>4. poll' = [poll EXCEPT ![c] = r] /\ UNCHANGED <<posted, cursor, got, lost>>
    BY <1>2, <2>2 DEF Long!Poll
  <2> HIDE DEF new, k
  <2>5. r \in LongRequest /\ r.messages = new /\ (r.at = "held" => k = 0)
    <3>1. CASE new = << >>
      BY <2>3, <3>1, RequestsAre
    <3>2. CASE new # << >>
      BY <2>3, <3>2, RequestsAre
    <3> QED BY <3>1, <3>2
  <2> HIDE DEF r
  <2>6. lost' \in 0..LongLost
    BY <2>4 DEF LongInv, Long!TypeOK
  <2>7. r.messages = Run(cursor[c], k) /\ Len(r.messages) = k
    BY <2>3, <2>5 DEF new
  <2>8. cursor[c] + k <= posted /\ (r.at = "held" => cursor[c] + k = posted)
    BY <2>1
  <2> QED BY <2>1, <2>4, <2>5, <2>6, <2>7, <2>8, OneRequest
<1>3. ASSUME NEW c \in Pollers, Long!Wake(c) PROVE LongInv' /\ UNCHANGED <<posted, got>>
  <2> DEFINE k == Len(poll[c].messages)  r == Long!Answer(poll[c].messages)
  <2>1. poll[c] \in LongRequest /\ k \in Nat /\ cursor[c] + k <= posted /\ poll[c].messages = Run(cursor[c], k)
    BY ClientIs
  <2>2. poll[c].messages \in Seq(1..LongMessages)
    BY <2>1 DEF LongRequest
  <2>3. r \in LongRequest /\ r.messages = Run(cursor[c], k) /\ Len(r.messages) = k /\ r.at = "answer"
    BY <2>1, <2>2, RequestsAre
  <2>4. poll' = [poll EXCEPT ![c] = r] /\ UNCHANGED <<posted, cursor, got>> /\ lost' \in 0..LongLost
    BY <1>3 DEF Long!Wake, LongInv, Long!TypeOK
  <2> HIDE DEF r, k
  <2> QED BY <2>1, <2>3, <2>4, OneRequest
<1>4. ASSUME NEW c \in Pollers, NEW r \in LongRequest, r.messages = << >>, r.at # "held",
             poll' = [poll EXCEPT ![c] = r], UNCHANGED <<posted, cursor, got>>, lost' \in 0..LongLost
      PROVE  LongInv' /\ UNCHANGED <<posted, got>>
  <2>1. cursor[c] \in Nat /\ posted \in Nat /\ cursor[c] + 0 <= posted
    BY ClientIs
  <2>2. r.messages = Run(cursor[c], 0) /\ Len(r.messages) = 0
    BY <1>4, <2>1, RunIs
  <2> QED BY <1>4, <2>1, <2>2, OneRequest
<1>5. ASSUME NEW c \in Pollers, Long!Timeout(c) PROVE LongInv' /\ UNCHANGED <<posted, got>>
  <2> DEFINE r == Long!Answer(<< >>)
  <2>1. << >> \in Seq(1..LongMessages)
    BY EmptySeq
  <2>2. r \in LongRequest /\ r.messages = << >> /\ r.at = "answer"
    BY <2>1, RequestsAre
  <2>3. poll' = [poll EXCEPT ![c] = r] /\ UNCHANGED <<posted, cursor, got>> /\ lost' \in 0..LongLost
    BY <1>5 DEF Long!Timeout, LongInv, Long!TypeOK
  <2> HIDE DEF r
  <2> QED BY <1>4, <2>2, <2>3
<1>6. ASSUME NEW c \in Pollers, Long!Lose(c) PROVE LongInv' /\ UNCHANGED <<posted, got>>
  <2>1. lost' \in 0..LongLost
    BY <1>6 DEF LongInv, Long!TypeOK, Long!Lose
  <2>2. poll' = [poll EXCEPT ![c] = Long!Idle] /\ UNCHANGED <<posted, cursor, got>>
    BY <1>6 DEF Long!Lose
  <2> QED BY <1>0, <1>4, <2>1, <2>2
<1>7. ASSUME NEW c \in Pollers, Long!Receive(c) PROVE LongInv' /\ [Long!AsFeed!Next]_<<posted, got>>
  <2> DEFINE k == Len(poll[c].messages)  run == Run(cursor[c], k)  after == Run(0, cursor[c] + k)
  <2>1. cursor[c] \in Nat /\ k \in Nat /\ posted \in 0..LongMessages /\ poll[c] \in LongRequest
        /\ cursor[c] + k <= posted /\ poll[c].messages = run /\ got[c] = Run(0, cursor[c])
    BY ClientIs
  <2>2. Len(run) = k /\ (k = 0 <=> run = << >>) /\ \A i \in 1..k : run[i] = cursor[c] + i
    <3> HIDE DEF k
    <3> QED BY <2>1, RunIs
  <2>3. Long!NextCursor(c) = cursor[c] + k
    <3>1. CASE k = 0
      BY <2>1, <2>2, <3>1 DEF Long!NextCursor
    <3>2. CASE k # 0
      <4>1. run[k] = cursor[c] + k
        BY <2>1, <2>2, <3>2, SMTT(30)
      <4> QED BY <2>1, <2>2, <3>2, <4>1 DEF Long!NextCursor, Long!Last
    <3> QED BY <3>1, <3>2
  <2>4. got[c] \o run = after
    <3> HIDE DEF k
    <3> QED BY <2>1, RunConcat
  <2>5. /\ poll' = [poll EXCEPT ![c] = Long!Idle]
        /\ cursor' = [cursor EXCEPT ![c] = cursor[c] + k]
        /\ got' = [got EXCEPT ![c] = after]
        /\ UNCHANGED <<posted, lost>>
    BY <1>7, <2>1, <2>3, <2>4 DEF Long!Receive
  <2>6. after \in Seq(1..LongMessages)
    <3>1. LongMessages \in Nat /\ cursor[c] + k \in Nat /\ 0 + (cursor[c] + k) <= LongMessages
      BY <2>1, SMTT(30)
    <3> HIDE DEF k
    <3> QED BY <3>1, RunIs
  <2> HIDE DEF run, k, after
  <2>7. Long!TypeOK'
    <3>1. LongMessages \in Nat /\ cursor[c] + k \in 0..LongMessages
      BY <2>1
    <3> QED BY <1>0, <2>5, <2>6, <3>1 DEF LongInv, Long!TypeOK, Long!Messages, LongRequest
  <2>8. LongAnswers'
    <3> SUFFICES ASSUME NEW d \in Pollers
                 PROVE  LET n == Len(poll'[d].messages)
                        IN  /\ cursor'[d] + n <= posted
                            /\ got'[d] = Run(0, cursor'[d])
                            /\ poll'[d].messages = Run(cursor'[d], n)
                            /\ poll'[d].at = "held" => cursor'[d] + n = posted
      BY <2>5 DEF LongAnswers
    <3>1. CASE d = c
      <4>1. poll'[d] = Long!Idle /\ cursor'[d] = cursor[c] + k /\ got'[d] = after
        BY <2>5, <3>1 DEF LongInv, Long!TypeOK
      <4>2. Len(poll'[d].messages) = 0 /\ poll'[d].messages = << >> /\ poll'[d].at = "client"
        BY <1>0, <4>1
      <4>3. cursor[c] + k \in Nat /\ 0 \in Nat
        BY <2>1
      <4>4. Run(cursor[c] + k, 0) = << >>
        BY <4>3, RunIs
      <4> QED BY <2>1, <4>1, <4>2, <4>3, <4>4 DEF after
    <3>2. CASE d # c
      <4>1. poll'[d] = poll[d] /\ cursor'[d] = cursor[d] /\ got'[d] = got[d]
        BY <2>5, <3>2 DEF LongInv, Long!TypeOK
      <4> QED BY <4>1 DEF LongInv, LongAnswers
    <3> QED BY <3>1, <3>2
  <2>9. CASE k = 0
    <3>1. after = got[c]
      BY <2>1, <2>9 DEF after
    <3>2. got' = got
      BY <2>5, <3>1 DEF LongInv, Long!TypeOK
    <3> QED BY <2>5, <2>7, <2>8, <3>2 DEF LongInv
  <2>10. CASE k # 0
    <3>1. got'[c] = Run(0, cursor[c] + k) /\ \A d \in Pollers \ {c} : got'[d] = got[d]
      BY <2>5 DEF LongInv, Long!TypeOK, after
    <3>2. k \in Nat \ {0} /\ posted \in Nat /\ posted' = posted
      BY <2>1, <2>5, <2>10
    <3>3. Long!AsFeed!Deliver(c)
      BY <2>1, <3>1, <3>2, RunDelivered
    <3> QED BY <2>7, <2>8, <3>3 DEF LongInv, Long!AsFeed!Next
  <2> QED BY <2>9, <2>10
<1>8. CASE UNCHANGED longVars
  BY <1>8 DEF longVars, LongInv, Long!TypeOK, LongAnswers
<1> QED
  BY <1>1, <1>2, <1>3, <1>5, <1>6, <1>7, <1>8 DEF Long!Next, Long!AsFeed!Next

-----------------------------------------------------------------------------
(* The server-sent events.                                                 *)

\* Appending to the second of two sequences is appending to both.
LEMMA ConcatAppend ==
  ASSUME NEW S, NEW s \in Seq(S), NEW t \in Seq(S), NEW e \in S
  PROVE  s \o Append(t, e) = Append(s \o t, e)
<1>1. Append(t, e) = t \o <<e>> /\ Append(s \o t, e) = (s \o t) \o <<e>>
  BY ConcatProperties, AppendIsConcat
<1>2. <<e>> \in Seq(S)
  OBVIOUS
<1> QED BY <1>1, <1>2, ConcatAssociative

\* A sequence of length one is its element's.
LEMMA OneElement ==
  ASSUME NEW S, NEW s \in Seq(S), Len(s) = 1
  PROVE  s = <<s[1]>>
OBVIOUS

\* Moving the head of a sequence to the end of the one before it.
LEMMA MoveHead ==
  ASSUME NEW S, NEW s \in Seq(S), NEW t \in Seq(S), t # << >>
  PROVE  Append(s, Head(t)) \o Tail(t) = s \o t
<1> DEFINE a == Append(s, Head(t))  z == Tail(t)  left == a \o z  right == s \o t
<1>1. /\ Len(t) \in Nat \ {0} /\ Len(s) \in Nat /\ Head(t) \in S /\ z \in Seq(S) /\ Len(z) = Len(t) - 1
      /\ \A i \in 1..Len(z) : z[i] = t[i + 1]
  BY HeadTailProperties, EmptySeq, LenProperties
<1>2. Head(t) = t[1]
  OBVIOUS
<1>3. /\ a \in Seq(S) /\ Len(a) = Len(s) + 1 /\ \A i \in 1..Len(s) : a[i] = s[i]
      /\ a[Len(s) + 1] = t[1]
  BY <1>1, <1>2, AppendProperties
<1> HIDE DEF a, z
<1>4. /\ left \in Seq(S) /\ Len(left) = Len(a) + Len(z)
      /\ \A i \in 1..Len(a) + Len(z) : left[i] = IF i <= Len(a) THEN a[i] ELSE z[i - Len(a)]
  BY <1>1, <1>3, ConcatProperties
<1>5. /\ right \in Seq(S) /\ Len(right) = Len(s) + Len(t)
      /\ \A i \in 1..Len(s) + Len(t) : right[i] = IF i <= Len(s) THEN s[i] ELSE t[i - Len(s)]
  BY ConcatProperties
<1> HIDE DEF left, right
<1>6. Len(left) = Len(right)
  BY <1>1, <1>3, <1>4, <1>5
<1>7. ASSUME NEW i \in 1..Len(left) PROVE left[i] = right[i]
  <2>0. i \in Nat /\ i \in 1..Len(a) + Len(z) /\ i \in 1..Len(s) + Len(t)
    BY <1>1, <1>3, <1>4, <1>5
  <2>1. CASE i <= Len(s)
    <3>1. i \in 1..Len(s) /\ i <= Len(a)
      BY <1>1, <1>3, <2>0, <2>1
    <3>2. left[i] = a[i] /\ right[i] = s[i] /\ a[i] = s[i]
      BY <1>3, <1>4, <1>5, <2>0, <2>1, <3>1
    <3> QED BY <3>2
  <2>2. CASE i = Len(s) + 1
    <3>1. i <= Len(a) /\ ~ (i <= Len(s)) /\ i - Len(s) = 1
      BY <1>1, <1>3, <2>2
    <3>2. left[i] = a[i] /\ right[i] = t[1] /\ a[i] = t[1]
      BY <1>3, <1>4, <1>5, <2>0, <2>2, <3>1
    <3> QED BY <3>2
  <2>3. CASE i > Len(s) + 1
    <3>1. i - Len(a) \in 1..Len(z) /\ (i - Len(a)) + 1 = i - Len(s) /\ ~ (i <= Len(a)) /\ ~ (i <= Len(s))
      BY <1>1, <1>3, <2>0, <2>3
    <3>2. left[i] = z[i - Len(a)] /\ right[i] = t[i - Len(s)] /\ z[i - Len(a)] = t[(i - Len(a)) + 1]
      BY <1>1, <1>4, <1>5, <2>0, <3>1
    <3> QED BY <3>1, <3>2
  <2> QED BY <1>1, <2>0, <2>1, <2>2, <2>3
<1>8. left = right
  BY <1>4, <1>5, <1>6, <1>7, SeqEqual
<1> QED BY <1>8 DEF left, right, a, z

\* What is on its way to a reader: a yield only moves its head, from the
\* generator's backlog, or its queue, to the wire.
Coming(r) == wire[r] \o (stream[r].backlog \o stream[r].queue)

Has(seq, e) == \E i \in 1..Len(seq) : seq[i] = e

\* What comes is new to the reader and in order; the reader has been given
\* nothing newer than lastId, nor what it is parsing.
InOrder(me, coming) ==
  /\ me.lastId <= messageId /\ me.parsing \in {0, me.lastId}
  /\ \A i \in 1..Len(me.given) :
       me.given[i] <= me.lastId /\ (me.parsing # 0 => me.given[i] < me.parsing)
  /\ \A i \in 1..Len(coming) :
       coming[i] <= messageId /\ (coming[i] # 0 => coming[i] > me.lastId)
  /\ \A i, j \in 1..Len(coming) :
       i < j /\ coming[i] # 0 /\ coming[j] # 0 => coming[i] < coming[j]

\* The message is with the reader, on its way to it, or one that was lost.
Accounted(me, coming, id) ==
  Has(me.given, id) \/ id = me.parsing \/ Has(coming, id) \/ id \in me.torn \cup me.evicted

\* A connected reader is owed the messages up to the latest, one that has left
\* those up to lastId: what was on its way to it is sent again if it comes back.
Owed(r, id) ==
  id > reader[r].from /\ ((id <= messageId /\ stream[r].open) \/ id <= reader[r].lastId)

StreamsInOrder ==
  \A r \in Readers :
    /\ InOrder(reader[r], Coming(r))
    /\ ~ stream[r].open => reader[r].parsing = 0 /\ wire[r] = << >> /\ Coming(r) = << >>
    /\ \A id \in Nat : Owed(r, id) => Accounted(reader[r], Coming(r), id)

SseInv == Sse!TypeOK /\ StreamsInOrder

SseIds == 1..SseMessages
Written == SseIds \cup {0}
StreamType == [open : BOOLEAN, backlog : Seq(Written), queue : Seq(SseIds)]
ReaderType == [lastId : Written, parsing : Written, given : Seq(SseIds),
               requests : 0..SseRequests, from : Written,
               torn : SUBSET SseIds, evicted : SUBSET SseIds]

\* The shape of the state, as Sse!TypeOK has it.
LEMMA SseTypes ==
  Sse!TypeOK <=> /\ messageId \in 0..SseMessages
                 /\ stream \in [Readers -> StreamType]
                 /\ wire \in [Readers -> Seq(Written)]
                 /\ reader \in [Readers -> ReaderType]
BY DEF Sse!TypeOK, Sse!Ids, Sse!Greeting, SseIds, Written, StreamType, ReaderType

\* Sequences of ids, Greeting among them or not, are sequences of numbers.
LEMMA SseSequences ==
  ASSUME Sse!TypeOK, NEW r \in Readers
  PROVE  /\ wire[r] \in Seq(Written) /\ stream[r].backlog \in Seq(Written)
         /\ stream[r].queue \in Seq(Written) /\ Coming(r) \in Seq(Written)
         /\ Coming(r) \in Seq(Nat) /\ reader[r].given \in Seq(Nat)
<1>1. wire[r] \in Seq(Written) /\ stream[r].backlog \in Seq(Written)
      /\ stream[r].queue \in Seq(SseIds) /\ reader[r].given \in Seq(SseIds)
  BY SseTypes DEF StreamType, ReaderType
<1>2. SseIds \subseteq Written /\ SseIds \subseteq Nat /\ Written \subseteq Nat
  BY DEF SseIds, Written
<1>3. stream[r].queue \in Seq(Written)
  BY <1>1, <1>2, SeqMonotonic
<1>4. stream[r].backlog \o stream[r].queue \in Seq(Written)
  BY <1>1, <1>3, ConcatProperties
<1>5. Coming(r) \in Seq(Written)
  BY <1>1, <1>4, ConcatProperties DEF Coming
<1> QED BY <1>1, <1>2, <1>3, <1>5, SeqMonotonic

\* At the start nobody is connected.
LEMMA SseInit == Sse!Init => SseInv
<1> SUFFICES ASSUME Sse!Init PROVE SseInv
  OBVIOUS
<1>0. SseMessages \in Nat /\ SseRequests \in Nat
  BY TransportsAssumption
<1>1. ASSUME NEW r \in Readers
      PROVE  /\ stream[r] \in StreamType /\ ~ stream[r].open /\ wire[r] = << >> /\ Coming(r) = << >>
             /\ reader[r] \in ReaderType /\ reader[r].parsing = 0 /\ reader[r].lastId = 0
             /\ reader[r].given = << >> /\ reader[r].from = 0
  <2>1. /\ stream[r] \in StreamType /\ ~ stream[r].open /\ wire[r] = << >>
        /\ stream[r].backlog = << >> /\ stream[r].queue = << >>
    BY EmptySeq DEF Sse!Init, Sse!Closed, StreamType
  <2>2. Coming(r) = << >>
    BY <2>1, EmptySeq, ConcatEmptySeq DEF Coming
  <2>3. /\ reader[r] \in ReaderType /\ reader[r].parsing = 0 /\ reader[r].lastId = 0
        /\ reader[r].given = << >> /\ reader[r].from = 0
    BY <1>0, EmptySeq DEF Sse!Init, Sse!NewReader, ReaderType, Written
  <2> QED BY <2>1, <2>2, <2>3
<1>2. Sse!TypeOK
  <2>1. stream \in [Readers -> StreamType] /\ reader \in [Readers -> ReaderType]
    BY <1>1 DEF Sse!Init
  <2>2. messageId \in 0..SseMessages /\ wire \in [Readers -> Seq(Written)]
    BY <1>0, EmptySeq DEF Sse!Init
  <2> QED BY <2>1, <2>2, SseTypes
<1>3. StreamsInOrder
  <2>1. ASSUME NEW r \in Readers PROVE InOrder(reader[r], Coming(r))
    BY <1>1 DEF Sse!Init, InOrder
  <2>2. ASSUME NEW r \in Readers, NEW id \in Nat, Owed(r, id) PROVE FALSE
    BY <1>1, <2>2 DEF Owed
  <2> QED BY <1>1, <2>1, <2>2 DEF StreamsInOrder
<1> QED BY <1>2, <1>3 DEF SseInv

\* A step of one reader, or of its generator.
LEMMA OneReader ==
  ASSUME SseInv, NEW r \in Readers, NEW s \in StreamType, NEW w \in Seq(Written),
         NEW me \in ReaderType, messageId' = messageId,
         stream' = [stream EXCEPT ![r] = s], wire' = [wire EXCEPT ![r] = w],
         reader' = [reader EXCEPT ![r] = me],
         NEW coming, coming = w \o (s.backlog \o s.queue), InOrder(me, coming),
         ~ s.open => me.parsing = 0 /\ w = << >> /\ coming = << >>,
         \A id \in Nat : id > me.from /\ ((id <= messageId /\ s.open) \/ id <= me.lastId)
                          => Accounted(me, coming, id)
  PROVE  SseInv'
<1>0. stream \in [Readers -> StreamType] /\ wire \in [Readers -> Seq(Written)]
      /\ reader \in [Readers -> ReaderType] /\ messageId \in 0..SseMessages
  BY SseTypes DEF SseInv
<1>1. stream'[r] = s /\ wire'[r] = w /\ reader'[r] = me
  BY <1>0
<1>2. Coming(r)' = coming
  BY <1>1 DEF Coming
<1>3. ASSUME NEW x \in Readers, x # r
      PROVE  stream'[x] = stream[x] /\ wire'[x] = wire[x] /\ reader'[x] = reader[x]
             /\ Coming(x)' = Coming(x)
  BY <1>0, <1>3 DEF Coming
<1>4. Sse!TypeOK'
  BY <1>0 DEF Sse!TypeOK, Sse!Ids, Sse!Greeting, SseIds, Written, StreamType, ReaderType
<1>5. ASSUME NEW x \in Readers PROVE InOrder(reader[x], Coming(x))'
  <2>1. CASE x = r
    BY <1>1, <1>2, <2>1 DEF InOrder
  <2>2. CASE x # r
    <3>1. InOrder(reader[x], Coming(x))
      BY DEF SseInv, StreamsInOrder
    <3> QED BY <1>3, <2>2, <3>1 DEF InOrder
  <2> QED BY <2>1, <2>2
<1>6. ASSUME NEW x \in Readers, ~ stream'[x].open
      PROVE  reader'[x].parsing = 0 /\ wire'[x] = << >> /\ Coming(x)' = << >>
  BY <1>1, <1>2, <1>3, <1>6, ZenonT(30) DEF SseInv, StreamsInOrder
<1>7. ASSUME NEW x \in Readers, NEW id \in Nat, Owed(x, id)' PROVE Accounted(reader[x], Coming(x), id)'
  <2>1. CASE x = r
    BY <1>1, <1>2, <1>7, <2>1 DEF Owed, Accounted
  <2>2. CASE x # r
    <3>1. Owed(x, id)
      BY <1>3, <1>7, <2>2 DEF Owed
    <3>2. Accounted(reader[x], Coming(x), id)
      BY <3>1 DEF SseInv, StreamsInOrder
    <3> QED BY <1>3, <2>2, <3>2 DEF Accounted
  <2> QED BY <2>1, <2>2
<1>8. StreamsInOrder'
  BY <1>5, <1>6, <1>7 DEF StreamsInOrder
<1> QED BY <1>4, <1>8 DEF SseInv
\* What a reader and its stream are, before a step of theirs.
LEMMA ReaderIs ==
  ASSUME SseInv, NEW r \in Readers
  PROVE  /\ stream[r] \in StreamType /\ reader[r] \in ReaderType
         /\ wire[r] \in Seq(Written) /\ messageId \in Nat /\ SseMessages \in Nat
         /\ messageId <= SseMessages
         /\ InOrder(reader[r], Coming(r))
         /\ ~ stream[r].open => reader[r].parsing = 0 /\ wire[r] = << >> /\ Coming(r) = << >>
         /\ \A id \in Nat : Owed(r, id) => Accounted(reader[r], Coming(r), id)
<1>1. SseMessages \in Nat
  BY TransportsAssumption
<1> QED BY <1>1, SseTypes DEF SseInv, StreamsInOrder

\* A message goes into the queue of every open stream, as the last to come.
LEMMA SseSend == SseInv /\ Sse!SendMessage => SseInv'
<1> SUFFICES ASSUME SseInv, Sse!SendMessage PROVE SseInv'
  OBVIOUS
<1>0. messageId \in Nat /\ messageId' = messageId + 1 /\ messageId' \in SseIds
      /\ messageId + 1 \in 0..SseMessages /\ UNCHANGED <<wire, reader>>
  <2>1. messageId \in 0..SseMessages /\ SseMessages \in Nat
    BY SseTypes, TransportsAssumption DEF SseInv
  <2>2. messageId < SseMessages /\ messageId' = messageId + 1 /\ UNCHANGED <<wire, reader>>
    BY DEF Sse!SendMessage
  <2> QED BY <2>1, <2>2 DEF SseIds
<1>1. ASSUME NEW r \in Readers, stream[r].open
      PROVE  /\ stream'[r] \in StreamType /\ stream'[r].open
             /\ Coming(r)' = Append(Coming(r), messageId')
  <2> DEFINE new == Append(stream[r].queue, messageId')
  <2>1. stream[r] \in StreamType
    BY ReaderIs
  <2>2. new \in Seq(SseIds) /\ new = Append(stream[r].queue, messageId + 1)
    BY <1>0, <2>1 DEF StreamType
  <2>3. stream'[r] = [stream[r] EXCEPT !.queue = new]
    BY <1>1, <2>2 DEF Sse!SendMessage, Sse!Subscribed
  <2> HIDE DEF new
  <2>4. stream'[r] \in StreamType /\ stream'[r].open /\ stream'[r].backlog = stream[r].backlog
        /\ stream'[r].queue = new
    BY <1>1, <2>1, <2>2, <2>3 DEF StreamType
  <2>5. Coming(r)' = wire[r] \o (stream[r].backlog \o new)
    BY <1>0, <2>4 DEF Coming
  <2>6. wire[r] \o (stream[r].backlog \o new) = Append(Coming(r), messageId')
    <3> DEFINE w == wire[r]  b == stream[r].backlog  q == stream[r].queue  e == messageId'
    <3>1. w \in Seq(Written) /\ b \in Seq(Written) /\ q \in Seq(Written) /\ e \in Written
      BY <1>0, SseSequences DEF SseInv, Written
    <3> HIDE DEF w, b, q, e
    <3>2. b \o q \in Seq(Written)
      BY <3>1, ConcatProperties
    <3>3. b \o Append(q, e) = Append(b \o q, e)
      BY <3>1, ConcatAppend
    <3>4. w \o Append(b \o q, e) = Append(w \o (b \o q), e)
      BY <3>1, <3>2, ConcatAppend
    <3> QED BY <3>3, <3>4 DEF w, b, q, e, new, Coming
  <2> QED BY <2>4, <2>5, <2>6
<1>2. ASSUME NEW r \in Readers, ~ stream[r].open
      PROVE  stream'[r] = stream[r] /\ Coming(r)' = Coming(r)
  BY <1>0, <1>2 DEF Sse!SendMessage, Sse!Subscribed, Coming
<1>3. Sse!TypeOK'
  <2>1. \A r \in Readers : stream'[r] \in StreamType
    BY <1>1, <1>2, ReaderIs
  <2>2. stream' = [r \in Readers |-> stream'[r]]
    BY DEF Sse!SendMessage
  <2>3. stream' \in [Readers -> StreamType]
    BY <2>1, <2>2
  <2>4. wire \in [Readers -> Seq(Written)] /\ reader \in [Readers -> ReaderType]
    BY SseTypes DEF SseInv
  <2> QED
    BY <1>0, <2>3, <2>4 DEF Sse!TypeOK, Sse!Ids, Sse!Greeting, SseIds, Written, StreamType, ReaderType
<1>4. ASSUME NEW r \in Readers
      PROVE  /\ InOrder(reader[r], Coming(r))'
             /\ ~ stream'[r].open => reader'[r].parsing = 0 /\ wire'[r] = << >> /\ Coming(r)' = << >>
             /\ \A id \in Nat : Owed(r, id)' => Accounted(reader[r], Coming(r), id)'
  <2> DEFINE coming == Coming(r)
  <2>1. /\ reader[r] \in ReaderType /\ InOrder(reader[r], coming)
        /\ ~ stream[r].open => reader[r].parsing = 0 /\ wire[r] = << >> /\ coming = << >>
        /\ \A id \in Nat : Owed(r, id) => Accounted(reader[r], coming, id)
    BY ReaderIs
  <2>2. coming \in Seq(Nat)
    BY SseSequences DEF SseInv
  <2>3. reader[r].lastId \in Nat
    BY <2>1 DEF ReaderType, SseIds, Written
  <2>4. CASE stream[r].open
    <3> DEFINE more == Append(coming, messageId')
    <3>1. Coming(r)' = more /\ stream'[r].open
      BY <1>1, <2>4
    <3> HIDE DEF coming
    <3>2. Len(more) = Len(coming) + 1 /\ Len(coming) \in Nat /\ more[Len(coming) + 1] = messageId'
          /\ \A i \in 1..Len(coming) : more[i] = coming[i] /\ coming[i] \in Nat
      BY <1>0, <2>2
    <3> HIDE DEF more
    <3>3. InOrder(reader[r], Coming(r))'
      <4>1. \A i \in 1..Len(more) : more[i] <= messageId' /\ (more[i] # 0 => more[i] > reader[r].lastId)
        BY <1>0, <2>1, <2>3, <3>2 DEF InOrder
      <4>2. \A i, j \in 1..Len(more) : i < j /\ more[i] # 0 /\ more[j] # 0 => more[i] < more[j]
        BY <1>0, <2>1, <3>2, SMTT(30) DEF InOrder
      <4>3. reader[r].lastId <= messageId'
        BY <1>0, <2>1, <2>3 DEF InOrder
      <4> QED BY <1>0, <2>1, <3>1, <4>1, <4>2, <4>3 DEF InOrder
    <3>4. ASSUME NEW id \in Nat, Owed(r, id)' PROVE Accounted(reader[r], more, id)
      <4>1. CASE id = messageId + 1
        BY <1>0, <3>2, <4>1 DEF Accounted, Has
      <4>2. CASE id # messageId + 1
        <5>1. Owed(r, id)
          BY <1>0, <2>4, <3>4, <4>2 DEF Owed
        <5>2. Accounted(reader[r], coming, id)
          BY <2>1, <5>1
        <5>3. Has(coming, id) => Has(more, id)
          BY <3>2 DEF Has
        <5> QED BY <5>2, <5>3 DEF Accounted
      <4> QED BY <4>1, <4>2
    <3>5. \A id \in Nat : Owed(r, id)' => Accounted(reader[r], Coming(r), id)'
      BY <1>0, <3>1, <3>4 DEF Accounted
    <3> QED BY <3>1, <3>3, <3>5
  <2>5. CASE ~ stream[r].open
    <3>1. Coming(r)' = coming /\ stream'[r] = stream[r]
      BY <1>2, <2>5
    <3> HIDE DEF coming
    <3>2. InOrder(reader[r], Coming(r))'
      BY <1>0, <2>1, <2>3, <2>5, <3>1 DEF InOrder
    <3>3. ASSUME NEW id \in Nat, Owed(r, id)' PROVE Accounted(reader[r], coming, id)
      BY <1>0, <2>1, <2>5, <3>1, <3>3 DEF Owed
    <3>4. \A id \in Nat : Owed(r, id)' => Accounted(reader[r], Coming(r), id)'
      BY <1>0, <3>1, <3>3 DEF Accounted
    <3> QED BY <1>0, <2>1, <2>5, <3>1, <3>2, <3>4
  <2> QED BY <2>4, <2>5
<1>5. StreamsInOrder'
  BY <1>4 DEF StreamsInOrder
<1> QED BY <1>3, <1>5 DEF SseInv

\* A request: what is replayed begins after lastId, what is not has been evicted.
LEMMA SseRequest == ASSUME SseInv, NEW r \in Readers, Sse!Request(r) PROVE SseInv'
<1> DEFINE me == reader[r]  missed == Sse!Missed(me.lastId)
           backlog == Append(missed, Sse!Greeting)
           from == IF me.lastId = 0 THEN messageId ELSE me.from
           evicted == IF me.lastId = 0 THEN me.evicted
                      ELSE me.evicted \cup {id \in me.lastId + 1..messageId : ~ Sse!Buffered(id)}
           new == [me EXCEPT !.requests = me.requests + 1, !.from = from, !.evicted = evicted]
           s == [open |-> TRUE, queue |-> << >>, backlog |-> backlog]
<1>0. BufferSize \in Nat \ {0} /\ SseRequests \in Nat
  BY TransportsAssumption
<1>1. /\ stream[r] \in StreamType /\ me \in ReaderType
      /\ messageId \in Nat /\ SseMessages \in Nat /\ messageId <= SseMessages
      /\ InOrder(me, Coming(r)) /\ ~ stream[r].open /\ me.requests < SseRequests
      /\ me.parsing = 0 /\ wire[r] = << >> /\ Coming(r) = << >>
      /\ \A id \in Nat : Owed(r, id) => Accounted(me, << >>, id)
  BY ReaderIs DEF Sse!Request
<1>2. me.lastId \in Nat /\ me.lastId <= messageId /\ me.from \in Nat /\ me.requests \in 0..SseRequests
      /\ me.evicted \subseteq SseIds
  BY <1>1 DEF ReaderType, SseIds, Written, InOrder
\* the missed messages
<1>3. /\ missed \in Seq(Nat) /\ Len(missed) \in Nat
      /\ \A i \in 1..Len(missed) : missed[i] > me.lastId /\ missed[i] <= messageId
      /\ \A i, j \in 1..Len(missed) : i < j => missed[i] < missed[j]
      /\ me.lastId # 0 => \A id \in me.lastId + 1..messageId : Sse!Buffered(id) => Has(missed, id)
  <2>1. CASE me.lastId = 0
    <3>1. missed = << >>
      BY <2>1 DEF Sse!Missed
    <3> HIDE DEF missed
    <3> QED BY <2>1, <3>1, EmptySeq
  <2>2. CASE me.lastId # 0
    <3> DEFINE low == IF me.lastId < messageId - BufferSize THEN messageId - BufferSize ELSE me.lastId
               k == messageId - low
    <3>1. low \in Nat /\ k \in Nat /\ low >= me.lastId /\ low + k = messageId
          /\ \A id \in me.lastId + 1..messageId : Sse!Buffered(id) => id - low \in 1..k /\ low + (id - low) = id
      BY <1>0, <1>1, <1>2, SMTT(30) DEF Sse!Buffered
    <3>2. missed = [i \in 1..k |-> low + i]
      BY <2>2 DEF Sse!Missed, Sse!BufferedAfter
    <3> HIDE DEF missed, low, k
    <3>3. missed \in Seq(Nat) /\ Len(missed) = k /\ \A i \in 1..k : missed[i] = low + i
      BY <3>1, <3>2
    <3>4. \A i \in 1..Len(missed) : missed[i] > me.lastId /\ missed[i] <= messageId
      BY <1>2, <3>1, <3>3
    <3>5. \A i, j \in 1..Len(missed) : i < j => missed[i] < missed[j]
      BY <3>1, <3>3
    <3>6. \A id \in me.lastId + 1..messageId : Sse!Buffered(id) => Has(missed, id)
      BY <3>1, <3>3 DEF Has
    <3> QED BY <3>1, <3>3, <3>4, <3>5, <3>6
  <2> QED BY <2>1, <2>2
<1> HIDE DEF missed
<1>4. /\ backlog \in Seq(Written) /\ Len(backlog) = Len(missed) + 1 /\ backlog[Len(missed) + 1] = 0
      /\ \A i \in 1..Len(missed) : backlog[i] = missed[i]
  <2>1. \A i \in 1..Len(missed) : missed[i] \in Written
    BY <1>1, <1>2, <1>3, ElementOfSeq DEF Written, SseIds
  <2>2. missed \in Seq(Written)
    <3>1. missed \in [1..Len(missed) -> Nat]
      BY <1>3, LenProperties
    <3>2. missed \in [1..Len(missed) -> Written]
      BY <2>1, <3>1
    <3> QED BY <1>3, <3>2
  <2>3. 0 \in Written /\ Sse!Greeting = 0
    BY DEF Written, Sse!Greeting
  <2> QED BY <2>2, <2>3, AppendProperties
<1> HIDE DEF backlog
<1>5. s \in StreamType /\ s.open /\ s.backlog = backlog /\ s.queue = << >>
  BY <1>4, EmptySeq DEF StreamType
<1>6. /\ from \in Written /\ evicted \subseteq SseIds /\ me.evicted \subseteq evicted
      /\ me.lastId # 0 => \A id \in me.lastId + 1..messageId : ~ Sse!Buffered(id) => id \in evicted
      /\ me.lastId = 0 => from = messageId
      /\ me.lastId # 0 => from = me.from
  BY <1>1, <1>2 DEF SseIds, Written, ReaderType
<1> HIDE DEF s, from, evicted
<1>7. /\ new \in ReaderType /\ new.lastId = me.lastId /\ new.parsing = me.parsing
      /\ new.given = me.given /\ new.from = from /\ new.torn = me.torn /\ new.evicted = evicted
  <2>1. me.requests + 1 \in 0..SseRequests
    BY <1>0, <1>1, <1>2
  <2> QED BY <1>1, <1>6, <2>1 DEF ReaderType
<1>8. stream' = [stream EXCEPT ![r] = s]
  BY DEF Sse!Request, s, backlog, missed
<1>9. reader' = [reader EXCEPT ![r] = new]
  BY DEF Sse!Request, from, evicted
<1>10. messageId' = messageId /\ wire' = [wire EXCEPT ![r] = wire[r]]
  BY SseTypes DEF Sse!Request, SseInv
<1>11. wire[r] \o (s.backlog \o s.queue) = backlog
  BY <1>1, <1>4, <1>5, EmptySeq, ConcatEmptySeq
<1> HIDE DEF new
<1>12. InOrder(new, backlog)
  <2>1. \A i \in 1..Len(backlog) : backlog[i] <= messageId /\ (backlog[i] # 0 => backlog[i] > new.lastId)
    BY <1>1, <1>3, <1>4, <1>7
  <2>2. \A i, j \in 1..Len(backlog) :
          i < j /\ backlog[i] # 0 /\ backlog[j] # 0 => backlog[i] < backlog[j]
    BY <1>3, <1>4
  <2> QED BY <1>1, <1>7, <2>1, <2>2 DEF InOrder
<1>13. ASSUME NEW id \in Nat, id > new.from, (id <= messageId /\ s.open) \/ id <= new.lastId
       PROVE  Accounted(new, backlog, id)
  <2>1. me.lastId # 0 /\ id > me.from
    BY <1>1, <1>2, <1>6, <1>7, <1>13
  <2>2. CASE id <= me.lastId
    <3>1. Accounted(me, << >>, id)
      BY <1>1, <2>1, <2>2 DEF Owed
    <3> QED BY <1>6, <1>7, <3>1, EmptySeq DEF Accounted, Has
  <2>3. CASE id > me.lastId /\ Sse!Buffered(id)
    <3>1. Has(missed, id)
      BY <1>1, <1>2, <1>3, <1>13, <2>1, <2>3 DEF Sse!Buffered
    <3> QED BY <1>3, <1>4, <3>1 DEF Accounted, Has
  <2>4. CASE id > me.lastId /\ ~ Sse!Buffered(id)
    <3>1. id \in me.lastId + 1..messageId
      BY <1>1, <1>2, <1>7, <1>13, <2>4
    <3> QED BY <1>6, <1>7, <2>1, <2>4, <3>1 DEF Accounted
  <2> QED BY <1>2, <2>2, <2>3, <2>4
<1>14. wire[r] \in Seq(Written)
  BY ReaderIs
<1> HIDE DEF me
<1> QED
  BY <1>5, <1>7, <1>8, <1>9, <1>10, <1>11, <1>12, <1>13, <1>14, OneReader

\* A yield moves the head of what comes, and changes nothing else.
LEMMA SseYield == ASSUME SseInv, NEW r \in Readers, Sse!Yield(r) PROVE SseInv'
<1> DEFINE me == reader[r]  w == wire[r]  b == stream[r].backlog  q == stream[r].queue
<1>1. /\ stream[r] \in StreamType /\ me \in ReaderType /\ stream[r].open
      /\ InOrder(me, Coming(r)) /\ messageId' = messageId
      /\ \A id \in Nat : Owed(r, id) => Accounted(me, Coming(r), id)
  BY ReaderIs DEF Sse!Yield
<1>2. w \in Seq(Written) /\ b \in Seq(Written) /\ q \in Seq(Written) /\ q \in Seq(SseIds)
  BY <1>1, SseSequences DEF SseInv, StreamType
<1>3. reader' = [reader EXCEPT ![r] = me]
  BY SseTypes DEF Sse!Yield, SseInv
<1>4. ASSUME NEW s \in StreamType, NEW x \in Seq(Written), s.open,
             x \o (s.backlog \o s.queue) = Coming(r),
             stream' = [stream EXCEPT ![r] = s], wire' = [wire EXCEPT ![r] = x]
      PROVE  SseInv'
  <2> DEFINE coming == Coming(r)
  <2>1. \A id \in Nat : id > me.from /\ ((id <= messageId /\ s.open) \/ id <= me.lastId)
                          => Accounted(me, coming, id)
    BY <1>1, <1>4 DEF Owed
  <2>2. coming = x \o (s.backlog \o s.queue) /\ InOrder(me, coming)
    BY <1>1, <1>4
  <2> HIDE DEF me, coming
  <2> QED BY <1>1, <1>3, <1>4, <2>1, <2>2, OneReader
<1>5. CASE b # << >>
  <2> DEFINE s == [stream[r] EXCEPT !.backlog = Tail(b)]  x == Append(w, Head(b))
  <2>1. Head(b) \in Written /\ Tail(b) \in Seq(Written)
    BY <1>2, <1>5, HeadTailProperties
  <2>2. s \in StreamType /\ s.open /\ s.backlog = Tail(b) /\ s.queue = q
    BY <1>1, <2>1 DEF StreamType
  <2>3. x \in Seq(Written)
    BY <1>2, <2>1, AppendProperties
  <2>4. stream' = [stream EXCEPT ![r] = s] /\ wire' = [wire EXCEPT ![r] = x]
    BY <1>5 DEF Sse!Yield
  <2>5. x \o (s.backlog \o s.queue) = Coming(r)
    <3> HIDE DEF s, w, b, q
    <3>1. x \o (Tail(b) \o q) = (x \o Tail(b)) \o q
      BY <1>2, <2>1, <2>3, ConcatAssociative, SMTT(30)
    <3>2. x \o Tail(b) = w \o b
      BY <1>2, <1>5, MoveHead
    <3>3. (w \o b) \o q = w \o (b \o q)
      BY <1>2, ConcatAssociative
    <3>4. Coming(r) = w \o (b \o q)
      BY DEF Coming, w, b, q
    <3> QED BY <2>2, <3>1, <3>2, <3>3, <3>4
  <2> HIDE DEF s, x
  <2> QED BY <1>4, <2>2, <2>3, <2>4, <2>5
<1>6. CASE b = << >>
  <2> DEFINE s == [stream[r] EXCEPT !.queue = Tail(q)]  x == Append(w, Head(q))
  <2>0. q # << >>
    BY <1>6 DEF Sse!Yield
  <2>1. Head(q) \in Written /\ Tail(q) \in Seq(SseIds) /\ Tail(q) \in Seq(Written)
    BY <1>2, <2>0, HeadTailProperties
  <2>2. s \in StreamType /\ s.open /\ s.backlog = b /\ s.queue = Tail(q)
    BY <1>1, <2>1 DEF StreamType
  <2>3. x \in Seq(Written)
    BY <1>2, <2>1, AppendProperties
  <2>4. stream' = [stream EXCEPT ![r] = s] /\ wire' = [wire EXCEPT ![r] = x]
    BY <1>6 DEF Sse!Yield
  <2>5. x \o (s.backlog \o s.queue) = Coming(r)
    <3> HIDE DEF s, w, b, q
    <3>1. b \o Tail(q) = Tail(q) /\ b \o q = q
      BY <1>2, <1>6, <2>1, ConcatEmptySeq
    <3>2. x \o Tail(q) = w \o q
      BY <1>2, <2>0, MoveHead
    <3>3. Coming(r) = w \o (b \o q)
      BY DEF Coming, w, b, q
    <3> QED BY <2>2, <3>1, <3>2, <3>3
  <2> HIDE DEF s, x
  <2> QED BY <1>4, <2>2, <2>3, <2>4, <2>5
<1> QED BY <1>5, <1>6

\* An id line moves lastId to what it announces.
LEMMA SseReadId == ASSUME SseInv, NEW r \in Readers, Sse!ReadId(r) PROVE SseInv'
<1> DEFINE old == reader[r]  head == Head(wire[r])  w == Tail(wire[r])  rest == stream[r].backlog \o stream[r].queue
           coming == w \o rest
           me == IF head = 0 THEN old ELSE [old EXCEPT !.lastId = head, !.parsing = head]
<1>1. /\ stream[r] \in StreamType /\ old \in ReaderType /\ wire[r] # << >> /\ old.parsing = 0
      /\ InOrder(old, Coming(r)) /\ messageId' = messageId /\ messageId \in Nat
      /\ stream[r].open
      /\ \A id \in Nat : Owed(r, id) => Accounted(old, Coming(r), id)
  BY ReaderIs DEF Sse!ReadId
<1>2. wire[r] \in Seq(Written) /\ rest \in Seq(Written)
  BY SseSequences, ConcatProperties DEF SseInv
<1>3. head \in Written /\ w \in Seq(Written)
  BY <1>1, <1>2, HeadTailProperties
<1>4. stream' = [stream EXCEPT ![r] = stream[r]] /\ wire' = [wire EXCEPT ![r] = w]
  BY SseTypes DEF Sse!ReadId, SseInv
<1>5. reader' = [reader EXCEPT ![r] = me]
  BY SseTypes DEF Sse!ReadId, SseInv, Sse!Greeting
\* the head and the rest of what comes
<1>6. /\ coming \in Seq(Written) /\ Len(coming) \in Nat /\ Len(Coming(r)) = Len(coming) + 1
      /\ Coming(r)[1] = head /\ \A i \in 1..Len(coming) : Coming(r)[i + 1] = coming[i]
  <2>1. /\ Len(wire[r]) \in Nat \ {0} /\ Len(w) = Len(wire[r]) - 1 /\ head = wire[r][1]
        /\ \A i \in 1..Len(w) : w[i] = wire[r][i + 1]
    BY <1>1, <1>2, HeadTailProperties, EmptySeq
  <2>2. /\ coming \in Seq(Written) /\ Len(coming) = Len(w) + Len(rest)
        /\ \A i \in 1..Len(w) + Len(rest) : coming[i] = IF i <= Len(w) THEN w[i] ELSE rest[i - Len(w)]
    BY <1>2, <1>3, ConcatProperties
  <2>3. /\ Len(Coming(r)) = Len(wire[r]) + Len(rest)
        /\ \A i \in 1..Len(wire[r]) + Len(rest) :
             Coming(r)[i] = IF i <= Len(wire[r]) THEN wire[r][i] ELSE rest[i - Len(wire[r])]
    BY <1>2, ConcatProperties DEF Coming
  <2>4. Len(rest) \in Nat
    BY <1>2, LenProperties
  <2> HIDE DEF coming, rest, w, head
  <2>5. ASSUME NEW i \in 1..Len(coming) PROVE Coming(r)[i + 1] = coming[i]
    <3>1. CASE i <= Len(w)
      <4>1. i \in 1..Len(w) /\ i \in 1..Len(w) + Len(rest) /\ i + 1 \in 1..Len(wire[r]) + Len(rest)
            /\ i + 1 <= Len(wire[r])
        BY <2>1, <2>2, <2>4, <3>1
      <4> QED BY <2>1, <2>2, <2>3, <3>1, <4>1
    <3>2. CASE i > Len(w)
      <4>1. (i + 1) - Len(wire[r]) = i - Len(w) /\ ~ (i + 1 <= Len(wire[r])) /\ ~ (i <= Len(w))
            /\ i \in 1..Len(w) + Len(rest) /\ i + 1 \in 1..Len(wire[r]) + Len(rest)
        BY <2>1, <2>2, <2>4, <3>2
      <4> QED BY <2>2, <2>3, <4>1
    <3> QED BY <2>1, <3>1, <3>2
  <2>6. Len(coming) \in Nat /\ Len(Coming(r)) = Len(coming) + 1 /\ Coming(r)[1] = head
    BY <2>1, <2>2, <2>3, <2>4
  <2> QED BY <2>2, <2>5, <2>6
<1> HIDE DEF coming, w, head
<1>7. /\ me \in ReaderType /\ me.given = old.given /\ me.from = old.from
      /\ me.torn = old.torn /\ me.evicted = old.evicted
      /\ head = 0 => me = old
      /\ head # 0 => me.lastId = head /\ me.parsing = head
  BY <1>1, <1>3 DEF ReaderType, Written
<1> HIDE DEF me
<1>8. old.lastId \in Nat /\ head \in Nat /\ \A i \in 1..Len(coming) : coming[i] \in Nat
  BY <1>1, <1>3, <1>6, ElementOfSeq DEF ReaderType, Written, SseIds
<1>9. \A i \in 1..Len(old.given) : old.given[i] \in Nat
  BY SseSequences, ElementOfSeq DEF SseInv
<1>10. InOrder(me, coming)
  <2>1. \A i \in 1..Len(coming) : i + 1 \in 1..Len(Coming(r)) /\ 1 \in 1..Len(Coming(r)) /\ 1 < i + 1
    BY <1>6
  <2>2. \A i \in 1..Len(coming) : coming[i] <= messageId /\ (coming[i] # 0 => coming[i] > me.lastId)
    <3> TAKE i \in 1..Len(coming)
    <3>1. coming[i] <= messageId /\ (coming[i] # 0 => coming[i] > old.lastId)
          /\ (head # 0 /\ coming[i] # 0 => head < coming[i])
      BY <1>1, <1>6, <2>1 DEF InOrder
    <3> QED BY <1>7, <1>8, <3>1
  <2>3. \A i, j \in 1..Len(coming) :
          i < j /\ coming[i] # 0 /\ coming[j] # 0 => coming[i] < coming[j]
    <3> TAKE i, j \in 1..Len(coming)
    <3>1. i < j => i + 1 < j + 1
      BY <1>6
    <3> QED BY <1>1, <1>6, <2>1, <3>1 DEF InOrder
  <2>4. 1 \in 1..Len(Coming(r))
    BY <1>6
  <2>5. head <= messageId /\ (head # 0 => head > old.lastId) /\ old.lastId <= messageId
        /\ \A i \in 1..Len(old.given) : old.given[i] <= old.lastId
    BY <1>1, <1>6, <2>4 DEF InOrder
  <2>6. me.lastId <= messageId /\ me.parsing \in {0, me.lastId}
        /\ \A i \in 1..Len(me.given) :
             me.given[i] <= me.lastId /\ (me.parsing # 0 => me.given[i] < me.parsing)
    BY <1>1, <1>7, <1>8, <1>9, <2>5
  <2> QED BY <2>2, <2>3, <2>6 DEF InOrder
<1>11. ASSUME NEW id \in Nat, id > me.from, (id <= messageId /\ stream[r].open) \/ id <= me.lastId
       PROVE  Accounted(me, coming, id)
  <2>1. id <= messageId
    BY <1>1, <1>7, <1>8, <1>10, <1>11 DEF InOrder
  <2>2. Accounted(old, Coming(r), id) /\ id # 0
    <3>1. old.from \in Nat
      BY <1>1 DEF ReaderType, Written, SseIds
    <3> QED BY <1>1, <1>7, <1>11, <2>1, <3>1 DEF Owed
  <2>3. ASSUME Has(Coming(r), id) PROVE id = head \/ Has(coming, id)
    <3>1. PICK i \in 1..Len(Coming(r)) : Coming(r)[i] = id
      BY <2>3 DEF Has
    <3>2. CASE i = 1
      BY <1>6, <3>1, <3>2
    <3>3. CASE i # 1
      <4>1. i - 1 \in 1..Len(coming) /\ (i - 1) + 1 = i
        BY <1>6, <3>3
      <4>2. coming[i - 1] = id
        BY <1>6, <3>1, <4>1
      <4> QED BY <4>1, <4>2 DEF Has
    <3> QED BY <3>2, <3>3
  <2> QED BY <1>1, <1>7, <2>2, <2>3 DEF Accounted
<1>12. coming = w \o (stream[r].backlog \o stream[r].queue)
  BY DEF coming
<1> HIDE DEF old
<1> QED BY <1>1, <1>3, <1>4, <1>5, <1>7, <1>10, <1>11, <1>12, OneReader

\* The end of an event passes on what was being parsed: a step of the feed.
LEMMA SseReadEnd ==
  ASSUME SseInv, NEW r \in Readers, Sse!ReadEnd(r)
  PROVE  SseInv' /\ Sse!AsFeed!Deliver(r)
<1> DEFINE old == reader[r]  id == old.parsing  given == old.given  coming == Coming(r)
           new == Append(given, id)
           me == [old EXCEPT !.parsing = 0, !.given = new]
<1>1. /\ stream[r] \in StreamType /\ wire[r] \in Seq(Written) /\ old \in ReaderType /\ id # 0
      /\ InOrder(old, coming) /\ messageId' = messageId /\ messageId \in Nat
      /\ stream[r].open /\ UNCHANGED <<stream, wire>>
      /\ \A x \in Nat : Owed(r, x) => Accounted(old, coming, x)
  BY ReaderIs DEF Sse!ReadEnd
<1>2. id \in SseIds /\ id \in Nat /\ given \in Seq(SseIds) /\ id = old.lastId
  BY <1>1 DEF ReaderType, SseIds, Written, InOrder
<1>3. /\ new \in Seq(SseIds) /\ Len(new) = Len(given) + 1 /\ Len(given) \in Nat /\ new[Len(given) + 1] = id
      /\ \A i \in 1..Len(given) : new[i] = given[i] /\ given[i] \in Nat /\ given[i] < id
  <2>1. Len(given) \in Nat /\ Len(new) = Len(given) + 1 /\ new \in Seq(SseIds)
        /\ new[Len(given) + 1] = id /\ \A i \in 1..Len(given) : new[i] = given[i]
    BY <1>2, AppendProperties, LenProperties
  <2>2. \A i \in 1..Len(given) : given[i] \in Nat /\ given[i] < id
    <3>1. \A i \in 1..Len(given) : given[i] \in SseIds
      BY <1>2, ElementOfSeq
    <3>2. \A i \in 1..Len(given) : given[i] < id
      BY <1>1 DEF InOrder
    <3> QED BY <3>1, <3>2 DEF SseIds
  <2> QED BY <2>1, <2>2
<1>4. reader' = [reader EXCEPT ![r] = me]
  BY SseTypes DEF Sse!ReadEnd, SseInv
<1> HIDE DEF new
<1>5. /\ me \in ReaderType /\ me.lastId = old.lastId /\ me.parsing = 0 /\ me.given = new
      /\ me.from = old.from /\ me.torn = old.torn /\ me.evicted = old.evicted
  BY <1>1, <1>3 DEF ReaderType, Written
<1> HIDE DEF me, coming
<1>6. InOrder(me, coming)
  <2>1. \A i \in 1..Len(me.given) : me.given[i] <= me.lastId
    BY <1>2, <1>3, <1>5, SMTT(30)
  <2> QED BY <1>1, <1>5, <2>1 DEF InOrder
<1>7. ASSUME NEW x \in Nat, x > me.from, (x <= messageId /\ stream[r].open) \/ x <= me.lastId
      PROVE  Accounted(me, coming, x)
  <2>1. Accounted(old, coming, x) /\ x # 0
    <3>1. old.from \in Nat
      BY <1>1 DEF ReaderType, Written, SseIds
    <3> QED BY <1>1, <1>5, <1>7, <3>1 DEF Owed
  <2>2. Has(old.given, x) \/ x = id => Has(me.given, x)
    <3>1. Len(new) \in 1..Len(new) /\ \A i \in 1..Len(given) : i \in 1..Len(new)
      BY <1>3
    <3>2. new[Len(new)] = id
      BY <1>3
    <3> QED BY <1>3, <1>5, <3>1, <3>2 DEF Has
  <2> QED BY <1>5, <2>1, <2>2 DEF Accounted
<1>8. stream' = [stream EXCEPT ![r] = stream[r]] /\ wire' = [wire EXCEPT ![r] = wire[r]]
  BY <1>1, SseTypes DEF SseInv
<1>9. coming = wire[r] \o (stream[r].backlog \o stream[r].queue)
  BY DEF coming, Coming
<1>10. SseInv'
  <2> HIDE DEF old
  <2> QED BY <1>1, <1>4, <1>5, <1>6, <1>7, <1>8, <1>9, OneReader
\* the feed
<1> DEFINE read == [x \in Readers |-> reader[x].given]
<1>11. read[r] = given /\ read'[r] = new /\ \A x \in Readers \ {r} : read'[x] = read[x]
  <2>1. reader'[r] = me /\ \A x \in Readers \ {r} : reader'[x] = reader[x]
    BY <1>4, SseTypes DEF SseInv
  <2> QED BY <1>5, <2>1
<1>12. Sse!AsFeed!Last(given) \in Nat /\ Sse!AsFeed!Last(given) < id
  <2>1. CASE given = << >>
    BY <1>1, <1>2, <2>1 DEF Sse!AsFeed!Last
  <2>2. CASE given # << >>
    <3>1. Len(given) \in 1..Len(given)
      BY <1>2, <2>2, EmptySeq
    <3> QED BY <1>3, <2>2, <3>1 DEF Sse!AsFeed!Last
  <2> QED BY <2>1, <2>2
<1>13. SubSeq(new, Len(given) + 1, Len(new)) = <<id>> /\ SubSeq(new, 1, Len(given)) = given
  <2> DEFINE tail == SubSeq(new, Len(given) + 1, Len(new))  head == SubSeq(new, 1, Len(given))
  <2>1. tail = <<id>>
    <3> DEFINE m == Len(given) + 1
    <3>1. m \in Nat /\ Len(new) = m /\ m - m + 1 = 1 /\ 1 + m - 1 = m /\ m + 1 - 1 = m /\ new[m] = id
          /\ new[m] \in SseIds
      BY <1>2, <1>3
    <3> HIDE DEF m, tail
    <3>2. \A i \in m..m : new[i] \in SseIds
      BY <3>1
    <3>3. /\ SubSeq(new, m, m) \in Seq(SseIds) /\ Len(SubSeq(new, m, m)) = m - m + 1
          /\ \A i \in 1..m - m + 1 : SubSeq(new, m, m)[i] = new[m + i - 1]
      BY <3>1, <3>2, SubSeqProperties
    <3>4. tail = SubSeq(new, m, m)
      BY <3>1 DEF tail, m
    <3>5. m \in m..m /\ 1 \in 1..m - m + 1 /\ m + 1 - 1 = m
      BY <3>1
    <3>6. SubSeq(new, m, m)[1] = id
      BY <3>1, <3>3, <3>5
    <3>7. tail \in Seq(SseIds) /\ Len(tail) = 1
      BY <3>1, <3>3, <3>4
    <3>8. tail = <<tail[1]>>
      BY <3>7, OneElement
    <3> QED BY <3>4, <3>6, <3>8
  <2>2. head = given
    <3>1. \A i \in 1..Len(given) : new[i] \in SseIds /\ new[i] = given[i]
      BY <1>2, <1>3, ElementOfSeq
    <3>2. /\ head \in Seq(SseIds) /\ Len(head) = (IF 1 <= Len(given) THEN Len(given) - 1 + 1 ELSE 0)
          /\ \A i \in 1..Len(given) - 1 + 1 : head[i] = new[1 + i - 1]
      BY <1>3, <3>1, SubSeqProperties
    <3> HIDE DEF head
    <3>3. Len(head) = Len(given)
      BY <1>3, <3>2
    <3>4. ASSUME NEW i \in 1..Len(head) PROVE head[i] = given[i]
      <4>1. i \in 1..Len(given) - 1 + 1 /\ 1 + i - 1 = i /\ i \in 1..Len(given)
        BY <1>3, <3>3
      <4> QED BY <3>1, <3>2, <4>1
    <3> QED BY <1>2, <3>2, <3>3, <3>4, SeqEqual
  <2> QED BY <2>1, <2>2
<1>14. id <= messageId
  BY <1>1, <1>2 DEF InOrder
<1>15. Sse!AsFeed!Ascending(<<Sse!AsFeed!Last(given)>> \o <<id>>) /\ <<id>> # << >>
       /\ Sse!AsFeed!Last(<<id>>) = id
  BY <1>12 DEF Sse!AsFeed!Ascending, Sse!AsFeed!Last
<1>16. Sse!AsFeed!Deliver(r)
  <2> HIDE DEF given, id
  <2> QED BY <1>1, <1>11, <1>13, <1>14, <1>15 DEF Sse!AsFeed!Deliver
<1> QED BY <1>10, <1>16

\* A reader that leaves loses what was on its way, of which it has seen nothing,
\* and tears the message it was parsing.
LEMMA SseLeave == ASSUME SseInv, NEW r \in Readers, Sse!Leave(r) PROVE SseInv'
<1> DEFINE old == reader[r]  torn == old.torn \cup ({old.parsing} \ {0})
           me == [old EXCEPT !.parsing = 0, !.torn = torn]  s == Sse!Closed
<1>1. /\ old \in ReaderType /\ InOrder(old, Coming(r)) /\ messageId' = messageId /\ messageId \in Nat
      /\ stream[r].open
      /\ \A x \in Nat : Owed(r, x) => Accounted(old, Coming(r), x)
  BY ReaderIs DEF Sse!Leave
<1>2. /\ torn \subseteq SseIds /\ old.torn \subseteq torn /\ (old.parsing # 0 => old.parsing \in torn)
      /\ old.lastId \in Nat /\ old.lastId <= messageId /\ old.from \in Nat
  BY <1>1 DEF ReaderType, Written, SseIds, InOrder
<1>3. stream' = [stream EXCEPT ![r] = s] /\ wire' = [wire EXCEPT ![r] = << >>]
      /\ reader' = [reader EXCEPT ![r] = me]
  BY DEF Sse!Leave
<1>4. s \in StreamType /\ ~ s.open /\ << >> \o (s.backlog \o s.queue) = << >> /\ << >> \in Seq(Written)
  <2>1. s \in StreamType /\ ~ s.open /\ s.backlog = << >> /\ s.queue = << >>
    BY EmptySeq DEF Sse!Closed, StreamType
  <2> QED BY <2>1, EmptySeq, ConcatEmptySeq
<1> HIDE DEF torn, s
<1>5. /\ me \in ReaderType /\ me.lastId = old.lastId /\ me.parsing = 0 /\ me.given = old.given
      /\ me.from = old.from /\ me.torn = torn /\ me.evicted = old.evicted
  BY <1>1, <1>2 DEF ReaderType, Written
<1> HIDE DEF me
<1>6. InOrder(me, << >>)
  BY <1>1, <1>5, EmptySeq DEF InOrder
<1>7. ASSUME NEW x \in Nat, x > me.from, (x <= messageId /\ s.open) \/ x <= me.lastId
      PROVE  Accounted(me, << >>, x)
  <2>1. x <= old.lastId /\ x # 0 /\ Owed(r, x)
    BY <1>2, <1>4, <1>5, <1>7 DEF Owed
  <2>2. Accounted(old, Coming(r), x)
    BY <1>1, <2>1
  <2>3. ~ Has(Coming(r), x)
    BY <1>1, <1>2, <2>1 DEF InOrder, Has
  <2> QED BY <1>2, <1>5, <2>1, <2>2, <2>3 DEF Accounted
<1> HIDE DEF old
<1> QED BY <1>1, <1>3, <1>4, <1>5, <1>6, <1>7, OneReader

\* Every step keeps the invariant, and is one of a feed with gaps, or none.
LEMMA SseStep ==
  SseInv /\ [Sse!Next]_sseVars
    => SseInv' /\ [Sse!AsFeed!Next]_<<messageId, [r \in Readers |-> reader[r].given]>>
<1> DEFINE given == [r \in Readers |-> reader[r].given]
<1> SUFFICES ASSUME SseInv, [Sse!Next]_sseVars
             PROVE  SseInv' /\ [Sse!AsFeed!Next]_<<messageId, given>>
  OBVIOUS
<1>1. CASE Sse!SendMessage
  <2>1. given' = given /\ messageId' = messageId + 1
    BY <1>1 DEF Sse!SendMessage
  <2> QED BY <1>1, <2>1, SseSend DEF Sse!AsFeed!Next, Sse!AsFeed!Publish
<1>2. ASSUME NEW r \in Readers, Sse!ReadEnd(r) PROVE SseInv' /\ Sse!AsFeed!Next
  BY <1>2, SseReadEnd DEF Sse!AsFeed!Next
<1>3. ASSUME NEW r \in Readers, Sse!Request(r) \/ Sse!Yield(r) \/ Sse!ReadId(r) \/ Sse!Leave(r)
      PROVE  SseInv' /\ UNCHANGED <<messageId, given>>
  <2>1. SseInv'
    BY <1>3, SseRequest, SseYield, SseReadId, SseLeave
  <2>2. messageId' = messageId
    BY <1>3 DEF Sse!Request, Sse!Yield, Sse!ReadId, Sse!Leave
  <2>3. \A x \in Readers : reader[x] \in ReaderType
    BY ReaderIs
  <2>4. \A x \in Readers : reader'[x].given = reader[x].given
    <3> TAKE x \in Readers
    <3>0. reader \in [Readers -> ReaderType]
      BY SseTypes DEF SseInv
    <3>1. CASE Sse!Request(r)
      BY <2>3, <3>0, <3>1 DEF ReaderType, Sse!Request
    <3>2. CASE Sse!Yield(r)
      BY <3>2 DEF Sse!Yield
    <3>3. CASE Sse!ReadId(r)
      BY <2>3, <3>0, <3>3 DEF ReaderType, Sse!ReadId
    <3>4. CASE Sse!Leave(r)
      BY <2>3, <3>0, <3>4 DEF ReaderType, Sse!Leave
    <3> QED BY <1>3, <3>1, <3>2, <3>3, <3>4
  <2> QED BY <2>1, <2>2, <2>4
<1>4. CASE UNCHANGED sseVars
  <2>1. UNCHANGED <<messageId, given>>
    BY <1>4 DEF sseVars
  <2>2. messageId' = messageId /\ stream' = stream /\ wire' = wire /\ reader' = reader
    BY <1>4 DEF sseVars
  <2>3. Sse!TypeOK'
    BY <2>2 DEF SseInv, Sse!TypeOK
  <2>4. \A r \in Readers : Coming(r)' = Coming(r)
    BY <2>2 DEF Coming
  <2>5. ASSUME NEW r \in Readers PROVE InOrder(reader[r], Coming(r))'
    <3>1. InOrder(reader[r], Coming(r))
      BY ReaderIs
    <3> QED BY <2>2, <2>4, <3>1 DEF InOrder
  <2>6. ASSUME NEW r \in Readers, NEW id \in Nat, Owed(r, id)' PROVE Accounted(reader[r], Coming(r), id)'
    <3>1. Owed(r, id)
      BY <2>2, <2>6 DEF Owed
    <3>2. Accounted(reader[r], Coming(r), id)
      BY <3>1, ReaderIs
    <3> QED BY <2>2, <2>4, <3>2 DEF Accounted
  <2>7. \A r \in Readers : ~ stream'[r].open => reader'[r].parsing = 0 /\ wire'[r] = << >> /\ Coming(r)' = << >>
    BY <2>2, <2>4, ReaderIs
  <2>8. StreamsInOrder'
    BY <2>5, <2>6, <2>7 DEF StreamsInOrder
  <2> QED BY <2>1, <2>3, <2>8 DEF SseInv
<1> QED BY <1>1, <1>2, <1>3, <1>4 DEF Sse!Next

\* stream complete
LEMMA StreamsComplete == SseInv => StreamComplete
<1> SUFFICES ASSUME SseInv, NEW r \in Readers, stream[r].open, NEW id \in reader[r].from + 1..messageId
             PROVE  \/ id \in Sse!ToSet(reader[r].given) \cup {reader[r].parsing} \cup Sse!ToSet(wire[r])
                    \/ id \in Sse!ToSet(stream[r].backlog) \cup Sse!ToSet(stream[r].queue)
                    \/ id \in reader[r].torn \cup reader[r].evicted
  BY DEF StreamComplete, Sse!StreamComplete
<1> DEFINE w == wire[r]  b == stream[r].backlog  q == stream[r].queue
<1>1. w \in Seq(Written) /\ b \in Seq(Written) /\ q \in Seq(Written) /\ reader[r].given \in Seq(Nat)
  BY SseSequences DEF SseInv
<1>2. id \in Nat /\ Owed(r, id)
  <2>1. reader[r].from \in Nat /\ messageId \in Nat
    BY ReaderIs DEF ReaderType, Written, SseIds
  <2> QED BY <2>1 DEF Owed
<1>3. Accounted(reader[r], Coming(r), id)
  BY <1>2, ReaderIs
<1>4. ASSUME NEW s \in Seq(Nat), Has(s, id) PROVE id \in Sse!ToSet(s)
  BY <1>4 DEF Has, Sse!ToSet
<1>5. ASSUME NEW s \in Seq(Written), Has(s, id) PROVE id \in Sse!ToSet(s)
  BY <1>5 DEF Has, Sse!ToSet
<1>6. ASSUME NEW s \in Seq(Written), NEW t \in Seq(Written), Has(s \o t, id) PROVE Has(s, id) \/ Has(t, id)
  <2>1. PICK i \in 1..Len(s \o t) : (s \o t)[i] = id
    BY <1>6 DEF Has
  <2>2. /\ Len(s \o t) = Len(s) + Len(t) /\ Len(s) \in Nat /\ Len(t) \in Nat
        /\ (s \o t)[i] = IF i <= Len(s) THEN s[i] ELSE t[i - Len(s)]
    BY ConcatProperties, LenProperties
  <2>3. CASE i <= Len(s)
    BY <2>1, <2>2, <2>3 DEF Has
  <2>4. CASE i > Len(s)
    <3>1. i - Len(s) \in 1..Len(t) /\ t[i - Len(s)] = id
      BY <2>1, <2>2, <2>4
    <3> QED BY <3>1 DEF Has
  <2> QED BY <2>1, <2>2, <2>3, <2>4
<1>7. Has(Coming(r), id) => Has(w, id) \/ Has(b, id) \/ Has(q, id)
  <2>1. b \o q \in Seq(Written)
    BY <1>1, ConcatProperties
  <2>2. Has(Coming(r), id) => Has(w, id) \/ Has(b \o q, id)
    BY <1>1, <1>6, <2>1 DEF Coming
  <2> QED BY <1>1, <1>6, <2>2
<1> QED BY <1>1, <1>3, <1>4, <1>5, <1>7 DEF Accounted

-----------------------------------------------------------------------------
(* The rooms.                                                              *)

\* A client's record in `handler`.
HandlerType == [at : {"accepted", "welcome", "serving", "gone"}, note : Room!Notes, frames : Nat,
                audience : SUBSET Clients, todo : SUBSET Clients]

RoomInv == Room!TypeOK /\ MessagesReachRoom

\* Nobody has joined, and nothing is being sent.
LEMMA RoomInit == Room!Init => RoomInv
<1> SUFFICES ASSUME Room!Init PROVE RoomInv
  OBVIOUS
<1>1. Room!None \in Room!Notes
  BY DEF Room!None, Room!Notes
<1>2. ASSUME NEW c \in Clients
      PROVE  handler[c] \in HandlerType /\ handler[c].at = "accepted" /\ handler[c].audience = {}
  BY <1>1 DEF Room!Init, Room!NewHandler, HandlerType
<1>3. handler \in [Clients -> HandlerType]
  BY <1>2 DEF Room!Init
<1>4. received \in [Clients -> [Clients -> Room!Notes]] /\ socket \in [Clients -> BOOLEAN]
  BY <1>1 DEF Room!Init, Room!NothingYet
<1>5. DOMAIN client_info = {} /\ Room!Range(client_info) = {}
  BY DEF Room!Init, Room!Range
<1>6. rooms = [room \in Room!Range(client_info) |-> {c \in DOMAIN client_info : client_info[c] = room}]
  BY <1>5 DEF Room!Init
<1>7. Room!TypeOK
  BY <1>2, <1>3, <1>4, <1>5, <1>6 DEF Room!TypeOK, HandlerType
<1>8. MessagesReachRoom
  BY <1>2 DEF MessagesReachRoom, Room!MessagesReachRoom
<1> QED BY <1>7, <1>8 DEF RoomInv

\* The parts of the state, one by one.
LEMMA RoomIs ==
  ASSUME RoomInv
  PROVE  /\ DOMAIN client_info = {c \in Clients : handler[c].at \in {"welcome", "serving"}}
         /\ rooms = [room \in Room!Range(client_info) |-> {c \in DOMAIN client_info : client_info[c] = room}]
         /\ Room!Range(client_info) \subseteq Rooms
         /\ socket \in [Clients -> BOOLEAN]
         /\ handler \in [Clients -> HandlerType]
         /\ received \in [Clients -> [Clients -> Room!Notes]]
         /\ \A c, r \in Clients : r \in handler[c].audience /\ socket[r]
                                    => r \in handler[c].todo \/ received[r][c] = handler[c].note
BY DEF RoomInv, Room!TypeOK, HandlerType, MessagesReachRoom, Room!MessagesReachRoom

\* Whoever is in a room is registered there.
LEMMA InRoom ==
  ASSUME RoomInv, NEW x
  PROVE  Room!In(rooms, x) = {c \in DOMAIN client_info : client_info[c] = x}
BY RoomIs DEF Room!In, Room!Range

\* The registries agree after a step that leaves them alone, and nobody joining
\* or leaving.
LEMMA RoomSame ==
  ASSUME RoomInv, UNCHANGED <<rooms, client_info>>,
         socket' \in [Clients -> BOOLEAN], handler' \in [Clients -> HandlerType],
         received' \in [Clients -> [Clients -> Room!Notes]],
         \A c \in Clients : handler'[c].at \in {"welcome", "serving"}
                              <=> handler[c].at \in {"welcome", "serving"}
  PROVE  Room!TypeOK'
<1>1. DOMAIN client_info = {c \in Clients : handler'[c].at \in {"welcome", "serving"}}
  BY RoomIs
<1> QED BY <1>1, RoomIs, SMTT(30) DEF Room!TypeOK, HandlerType, Room!Range

\* A broadcast starts: the whole audience has yet to be served.
LEMMA BroadcastReaches ==
  ASSUME RoomInv, NEW c \in Clients, NEW audience \in SUBSET Clients,
         NEW kind \in {"joined", "message", "typing", "left"}, NEW frames \in Nat,
         NEW state \in {"serving", "gone"}, Room!Broadcast(c, audience, kind, frames, state),
         UNCHANGED <<socket, received>>
  PROVE  /\ handler' \in [Clients -> HandlerType] /\ handler'[c].at = state
         /\ \A d \in Clients \ {c} : handler'[d] = handler[d]
         /\ MessagesReachRoom'
<1> DEFINE new == [at |-> state, note |-> <<frames, kind>>, frames |-> frames,
                   audience |-> audience, todo |-> audience]
<1>1. handler' = [handler EXCEPT ![c] = new]
  BY DEF Room!Broadcast
<1>2. new \in HandlerType /\ new.at = state /\ new.audience = audience /\ new.todo = audience
  BY DEF HandlerType, Room!Notes
<1> HIDE DEF new
<1>3. handler' \in [Clients -> HandlerType] /\ handler'[c] = new
      /\ \A d \in Clients \ {c} : handler'[d] = handler[d]
  BY <1>1, <1>2, RoomIs
<1>4. ASSUME NEW d \in Clients, NEW r \in Clients, r \in handler'[d].audience, socket[r]
      PROVE  r \in handler'[d].todo \/ received[r][d] = handler'[d].note
  BY <1>2, <1>3, <1>4, RoomIs
<1> QED BY <1>2, <1>3, <1>4 DEF MessagesReachRoom, Room!MessagesReachRoom

\* The registries without a client that leaves.
LEMMA WithoutIs ==
  ASSUME RoomInv, NEW c \in DOMAIN client_info,
         client_info' = [d \in DOMAIN client_info \ {c} |-> client_info[d]]
  PROVE  Room!Without(c) = [room \in Room!Range(client_info')
                              |-> {d \in DOMAIN client_info' : client_info'[d] = room}]
<1> DEFINE mine == client_info[c]
           left == DOMAIN rooms \ (IF Room!In(rooms, mine) = {c} THEN {mine} ELSE {})
<1>1. DOMAIN rooms = Room!Range(client_info) /\ DOMAIN client_info' = DOMAIN client_info \ {c}
      /\ \A d \in DOMAIN client_info' : client_info'[d] = client_info[d]
  BY RoomIs
<1>2. left = Room!Range(client_info')
  <2>1. CASE Room!In(rooms, mine) = {c}
    BY <1>1, <2>1, InRoom DEF Room!Range
  <2>2. CASE Room!In(rooms, mine) # {c}
    <3>1. PICK d \in DOMAIN client_info : d # c /\ client_info[d] = mine
      BY <2>2, InRoom
    <3> QED BY <1>1, <2>2, <3>1 DEF Room!Range
  <2> QED BY <2>1, <2>2
<1>3. ASSUME NEW room \in left
      PROVE  rooms[room] \ {c} = {d \in DOMAIN client_info' : client_info'[d] = room}
  <2>1. rooms[room] = {d \in DOMAIN client_info : client_info[d] = room}
    BY RoomIs
  <2> QED BY <1>1, <2>1
<1>4. Room!Without(c) = [room \in left |-> rooms[room] \ {c}]
  BY DEF Room!Without
<1> HIDE DEF left
<1> QED BY <1>2, <1>3, <1>4

\* Joins, and broadcasts however they interleave, keep the invariant.
LEMMA RoomStep == RoomInv /\ [Room!Next]_roomVars => RoomInv'
<1> SUFFICES ASSUME RoomInv, [Room!Next]_roomVars PROVE RoomInv'
  OBVIOUS
<1>1. ASSUME NEW c \in Clients, NEW room \in Rooms, Room!Join(c, room) PROVE RoomInv'
  <2>1. handler[c].at = "accepted" /\ UNCHANGED <<socket, received>>
        /\ handler' = [handler EXCEPT ![c].at = "welcome"]
        /\ client_info' = [d \in DOMAIN client_info \cup {c} |-> IF d = c THEN room ELSE client_info[d]]
        /\ rooms' = [r \in DOMAIN rooms \cup {room} |->
                       Room!In(rooms, r) \cup (IF r = room THEN {c} ELSE {})]
    BY <1>1 DEF Room!Join
  <2>2. c \notin DOMAIN client_info
    BY <2>1, RoomIs
  <2>3. /\ handler' \in [Clients -> HandlerType] /\ handler'[c].at = "welcome"
        /\ handler'[c].audience = handler[c].audience /\ handler'[c].todo = handler[c].todo
        /\ handler'[c].note = handler[c].note
        /\ \A d \in Clients \ {c} : handler'[d] = handler[d]
    BY <2>1, RoomIs DEF HandlerType
  <2>4. DOMAIN client_info' = {d \in Clients : handler'[d].at \in {"welcome", "serving"}}
    BY <2>1, <2>3, RoomIs
  <2>5. Room!Range(client_info') = Room!Range(client_info) \cup {room}
    BY <2>1, <2>2 DEF Room!Range
  <2>6. DOMAIN rooms = Room!Range(client_info)
    BY RoomIs
  <2>7. ASSUME NEW r \in DOMAIN rooms \cup {room}
        PROVE  Room!In(rooms, r) \cup (IF r = room THEN {c} ELSE {})
                 = {d \in DOMAIN client_info' : client_info'[d] = r}
    BY <2>1, <2>2, InRoom
  <2>8. rooms' = [r \in Room!Range(client_info') |-> {d \in DOMAIN client_info' : client_info'[d] = r}]
    BY <2>1, <2>5, <2>6, <2>7
  <2>9. Room!TypeOK'
    BY <2>1, <2>3, <2>4, <2>5, <2>8, RoomIs DEF Room!TypeOK, HandlerType
  <2>10. MessagesReachRoom'
    BY <2>1, <2>3, RoomIs DEF MessagesReachRoom, Room!MessagesReachRoom
  <2> QED BY <2>9, <2>10 DEF RoomInv
<1>2. ASSUME NEW c \in Clients, Room!Refuse(c) PROVE RoomInv'
  <2>1. handler[c].at = "accepted" /\ UNCHANGED <<rooms, client_info, received>>
        /\ handler' = [handler EXCEPT ![c].at = "gone"] /\ socket' = [socket EXCEPT ![c] = FALSE]
    BY <1>2 DEF Room!Refuse
  <2>2. /\ handler' \in [Clients -> HandlerType] /\ handler'[c].at = "gone"
        /\ handler'[c].audience = handler[c].audience /\ handler'[c].todo = handler[c].todo
        /\ handler'[c].note = handler[c].note
        /\ \A d \in Clients \ {c} : handler'[d] = handler[d]
    BY <2>1, RoomIs DEF HandlerType
  <2>3. socket' \in [Clients -> BOOLEAN] /\ \A d \in Clients : socket'[d] => socket[d]
    BY <2>1, RoomIs
  <2>4. Room!TypeOK'
    BY <2>1, <2>2, <2>3, RoomIs, RoomSame
  <2>5. MessagesReachRoom'
    BY <2>1, <2>2, <2>3, RoomIs DEF MessagesReachRoom, Room!MessagesReachRoom
  <2> QED BY <2>4, <2>5 DEF RoomInv
<1>3. ASSUME NEW c \in Clients, NEW audience \in SUBSET Clients,
             NEW kind \in {"joined", "message", "typing"}, NEW frames \in Nat,
             Room!Broadcast(c, audience, kind, frames, "serving"),
             handler[c].at \in {"welcome", "serving"},
             UNCHANGED <<rooms, client_info, socket, received>>
      PROVE  RoomInv'
  <2>1. /\ handler' \in [Clients -> HandlerType] /\ handler'[c].at = "serving"
        /\ \A d \in Clients \ {c} : handler'[d] = handler[d]
        /\ MessagesReachRoom'
    BY <1>3, BroadcastReaches
  <2>2. Room!TypeOK'
    BY <1>3, <2>1, RoomIs, RoomSame
  <2> QED BY <2>1, <2>2 DEF RoomInv
<1>4. ASSUME NEW c \in Clients PROVE handler[c].frames \in Nat /\ \A x : Room!In(rooms, x) \in SUBSET Clients
  BY RoomIs, InRoom DEF HandlerType
<1>5. ASSUME NEW c \in Clients, Room!Welcome(c) PROVE RoomInv'
  <2> DEFINE audience == Room!In(rooms, client_info[c]) \ {c}
  <2>1. audience \in SUBSET Clients
    BY <1>4
  <2>2. Room!Broadcast(c, audience, "joined", 0, "serving") /\ handler[c].at = "welcome"
        /\ UNCHANGED <<rooms, client_info, socket, received>>
    BY <1>5 DEF Room!Welcome
  <2> HIDE DEF audience
  <2> QED BY <1>3, <2>1, <2>2
<1>6. ASSUME NEW c \in Clients, Room!Frame(c) PROVE RoomInv'
  <2> DEFINE all == Room!In(rooms, client_info[c])  nr == handler[c].frames + 1  others == all \ {c}
  <2>1. all \in SUBSET Clients /\ others \in SUBSET Clients /\ nr \in Nat
    BY <1>4
  <2>2. /\ Room!Broadcast(c, all, "message", nr, "serving") \/ Room!Broadcast(c, others, "typing", nr, "serving")
        /\ handler[c].at = "serving" /\ UNCHANGED <<rooms, client_info, socket, received>>
    BY <1>6 DEF Room!Frame
  <2> HIDE DEF all, others, nr
  <2> QED BY <1>3, <2>1, <2>2
<1>7. ASSUME NEW c \in Clients, Room!Send(c) PROVE RoomInv'
  <2>1. PICK r \in handler[c].todo :
          /\ handler' = [handler EXCEPT ![c].todo = handler[c].todo \ {r}]
          /\ received' = IF socket[r] THEN [received EXCEPT ![r][c] = handler[c].note] ELSE received
          /\ UNCHANGED <<rooms, client_info, socket>>
    BY <1>7 DEF Room!Send, Room!Rest
  <2>2. r \in Clients /\ handler[c].note \in Room!Notes
    BY RoomIs DEF HandlerType
  <2>3. /\ handler' \in [Clients -> HandlerType] /\ handler'[c].at = handler[c].at
        /\ handler'[c].audience = handler[c].audience /\ handler'[c].todo = handler[c].todo \ {r}
        /\ handler'[c].note = handler[c].note
        /\ \A d \in Clients \ {c} : handler'[d] = handler[d]
    <3> DEFINE rest == handler[c].todo \ {r}  new == [handler[c] EXCEPT !.todo = rest]
    <3>1. handler[c] \in HandlerType /\ handler \in [Clients -> HandlerType]
      BY RoomIs
    <3>2. rest \in SUBSET Clients
      BY <3>1 DEF HandlerType
    <3>3. handler' = [handler EXCEPT ![c] = new]
      BY <2>1
    <3> HIDE DEF rest
    <3>4. new \in HandlerType /\ new.at = handler[c].at /\ new.audience = handler[c].audience
          /\ new.todo = rest /\ new.note = handler[c].note
      BY <3>1, <3>2 DEF HandlerType
    <3> HIDE DEF new
    <3> QED BY <3>1, <3>3, <3>4 DEF rest
  <2>4. /\ received' \in [Clients -> [Clients -> Room!Notes]]
        /\ socket[r] => received'[r][c] = handler[c].note
        /\ \A x, d \in Clients : x # r \/ d # c => received'[x][d] = received[x][d]
    BY <2>1, <2>2, RoomIs
  <2>5. Room!TypeOK'
    BY <2>1, <2>3, <2>4, RoomIs, RoomSame
  <2>6. ASSUME NEW d \in Clients, NEW x \in Clients, x \in handler'[d].audience, socket[x]
        PROVE  x \in handler'[d].todo \/ received'[x][d] = handler'[d].note
    <3>1. CASE d = c /\ x = r
      BY <2>3, <2>4, <2>6, <3>1
    <3>2. CASE ~ (d = c /\ x = r)
      <4>1. x \in handler[d].audience /\ handler'[d].note = handler[d].note
            /\ (x \in handler[d].todo => x \in handler'[d].todo)
        BY <2>3, <2>6, <3>2
      <4>2. x \in handler[d].todo \/ received[x][d] = handler[d].note
        BY <2>6, <4>1, RoomIs
      <4> QED BY <2>4, <3>2, <4>1, <4>2
    <3> QED BY <3>1, <3>2
  <2>7. MessagesReachRoom'
    BY <2>1, <2>6 DEF MessagesReachRoom, Room!MessagesReachRoom
  <2> QED BY <2>5, <2>7 DEF RoomInv
<1>8. ASSUME NEW c \in Clients, Room!Disconnect(c) PROVE RoomInv'
  <2>1. socket' = [socket EXCEPT ![c] = FALSE] /\ received' = [received EXCEPT ![c] = Room!NothingYet]
        /\ UNCHANGED <<rooms, client_info, handler>>
    BY <1>8 DEF Room!Disconnect
  <2>2. Room!NothingYet \in [Clients -> Room!Notes]
    BY DEF Room!NothingYet, Room!None, Room!Notes
  <2>3. received' \in [Clients -> [Clients -> Room!Notes]] /\ socket' \in [Clients -> BOOLEAN]
        /\ handler' \in [Clients -> HandlerType]
        /\ \A x \in Clients : socket'[x] => socket[x] /\ received'[x] = received[x]
    BY <2>1, <2>2, RoomIs
  <2>4. Room!TypeOK'
    BY <2>1, <2>3, RoomIs, RoomSame
  <2>5. MessagesReachRoom'
    BY <2>1, <2>3, RoomIs DEF MessagesReachRoom, Room!MessagesReachRoom
  <2> QED BY <2>4, <2>5 DEF RoomInv
<1>9. ASSUME NEW c \in Clients, Room!Finally(c) PROVE RoomInv'
  <2> DEFINE audience == Room!In(Room!Without(c), client_info[c])  nr == handler[c].frames
  <2>1. /\ handler[c].at \in {"welcome", "serving"} /\ rooms' = Room!Without(c)
        /\ client_info' = [d \in DOMAIN client_info \ {c} |-> client_info[d]]
        /\ Room!Broadcast(c, audience, "left", nr, "gone") /\ UNCHANGED <<socket, received>>
    BY <1>9 DEF Room!Finally
  <2>2. c \in DOMAIN client_info
    BY <2>1, RoomIs
  <2>3. rooms' = [room \in Room!Range(client_info') |-> {d \in DOMAIN client_info' : client_info'[d] = room}]
    BY <2>1, <2>2, WithoutIs
  <2>4. DOMAIN client_info' = DOMAIN client_info \ {c} /\ Room!Range(client_info') \subseteq Rooms
        /\ DOMAIN client_info' \subseteq Clients
    BY <2>1, RoomIs DEF Room!Range
  <2>5. audience \in SUBSET Clients /\ nr \in Nat
    BY <1>4, <2>1, <2>3, <2>4 DEF Room!In
  <2> HIDE DEF audience, nr
  <2>6. /\ handler' \in [Clients -> HandlerType] /\ handler'[c].at = "gone"
        /\ \A d \in Clients \ {c} : handler'[d] = handler[d]
        /\ MessagesReachRoom'
    BY <2>1, <2>5, BroadcastReaches
  <2>7. DOMAIN client_info' = {d \in Clients : handler'[d].at \in {"welcome", "serving"}}
    BY <2>1, <2>4, <2>6, RoomIs
  <2>8. Room!TypeOK'
    BY <2>1, <2>3, <2>4, <2>6, <2>7, RoomIs DEF Room!TypeOK, HandlerType
  <2> QED BY <2>6, <2>8 DEF RoomInv
<1>10. CASE UNCHANGED roomVars
  BY <1>10 DEF roomVars, RoomInv, Room!TypeOK, MessagesReachRoom, Room!MessagesReachRoom, Room!Range
<1> QED
  BY <1>1, <1>2, <1>5, <1>6, <1>7, <1>8, <1>9, <1>10 DEF Room!Next

-----------------------------------------------------------------------------
(* The polls.                                                              *)

\* The smallest of some natural numbers,
LEMMA NatLeast ==
  ASSUME NEW T \in SUBSET Nat, T # {}
  PROVE  \E n \in T : \A m \in T : n <= m
<1> DEFINE R == OpToRel(<, Nat)
<1>0. \A x, y \in Nat : <<x, y>> \in R <=> x < y
  BY DEF OpToRel
<1>1. IsWellFoundedOn(R, Nat)
  BY NatLessThanWellFounded
<1> HIDE DEF R
<1>2. PICK n \in T : \A m \in T : ~(<<m, n>> \in R)
  BY <1>1, WFMin
<1>3. ASSUME NEW m \in T PROVE n <= m
  <2>1. n \in Nat /\ m \in Nat
    OBVIOUS
  <2>2. ~ (m < n)
    BY <1>0, <1>2, <2>1
  <2> QED BY <2>1, <2>2
<1> QED BY <1>3

\* and the greatest, if there is a bound.
LEMMA NatGreatest ==
  ASSUME NEW max \in Nat, NEW T \in SUBSET (0..max), T # {}
  PROVE  \E n \in T : \A m \in T : m <= n
<1> DEFINE U == {max - n : n \in T}
<1>1. U \in SUBSET Nat /\ U # {}
  <2>1. ASSUME NEW n \in T PROVE max - n \in Nat
    BY n \in 0..max
  <2> QED BY <2>1
<1> HIDE DEF U
<1>2. PICK u \in U : \A v \in U : u <= v
  BY <1>1, NatLeast
<1>3. PICK n \in T : u = max - n
  BY DEF U
<1>4. ASSUME NEW m \in T PROVE m <= n
  <2>1. max - m \in U
    BY DEF U
  <2> QED BY <1>2, <1>3, <2>1
<1> QED BY <1>4

\* Each request reads the clock once.
LEMMA TicksAre ==
  /\ Cardinality(Posts) \in Nat /\ Simple!Ticks = 0..Cardinality(Posts)
  /\ Simple!Stored = [id : 1..Cardinality(Posts), timestamp : Simple!Ticks]
<1>1. Simple!Cardinality(Posts) = Cardinality(Posts)
  BY DEF Simple!Cardinality, Cardinality
<1>2. IsFiniteSet(Posts)
  BY TransportsAssumption
<1>3. Cardinality(Posts) \in Nat
  BY <1>2, FS_CardinalityType
<1> QED BY <1>1, <1>3 DEF Simple!Ticks, Simple!Stored

PostType == [at : {"new", "numbered", "stamped", "done"}, id : Simple!Ticks, timestamp : Simple!Ticks]
PollerType == [at : {"idle", "answered"}, answer : SUBSET Simple!Stored, now : Simple!Ticks,
               cursor : Simple!Ticks, got : SUBSET Simple!Stored, again : SUBSET Simple!Stored,
               lost : 0..PollLost]

At(states) == {p \in Posts : post[p].at \in states}

\* The list has the messages of the threads that are done, and the clock has
\* been read once for each that is stamped.  No two readings are the same.
Stamps ==
  /\ Len(messages) = Cardinality(At({"done"}))
  /\ clock = Cardinality(At({"stamped", "done"}))
  /\ \A p \in Posts : post[p].at \in {"numbered", "stamped"} => post[p].id # 0
  /\ \A p \in At({"stamped"}) :
       /\ post[p].timestamp \in 1..clock
       /\ \A q \in At({"stamped"}) \ {p} : post[q].timestamp # post[p].timestamp
       /\ \A i \in 1..Len(messages) : messages[i].timestamp # post[p].timestamp
  /\ \A i \in 1..Len(messages) :
       /\ messages[i].timestamp \in 1..clock
       /\ \A j \in 1..Len(messages) \ {i} : messages[i].timestamp # messages[j].timestamp

\* What is new to a client among the first n messages.
NewAmong(c, n) == {messages[i] : i \in {j \in 1..n : messages[j].timestamp > client[c].cursor}}

\* A client's cursor is the time of a message, and it has none that is later.
\* An answer has what was new to it when the list had some length.
PollerKnows(c) ==
  /\ client[c].cursor = 0 \/ \E i \in 1..Len(messages) : messages[i].timestamp = client[c].cursor
  /\ \A m \in client[c].got : m.timestamp <= client[c].cursor
  /\ client[c].again = {}
  /\ client[c].at = "answered" => \E n \in 0..Len(messages) : client[c].answer = NewAmong(c, n)

OvertakenAreMissed(c) ==
  \A i \in 1..Len(messages) : messages[i].timestamp <= client[c].cursor =>
    \/ messages[i] \in client[c].got
    \/ \E j \in 1..i - 1 : messages[j].timestamp > messages[i].timestamp

PollInv ==
  /\ Simple!TypeOK /\ Stamps
  /\ \A c \in PostReaders : PollerKnows(c) /\ OvertakenAreMissed(c)

\* The shape of the state.
LEMMA PollTypes ==
  Simple!TypeOK <=> /\ messages \in Seq(Simple!Stored) /\ clock \in Simple!Ticks
                    /\ post \in [Posts -> PostType] /\ client \in [PostReaders -> PollerType]
BY DEF Simple!TypeOK, PostType, PollerType

\* One more of the requests.
LEMMA CountOne ==
  ASSUME NEW T \in SUBSET Posts, NEW p \in Posts, p \notin T
  PROVE  /\ Cardinality(T) \in Nat /\ Cardinality(Posts) \in Nat
         /\ Cardinality(T) + 1 <= Cardinality(Posts)
         /\ \A U : U = T \cup {p} => Cardinality(U) = Cardinality(T) + 1
<1>0. IsFiniteSet(Posts)
  BY TransportsAssumption
<1>1. IsFiniteSet(T)
  BY <1>0, FS_Subset
<1>2. Cardinality(T) \in Nat /\ Cardinality(Posts) \in Nat
  BY <1>0, <1>1, FS_CardinalityType
<1>3. Cardinality(T \cup {p}) = Cardinality(T) + 1
  BY <1>1, FS_AddElement
<1> DEFINE U == T \cup {p}
<1>4. U \in SUBSET Posts
  OBVIOUS
<1> HIDE DEF U
<1>5. Cardinality(U) <= Cardinality(Posts)
  BY <1>0, <1>4, FS_Subset
<1> QED BY <1>2, <1>3, <1>5 DEF U

\* What a client has does not change with the threads and the clock.
LEMMA PollersSame ==
  ASSUME PollInv, UNCHANGED <<messages, client>>, NEW c \in PostReaders
  PROVE  PollerKnows(c)' /\ OvertakenAreMissed(c)'
<1>1. PollerKnows(c) /\ OvertakenAreMissed(c)
  BY DEF PollInv
<1>2. \A n : NewAmong(c, n)' = NewAmong(c, n)
  BY DEF NewAmong
<1>3. PollerKnows(c)'
  BY <1>1, <1>2 DEF PollerKnows
<1>4. OvertakenAreMissed(c)'
  BY <1>1 DEF OvertakenAreMissed
<1> QED BY <1>3, <1>4

\* At the start nothing is posted and nobody has asked.
LEMMA PollInit == Simple!Init => PollInv
<1> SUFFICES ASSUME Simple!Init PROVE PollInv
  OBVIOUS
<1>0. PollLost \in Nat
  BY TransportsAssumption
<1>1. 0 \in Simple!Ticks
  BY TicksAre
<1>2. \A c \in PostReaders : /\ client[c] \in PollerType /\ client[c].at = "idle" /\ client[c].cursor = 0
                             /\ client[c].got = {} /\ client[c].again = {}
  BY <1>0, <1>1 DEF Simple!Init, Simple!NewClient, PollerType
<1>3. \A p \in Posts : post[p] \in PostType /\ post[p].at = "new"
  BY <1>1 DEF Simple!Init, PostType
<1>4. messages \in Seq(Simple!Stored) /\ Len(messages) = 0 /\ clock = 0
  BY EmptySeq DEF Simple!Init
<1>5. Simple!TypeOK
  <2>1. client \in [PostReaders -> PollerType] /\ post \in [Posts -> PostType]
    BY <1>2, <1>3 DEF Simple!Init
  <2> QED BY <1>1, <1>4, <2>1, PollTypes
<1>6. Stamps
  <2>1. At({"done"}) = {} /\ At({"stamped", "done"}) = {} /\ At({"stamped"}) = {}
    BY <1>3 DEF At
  <2>2. Cardinality({}) = 0
    BY FS_EmptySet
  <2>3. \A p \in Posts : ~ (post[p].at \in {"numbered", "stamped"})
    BY <1>3
  <2>4. Len(messages) = Cardinality(At({"done"})) /\ clock = Cardinality(At({"stamped", "done"}))
    BY <1>4, <2>1, <2>2
  <2>5. 1..Len(messages) = {}
    BY <1>4
  <2> QED BY <2>1, <2>3, <2>4, <2>5 DEF Stamps
<1>7. \A c \in PostReaders : PollerKnows(c) /\ OvertakenAreMissed(c)
  BY <1>2, <1>4 DEF PollerKnows, OvertakenAreMissed
<1> QED BY <1>5, <1>6, <1>7 DEF PollInv

\* The parts of the invariant, one by one.
LEMMA PollIs ==
  ASSUME PollInv
  PROVE  /\ messages \in Seq(Simple!Stored) /\ clock \in Simple!Ticks
         /\ post \in [Posts -> PostType] /\ client \in [PostReaders -> PollerType]
         /\ Len(messages) \in Nat /\ clock \in Nat /\ Cardinality(Posts) \in Nat
         /\ \A i \in 1..Len(messages) : messages[i] \in Simple!Stored
         /\ Stamps
<1>2. Cardinality(Posts) \in Nat
  BY TicksAre
<1>3. /\ messages \in Seq(Simple!Stored) /\ clock \in Simple!Ticks
      /\ post \in [Posts -> PostType] /\ client \in [PostReaders -> PollerType] /\ Stamps
  BY PollTypes DEF PollInv
<1>4. \A i \in 1..Len(messages) : messages[i] \in Simple!Stored
  BY <1>3, ElementOfSeq
<1>5. Len(messages) \in Nat /\ clock \in Nat
  BY <1>2, <1>3, LenProperties, TicksAre
<1> QED BY <1>2, <1>3, <1>4, <1>5

\* The id is read off the list.
LEMMA PollNumber == ASSUME PollInv, NEW p \in Posts, Simple!Number(p) PROVE PollInv'
<1> DEFINE new == [post[p] EXCEPT !.at = "numbered", !.id = Len(messages) + 1]
<1>1. post[p].at = "new" /\ post' = [post EXCEPT ![p] = new] /\ UNCHANGED <<messages, clock, client>>
  BY DEF Simple!Number
<1>2. Len(messages) + 1 \in Simple!Ticks
  <2>1. At({"done"}) \in SUBSET Posts /\ p \notin At({"done"})
    BY <1>1 DEF At
  <2> DEFINE T == At({"done"})
  <2>2. Len(messages) = Cardinality(T)
    BY PollIs DEF Stamps
  <2> HIDE DEF T
  <2>3. Cardinality(T) \in Nat /\ Cardinality(Posts) \in Nat /\ Cardinality(T) + 1 <= Cardinality(Posts)
    BY <2>1, CountOne DEF T
  <2> QED BY <2>2, <2>3, TicksAre
<1>3. new \in PostType /\ new.at = "numbered" /\ new.id = Len(messages) + 1
  BY <1>2, PollIs DEF PostType
<1> HIDE DEF new
<1>4. post' \in [Posts -> PostType] /\ post'[p] = new /\ \A q \in Posts \ {p} : post'[q] = post[q]
  BY <1>1, <1>3, PollIs
<1>5. Simple!TypeOK'
  BY <1>1, <1>4, PollIs DEF Simple!TypeOK, PostType, PollerType
<1>6. At({"done"})' = At({"done"}) /\ At({"stamped", "done"})' = At({"stamped", "done"})
      /\ At({"stamped"})' = At({"stamped"}) /\ p \notin At({"stamped"})
  BY <1>1, <1>3, <1>4 DEF At
<1>7. Stamps'
  <2>1. \A q \in Posts : post'[q].at \in {"numbered", "stamped"} => post'[q].id # 0
    BY <1>3, <1>4, PollIs DEF Stamps
  <2>2. \A q \in At({"stamped"}) : post'[q] = post[q]
    BY <1>4, <1>6 DEF At
  <2> QED BY <1>1, <1>6, <2>1, <2>2, PollIs DEF Stamps
<1>8. \A c \in PostReaders : PollerKnows(c)' /\ OvertakenAreMissed(c)'
  BY <1>1, PollersSame
<1> QED BY <1>5, <1>7, <1>8 DEF PollInv

\* The clock is read: the time is none that was read before.
LEMMA PollStamp == ASSUME PollInv, NEW p \in Posts, Simple!Stamp(p) PROVE PollInv'
<1> DEFINE new == [post[p] EXCEPT !.at = "stamped", !.timestamp = clock + 1]
<1>1. post[p].at = "numbered" /\ post' = [post EXCEPT ![p] = new] /\ clock' = clock + 1
      /\ UNCHANGED <<messages, client>>
  BY DEF Simple!Stamp
<1>2. clock \in Nat /\ clock + 1 \in Simple!Ticks
      /\ \A U : U = At({"stamped", "done"}) \cup {p} => Cardinality(U) = clock + 1
  <2>1. At({"stamped", "done"}) \in SUBSET Posts /\ p \notin At({"stamped", "done"})
    BY <1>1 DEF At
  <2> DEFINE T == At({"stamped", "done"})
  <2>2. clock = Cardinality(T)
    BY PollIs DEF Stamps
  <2>a. T \in SUBSET Posts /\ p \notin T
    BY <2>1
  <2> HIDE DEF T
  <2>3. Cardinality(T) \in Nat /\ Cardinality(Posts) \in Nat /\ Cardinality(T) + 1 <= Cardinality(Posts)
        /\ \A U : U = T \cup {p} => Cardinality(U) = Cardinality(T) + 1
    BY <2>a, CountOne
  <2> QED BY <2>2, <2>3, TicksAre DEF T
<1>3. new \in PostType /\ new.at = "stamped" /\ new.id = post[p].id /\ new.timestamp = clock + 1
  BY <1>2, PollIs DEF PostType
<1> HIDE DEF new
<1>4. post' \in [Posts -> PostType] /\ post'[p] = new /\ \A q \in Posts \ {p} : post'[q] = post[q]
  BY <1>1, <1>3, PollIs
<1>5. Simple!TypeOK'
  BY <1>1, <1>2, <1>4, PollIs DEF Simple!TypeOK, PostType, PollerType
<1>6. At({"done"})' = At({"done"}) /\ At({"stamped", "done"})' = At({"stamped", "done"}) \cup {p}
      /\ At({"stamped"})' = At({"stamped"}) \cup {p} /\ p \notin At({"stamped"})
  BY <1>1, <1>3, <1>4 DEF At
<1>7. Stamps'
  <2>1. \A q \in Posts : post'[q].at \in {"numbered", "stamped"} => post'[q].id # 0
    BY <1>1, <1>3, <1>4, PollIs DEF Stamps
  <2>2. \A q \in At({"stamped"}) : post'[q] = post[q] /\ post[q].timestamp \in 1..clock
    BY <1>4, <1>6, PollIs DEF At, Stamps
  <2>3. clock' = Cardinality(At({"stamped", "done"})') /\ Len(messages') = Cardinality(At({"done"})')
    BY <1>1, <1>2, <1>6, PollIs DEF Stamps
  <2>4. ASSUME NEW q \in At({"stamped"})'
        PROVE  /\ post'[q].timestamp \in 1..clock'
               /\ \A x \in At({"stamped"})' \ {q} : post'[x].timestamp # post'[q].timestamp
               /\ \A i \in 1..Len(messages) : messages[i].timestamp # post'[q].timestamp
    <3>1. CASE q = p
      <4>1. post'[q].timestamp = clock + 1
        BY <1>3, <1>4, <3>1
      <4>2. \A x \in At({"stamped"})' \ {q} : post'[x].timestamp \in 1..clock
        BY <1>6, <2>2, <3>1
      <4>3. \A i \in 1..Len(messages) : messages[i].timestamp \in 1..clock
        BY PollIs DEF Stamps
      <4> QED BY <1>1, <1>2, <4>1, <4>2, <4>3
    <3>2. CASE q # p
      <4>1. q \in At({"stamped"}) /\ post'[q] = post[q] /\ post[q].timestamp \in 1..clock
        BY <1>6, <2>2, <3>2
      <4>2. \A x \in At({"stamped"})' \ {q} : post'[x].timestamp # post'[q].timestamp
        <5> TAKE x \in At({"stamped"})' \ {q}
        <5>1. CASE x = p
          BY <1>2, <1>3, <1>4, <4>1, <5>1
        <5>2. CASE x # p
          BY <1>6, <2>2, <4>1, <5>2, PollIs DEF Stamps
        <5> QED BY <5>1, <5>2
      <4> QED BY <1>1, <1>2, <4>1, <4>2, PollIs DEF Stamps
    <3> QED BY <3>1, <3>2
  <2>5. \A i \in 1..Len(messages) :
          /\ messages[i].timestamp \in 1..clock'
          /\ \A j \in 1..Len(messages) \ {i} : messages[i].timestamp # messages[j].timestamp
    BY <1>1, <1>2, PollIs DEF Stamps
  <2> QED BY <1>1, <2>1, <2>3, <2>4, <2>5 DEF Stamps
<1>8. \A c \in PostReaders : PollerKnows(c)' /\ OvertakenAreMissed(c)'
  BY <1>1, PollersSame
<1> QED BY <1>5, <1>7, <1>8 DEF PollInv
\* A message goes to the end of the list.  A client whose cursor is past it has
\* it from one that is in the list already, and was stamped later.
LEMMA PollPut == ASSUME PollInv, NEW p \in Posts, Simple!Put(p) PROVE PollInv'
<1> DEFINE m == [id |-> post[p].id, timestamp |-> post[p].timestamp]
           new == [post[p] EXCEPT !.at = "done"]  n == Len(messages)
<1>1. /\ post[p].at = "stamped" /\ post' = [post EXCEPT ![p] = new] /\ UNCHANGED <<clock, client>>
      /\ messages' = Append(messages, m)
  BY DEF Simple!Put
<1>2. post[p] \in PostType /\ n \in Nat /\ post[p].id # 0 /\ p \in At({"stamped"})
  BY <1>1, PollIs DEF At, Stamps
<1>3. m \in Simple!Stored /\ m.timestamp = post[p].timestamp /\ m.timestamp \in 1..clock
  <2>1. post[p].timestamp \in 1..clock
    BY <1>2, PollIs DEF Stamps
  <2>2. post[p].id \in 1..Cardinality(Posts) /\ post[p].timestamp \in Simple!Ticks
    BY <1>2, TicksAre DEF PostType
  <2> QED BY <2>1, <2>2, TicksAre
<1>4. new \in PostType /\ new.at = "done" /\ new.id = post[p].id /\ new.timestamp = post[p].timestamp
  BY <1>2 DEF PostType
<1>5. \A i \in 1..n : messages[i].timestamp # m.timestamp
  BY <1>2, <1>3, PollIs DEF Stamps
<1> HIDE DEF m, new
<1>6. /\ messages' \in Seq(Simple!Stored) /\ Len(messages') = n + 1 /\ messages'[n + 1] = m
      /\ \A i \in 1..n : messages'[i] = messages[i]
  BY <1>1, <1>3, PollIs, AppendProperties
<1> HIDE DEF n
<1>7. post' \in [Posts -> PostType] /\ post'[p] = new /\ \A q \in Posts \ {p} : post'[q] = post[q]
  BY <1>1, <1>4, PollIs
<1>8. Simple!TypeOK'
  BY <1>1, <1>6, <1>7, PollIs DEF Simple!TypeOK, PostType, PollerType
<1>9. At({"done"})' = At({"done"}) \cup {p} /\ At({"stamped", "done"})' = At({"stamped", "done"})
      /\ At({"stamped"})' = At({"stamped"}) \ {p} /\ p \notin At({"done"}) /\ At({"done"}) \in SUBSET Posts
  BY <1>1, <1>4, <1>7 DEF At
<1>10. Stamps'
  <2>1. Len(messages') = Cardinality(At({"done"})') /\ clock' = Cardinality(At({"stamped", "done"})')
    <3> DEFINE T == At({"done"})
    <3>1. T \in SUBSET Posts /\ p \notin T /\ n = Cardinality(T)
      BY <1>9, PollIs DEF Stamps, n
    <3> HIDE DEF T
    <3>2. \A U : U = T \cup {p} => Cardinality(U) = Cardinality(T) + 1
      BY <3>1, CountOne
    <3> QED BY <1>1, <1>6, <1>9, <3>1, <3>2, PollIs DEF Stamps, T
  <2>2. \A q \in Posts : post'[q].at \in {"numbered", "stamped"} => post'[q].id # 0
    BY <1>4, <1>7, PollIs DEF Stamps
  <2>3. ASSUME NEW q \in At({"stamped"})'
        PROVE  /\ post'[q].timestamp \in 1..clock'
               /\ \A x \in At({"stamped"})' \ {q} : post'[x].timestamp # post'[q].timestamp
               /\ \A i \in 1..Len(messages') : messages'[i].timestamp # post'[q].timestamp
    <3>1. q \in At({"stamped"}) /\ q # p /\ q \in Posts /\ post'[q] = post[q]
          /\ \A x \in At({"stamped"})' : post'[x] = post[x] /\ x \in At({"stamped"})
      BY <1>7, <1>9 DEF At
    <3>2. /\ post[q].timestamp \in 1..clock
          /\ \A x \in At({"stamped"}) \ {q} : post[x].timestamp # post[q].timestamp
          /\ \A i \in 1..n : messages[i].timestamp # post[q].timestamp
      BY <3>1, PollIs DEF Stamps, n
    <3>3. m.timestamp # post[q].timestamp
      BY <1>2, <1>3, <3>1, <3>2
    <3>4. ASSUME NEW i \in 1..Len(messages') PROVE messages'[i].timestamp # post[q].timestamp
      <4>1. CASE i = n + 1
        BY <1>6, <3>3, <4>1
      <4>2. CASE i # n + 1
        BY <1>2, <1>6, <3>2, <4>2
      <4> QED BY <4>1, <4>2
    <3> QED BY <1>1, <3>1, <3>2, <3>4
  <2>4. ASSUME NEW i \in 1..Len(messages')
        PROVE  /\ messages'[i].timestamp \in 1..clock'
               /\ \A j \in 1..Len(messages') \ {i} : messages'[i].timestamp # messages'[j].timestamp
    <3>1. /\ \A j \in 1..n : messages[j].timestamp \in 1..clock
          /\ \A j \in 1..n, k \in 1..n : j # k => messages[j].timestamp # messages[k].timestamp
      BY PollIs DEF Stamps, n
    <3>2. ASSUME NEW j \in 1..Len(messages')
          PROVE  (j = n + 1 /\ messages'[j] = m) \/ (j \in 1..n /\ messages'[j] = messages[j])
      <4>1. j = n + 1 \/ j \in 1..n
        BY <1>2, <1>6
      <4> QED BY <1>6, <4>1
    <3>3. messages'[i].timestamp \in 1..clock
      BY <1>3, <3>1, <3>2
    <3>4. ASSUME NEW j \in 1..Len(messages') \ {i} PROVE messages'[i].timestamp # messages'[j].timestamp
      BY <1>5, <3>1, <3>2
    <3> QED BY <1>1, <3>3, <3>4
  <2> QED BY <2>1, <2>2, <2>3, <2>4 DEF Stamps
<1>11. ASSUME NEW c \in PostReaders PROVE PollerKnows(c)' /\ OvertakenAreMissed(c)'
  <2>1. PollerKnows(c) /\ OvertakenAreMissed(c) /\ client' = client /\ n = Len(messages)
    BY <1>1 DEF PollInv, n
  <2>2. \A k \in 0..n : NewAmong(c, k)' = NewAmong(c, k)
    BY <1>2, <1>6, <2>1 DEF NewAmong
  <2>3. \A i \in 1..n : i \in 1..Len(messages') /\ \A k \in 0..n : k \in 0..Len(messages')
    BY <1>2, <1>6
  <2>4. PollerKnows(c)'
    BY <1>2, <1>6, <2>1, <2>2, <2>3 DEF PollerKnows
  <2>5. ASSUME NEW i \in 1..Len(messages'), messages'[i].timestamp <= client[c].cursor
        PROVE  \/ messages'[i] \in client[c].got
               \/ \E j \in 1..i - 1 : messages'[j].timestamp > messages'[i].timestamp
    <3>1. CASE i = n + 1
      <4>1. client[c].cursor # 0 /\ messages'[i] = m
        BY <1>3, <1>6, <2>5, <3>1, PollIs
      <4>2. PICK j \in 1..n : messages[j].timestamp = client[c].cursor
        BY <2>1, <4>1 DEF PollerKnows
      <4>3. messages[j].timestamp # m.timestamp /\ messages'[j] = messages[j] /\ j \in 1..i - 1
        BY <1>2, <1>5, <1>6, <3>1
      <4>4. messages[j].timestamp \in Nat /\ m.timestamp \in Nat
        BY <1>3, <2>1, PollIs DEF Stamps
      <4> QED BY <2>5, <4>1, <4>2, <4>3, <4>4
    <3>2. CASE i # n + 1
      <4>1. i \in 1..n /\ messages'[i] = messages[i] /\ \A j \in 1..i - 1 : messages'[j] = messages[j]
        BY <1>2, <1>6, <3>2
      <4> QED BY <2>1, <2>5, <4>1 DEF OvertakenAreMissed
    <3> QED BY <3>1, <3>2
  <2>6. OvertakenAreMissed(c)'
    BY <2>1, <2>5 DEF OvertakenAreMissed
  <2> QED BY <2>4, <2>6
<1> QED BY <1>8, <1>10, <1>11 DEF PollInv

\* A step of one client.
LEMMA OnePoller ==
  ASSUME PollInv, NEW c \in PostReaders, NEW me \in PollerType, client' = [client EXCEPT ![c] = me],
         UNCHANGED <<messages, clock, post>>, PollerKnows(c)', OvertakenAreMissed(c)'
  PROVE  PollInv'
<1>1. client' \in [PostReaders -> PollerType] /\ \A d \in PostReaders \ {c} : client'[d] = client[d]
  BY PollIs
<1>2. Simple!TypeOK'
  BY <1>1, PollIs DEF Simple!TypeOK, PostType, PollerType
<1>3. Stamps'
  BY PollIs DEF Stamps, At
<1>4. ASSUME NEW d \in PostReaders, d # c PROVE PollerKnows(d)' /\ OvertakenAreMissed(d)'
  <2>1. PollerKnows(d) /\ OvertakenAreMissed(d) /\ client'[d] = client[d]
    BY <1>1, <1>4 DEF PollInv
  <2>2. \A n : NewAmong(d, n)' = NewAmong(d, n)
    BY <2>1 DEF NewAmong
  <2>3. PollerKnows(d)'
    BY <2>1, <2>2 DEF PollerKnows
  <2>4. OvertakenAreMissed(d)'
    BY <2>1 DEF OvertakenAreMissed
  <2> QED BY <2>3, <2>4
<1> QED BY <1>2, <1>3, <1>4 DEF PollInv

\* The answer is what is new in the list as it is.
LEMMA PollGet == ASSUME PollInv, NEW c \in PostReaders, Simple!Get(c) PROVE PollInv'
<1> DEFINE old == client[c]  answer == {m \in Simple!ToSet(messages) : m.timestamp > old.cursor}
           me == [old EXCEPT !.at = "answered", !.now = clock, !.answer = answer]
<1>1. client' = [client EXCEPT ![c] = me] /\ UNCHANGED <<messages, clock, post>>
  BY DEF Simple!Get
<1>2. answer = NewAmong(c, Len(messages)) /\ answer \subseteq Simple!Stored
  BY PollIs DEF Simple!ToSet, NewAmong
<1> HIDE DEF answer
<1>3. /\ me \in PollerType /\ me.cursor = old.cursor /\ me.got = old.got /\ me.again = old.again
      /\ me.answer = answer /\ me.at = "answered"
  BY <1>2, PollIs DEF PollerType
<1> HIDE DEF me
<1>4. client'[c] = me
  BY <1>1, PollIs
<1>5. NewAmong(c, Len(messages))' = NewAmong(c, Len(messages))
  BY <1>1, <1>3, <1>4 DEF NewAmong
<1>6. PollerKnows(c)'
  <2>1. PollerKnows(c) /\ Len(messages) \in 0..Len(messages)
    BY PollIs DEF PollInv
  <2> QED BY <1>1, <1>2, <1>3, <1>4, <1>5, <2>1 DEF PollerKnows
<1>7. OvertakenAreMissed(c)'
  BY <1>1, <1>3, <1>4 DEF PollInv, OvertakenAreMissed
<1> QED BY <1>1, <1>3, <1>6, <1>7, OnePoller

\* An answer that is lost.
LEMMA PollLose == ASSUME PollInv, NEW c \in PostReaders, Simple!Lose(c) PROVE PollInv'
<1> DEFINE old == client[c]
           me == [old EXCEPT !.at = "idle", !.answer = {}, !.now = 0, !.lost = old.lost + 1]
<1>0. PollLost \in Nat /\ 0 \in Simple!Ticks /\ old.lost + 1 \in 0..PollLost
  <2>1. PollLost \in Nat
    BY TransportsAssumption
  <2>2. old.lost \in 0..PollLost
    BY PollIs DEF PollerType
  <2>3. old.lost < PollLost
    BY DEF Simple!Lose
  <2> QED BY <2>1, <2>2, <2>3, TicksAre
<1>1. client' = [client EXCEPT ![c] = me] /\ UNCHANGED <<messages, clock, post>>
  BY DEF Simple!Lose
<1>2. /\ me \in PollerType /\ me.cursor = old.cursor /\ me.got = old.got /\ me.again = old.again
      /\ me.at = "idle"
  BY <1>0, PollIs DEF PollerType
<1> HIDE DEF me
<1>3. client'[c] = me
  BY <1>1, PollIs
<1>4. PollerKnows(c)'
  BY <1>1, <1>2, <1>3 DEF PollInv, PollerKnows
<1>5. OvertakenAreMissed(c)'
  BY <1>1, <1>2, <1>3 DEF PollInv, OvertakenAreMissed
<1> QED BY <1>1, <1>2, <1>4, <1>5, OnePoller

\* The next cursor is the latest time of the answer.
LEMMA CursorIs ==
  ASSUME PollInv, NEW c \in PostReaders
  PROVE  LET times == Simple!Timestamps(client[c].answer)
         IN  /\ Simple!NextCursor(c) \in times \cup {client[c].cursor}
             /\ Simple!NextCursor(c) \in Simple!Ticks
             /\ \A t \in times : t <= Simple!NextCursor(c)
<1> DEFINE times == Simple!Timestamps(client[c].answer)  cursor0 == client[c].cursor
           T == times \cup {cursor0}
<1>1. T \in SUBSET (0..Cardinality(Posts)) /\ T # {} /\ Cardinality(Posts) \in Nat
  <2>1. client[c] \in PollerType
    BY PollIs
  <2>2. \A m \in client[c].answer : m.timestamp \in 0..Cardinality(Posts)
    BY <2>1, TicksAre DEF PollerType
  <2>3. cursor0 \in 0..Cardinality(Posts)
    BY <2>1, TicksAre DEF PollerType
  <2> QED BY <2>2, <2>3, TicksAre DEF Simple!Timestamps
<1>2. Simple!NextCursor(c) = CHOOSE t \in T : \A u \in times : u <= t
  BY DEF Simple!NextCursor
<1>3. times \subseteq T
  OBVIOUS
<1> HIDE DEF T, times
<1>4. \E t \in T : \A u \in T : u <= t
  BY <1>1, NatGreatest
<1>5. Simple!NextCursor(c) \in T /\ \A u \in times : u <= Simple!NextCursor(c)
  BY <1>2, <1>3, <1>4
<1> QED BY <1>1, <1>5, TicksAre DEF T, times

\* What a client is given is new to it.  What it has not got, up to the latest
\* time of the answer, was put into the list after the answer was taken, behind
\* the message of that time.
LEMMA PollReceive == ASSUME PollInv, NEW c \in PostReaders, Simple!Receive(c) PROVE PollInv'
<1> DEFINE old == client[c]  next == Simple!NextCursor(c)
           got1 == old.got \cup old.answer  again1 == old.again \cup (old.answer \cap old.got)
           me == [old EXCEPT !.at = "idle", !.answer = {}, !.now = 0, !.cursor = next,
                             !.got = got1, !.again = again1]
<1>0. old \in PollerType /\ old.cursor \in Nat /\ 0 \in Simple!Ticks
  <2>1. old \in PollerType
    BY PollIs
  <2> QED BY <2>1, TicksAre DEF PollerType
<1>1. client' = [client EXCEPT ![c] = me] /\ UNCHANGED <<messages, clock, post>> /\ old.at = "answered"
  BY DEF Simple!Receive
<1>2. /\ next \in Simple!Ticks /\ next \in Nat
      /\ next = old.cursor \/ \E m \in old.answer : m.timestamp = next
      /\ \A m \in old.answer : m.timestamp <= next
  BY CursorIs, TicksAre DEF Simple!Timestamps
<1>3. PollerKnows(c) /\ OvertakenAreMissed(c)
  BY DEF PollInv
<1>4. PICK n \in 0..Len(messages) : old.answer = NewAmong(c, n)
  BY <1>1, <1>3 DEF PollerKnows
<1>5. /\ \A m \in old.answer : \E i \in 1..n : m = messages[i] /\ m.timestamp > old.cursor
      /\ \A i \in 1..n : messages[i].timestamp > old.cursor => messages[i] \in old.answer
      /\ n \in Nat /\ \A i \in 1..n : i \in 1..Len(messages)
  <2>1. n \in Nat /\ \A i \in 1..n : i \in 1..Len(messages)
    BY PollIs
  <2> QED BY <1>4, <2>1 DEF NewAmong
<1>6. \A i \in 1..Len(messages) : messages[i].timestamp \in Nat
  BY PollIs DEF Stamps
<1>7. again1 = {} /\ got1 \subseteq Simple!Stored
  <2>1. \A m \in old.got : m.timestamp <= old.cursor
    BY <1>3 DEF PollerKnows
  <2>2. old.answer \cap old.got = {}
    BY <1>0, <1>5, <1>6, <2>1
  <2> QED BY <1>0, <1>3, <2>2 DEF PollerKnows, PollerType
<1>8. next >= old.cursor
  BY <1>0, <1>2, <1>5, <1>6
<1> HIDE DEF next, again1, got1
<1>9. /\ me \in PollerType /\ me.cursor = next /\ me.got = got1 /\ me.again = again1 /\ me.at = "idle"
  BY <1>0, <1>2, <1>7 DEF PollerType
<1> HIDE DEF me
<1>10. client'[c] = me
  BY <1>1, PollIs
<1>11. PollerKnows(c)'
  <2>1. next = 0 \/ \E i \in 1..Len(messages) : messages[i].timestamp = next
    BY <1>2, <1>3, <1>5 DEF PollerKnows
  <2>2. \A m \in got1 : m.timestamp <= next
    <3> TAKE m \in got1
    <3>1. CASE m \in old.answer
      BY <1>2, <3>1
    <3>2. CASE m \in old.got
      <4>1. m.timestamp <= old.cursor /\ m.timestamp \in Nat
        BY <1>0, <1>3, <3>2, TicksAre DEF PollerKnows, PollerType
      <4> QED BY <1>0, <1>2, <1>8, <4>1
    <3> QED BY <3>1, <3>2 DEF got1
  <2> QED BY <1>1, <1>7, <1>9, <1>10, <2>1, <2>2 DEF PollerKnows
<1>12. OvertakenAreMissed(c)'
  <2> SUFFICES ASSUME NEW i \in 1..Len(messages), messages[i].timestamp <= next
               PROVE  messages[i] \in got1 \/ \E j \in 1..i - 1 : messages[j].timestamp > messages[i].timestamp
    BY <1>1, <1>9, <1>10 DEF OvertakenAreMissed
  <2>1. CASE messages[i].timestamp <= old.cursor
    BY <1>3, <2>1 DEF OvertakenAreMissed, got1
  <2>2. CASE messages[i].timestamp > old.cursor /\ i <= n
    BY <1>5, <2>2 DEF got1
  <2>3. CASE messages[i].timestamp > old.cursor /\ i > n
    <3>1. PICK m \in old.answer : m.timestamp = next
      BY <1>0, <1>2, <1>6, <2>3
    <3>2. PICK j \in 1..n : m = messages[j]
      BY <1>5
    <3>3. j \in 1..i - 1 /\ j # i /\ j \in 1..Len(messages)
      BY <1>5, <2>3
    <3>4. messages[i].timestamp # messages[j].timestamp
      BY <3>3, PollIs DEF Stamps
    <3> QED BY <1>6, <3>1, <3>2, <3>3, <3>4
  <2> QED BY <1>0, <1>5, <1>6, <2>1, <2>2, <2>3
<1> QED BY <1>1, <1>9, <1>11, <1>12, OnePoller

\* Every step keeps the invariant.
LEMMA PollStep == PollInv /\ [Simple!Next]_pollVars => PollInv'
<1> SUFFICES ASSUME PollInv, [Simple!Next]_pollVars PROVE PollInv'
  OBVIOUS
<1>1. CASE UNCHANGED pollVars
  <2>1. UNCHANGED <<messages, clock, post, client>>
    BY <1>1 DEF pollVars
  <2>2. Simple!TypeOK' /\ Stamps'
    BY <2>1 DEF PollInv, Simple!TypeOK, Stamps, At
  <2> QED BY <2>1, <2>2, PollersSame DEF PollInv
<1> QED
  BY <1>1, PollNumber, PollStamp, PollPut, PollGet, PollReceive, PollLose DEF Simple!Next

-----------------------------------------------------------------------------
(* The servers side by side.                                               *)

Servers == SseInv /\ LongInv /\ PollInv /\ HookInv /\ RoomInv

SseGiven == [r \in Readers |-> reader[r].given]

\* At the start no server has anything.
LEMMA ServersInit == Init => Servers
BY SseInit, LongInit, PollInit, HookInit, RoomInit DEF Init, Servers

\* A step is one of one server, and leaves the others alone.
LEMMA ServersAlone ==
  [Next]_vars => /\ [Sse!Next]_sseVars /\ [Long!Next]_longVars /\ [Simple!Next]_pollVars
                 /\ [Hook!Next]_hookVars /\ [Room!Next]_roomVars
BY DEF Next, vars

\* It keeps every server's invariant, and is a step of the feeds, or none.
LEMMA ServersStep ==
  Servers /\ [Next]_vars => /\ Servers'
                            /\ [Sse!AsFeed!Next]_<<messageId, SseGiven>>
                            /\ [Long!AsFeed!Next]_<<posted, got>>
BY ServersAlone, SseStep, LongStep, PollStep, HookStep, RoomStep DEF Servers, SseGiven

\* The feeds begin empty.
LEMMA FeedsInit == Init => Sse!AsFeed!Init /\ Long!AsFeed!Init
<1>1. Sse!Init => Sse!AsFeed!Init
  BY DEF Sse!Init, Sse!AsFeed!Init, Sse!NewReader
<1>2. Long!Init => Long!AsFeed!Init
  BY DEF Long!Init, Long!AsFeed!Init
<1> QED BY <1>1, <1>2 DEF Init

\* The invariants hold in every behaviour, whose steps are steps of the feeds.
LEMMA ServersKeep ==
  Spec => /\ []Servers
          /\ [][Sse!AsFeed!Next]_<<messageId, SseGiven>>
          /\ [][Long!AsFeed!Next]_<<posted, got>>
BY ServersInit, ServersStep, PTL DEF Spec
-----------------------------------------------------------------------------
(* The theorems.                                                           *)

\* Every server's state stays of the shape its module declares; the rooms of
\* the WebSocket server agree with its clients, and no room is empty
\* (websocket_server.py, join_room and leave_room).
THEOREM TransportsTypeCorrect == Spec => []TypeOK
<1>1. Servers => TypeOK
  BY DEF Servers, SseInv, LongInv, PollInv, HookInv, RoomInv, TypeOK
<1> QED BY <1>1, ServersKeep, PTL

\* sse_server.py: no message falls into a gap while a stream is set up or
\* resumed: it is replayed, queued, on the wire, or given.
THEOREM StreamsAreComplete == Spec => []StreamComplete
<1>1. Servers => StreamComplete
  BY StreamsComplete DEF Servers
<1> QED BY <1>1, ServersKeep, PTL

\* sse_server.py: over all its connections, with the replays of Last-Event-ID,
\* a reader is given messages in the order they were sent.
THEOREM StreamsImplementFeed == Spec => SseImplementsFeed
BY FeedsInit, ServersKeep, PTL DEF Spec, SseImplementsFeed, Sse!ImplementsFeed, Sse!AsFeed!Spec, SseGiven

\* long_polling_server.py: with its cursor a client is given every message,
\* once and in order, whatever answers are lost on the way.
THEOREM LongPollsImplementFeed == Spec => LongPollingImplementsFeed
BY FeedsInit, ServersKeep, PTL DEF Spec, LongPollingImplementsFeed, Long!ImplementsFeed, Long!AsFeed!Spec

\* simple_polling_server.py: a client is given no message twice, and misses
\* only one that another post overtook between its timestamp and its append.
THEOREM PollsMissOnlyOvertaken == Spec => []OnlyOvertakenAreMissed
<1>1. Servers => OnlyOvertakenAreMissed
  BY DEF Servers, PollInv, PollerKnows, OvertakenAreMissed, OnlyOvertakenAreMissed, Simple!OnlyOvertakenAreMissed
<1> QED BY <1>1, ServersKeep, PTL

\* webhook_server.py and its receiver: with all its retries, a delivery is
\* handled by the receiver once.
THEOREM OrdersShipOnce == Spec => []ShippedOnce
<1>1. Servers => ShippedOnce
  BY DEF Servers, HookInv, ReceiverKnows, ShippedOnce, Hook!ShippedOnce
<1> QED BY <1>1, ServersKeep, PTL

\* webhook_server.py: an attempt logged as a success was handled by the
\* receiver, and is the last one of its delivery.
THEOREM VendorLogIsTrue == Spec => []VendorKnows
<1>1. Servers => VendorKnows
  BY DEF Servers, HookInv
<1> QED BY <1>1, ServersKeep, PTL

\* websocket_server.py: a broadcast reaches everyone who was in the room when
\* it began and has not left since, or is still on its way to them.
THEOREM BroadcastsReachRoom == Spec => []MessagesReachRoom
<1>1. Servers => MessagesReachRoom
  BY DEF Servers, RoomInv
<1> QED BY <1>1, ServersKeep, PTL
=============================================================================
