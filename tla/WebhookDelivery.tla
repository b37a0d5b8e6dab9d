--------------------------- MODULE WebhookDelivery ---------------------------
(***************************************************************************)
(* The webhook vendor, webhook_server.py, and the receiver of the lab      *)
(* (notebook 08).  A delivery is one event on its way to one subscriber.   *)
(* Every attempt is a request of its own, which the receiver may handle    *)
(* long after the vendor has stopped waiting for its answer.               *)
(***************************************************************************)
EXTENDS Integers, FiniteSets

CONSTANTS
  Triggers, Subs,    \* events that may be triggered, subscriptions that may be made
  MaxAttempts        \* MAX_ATTEMPTS

VARIABLES
  subscriptions,  \* the subscriptions there are
  made,           \* those that were ever made
  delivery,       \* <<trigger, subscription>> -> deliver(), see Unborn
  requests,       \* attempts on the way to the receiver
  answers,        \* [delivery, attempt, status] on the way back
  deliveries,     \* the vendor's log of attempts
  processed,      \* the delivery ids the receiver has handled
  shipped         \* delivery -> how often its order was shipped

vars == <<subscriptions, made, delivery, requests, answers, deliveries, processed, shipped>>

Deliveries == Triggers \X Subs
Unborn == [at |-> "unborn", attempt |-> 0]

Init ==
  /\ subscriptions = {} /\ made = {}
  /\ delivery = [d \in Deliveries |-> Unborn]
  /\ requests = {} /\ answers = {} /\ deliveries = {} /\ processed = {}
  /\ shipped = [d \in Deliveries |-> 0]

Subscribe(s) ==
  /\ s \notin made
  /\ made' = made \cup {s} /\ subscriptions' = subscriptions \cup {s}
  /\ UNCHANGED <<delivery, requests, answers, deliveries, processed, shipped>>

\* A delivery under way goes on.
Unsubscribe(s) ==
  /\ s \in subscriptions
  /\ subscriptions' = subscriptions \ {s}
  /\ UNCHANGED <<made, delivery, requests, answers, deliveries, processed, shipped>>

\* trigger: a deliver() for every subscription, all of them at once.
Trigger(t) ==
  /\ \A s \in Subs : delivery[t, s] = Unborn
  /\ subscriptions # {}
  /\ delivery' = [d \in Deliveries |-> IF d[1] = t /\ d[2] \in subscriptions
                                       THEN [at |-> "ready", attempt |-> 1] ELSE delivery[d]]
  /\ UNCHANGED <<subscriptions, made, requests, answers, deliveries, processed, shipped>>

\* One turn of the retry loop posts the request,
Attempt(d) ==
  /\ delivery[d].at = "ready"
  /\ delivery' = [delivery EXCEPT ![d].at = "posting"]
  /\ requests' = requests \cup {[delivery |-> d, attempt |-> delivery[d].attempt]}
  /\ UNCHANGED <<subscriptions, made, answers, deliveries, processed, shipped>>

\* Mutant: only a server error is retried.
AcknowledgedBelow500(status) == status < 500

Acknowledged(status) == 200 <= status /\ status < 300

\* Mutant: the loop retries with the attempt it has just made.
NextTurnStuck(attempt) == [at |-> "ready", attempt |-> attempt]

\* What becomes of a delivery after an attempt without success: the next one,
\* after a pause, or the end.
NextTurn(attempt) ==
  IF attempt < MaxAttempts THEN [at |-> "ready", attempt |-> attempt + 1]
                           ELSE [at |-> "failed", attempt |-> attempt]

\* and logs what came of it: an answer,
Answered(d) ==
  /\ delivery[d].at = "posting"
  /\ \E a \in answers :
       /\ a.delivery = d /\ a.attempt = delivery[d].attempt
       /\ answers' = answers \ {a}
       /\ deliveries' = deliveries \cup
            {[delivery |-> d, attempt |-> a.attempt, ok |-> Acknowledged(a.status)]}
       /\ delivery' = [delivery EXCEPT ![d] = IF Acknowledged(a.status) THEN [@ EXCEPT !.at = "ok"]
                                              ELSE NextTurn(a.attempt)]
  /\ UNCHANGED <<subscriptions, made, requests, processed, shipped>>

\* or an exception: no connection, or no answer in time.
Excepted(d) ==
  /\ delivery[d].at = "posting"
  /\ deliveries' = deliveries \cup
       {[delivery |-> d, attempt |-> delivery[d].attempt, ok |-> FALSE]}
  /\ delivery' = [delivery EXCEPT ![d] = NextTurn(delivery[d].attempt)]
  /\ UNCHANGED <<subscriptions, made, requests, answers, processed, shipped>>

\* Mutant: every attempt has an id of its own.
DeliveryIdFresh(r) == r

\* X-Webhook-Delivery-Id: made once, in trigger.
DeliveryId(r) == r.delivery

Reply(r, status) ==
  /\ requests' = requests \ {r}
  /\ answers' = answers \cup {[delivery |-> r.delivery, attempt |-> r.attempt, status |-> status]}

\* The receiver's hook takes the request in,
Hook(r) ==
  /\ Reply(r, 200)
  /\ IF DeliveryId(r) \in processed THEN UNCHANGED <<processed, shipped>>
     ELSE /\ processed' = processed \cup {DeliveryId(r)}
          /\ shipped' = [shipped EXCEPT ![r.delivery] = @ + 1]
  /\ UNCHANGED <<subscriptions, made, delivery, deliveries>>

\* rejects it, its own clock or secret being another,
Reject(r) ==
  /\ Reply(r, 401)
  /\ UNCHANGED <<subscriptions, made, delivery, deliveries, processed, shipped>>

\* or never sees it.
Vanish(r) ==
  /\ requests' = requests \ {r}
  /\ UNCHANGED <<subscriptions, made, delivery, answers, deliveries, processed, shipped>>

Next ==
  \/ \E s \in Subs : Subscribe(s) \/ Unsubscribe(s)
  \/ \E t \in Triggers : Trigger(t)
  \/ \E d \in Deliveries : Attempt(d) \/ Answered(d) \/ Excepted(d)
  \/ \E r \in requests : Hook(r) \/ Reject(r) \/ Vanish(r)

\* A pause ends; a request is answered, or its wait of five seconds ends.
Fairness ==
  \A d \in Deliveries : WF_vars(Attempt(d)) /\ WF_vars(Answered(d) \/ Excepted(d))

Spec == Init /\ [][Next]_vars /\ Fairness
-----------------------------------------------------------------------------
Requests == [delivery : Deliveries, attempt : 1..MaxAttempts]

TypeOK ==
  /\ subscriptions \subseteq made /\ made \subseteq Subs
  /\ delivery \in [Deliveries -> [at : {"unborn", "ready", "posting", "ok", "failed"},
                                  attempt : 0..MaxAttempts]]
  /\ requests \subseteq Requests
  /\ answers \subseteq [delivery : Deliveries, attempt : 1..MaxAttempts, status : {200, 401}]
  /\ deliveries \subseteq [delivery : Deliveries, attempt : 1..MaxAttempts, ok : BOOLEAN]
  /\ processed \subseteq Deliveries
  /\ \A d \in Deliveries : shipped[d] \in 0..MaxAttempts

\* However late the receiver sees which of the attempts, it ships an order once
\* (webhook_server.py:65, and hook in notebook 08).
ShippedOnce == \A d \in Deliveries : shipped[d] <= 1

\* What the vendor logs as delivered has been shipped, and it makes no attempt
\* after that.
VendorKnows ==
  \A l \in deliveries : l.ok =>
    /\ shipped[l.delivery] > 0
    /\ delivery[l.delivery] = [at |-> "ok", attempt |-> l.attempt]

\* A trigger is answered: each of its deliveries comes to an end, whatever the
\* receiver does.
TriggersAnswered ==
  \A d \in Deliveries :
    delivery[d].at = "ready" ~> delivery[d].at \in {"ok", "failed"}
=============================================================================
