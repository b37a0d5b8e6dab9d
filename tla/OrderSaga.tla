------------------------------ MODULE OrderSaga ------------------------------
(***************************************************************************)
(* OrderWorkflow of the Temporal lab (worker/workflows.py): an order is    *)
(* created, paid and shipped, and what was done is undone in reverse when  *)
(* a step fails for good.  Temporal keeps the workflow's own state across  *)
(* crashes; an activity is attempted until an attempt succeeds or the      *)
(* retry policy gives up.                                                  *)
(*                                                                         *)
(* An attempt that times out, whose worker dies or whose own call times    *)
(* out may have taken effect, or take effect later, without the workflow's *)
(* knowing.  `effects` is what happened in the world, such attempts        *)
(* included, and `late` are those that may still have their effect.        *)
(***************************************************************************)
EXTENDS Integers, FiniteSets, SequencesExt

CONSTANTS
  MaxAttempts,   \* maximum_attempts, at least 1
  MaxGivenUp     \* bound on the attempts that are given up

VARIABLES
  phase,           \* where run() is, see Phases
  activity,        \* the activities it has yet to execute in this phase
  attempt,         \* attempts made of the first of them
  compensations,   \* compensations
  late,            \* activity -> attempts given up that may take effect yet
  effects,         \* history: what took effect, and whether the workflow was told
  exhausted        \* history: the undo actions that never succeeded

vars == <<phase, activity, attempt, compensations, late, effects, exhausted>>

Steps == <<"create_order", "process_payment", "ship_order">>
Undo == [create_order |-> "cancel_order", process_payment |-> "refund_payment"]
Undoing == {"cancel_order", "refund_payment"}
Activities == ToSet(Steps) \cup Undoing

Init ==
  /\ phase = "steps" /\ activity = Steps
  /\ attempt = 0
  /\ compensations = << >> /\ late = [a \in Activities |-> 0]
  /\ effects = << >> /\ exhausted = {}

\* Once an activity is done with, successfully or not:
Continue(next, remaining) ==
  /\ attempt' = 0
  /\ phase' = IF remaining = << >> THEN next ELSE phase
  /\ activity' = remaining

\* A step that succeeds adds its undo action; shipping, the last, has none.
Succeeds ==
  /\ activity # << >>
  /\ effects' = Append(effects, [activity |-> Head(activity), told |-> TRUE])
  /\ compensations' = IF Head(activity) \in DOMAIN Undo
                      THEN Append(compensations, Undo[Head(activity)]) ELSE compensations
  /\ Continue(IF phase = "steps" THEN "tell success" ELSE "tell failure", Tail(activity))
  /\ UNCHANGED <<late, exhausted>>

\* Mutant: the compensations run in the order of the steps.
RollbackForward == compensations

Rollback == Reverse(compensations)

Again == attempt' = attempt + 1 /\ UNCHANGED <<phase, activity, exhausted>>

\* The exception: it starts the rollback; during the rollback it is logged, and
\* the rest is done.
GiveUp ==
  LET remaining == IF phase = "steps" THEN Rollback ELSE Tail(activity)
  IN  /\ attempt' = 0
      /\ activity' = remaining
      /\ exhausted' = IF phase = "rollback" THEN exhausted \cup {Head(activity)} ELSE exhausted
      /\ phase' = IF remaining = << >> THEN "tell failure" ELSE "rollback"

\* Mutant: one attempt more than the policy allows.
NoteAttemptLate == IF attempt < MaxAttempts THEN Again ELSE GiveUp

\* Mutant: the number of attempts is not limited.
NoteAttemptNever == attempt' = (attempt + 1) % MaxAttempts /\ UNCHANGED <<phase, activity, exhausted>>

\* After an attempt without success.
NoteAttempt == IF attempt + 1 < MaxAttempts THEN Again ELSE GiveUp

\* The attempt fails without effect,
Fails ==
  /\ activity # << >>
  /\ NoteAttempt
  /\ UNCHANGED <<compensations, late, effects>>

\* or is given up: after start_to_close_timeout, or with an error that does not
\* tell ("Payment gateway timeout").
TimesOut ==
  /\ activity # << >>
  /\ FoldFunction(+, Cardinality({i \in DOMAIN effects : ~ effects[i].told}), late) < MaxGivenUp
  /\ NoteAttempt
  /\ late' = [late EXCEPT ![Head(activity)] = @ + 1]
  /\ UNCHANGED <<compensations, effects>>

\* An attempt that was given up takes effect after all, at any time or never.
TakesEffect(a) ==
  /\ late[a] > 0
  /\ late' = [late EXCEPT ![a] = @ - 1]
  /\ effects' = Append(effects, [activity |-> a, told |-> FALSE])
  /\ UNCHANGED <<phase, activity, attempt, compensations, exhausted>>

\* send_notification has no retry policy of its own: it is attempted for ever.
Tell ==
  /\ phase \in {"tell success", "tell failure"}
  /\ phase' = IF phase = "tell success" THEN "completed" ELSE "failed"
  /\ UNCHANGED <<activity, attempt, compensations, late, effects, exhausted>>

Next == Succeeds \/ Fails \/ TimesOut \/ (\E a \in Activities : TakesEffect(a)) \/ Tell

Fairness == WF_vars(Succeeds \/ Fails \/ TimesOut) /\ WF_vars(Tell)

Spec == Init /\ [][Next]_vars /\ Fairness
-----------------------------------------------------------------------------
Phases == {"steps", "rollback", "tell success", "tell failure", "completed", "failed"}

TypeOK ==
  /\ phase \in Phases /\ attempt \in 0..MaxAttempts - 1
  /\ activity \in Seq(Activities) /\ compensations \in Seq(Undoing)
  /\ late \in [Activities -> Nat] /\ exhausted \subseteq Undoing
  /\ effects \in Seq([activity : Activities, told : BOOLEAN])

\* Where a took effect, and where it did so in an attempt that succeeded.
When(a) == {i \in DOMAIN effects : effects[i].activity = a}
Told(a) == {i \in When(a) : effects[i].told}

\* In the world, attempts that were given up included: nothing is charged before
\* the order was created, or shipped before it was paid.  For an order that is
\* completed all three were done, and nothing of it was or will be undone.  For one
\* that failed, what the workflow was told of was undone afterwards, and shipping
\* is not among it; the order was not cancelled before a payment it was told of
\* was refunded; all but for undo actions that failed at every attempt
\* (workflows.py:96-113).  What an attempt did that was given up is left out: it may
\* leave a failed order charged or shipped, and nothing in the code settles that.
AllOrNothing ==
  /\ \A k \in 2..Len(Steps) : \A i \in When(Steps[k]) : \E j \in Told(Steps[k - 1]) : j < i
  /\ phase = "completed" =>
       /\ \A k \in 1..Len(Steps) : Told(Steps[k]) # {}
       /\ \A a \in Undoing : When(a) = {} /\ late[a] = 0
  /\ phase = "failed" =>
       /\ Told("ship_order") = {}
       /\ \A step \in DOMAIN Undo : \A i \in Told(step) :
            Undo[step] \in exhausted \/ \E j \in When(Undo[step]) : i < j
       /\ \A j \in When("cancel_order") : Told("process_payment") # {} =>
            "refund_payment" \in exhausted \/ \E i \in When("refund_payment") : i < j

\* An order comes to an end, whatever fails.
OrderEnds == <>(phase \in {"completed", "failed"})
=============================================================================
