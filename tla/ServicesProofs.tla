---------------------------- MODULE ServicesProofs ----------------------------
(***************************************************************************)
(* Proofs about the services of MCServices, for any values of the          *)
(* constants that satisfy RulesMakeSense: the order saga, the rate         *)
(* limiter's bucket, the cache of signing keys and the synchronised file.  *)
(* Each has an inductive invariant of its own, since they share no state;  *)
(* the ticket sale's is TicketBookingProofs'.  The theorems are at the     *)
(* end.                                                                    *)
(***************************************************************************)
EXTENDS MCServices, TicketBookingProofs, SequenceTheorems, FiniteSetTheorems, WellFoundedInduction

-----------------------------------------------------------------------------
(* The order saga.                                                         *)

Effect == [activity : Saga!Activities, told : BOOLEAN]

\* What the workflow was told of a step was undone afterwards, or every attempt
\* to undo it failed.
Settled(step, undo) == \A i \in Saga!Told(step) : undo \in exhausted \/ \E j \in Saga!When(undo) : i < j

\* Nothing is undone, and no attempt to undo anything was made.
NothingUndone == \A a \in Saga!Undoing : Saga!When(a) = {} /\ late[a] = 0

\* A step takes effect after the workflow was told of the one before it.
Follows(first, second) ==
  /\ \A i \in Saga!When(second) : \E j \in Saga!Told(first) : j < i
  /\ late[second] > 0 => Saga!Told(first) # {}

\* The order is not cancelled before the payment, if there is one, is refunded.
CancelFollows ==
  /\ \A j \in Saga!When("cancel_order") : Saga!Told("process_payment") # {} =>
       "refund_payment" \in exhausted \/ \E i \in Saga!When("refund_payment") : i < j
  /\ late["cancel_order"] > 0 => Settled("process_payment", "refund_payment")

\* While the steps run: what there is to undo, what is left, and what the
\* workflow was told of.  Nothing is undone before a step has failed.
StepsRun ==
  /\ exhausted = {} /\ NothingUndone /\ Saga!Told("ship_order") = {}
  /\ \/ /\ compensations = << >> /\ activity = <<"create_order", "process_payment", "ship_order">>
        /\ Saga!Told("create_order") = {} /\ Saga!Told("process_payment") = {}
     \/ /\ compensations = <<"cancel_order">> /\ activity = <<"process_payment", "ship_order">>
        /\ Saga!Told("create_order") # {} /\ Saga!Told("process_payment") = {}
     \/ /\ compensations = <<"cancel_order", "refund_payment">> /\ activity = <<"ship_order">>
        /\ Saga!Told("create_order") # {} /\ Saga!Told("process_payment") # {}

AllDone ==
  /\ activity = << >> /\ NothingUndone
  /\ Saga!Told("create_order") # {} /\ Saga!Told("process_payment") # {} /\ Saga!Told("ship_order") # {}

\* What was done is undone backwards,
RollbackRuns ==
  /\ Saga!Told("ship_order") = {}
  /\ \/ activity = <<"refund_payment", "cancel_order">>
     \/ activity = <<"cancel_order">> /\ Settled("process_payment", "refund_payment")

\* to the end.
AllUndone ==
  /\ activity = << >> /\ Saga!Told("ship_order") = {}
  /\ Settled("process_payment", "refund_payment") /\ Settled("create_order", "cancel_order")

SagaInv ==
  /\ Saga!TypeOK
  /\ Follows("create_order", "process_payment") /\ Follows("process_payment", "ship_order")
  /\ CancelFollows
  /\ phase = "steps" => StepsRun
  /\ phase \in {"tell success", "completed"} => AllDone
  /\ phase = "rollback" => RollbackRuns
  /\ phase \in {"tell failure", "failed"} => AllUndone

\* What appending to a tuple gives.
LEMMA AppendToOne == ASSUME NEW a, NEW b PROVE Append(<<a>>, b) = <<a, b>>
<1> DEFINE S == {a, b} s == Append(<<a>>, b) t == <<a, b>>
<1>1. s \in Seq(S) /\ Len(s) = 2 /\ s[1] = a /\ s[2] = b
  BY AppendProperties, <<a>> \in Seq(S)
<1>2. t \in Seq(S) /\ Len(t) = 2 /\ t[1] = a /\ t[2] = b
  OBVIOUS
<1> HIDE DEF s, t
<1>3. \A i \in 1..Len(s) : s[i] = t[i]
  BY <1>1, <1>2
<1>4. s = t
  BY <1>1, <1>2, <1>3, SeqEqual
<1> QED BY <1>4 DEF s, t

\* What is left of a sequence, and what becomes of it.
LEMMA SequenceSteps ==
  ASSUME NEW S, NEW s \in Seq(S)
  PROVE  /\ s # << >> => Head(s) \in S /\ Tail(s) \in Seq(S)
         /\ \A e \in S : Append(s, e) \in Seq(S)
OBVIOUS

\* What comes of reversing the compensations.
LEMMA ReverseIs ==
  /\ Saga!Reverse(<< >>) = << >>
  /\ \A a : Saga!Reverse(<<a>>) = <<a>>
  /\ \A a, b : Saga!Reverse(<<a, b>>) = <<b, a>>
BY DEF Saga!Reverse

\* The activities, one by one.
LEMMA ActivitiesAre ==
  /\ Saga!Activities = {"create_order", "process_payment", "ship_order", "cancel_order", "refund_payment"}
  /\ Saga!Undoing = {"cancel_order", "refund_payment"}
  /\ DOMAIN Saga!Undo = {"create_order", "process_payment"}
  /\ Saga!Undo["create_order"] = "cancel_order" /\ Saga!Undo["process_payment"] = "refund_payment"
BY DEF Saga!Activities, Saga!ToSet, Saga!Steps, Saga!Undoing, Saga!Undo

\* An order starts with all its steps before it.
LEMMA SagaInit == Saga!Init => SagaInv
<1> SUFFICES ASSUME Saga!Init PROVE SagaInv
  OBVIOUS
<1>1. /\ phase = "steps" /\ activity = <<"create_order", "process_payment", "ship_order">> /\ attempt = 0
      /\ compensations = << >> /\ late = [a \in Saga!Activities |-> 0] /\ effects = << >> /\ exhausted = {}
  BY DEF Saga!Init, Saga!Steps
<1>2. \A a : Saga!When(a) = {} /\ Saga!Told(a) = {}
  BY <1>1 DEF Saga!When, Saga!Told
<1>3. \A a \in Saga!Activities : late[a] = 0
  BY <1>1
<1>4. Saga!TypeOK
  BY <1>1, RulesMakeSense, ActivitiesAre DEF Saga!TypeOK, Saga!Phases
<1>5. StepsRun
  BY <1>1, <1>2, <1>3, ActivitiesAre DEF StepsRun, NothingUndone
<1>6. Follows("create_order", "process_payment") /\ Follows("process_payment", "ship_order") /\ CancelFollows
  BY <1>2, <1>3, ActivitiesAre DEF Follows, CancelFollows
<1> QED BY <1>1, <1>4, <1>5, <1>6 DEF SagaInv

\* What an effect adds to the history: one position, after all others.
LEMMA HistoryGrows ==
  ASSUME Saga!TypeOK, NEW a \in Saga!Activities, NEW known \in BOOLEAN,
         effects' = Append(effects, [activity |-> a, told |-> known])
  PROVE  /\ effects' \in Seq(Effect)
         /\ Len(effects) + 1 \in Saga!When(a)' /\ (known => Len(effects) + 1 \in Saga!Told(a)')
         /\ \A b : /\ Saga!When(b) \subseteq Saga!When(b)' /\ Saga!Told(b) \subseteq Saga!Told(b)'
                   /\ \A i \in Saga!When(b)' : i \in Saga!When(b) \/ (b = a /\ i = Len(effects) + 1)
                   /\ \A i \in Saga!Told(b)' : i \in Saga!Told(b) \/ (known /\ b = a /\ i = Len(effects) + 1)
                   /\ Saga!Told(b) \subseteq Saga!When(b)
                   /\ \A i \in Saga!When(b) : i \in Nat /\ i < Len(effects) + 1
<1> DEFINE e == [activity |-> a, told |-> known]
<1>1. effects \in Seq(Effect) /\ e \in Effect /\ e.activity = a /\ e.told = known
  BY DEF Saga!TypeOK, Effect
<1> HIDE DEF e
<1>2. /\ effects' \in Seq(Effect) /\ DOMAIN effects = 1..Len(effects) /\ DOMAIN effects' = 1..Len(effects) + 1
      /\ \A i \in 1..Len(effects) : effects'[i] = effects[i]
      /\ effects'[Len(effects) + 1] = e /\ Len(effects) \in Nat
  BY <1>1, AppendProperties DEF e
<1>3. \A b : /\ \A i : i \in Saga!When(b) <=> i \in 1..Len(effects) /\ effects[i].activity = b
             /\ \A i : i \in Saga!Told(b) <=> i \in Saga!When(b) /\ effects[i].told
             /\ \A i : i \in Saga!When(b)' <=> i \in 1..Len(effects) + 1 /\ effects'[i].activity = b
             /\ \A i : i \in Saga!Told(b)' <=> i \in Saga!When(b)' /\ effects'[i].told
  BY <1>2 DEF Saga!When, Saga!Told
<1>4. Len(effects) + 1 \in Saga!When(a)' /\ (known => Len(effects) + 1 \in Saga!Told(a)')
  BY <1>1, <1>2, <1>3
<1>5. ASSUME NEW b
      PROVE  /\ Saga!When(b) \subseteq Saga!When(b)' /\ Saga!Told(b) \subseteq Saga!Told(b)'
             /\ Saga!Told(b) \subseteq Saga!When(b)
             /\ \A i \in Saga!When(b) : i \in Nat /\ i < Len(effects) + 1
  BY <1>2, <1>3
<1>6. ASSUME NEW b, NEW i \in Saga!When(b)', i \notin Saga!When(b)
      PROVE  b = a /\ i = Len(effects) + 1
  <2>1. i \in 1..Len(effects) + 1 /\ effects'[i].activity = b /\ ~ (i \in 1..Len(effects) /\ effects[i].activity = b)
    BY <1>3, <1>6
  <2>2. i \notin 1..Len(effects)
    BY <1>2, <2>1
  <2>3. i = Len(effects) + 1
    BY <1>2, <2>1, <2>2
  <2> QED BY <1>1, <1>2, <2>1, <2>3
<1>7. ASSUME NEW b, NEW i \in Saga!Told(b)', i \notin Saga!Told(b)
      PROVE  known /\ b = a /\ i = Len(effects) + 1
  <2>1. i \in Saga!When(b)' /\ effects'[i].told /\ ~ (i \in Saga!When(b) /\ effects[i].told)
    BY <1>3, <1>7
  <2>2. CASE i \in Saga!When(b)
    <3>1. effects'[i] = effects[i]
      BY <1>2, <1>3, <2>2
    <3> QED BY <2>1, <2>2, <3>1
  <2>3. CASE i \notin Saga!When(b)
    <3>1. b = a /\ i = Len(effects) + 1
      BY <1>6, <2>1, <2>3
    <3> QED BY <1>1, <1>2, <2>1, <3>1
  <2> QED BY <2>2, <2>3
<1> QED BY <1>2, <1>4, <1>5, <1>6, <1>7

\* What stays true when something takes effect: a step may if the one before it is
\* known to be done, a cancellation if the payment is settled.
LEMMA OrderKept ==
  ASSUME SagaInv, NEW a \in Saga!Activities, NEW known \in BOOLEAN,
         effects' = Append(effects, [activity |-> a, told |-> known]), exhausted' = exhausted,
         late' \in [Saga!Activities -> Nat], \A b \in Saga!Activities : late'[b] <= late[b],
         a = "process_payment" => Saga!Told("create_order") # {},
         a = "ship_order" => Saga!Told("process_payment") # {},
         a = "cancel_order" => Settled("process_payment", "refund_payment"),
         a = "process_payment" /\ known => Saga!When("cancel_order") = {} /\ late["cancel_order"] = 0
  PROVE  /\ Follows("create_order", "process_payment")' /\ Follows("process_payment", "ship_order")'
         /\ CancelFollows'
<1> DEFINE n == Len(effects) + 1
<1>1. Saga!TypeOK /\ late \in [Saga!Activities -> Nat]
  BY DEF SagaInv, Saga!TypeOK
<1>2. /\ \A b : /\ Saga!When(b) \subseteq Saga!When(b)' /\ Saga!Told(b) \subseteq Saga!Told(b)'
                /\ \A i \in Saga!When(b)' : i \in Saga!When(b) \/ (b = a /\ i = n)
                /\ \A i \in Saga!Told(b)' : i \in Saga!Told(b) \/ (known /\ b = a /\ i = n)
                /\ Saga!Told(b) \subseteq Saga!When(b)
                /\ \A i \in Saga!When(b) : i \in Nat /\ i < n
  BY <1>1, HistoryGrows
<1> HIDE DEF n
<1>3. ASSUME NEW first \in Saga!Activities, NEW second \in Saga!Activities, Follows(first, second),
             a = second => Saga!Told(first) # {}
      PROVE  Follows(first, second)'
  <2>1. ASSUME NEW i \in Saga!When(second)' PROVE \E j \in Saga!Told(first)' : j < i
    <3>1. CASE i \in Saga!When(second)
      BY <3>1, <1>2, <1>3 DEF Follows
    <3>2. CASE second = a /\ i = n
      BY <3>2, <1>2, <1>3
    <3> QED BY <1>2, <3>1, <3>2
  <2>2. late'[second] > 0 => Saga!Told(first)' # {}
    BY <1>1, <1>2, <1>3 DEF Follows
  <2> QED BY <2>1, <2>2 DEF Follows
<1>4. /\ Follows("create_order", "process_payment")' /\ Follows("process_payment", "ship_order")'
  BY <1>3, ActivitiesAre DEF SagaInv
<1>5. late["cancel_order"] > 0 => Settled("process_payment", "refund_payment")
  BY DEF SagaInv, CancelFollows
<1>6. \A j \in Saga!When("cancel_order") : Saga!Told("process_payment") # {} =>
        "refund_payment" \in exhausted \/ \E i \in Saga!When("refund_payment") : i < j
  BY DEF SagaInv, CancelFollows
<1>7. ASSUME NEW j \in Saga!When("cancel_order")', Saga!Told("process_payment")' # {}, "refund_payment" \notin exhausted
      PROVE  \E i \in Saga!When("refund_payment")' : i < j
  <2>1. CASE a = "process_payment" /\ known
    <3>1. "cancel_order" # a /\ Saga!When("cancel_order") = {}
      BY <2>1
    <3> QED BY <1>2, <1>7, <3>1
  <2>2. CASE ~ (a = "process_payment" /\ known)
    <3>1. Saga!Told("process_payment") # {}
      BY <1>2, <1>7, <2>2
    <3>2. CASE j \in Saga!When("cancel_order")
      BY <1>2, <1>6, <1>7, <3>1, <3>2
    <3>3. CASE a = "cancel_order" /\ j = n
      <4>1. \E i \in Saga!When("refund_payment") : TRUE
        BY <1>7, <3>1, <3>3 DEF Settled
      <4> QED BY <1>2, <3>3, <4>1
    <3> QED BY <1>2, <1>7, <3>2, <3>3
  <2> QED BY <2>1, <2>2
<1>8. ASSUME late'["cancel_order"] > 0 PROVE Settled("process_payment", "refund_payment")'
  <2>1. late["cancel_order"] > 0
    BY <1>1, <1>8, ActivitiesAre
  <2>2. Settled("process_payment", "refund_payment") /\ ~ (a = "process_payment" /\ known)
    BY <1>5, <2>1
  <2> QED BY <1>2, <2>2 DEF Settled
<1> QED BY <1>4, <1>7, <1>8 DEF CancelFollows

\* A settled step stays so unless it succeeds again; its undo action settles it.
LEMMA SettledKept ==
  ASSUME Saga!TypeOK, NEW a \in Saga!Activities, NEW known \in BOOLEAN,
         effects' = Append(effects, [activity |-> a, told |-> known]), exhausted \subseteq exhausted',
         NEW step \in Saga!Activities, NEW undo \in Saga!Activities, step # a \/ ~ known,
         Settled(step, undo) \/ undo = a
  PROVE  Settled(step, undo)'
<1>1. /\ Len(effects) + 1 \in Saga!When(a)'
      /\ \A b : /\ Saga!When(b) \subseteq Saga!When(b)'
                /\ \A i \in Saga!Told(b)' : i \in Saga!Told(b) \/ (known /\ b = a /\ i = Len(effects) + 1)
                /\ Saga!Told(b) \subseteq Saga!When(b)
                /\ \A i \in Saga!When(b) : i \in Nat /\ i < Len(effects) + 1
  BY HistoryGrows
<1> QED BY <1>1 DEF Settled

\* What the workflow was not told of changes nothing it was.
LEMMA PlacesKept ==
  ASSUME SagaInv, NEW a \in Saga!Activities,
         effects' = Append(effects, [activity |-> a, told |-> FALSE]), exhausted' = exhausted,
         late' = [late EXCEPT ![a] = @ - 1], late[a] > 0,
         UNCHANGED <<phase, activity, attempt, compensations>>
  PROVE  /\ phase = "steps" => StepsRun'
         /\ phase \in {"tell success", "completed"} => AllDone'
         /\ phase = "rollback" => RollbackRuns'
         /\ phase \in {"tell failure", "failed"} => AllUndone'
<1>1. Saga!TypeOK /\ late \in [Saga!Activities -> Nat]
  BY DEF SagaInv, Saga!TypeOK
<1>2. /\ \A b : /\ Saga!Told(b)' = Saga!Told(b)
                /\ b # a => Saga!When(b)' = Saga!When(b)
  <2>1. \A b : /\ Saga!When(b) \subseteq Saga!When(b)' /\ Saga!Told(b) \subseteq Saga!Told(b)'
               /\ \A i \in Saga!When(b)' : i \in Saga!When(b) \/ (b = a /\ i = Len(effects) + 1)
               /\ \A i \in Saga!Told(b)' : i \in Saga!Told(b) \/ (FALSE /\ b = a /\ i = Len(effects) + 1)
    BY <1>1, HistoryGrows, FALSE \in BOOLEAN
  <2>2. ASSUME NEW b PROVE Saga!Told(b)' = Saga!Told(b) /\ (b # a => Saga!When(b)' = Saga!When(b))
    <3>1. \A i : i \in Saga!Told(b)' <=> i \in Saga!Told(b)
      BY <2>1
    <3>2. b # a => \A i : i \in Saga!When(b)' <=> i \in Saga!When(b)
      BY <2>1
    <3> HIDE DEF Saga!Told, Saga!When
    <3> QED BY <3>1, <3>2
  <2> QED BY <2>2
<1>3. NothingUndone => NothingUndone'
  <2> SUFFICES ASSUME NothingUndone PROVE NothingUndone'
    OBVIOUS
  <2>1. a \notin Saga!Undoing
    BY DEF NothingUndone
  <2>2. \A b \in Saga!Undoing : late'[b] = late[b]
    BY <1>1, <2>1
  <2> QED BY <1>2, <2>1, <2>2 DEF NothingUndone
<1>4. /\ Settled("process_payment", "refund_payment") => Settled("process_payment", "refund_payment")'
      /\ Settled("create_order", "cancel_order") => Settled("create_order", "cancel_order")'
  BY <1>1, SettledKept, ActivitiesAre, FALSE \in BOOLEAN
<1> QED BY <1>2, <1>3, <1>4 DEF SagaInv, StepsRun, AllDone, RollbackRuns, AllUndone

\* An attempt that was given up takes effect after all.
LEMMA SagaLate ==
  ASSUME SagaInv, NEW a \in Saga!Activities, Saga!TakesEffect(a) PROVE SagaInv'
<1>1. /\ late[a] > 0 /\ late' = [late EXCEPT ![a] = @ - 1]
      /\ effects' = Append(effects, [activity |-> a, told |-> FALSE]) /\ exhausted' = exhausted
      /\ UNCHANGED <<phase, activity, attempt, compensations>>
  BY DEF Saga!TakesEffect
<1>2. Saga!TypeOK /\ late \in [Saga!Activities -> Nat]
  BY DEF SagaInv, Saga!TypeOK
<1>3. late' \in [Saga!Activities -> Nat] /\ \A b \in Saga!Activities : late'[b] <= late[b]
  BY <1>1, <1>2
<1>4. effects' \in Seq(Effect)
  BY <1>1, <1>2, HistoryGrows, FALSE \in BOOLEAN
<1>5. Saga!TypeOK'
  BY <1>1, <1>2, <1>3, <1>4 DEF Saga!TypeOK, Effect
<1>6. /\ a = "process_payment" => Saga!Told("create_order") # {}
      /\ a = "ship_order" => Saga!Told("process_payment") # {}
      /\ a = "cancel_order" => Settled("process_payment", "refund_payment")
  BY <1>1 DEF SagaInv, Follows, CancelFollows
<1>7. /\ Follows("create_order", "process_payment")' /\ Follows("process_payment", "ship_order")'
      /\ CancelFollows'
  BY <1>1, <1>3, <1>6, OrderKept, FALSE \in BOOLEAN
<1> QED BY <1>1, <1>5, <1>7, PlacesKept DEF SagaInv

\* Where the workflow is, while it executes activities.
LEMMA AtWork ==
  ASSUME SagaInv, activity # << >>
  PROVE  \/ phase = "steps" /\ StepsRun /\ Head(activity) \in {"create_order", "process_payment", "ship_order"}
         \/ phase = "rollback" /\ RollbackRuns /\ Head(activity) \in {"refund_payment", "cancel_order"}
<1>1. phase \in {"steps", "rollback"}
  BY DEF SagaInv, Saga!TypeOK, Saga!Phases, AllDone, AllUndone
<1>2. \A a, b, c : Head(<<a>>) = a /\ Head(<<a, b>>) = a /\ Head(<<a, b, c>>) = a
  OBVIOUS
<1>3. CASE phase = "steps"
  <2>1. StepsRun
    BY <1>3 DEF SagaInv
  <2>2. Head(activity) \in {"create_order", "process_payment", "ship_order"}
    BY <1>2, <2>1 DEF StepsRun
  <2> QED BY <1>3, <2>1, <2>2
<1>4. CASE phase = "rollback"
  <2>1. RollbackRuns
    BY <1>4 DEF SagaInv
  <2>2. Head(activity) \in {"refund_payment", "cancel_order"}
    BY <1>2, <2>1 DEF RollbackRuns
  <2> QED BY <1>4, <2>1, <2>2
<1> QED BY <1>1, <1>3, <1>4

\* An activity that succeeds is over, and noted.
LEMMA SucceedsIs ==
  ASSUME SagaInv, Saga!Succeeds
  PROVE  /\ Saga!TypeOK' /\ activity # << >> /\ Head(activity) \in Saga!Activities
         /\ effects' = Append(effects, [activity |-> Head(activity), told |-> TRUE])
         /\ late' = late /\ exhausted' = exhausted /\ activity' = Tail(activity)
         /\ compensations' = IF Head(activity) \in DOMAIN Saga!Undo
                             THEN Append(compensations, Saga!Undo[Head(activity)]) ELSE compensations
         /\ phase' = IF activity' # << >> THEN phase
                     ELSE IF phase = "steps" THEN "tell success" ELSE "tell failure"
<1>1. /\ activity # << >> /\ effects' = Append(effects, [activity |-> Head(activity), told |-> TRUE])
      /\ attempt' = 0 /\ late' = late /\ exhausted' = exhausted
      /\ compensations' = IF Head(activity) \in DOMAIN Saga!Undo
                          THEN Append(compensations, Saga!Undo[Head(activity)]) ELSE compensations
      /\ activity' = Tail(activity)
      /\ phase' = IF Tail(activity) = << >> THEN IF phase = "steps" THEN "tell success" ELSE "tell failure"
                                            ELSE phase
  BY DEF Saga!Succeeds, Saga!Continue
<1>2. phase \in Saga!Phases /\ phase' \in Saga!Phases
  BY <1>1 DEF SagaInv, Saga!TypeOK, Saga!Phases
<1>3. Head(activity) \in Saga!Activities /\ Tail(activity) \in Seq(Saga!Activities)
  <2>1. activity \in Seq(Saga!Activities)
    BY DEF SagaInv, Saga!TypeOK
  <2> QED BY <1>1, <2>1, SequenceSteps
<1>4. effects' \in Seq(Effect)
  <2>1. Saga!TypeOK
    BY DEF SagaInv
  <2>2. PICK a : a = Head(activity)
    OBVIOUS
  <2> QED BY <1>1, <1>3, <2>1, <2>2, HistoryGrows, TRUE \in BOOLEAN
<1>5. compensations' \in Seq(Saga!Undoing)
  <2>1. compensations \in Seq(Saga!Undoing)
    BY DEF SagaInv, Saga!TypeOK
  <2>2. Head(activity) \in DOMAIN Saga!Undo => Saga!Undo[Head(activity)] \in Saga!Undoing
    BY ActivitiesAre
  <2> QED BY <1>1, <2>1, <2>2, SequenceSteps
<1>6. 0 \in 0..MaxAttempts - 1
  BY RulesMakeSense
<1>7. Saga!TypeOK'
  BY <1>1, <1>2, <1>3, <1>4, <1>5, <1>6 DEF SagaInv, Saga!TypeOK, Effect
<1> QED BY <1>1, <1>3, <1>7

\* A step that succeeds has the next one follow; an undo action settles its step.
LEMMA SagaForward ==
  ASSUME SagaInv, Saga!Succeeds PROVE SagaInv'
<1>0. PICK a : a = Head(activity)
  OBVIOUS
<1>1. Saga!TypeOK /\ late \in [Saga!Activities -> Nat] /\ a \in Saga!Activities /\ TRUE \in BOOLEAN
  BY <1>0, SucceedsIs DEF SagaInv, Saga!TypeOK
<1>2. /\ activity # << >> /\ effects' = Append(effects, [activity |-> a, told |-> TRUE])
      /\ late' = late /\ exhausted' = exhausted /\ activity' = Tail(activity)
      /\ compensations' = IF a \in DOMAIN Saga!Undo THEN Append(compensations, Saga!Undo[a]) ELSE compensations
      /\ phase' = IF activity' # << >> THEN phase ELSE IF phase = "steps" THEN "tell success" ELSE "tell failure"
  BY <1>0, SucceedsIs
<1>3. \/ phase = "steps" /\ StepsRun
      \/ phase = "rollback" /\ RollbackRuns
  BY <1>2, AtWork
<1>4. /\ Saga!Told(a)' # {}
      /\ \A b : /\ b # a => Saga!When(b)' = Saga!When(b) /\ Saga!Told(b)' = Saga!Told(b)
                /\ Saga!Told(b) \subseteq Saga!Told(b)'
  <2> DEFINE n == Len(effects) + 1
  <2>1. /\ n \in Saga!Told(a)'
        /\ \A b : /\ Saga!When(b) \subseteq Saga!When(b)' /\ Saga!Told(b) \subseteq Saga!Told(b)'
                  /\ \A i \in Saga!When(b)' : i \in Saga!When(b) \/ (b = a /\ i = n)
                  /\ \A i \in Saga!Told(b)' : i \in Saga!Told(b) \/ (TRUE /\ b = a /\ i = n)
    BY <1>1, <1>2, HistoryGrows
  <2> HIDE DEF n
  <2>2. ASSUME NEW b, b # a PROVE Saga!When(b)' = Saga!When(b) /\ Saga!Told(b)' = Saga!Told(b)
    <3>1. \A i : (i \in Saga!When(b)' <=> i \in Saga!When(b)) /\ (i \in Saga!Told(b)' <=> i \in Saga!Told(b))
      BY <2>1, <2>2
    <3> HIDE DEF Saga!Told, Saga!When
    <3> QED BY <3>1
  <2> QED BY <2>1, <2>2
<1>5. /\ Settled("process_payment", "refund_payment") \/ a = "refund_payment" =>
           (a # "process_payment" => Settled("process_payment", "refund_payment")')
      /\ Settled("create_order", "cancel_order") \/ a = "cancel_order" =>
           (a # "create_order" => Settled("create_order", "cancel_order")')
  BY <1>1, <1>2, SettledKept, ActivitiesAre
<1>6. /\ a = "process_payment" => Saga!Told("create_order") # {}
      /\ a = "ship_order" => Saga!Told("process_payment") # {}
      /\ a = "cancel_order" => Settled("process_payment", "refund_payment")
      /\ a = "process_payment" => Saga!When("cancel_order") = {} /\ late["cancel_order"] = 0
  BY <1>0, <1>3, ActivitiesAre DEF StepsRun, RollbackRuns, NothingUndone
<1>7. /\ Follows("create_order", "process_payment")' /\ Follows("process_payment", "ship_order")'
      /\ CancelFollows'
  <2>1. late' = late /\ \A b \in Saga!Activities : late[b] \in Nat /\ late[b] <= late[b]
    <3>1. \A n \in Nat : n <= n
      OBVIOUS
    <3>2. \A b \in Saga!Activities : late[b] \in Nat
      BY <1>1
    <3> QED BY <1>2, <3>1, <3>2
  <2>2. late' \in [Saga!Activities -> Nat] /\ \A b \in Saga!Activities : late'[b] <= late[b]
    BY <1>1, <2>1
  <2> QED BY <1>1, <1>2, <1>6, <2>2, OrderKept
<1>8. a \notin Saga!Undoing /\ NothingUndone => NothingUndone'
  BY <1>2, <1>4 DEF NothingUndone
<1>9. CASE phase = "steps"
  <2> USE <1>3, <1>9
  <2>1. CASE activity = <<"create_order", "process_payment", "ship_order">>
    <3>1. a = "create_order" /\ activity' = <<"process_payment", "ship_order">> /\ compensations = << >>
      BY <1>0, <1>2, <2>1 DEF StepsRun
    <3>a. activity' # << >> /\ Append(<< >>, "cancel_order") = <<"cancel_order">>
      BY <3>1
    <3>2. compensations' = <<"cancel_order">> /\ phase' = "steps"
      BY <1>2, <3>1, <3>a, ActivitiesAre
    <3>3. StepsRun'
      BY <1>2, <1>4, <1>8, <2>1, <3>1, <3>2, ActivitiesAre DEF StepsRun
    <3> QED BY <1>7, <3>2, <3>3, SucceedsIs DEF SagaInv
  <2>2. CASE activity = <<"process_payment", "ship_order">>
    <3>1. a = "process_payment" /\ activity' = <<"ship_order">> /\ compensations = <<"cancel_order">>
      BY <1>0, <1>2, <2>2 DEF StepsRun
    <3>a. activity' # << >>
      BY <3>1
    <3>2. compensations' = <<"cancel_order", "refund_payment">> /\ phase' = "steps"
      BY <1>2, <3>1, <3>a, ActivitiesAre, AppendToOne
    <3>3. StepsRun'
      BY <1>2, <1>4, <1>8, <2>2, <3>1, <3>2, ActivitiesAre DEF StepsRun
    <3> QED BY <1>7, <3>2, <3>3, SucceedsIs DEF SagaInv
  <2>3. CASE activity = <<"ship_order">>
    <3>a. Head(activity) = "ship_order" /\ Tail(activity) = << >>
      BY <2>3
    <3>1. a = "ship_order" /\ activity' = << >>
      BY <1>0, <1>2, <3>a
    <3>2. phase' = "tell success"
      BY <1>2, <3>1
    <3>3. Saga!Told("create_order") # {} /\ Saga!Told("process_payment") # {} /\ NothingUndone
      BY <2>3 DEF StepsRun
    <3>4. NothingUndone'
      BY <1>8, <3>1, <3>3, ActivitiesAre
    <3>5. Saga!Told("create_order")' # {} /\ Saga!Told("process_payment")' # {} /\ Saga!Told("ship_order")' # {}
      BY <1>4, <3>1, <3>3
    <3>6. AllDone'
      BY <3>1, <3>4, <3>5 DEF AllDone
    <3> QED BY <1>7, <3>2, <3>6, SucceedsIs DEF SagaInv
  <2> QED BY <2>1, <2>2, <2>3 DEF StepsRun
<1>10. CASE phase = "rollback"
  <2> USE <1>3, <1>10
  <2>1. CASE activity = <<"refund_payment", "cancel_order">>
    <3>1. a = "refund_payment" /\ activity' = <<"cancel_order">>
      BY <1>0, <1>2, <2>1
    <3>a. activity' # << >>
      BY <3>1
    <3>2. phase' = "rollback"
      BY <1>0, <1>2, <3>a
    <3>3. RollbackRuns'
      BY <1>4, <1>5, <3>1 DEF RollbackRuns
    <3> QED BY <1>7, <3>2, <3>3, SucceedsIs DEF SagaInv
  <2>2. CASE activity = <<"cancel_order">>
    <3>a. Head(activity) = "cancel_order" /\ Tail(activity) = << >>
      BY <2>2
    <3>1. a = "cancel_order" /\ activity' = << >>
      BY <1>0, <1>2, <3>a
    <3>2. phase' = "tell failure"
      BY <1>2, <3>1
    <3>3. AllUndone'
      BY <1>4, <1>5, <2>2, <3>1 DEF RollbackRuns, AllUndone
    <3> QED BY <1>7, <3>2, <3>3, SucceedsIs DEF SagaInv
  <2> QED BY <2>1, <2>2 DEF RollbackRuns
<1> QED BY <1>3, <1>9, <1>10

\* After an attempt without success, the order of things is as before, whether
\* the attempt may still take effect or not.
LEMMA UnsuccessfulIs ==
  ASSUME SagaInv, Saga!Fails \/ Saga!TimesOut
  PROVE  /\ activity # << >> /\ Saga!NoteAttempt /\ effects' = effects /\ compensations' = compensations
         /\ late' \in [Saga!Activities -> Nat]
         /\ \A b \in Saga!Activities : b # Head(activity) => late'[b] = late[b]
         /\ exhausted \subseteq exhausted'
         /\ \A a : Saga!When(a)' = Saga!When(a) /\ Saga!Told(a)' = Saga!Told(a)
         /\ \A step, undo : Settled(step, undo) => Settled(step, undo)'
         /\ Follows("create_order", "process_payment")' /\ Follows("process_payment", "ship_order")'
         /\ CancelFollows'
<1>1. /\ activity # << >> /\ Saga!NoteAttempt /\ effects' = effects /\ compensations' = compensations
      /\ late' = late \/ late' = [late EXCEPT ![Head(activity)] = @ + 1]
  BY DEF Saga!Fails, Saga!TimesOut
<1>2. late \in [Saga!Activities -> Nat]
  BY DEF SagaInv, Saga!TypeOK
<1>3. /\ late' \in [Saga!Activities -> Nat]
      /\ \A b \in Saga!Activities : b # Head(activity) => late'[b] = late[b]
  BY <1>1, <1>2
<1>4. exhausted \subseteq exhausted'
  BY <1>1 DEF Saga!NoteAttempt, Saga!Again, Saga!GiveUp
<1>5. \A a : Saga!When(a)' = Saga!When(a) /\ Saga!Told(a)' = Saga!Told(a)
  BY <1>1 DEF Saga!When, Saga!Told
<1>6. \A step, undo : Settled(step, undo) => Settled(step, undo)'
  BY <1>4, <1>5 DEF Settled
<1>7. \/ phase = "steps" /\ StepsRun /\ Head(activity) \in {"create_order", "process_payment", "ship_order"}
      \/ phase = "rollback" /\ RollbackRuns /\ Head(activity) \in {"refund_payment", "cancel_order"}
  BY <1>1, AtWork
<1>8. /\ Head(activity) = "process_payment" => Saga!Told("create_order") # {}
      /\ Head(activity) = "ship_order" => Saga!Told("process_payment") # {}
      /\ Head(activity) = "cancel_order" => Settled("process_payment", "refund_payment")
  BY <1>7 DEF StepsRun, RollbackRuns
<1>9. Follows("create_order", "process_payment")' /\ Follows("process_payment", "ship_order")'
  BY <1>3, <1>5, <1>8, ActivitiesAre DEF SagaInv, Follows
<1>10. CancelFollows'
  BY <1>3, <1>4, <1>5, <1>6, <1>8, ActivitiesAre DEF SagaInv, CancelFollows
<1> QED BY <1>1, <1>3, <1>4, <1>5, <1>6, <1>9, <1>10

\* An attempt without success: the next one, the rollback, or the next undo action.
LEMMA SagaUnsuccessful ==
  ASSUME SagaInv, Saga!Fails \/ Saga!TimesOut PROVE SagaInv'
<1>1. /\ activity # << >> /\ Saga!NoteAttempt /\ effects' = effects /\ compensations' = compensations
      /\ late' \in [Saga!Activities -> Nat]
      /\ \A b \in Saga!Activities : b # Head(activity) => late'[b] = late[b]
      /\ exhausted \subseteq exhausted'
      /\ \A a : Saga!When(a)' = Saga!When(a) /\ Saga!Told(a)' = Saga!Told(a)
      /\ \A step, undo : Settled(step, undo) => Settled(step, undo)'
      /\ Follows("create_order", "process_payment")' /\ Follows("process_payment", "ship_order")'
      /\ CancelFollows'
  BY UnsuccessfulIs
<1>2. \/ phase = "steps" /\ StepsRun /\ Head(activity) \in {"create_order", "process_payment", "ship_order"}
      \/ phase = "rollback" /\ RollbackRuns /\ Head(activity) \in {"refund_payment", "cancel_order"}
  BY <1>1, AtWork
<1>3. Head(activity) \notin Saga!Undoing /\ NothingUndone => NothingUndone'
  BY <1>1, ActivitiesAre DEF NothingUndone
<1>4. Saga!TypeOK /\ attempt \in 0..MaxAttempts - 1 /\ MaxAttempts \in Nat \ {0}
  BY RulesMakeSense DEF SagaInv, Saga!TypeOK
<1>5. CASE attempt + 1 < MaxAttempts
  <2>1. attempt' \in 0..MaxAttempts - 1 /\ UNCHANGED <<phase, activity, exhausted>>
    BY <1>1, <1>4, <1>5 DEF Saga!NoteAttempt, Saga!Again
  <2>2. Saga!TypeOK'
    BY <1>1, <1>4, <2>1 DEF Saga!TypeOK
  <2>3. phase = "steps" => StepsRun'
    BY <1>1, <1>2, <1>3, <2>1, ActivitiesAre DEF StepsRun
  <2>4. phase = "rollback" => RollbackRuns'
    BY <1>1, <1>2, <2>1 DEF RollbackRuns
  <2> QED BY <1>1, <1>2, <2>1, <2>2, <2>3, <2>4 DEF SagaInv
<1>6. CASE ~ (attempt + 1 < MaxAttempts)
  <2>1. Saga!GiveUp
    BY <1>1, <1>6 DEF Saga!NoteAttempt
  <2>2. attempt' = 0 /\ 0 \in 0..MaxAttempts - 1
    <3>1. attempt' = 0
      BY <2>1 DEF Saga!GiveUp
    <3> QED BY <1>4, <3>1
  <2>3. CASE phase = "steps"
    <3>1. /\ activity' = Saga!Reverse(compensations) /\ exhausted' = exhausted
          /\ phase' = IF activity' = << >> THEN "tell failure" ELSE "rollback"
      BY <2>1, <2>3 DEF Saga!GiveUp, Saga!Rollback
    <3>2. \/ /\ activity' = << >> /\ Saga!Told("create_order") = {} /\ Saga!Told("process_payment") = {}
          \/ activity' = <<"cancel_order">> /\ Saga!Told("process_payment") = {}
          \/ activity' = <<"refund_payment", "cancel_order">>
      BY <1>2, <2>3, <3>1, ReverseIs DEF StepsRun
    <3>3. Saga!Told("ship_order")' = {}
      BY <1>1, <1>2, <2>3 DEF StepsRun
    <3>4. (phase' = "tell failure" /\ AllUndone') \/ (phase' = "rollback" /\ RollbackRuns')
      <4>1. CASE activity' = << >> /\ Saga!Told("create_order") = {} /\ Saga!Told("process_payment") = {}
        <5>1. Settled("process_payment", "refund_payment")' /\ Settled("create_order", "cancel_order")'
          BY <1>1, <4>1 DEF Settled
        <5> QED BY <3>1, <3>3, <4>1, <5>1 DEF AllUndone
      <4>2. CASE activity' = <<"cancel_order">> /\ Saga!Told("process_payment") = {}
        <5>1. Settled("process_payment", "refund_payment")'
          BY <1>1, <4>2 DEF Settled
        <5>2. activity' # << >>
          BY <4>2
        <5> QED BY <3>1, <3>3, <4>2, <5>1, <5>2 DEF RollbackRuns
      <4>3. CASE activity' = <<"refund_payment", "cancel_order">>
        <5>1. activity' # << >>
          BY <4>3
        <5> QED BY <3>1, <3>3, <4>3, <5>1 DEF RollbackRuns
      <4> QED BY <3>2, <4>1, <4>2, <4>3
    <3>5. activity' \in Seq(Saga!Activities)
      <4> DEFINE S == Saga!Activities
      <4>1. "refund_payment" \in S /\ "cancel_order" \in S
        BY ActivitiesAre
      <4> HIDE DEF S
      <4>2. activity' \in Seq(S)
        <5>1. CASE activity' = << >>
          BY <5>1
        <5>2. CASE activity' = <<"cancel_order">>
          BY <4>1, <5>2
        <5>3. CASE activity' = <<"refund_payment", "cancel_order">>
          BY <4>1, <5>3
        <5> QED BY <3>2, <5>1, <5>2, <5>3
      <4> QED BY <4>2 DEF S
    <3>6. Saga!TypeOK'
      BY <1>1, <1>4, <2>2, <3>1, <3>4, <3>5 DEF Saga!TypeOK, Saga!Phases
    <3> QED BY <1>1, <3>4, <3>6 DEF SagaInv
  <2>4. CASE phase = "rollback"
    <3>1. /\ activity' = Tail(activity) /\ exhausted' = exhausted \cup {Head(activity)}
          /\ phase' = IF activity' = << >> THEN "tell failure" ELSE "rollback"
      BY <2>1, <2>4 DEF Saga!GiveUp
    <3>2. Saga!Told("ship_order")' = {}
      BY <1>1, <1>2, <2>4 DEF RollbackRuns
    <3>3. (phase' = "tell failure" /\ AllUndone') \/ (phase' = "rollback" /\ RollbackRuns')
      <4>1. CASE activity = <<"refund_payment", "cancel_order">>
        <5>0. Head(activity) = "refund_payment" /\ Tail(activity) = <<"cancel_order">>
          BY <4>1
        <5>1. activity' = <<"cancel_order">> /\ "refund_payment" \in exhausted'
          BY <3>1, <5>0
        <5>2. activity' # << >>
          BY <5>1
        <5>3. Settled("process_payment", "refund_payment")'
          BY <5>1 DEF Settled
        <5> QED BY <3>1, <3>2, <5>1, <5>2, <5>3 DEF RollbackRuns
      <4>2. CASE activity = <<"cancel_order">> /\ Settled("process_payment", "refund_payment")
        <5>0. Head(activity) = "cancel_order" /\ Tail(activity) = << >>
          BY <4>2
        <5>1. activity' = << >> /\ "cancel_order" \in exhausted'
          BY <3>1, <5>0
        <5>2. Settled("create_order", "cancel_order")'
          BY <5>1 DEF Settled
        <5> QED BY <1>1, <3>1, <3>2, <4>2, <5>1, <5>2 DEF AllUndone
      <4> QED BY <1>2, <2>4, <4>1, <4>2 DEF RollbackRuns
    <3>4. activity' \in Seq(Saga!Activities)
      <4>1. activity \in Seq(Saga!Activities)
        BY <1>4 DEF Saga!TypeOK
      <4> QED BY <1>1, <3>1, <4>1, SequenceSteps
    <3>5. exhausted' \subseteq Saga!Undoing
      BY <1>2, <1>4, <2>4, <3>1, ActivitiesAre DEF Saga!TypeOK
    <3>6. Saga!TypeOK'
      BY <1>1, <1>4, <2>2, <3>3, <3>4, <3>5 DEF Saga!TypeOK, Saga!Phases
    <3> QED BY <1>1, <3>3, <3>6 DEF SagaInv
  <2> QED BY <1>2, <2>3, <2>4
<1> QED BY <1>5, <1>6

\* Every step of the workflow keeps the invariant.
LEMMA SagaStep == SagaInv /\ [Saga!Next]_sagaVars => SagaInv'
<1> SUFFICES ASSUME SagaInv, [Saga!Next]_sagaVars PROVE SagaInv'
  OBVIOUS
<1>1. CASE Saga!Succeeds
  BY <1>1, SagaForward
<1>2. CASE Saga!Fails \/ Saga!TimesOut
  BY <1>2, SagaUnsuccessful
<1>3. CASE \E a \in Saga!Activities : Saga!TakesEffect(a)
  BY <1>3, SagaLate
<1>4. ASSUME UNCHANGED <<activity, attempt, compensations, late, effects, exhausted>>
      PROVE  /\ Follows("create_order", "process_payment")' /\ Follows("process_payment", "ship_order")'
             /\ CancelFollows' /\ StepsRun' = StepsRun /\ AllDone' = AllDone
             /\ RollbackRuns' = RollbackRuns /\ AllUndone' = AllUndone
  <2>1. \A a : Saga!When(a)' = Saga!When(a) /\ Saga!Told(a)' = Saga!Told(a)
    BY <1>4 DEF Saga!When, Saga!Told
  <2> QED BY <1>4, <2>1 DEF SagaInv, Follows, CancelFollows, Settled, StepsRun, AllDone, RollbackRuns,
             AllUndone, NothingUndone
<1>5. CASE Saga!Tell
  <2>1. /\ UNCHANGED <<activity, attempt, compensations, late, effects, exhausted>>
        /\ \/ phase = "tell success" /\ phase' = "completed"
           \/ phase = "tell failure" /\ phase' = "failed"
    BY <1>5 DEF Saga!Tell
  <2>2. Saga!TypeOK'
    BY <2>1 DEF SagaInv, Saga!TypeOK, Saga!Phases
  <2> QED BY <1>4, <2>1, <2>2 DEF SagaInv
<1>6. CASE UNCHANGED sagaVars
  <2>1. UNCHANGED <<phase, activity, attempt, compensations, late, effects, exhausted>>
    BY <1>6 DEF sagaVars
  <2>2. Saga!TypeOK'
    BY <2>1 DEF SagaInv, Saga!TypeOK
  <2> QED BY <1>4, <2>1, <2>2 DEF SagaInv
<1> QED BY <1>1, <1>2, <1>3, <1>5, <1>6 DEF Saga!Next

\* The order's effects are in order, and at its end it is done, or undone.
LEMMA SagaEnds == SagaInv => AllOrNothing
<1> SUFFICES ASSUME SagaInv PROVE AllOrNothing
  OBVIOUS
<1>1. /\ Len(Saga!Steps) = 3 /\ Saga!Steps[1] = "create_order" /\ Saga!Steps[2] = "process_payment"
      /\ Saga!Steps[3] = "ship_order"
  BY DEF Saga!Steps
<1>2. ASSUME NEW k \in 2..Len(Saga!Steps), NEW i \in Saga!When(Saga!Steps[k])
      PROVE  \E j \in Saga!Told(Saga!Steps[k - 1]) : j < i
  <2>1. k = 2 \/ k = 3
    BY <1>1
  <2>2. \/ k = 2 /\ k - 1 = 1
        \/ k = 3 /\ k - 1 = 2
    BY <2>1
  <2> QED BY <1>1, <1>2, <2>2 DEF SagaInv, Follows
<1>3. ASSUME phase = "completed"
      PROVE  /\ \A k \in 1..Len(Saga!Steps) : Saga!Told(Saga!Steps[k]) # {}
             /\ \A a \in Saga!Undoing : Saga!When(a) = {} /\ late[a] = 0
  <2>1. AllDone
    BY <1>3 DEF SagaInv
  <2>2. ASSUME NEW k \in 1..Len(Saga!Steps) PROVE Saga!Told(Saga!Steps[k]) # {}
    <3>1. k = 1 \/ k = 2 \/ k = 3
      BY <1>1
    <3> QED BY <1>1, <2>1, <3>1 DEF AllDone
  <2> QED BY <2>1, <2>2 DEF AllDone, NothingUndone
<1>4. ASSUME phase = "failed"
      PROVE  /\ Saga!Told("ship_order") = {}
             /\ \A step \in DOMAIN Saga!Undo : \A i \in Saga!Told(step) :
                  Saga!Undo[step] \in exhausted \/ \E j \in Saga!When(Saga!Undo[step]) : i < j
             /\ \A j \in Saga!When("cancel_order") : Saga!Told("process_payment") # {} =>
                  "refund_payment" \in exhausted \/ \E i \in Saga!When("refund_payment") : i < j
  BY <1>4, ActivitiesAre DEF SagaInv, AllUndone, Settled, CancelFollows
<1> QED BY <1>2, <1>3, <1>4 DEF AllOrNothing, Saga!AllOrNothing

-----------------------------------------------------------------------------
(* The bucket.                                                             *)

\* Whatever it has let through since any tick, what it still holds included,
\* was in the full bucket or has dripped in since.
TokensAccounted ==
  \A from \in 0..now :
    (admitted[now] - Bucket!Before(from)) * Token + Bucket!Tokens <= Bucket!Full + (now - from) * Drip

\* A client that was turned away finds a token when it may come back.
PromiseKept == Bucket!Tokens + (IF promise > now THEN (promise - now) * Drip ELSE 0) >= Token

BucketInv == Bucket!TypeOK /\ TokensAccounted /\ RateKept /\ PromiseKept

\* The constants, one by one.
LEMMA Rates ==
  /\ Token \in Nat /\ Token > 0 /\ Drip \in Nat /\ Drip > 0 /\ PerSecond \in Nat /\ PerSecond > 0
  /\ MaxTokens \in Nat /\ MaxTokens > 0 /\ Expiry \in Nat /\ MaxTime \in Nat
  /\ Bucket!Full \in Nat /\ Bucket!Full >= Token /\ Expiry * Drip >= Bucket!Full
  /\ Bucket!Never \in Nat /\ (Bucket!Never - MaxTime) * Drip >= Token
<1>1. /\ Token \in Nat /\ Token > 0 /\ Drip \in Nat /\ Drip > 0 /\ PerSecond \in Nat /\ PerSecond > 0
      /\ MaxTokens \in Nat /\ MaxTokens > 0 /\ Expiry \in Nat /\ MaxTime \in Nat
  BY RulesMakeSense
<1>2. MaxTokens * Token \in Nat /\ MaxTokens * Token >= Token
  BY <1>1
<1>3. Expiry * Drip >= MaxTokens * Token
  BY RulesMakeSense
<1>4. Token * PerSecond \in Nat /\ Token * PerSecond >= Token
  BY <1>1
<1>5. (100 * Token * PerSecond) \in Nat /\ 100 * Token * PerSecond >= Token
  BY <1>1, <1>4
<1>6. \A n \in Nat : n >= Token => n * Drip >= Token
  BY <1>1
<1>7. Bucket!Never \in Nat /\ Bucket!Never - MaxTime \in Nat /\ Bucket!Never - MaxTime >= Token
  BY <1>1, <1>5 DEF Bucket!Never
<1> QED BY <1>1, <1>2, <1>3, <1>6, <1>7 DEF Bucket!Full

\* Rounding up covers.
LEMMA CeilDivCovers ==
  ASSUME NEW a \in Nat, NEW b \in Nat, b > 0
  PROVE  Bucket!CeilDiv(a, b) \in Nat /\ Bucket!CeilDiv(a, b) * b >= a
BY DEF Bucket!CeilDiv

\* Time drips.
LEMMA Dripped ==
  ASSUME NEW n \in Nat
  PROVE  n * Drip \in Nat /\ (n + 1) * Drip = n * Drip + Drip
BY Rates

\* What is in the bucket: between nothing and full.
LEMMA TokensAre ==
  ASSUME Bucket!TypeOK
  PROVE  /\ Bucket!Tokens \in 0..Bucket!Full
         /\ bucket = Bucket!Absent => Bucket!Tokens = Bucket!Full
         /\ bucket # Bucket!Absent =>
              /\ bucket.tokens \in 0..Bucket!Full /\ now - bucket.last \in Nat /\ now \in Nat
              /\ (now - bucket.last) * Drip \in Nat
              /\ Bucket!Tokens = IF bucket.tokens + (now - bucket.last) * Drip < Bucket!Full
                                 THEN bucket.tokens + (now - bucket.last) * Drip ELSE Bucket!Full
<1>1. CASE bucket = Bucket!Absent
  BY <1>1, Rates DEF Bucket!Tokens
<1>2. CASE bucket # Bucket!Absent
  <2>1. bucket.tokens \in 0..Bucket!Full /\ bucket.last \in 0..now /\ now \in 0..MaxTime
    BY <1>2 DEF Bucket!TypeOK
  <2>2. now - bucket.last \in Nat /\ now \in Nat
    BY <2>1, Rates
  <2>3. (now - bucket.last) * Drip \in Nat
    BY <2>2, Dripped
  <2>4. Bucket!Tokens = IF bucket.tokens + (now - bucket.last) * Drip < Bucket!Full
                        THEN bucket.tokens + (now - bucket.last) * Drip ELSE Bucket!Full
    BY <1>2 DEF Bucket!Tokens
  <2> HIDE DEF Bucket!Full
  <2>5. Bucket!Tokens \in 0..Bucket!Full
    BY <2>1, <2>3, <2>4, Rates
  <2> QED BY <1>2, <2>1, <2>2, <2>3, <2>4, <2>5
<1> QED BY <1>1, <1>2

\* An empty bucket that is written now holds what was written.
LEMMA TokensWritten ==
  ASSUME NEW t \in 0..Bucket!Full, Bucket!TypeOK, bucket' = [tokens |-> t, last |-> now], now' = now
  PROVE  bucket' # Bucket!Absent /\ Bucket!Tokens' = t /\ bucket'.tokens \in 0..Bucket!Full /\ bucket'.last \in 0..now
<1>1. now \in Nat /\ now \in 0..now
  BY Rates DEF Bucket!TypeOK
<1>2. bucket'.last = now /\ bucket'.tokens = t
  OBVIOUS
<1>3. Bucket!Absent.last = -1 
  BY DEF Bucket!Absent
<1>4. bucket' # Bucket!Absent
  BY <1>1, <1>2, <1>3
<1>5. (now - now) * Drip = 0
  BY <1>1, Rates
<1>6. Bucket!Tokens' = IF t + (now - now) * Drip < Bucket!Full THEN t + (now - now) * Drip ELSE Bucket!Full
  BY <1>2, <1>4 DEF Bucket!Tokens, Bucket!Absent, Bucket!Full
<1>7. t + (now - now) * Drip = t /\ (t < Bucket!Full \/ t = Bucket!Full)
  BY <1>5, Rates
<1> QED BY <1>1, <1>2, <1>4, <1>6, <1>7

\* At the start nothing has been let through.
LEMMA BucketInit == Bucket!Init => BucketInv
<1> SUFFICES ASSUME Bucket!Init PROVE BucketInv
  OBVIOUS
<1>1. now = 0 /\ bucket = Bucket!Absent /\ promise = Bucket!Never /\ \A t \in 0..MaxTime : admitted[t] = 0
      /\ admitted \in [0..MaxTime -> Nat] /\ 0 \in 0..MaxTime
  BY Rates DEF Bucket!Init
<1>2. Bucket!TypeOK
  BY <1>1, Rates DEF Bucket!TypeOK
<1>3. Bucket!Tokens = Bucket!Full
  BY <1>1 DEF Bucket!Tokens
<1>4. \A from \in 0..now, to \in 0..now : admitted[to] = 0 /\ Bucket!Before(from) = 0 /\ from = 0 /\ to = 0
  <2> TAKE from \in 0..now, to \in 0..now
  <2>1. from = 0 /\ to = 0
    BY <1>1
  <2>2. Bucket!Before(0) = 0
    BY DEF Bucket!Before
  <2>3. admitted[0] = 0
    BY <1>1, Rates
  <2> QED BY <2>1, <2>2, <2>3
<1>5. 0 * Token = 0 /\ 0 * Drip = 0
  BY Rates
<1>6. TokensAccounted /\ RateKept
  BY <1>1, <1>3, <1>4, <1>5, Rates DEF TokensAccounted, RateKept, Bucket!RateKept
<1>7. PromiseKept
  BY <1>1, <1>3, Rates DEF PromiseKept
<1> QED BY <1>2, <1>6, <1>7 DEF BucketInv

\* What is accounted for, in numbers.
LEMMA AccountIs ==
  ASSUME BucketInv, NEW from \in 0..now
  PROVE  /\ now \in Nat /\ from \in Nat /\ now \in 0..MaxTime
         /\ admitted[now] \in Nat /\ Bucket!Before(from) \in Nat
         /\ (now - from) * Drip \in Nat
         /\ (admitted[now] - Bucket!Before(from)) * Token + Bucket!Tokens <= Bucket!Full + (now - from) * Drip
<1>1. now \in 0..MaxTime /\ admitted \in [0..MaxTime -> Nat] /\ now \in Nat /\ from \in Nat
  BY Rates DEF BucketInv, Bucket!TypeOK
<1>2. Bucket!Before(from) \in Nat
  <2>1. from # 0 => from - 1 \in 0..MaxTime
    BY <1>1, Rates
  <2> QED BY <1>1, <2>1 DEF Bucket!Before
<1>3. now - from \in Nat
  BY <1>1
<1> QED BY <1>1, <1>2, <1>3, Dripped DEF BucketInv, TokensAccounted

\* A stretch that ends earlier was kept within the rate, and stays so; one that
\* ends now is, by what is accounted for.
LEMMA RateFollows ==
  ASSUME BucketInv, Bucket!TypeOK', TokensAccounted', Bucket!Tokens' \in Nat, now' \in {now, now + 1},
         \A t \in 0..now' - 1 : admitted'[t] = admitted[t]
  PROVE  RateKept'
<1>1. now \in 0..MaxTime /\ now' \in 0..MaxTime /\ now \in Nat /\ now' \in Nat
  BY Rates DEF BucketInv, Bucket!TypeOK
<1>2. \A from \in 0..now' : Bucket!Before(from)' = Bucket!Before(from)
  <2> DEFINE end == now'
  <2> TAKE from \in 0..now'
  <2>0. end \in Nat /\ from \in 0..end
    BY <1>1
  <2> HIDE DEF end
  <2>a. from # 0 => from - 1 \in 0..end - 1
    BY <2>0
  <2>1. from # 0 => from - 1 \in 0..now' - 1
    BY <2>a DEF end
  <2> QED BY <2>1 DEF Bucket!Before
<1> SUFFICES ASSUME NEW from \in 0..now', NEW to \in from..now'
             PROVE  (admitted'[to] - Bucket!Before(from)') * Token <= Bucket!Full + (to - from) * Drip
  BY DEF RateKept, Bucket!RateKept, Bucket!Before, Bucket!Full
<1>3. CASE to < now'
  <2>1. to \in 0..now' - 1 /\ from \in 0..now /\ to \in from..now
    BY <1>1, <1>3
  <2>2. (admitted[to] - Bucket!Before(from)) * Token <= Bucket!Full + (to - from) * Drip
    BY <2>1 DEF BucketInv, RateKept, Bucket!RateKept
  <2> QED BY <1>2, <2>1, <2>2
<1>4. CASE to = now'
  <2>1. (admitted'[now'] - Bucket!Before(from)') * Token + Bucket!Tokens' <= Bucket!Full + (now' - from) * Drip
    BY DEF TokensAccounted, Bucket!Full, Bucket!Before
  <2>2. admitted'[now'] \in Nat /\ Bucket!Before(from)' \in Nat
    <3>1. admitted' \in [0..MaxTime -> Nat]
      BY DEF Bucket!TypeOK
    <3>2. from # 0 => from - 1 \in 0..MaxTime
      BY <1>1, Rates
    <3> QED BY <1>1, <3>1, <3>2 DEF Bucket!Before
  <2>3. (admitted'[now'] - Bucket!Before(from)') * Token \in Int /\ (now' - from) * Drip \in Int
    BY <1>1, <2>2, Rates
  <2> QED BY <1>4, <2>1, <2>3, Rates
<1>5. to < now' \/ to = now'
  BY <1>1
<1> QED BY <1>3, <1>4, <1>5

\* A script call, in the tick it runs: it takes what the requests it lets
\* through cost, at least.
LEMMA Takes ==
  ASSUME BucketInv, NEW n \in Nat, NEW t \in 0..Bucket!Full, t + n * Token <= Bucket!Tokens,
         bucket' = [tokens |-> t, last |-> now], now' = now,
         admitted' = [admitted EXCEPT ![now] = admitted[now] + n], promise' \in Nat
  PROVE  Bucket!TypeOK' /\ TokensAccounted' /\ RateKept'
<1>1. now \in 0..MaxTime /\ admitted \in [0..MaxTime -> Nat] /\ now \in Nat
  BY Rates DEF BucketInv, Bucket!TypeOK
<1>2. bucket' # Bucket!Absent /\ Bucket!Tokens' = t /\ bucket'.tokens \in 0..Bucket!Full /\ bucket'.last \in 0..now
  BY TokensWritten DEF BucketInv
<1>3. admitted' \in [0..MaxTime -> Nat]
  BY <1>1
<1>4. Bucket!TypeOK'
  BY <1>1, <1>2, <1>3 DEF Bucket!TypeOK, Bucket!Full
<1>5. \A i \in 0..now - 1 : admitted'[i] = admitted[i]
  BY <1>1
<1>6. TokensAccounted'
  <2> SUFFICES ASSUME NEW from \in 0..now
               PROVE  (admitted'[now] - Bucket!Before(from)') * Token + t <= Bucket!Full + (now - from) * Drip
    BY <1>2 DEF TokensAccounted, Bucket!Before, Bucket!Full
  <2>1. Bucket!Before(from)' = Bucket!Before(from)
    <3>1. from # 0 => from - 1 \in 0..now - 1
      BY <1>1
    <3> QED BY <1>5, <3>1 DEF Bucket!Before
  <2>2. admitted'[now] = admitted[now] + n
    BY <1>1
  <2> DEFINE was == admitted[now] - Bucket!Before(from)
  <2>3. was \in Int /\ admitted'[now] - Bucket!Before(from)' = was + n
    BY <2>1, <2>2, AccountIs
  <2>4. was * Token + Bucket!Tokens <= Bucket!Full + (now - from) * Drip /\ (now - from) * Drip \in Nat
    BY AccountIs
  <2> HIDE DEF was
  <2>5. (was + n) * Token = was * Token + n * Token /\ was * Token \in Int /\ n * Token \in Nat
    BY <2>3, Rates
  <2>6. Bucket!Tokens \in Nat
    BY TokensAre, Rates DEF BucketInv
  <2> QED BY <2>3, <2>4, <2>5, <2>6, Rates
<1>7. t \in Nat
  BY Rates
<1> QED BY <1>1, <1>2, <1>4, <1>5, <1>6, <1>7, RateFollows

\* A client that is told to come back is told late enough.
LEMMA RetryAfterIs ==
  ASSUME NEW t \in Nat, t < Token
  PROVE  Bucket!RetryAfter(t) \in Nat \ {0} /\ (Bucket!RetryAfter(t) * PerSecond) * Drip >= Token - t
<1> DEFINE short == Token - t  rate == Drip * PerSecond
           ms == Bucket!CeilDiv(short * 1000, rate)  s == Bucket!CeilDiv(ms, 1000)
<1>1. short \in Nat /\ short * 1000 \in Nat /\ rate \in Nat /\ rate > 0
  BY Rates
<1>2. ms \in Nat /\ ms * rate >= short * 1000
  BY <1>1, CeilDivCovers
<1>3. s \in Nat /\ s * 1000 >= ms
  BY <1>2, CeilDivCovers
<1>4. Bucket!RetryAfter(t) = IF s < 1 THEN 1 ELSE s
  BY DEF Bucket!RetryAfter
<1> HIDE DEF s, ms
<1>5. (s * 1000) * rate >= ms * rate
  BY <1>1, <1>2, <1>3
<1>6. (s * 1000) * rate = (s * rate) * 1000 /\ s * rate \in Nat /\ ms * rate \in Nat
  BY <1>1, <1>2, <1>3
<1>7. s * rate >= short
  BY <1>1, <1>2, <1>5, <1>6
<1>8. s # 0
  <2> SUFFICES ASSUME s = 0 PROVE FALSE
    OBVIOUS
  <2>1. 0 * rate = 0
    BY <1>1
  <2> QED BY <1>7, <2>1, Rates
<1>9. (s * PerSecond) * Drip = s * rate
  BY <1>3, Rates
<1> QED BY <1>3, <1>4, <1>7, <1>8, <1>9

\* The time until the first who was turned away may come back.
LEMMA GraceIs ==
  ASSUME NEW p \in Nat, NEW n \in Nat
  PROVE  /\ (IF p > n THEN (p - n) * Drip ELSE 0) \in Nat
         /\ p > n => p - n \in Nat /\ (p - n) * Drip \in Nat
<1>1. p > n => p - n \in Nat
  OBVIOUS
<1> QED BY <1>1, Dripped

\* Where there is a token, a promise is kept; where nobody was turned away,
\* there is none to keep.
LEMMA PromiseFollows ==
  ASSUME Bucket!TypeOK', Bucket!Tokens' \in Nat, Bucket!Tokens' >= Token \/ promise' = Bucket!Never
  PROVE  PromiseKept'
<1>1. now' \in 0..MaxTime /\ promise' \in Nat /\ now' \in Nat
  BY Rates DEF Bucket!TypeOK
<1>2. CASE Bucket!Tokens' >= Token
  <2> DEFINE p == promise'  n == now'
  <2>1. p \in Nat /\ n \in Nat
    BY <1>1
  <2> HIDE DEF p, n
  <2> DEFINE grace == IF p > n THEN (p - n) * Drip ELSE 0  t == Bucket!Tokens'
  <2>2. grace \in Nat
    BY <2>1, GraceIs
  <2>3. t \in Nat /\ t >= Token
    BY <1>2
  <2> HIDE DEF grace, t
  <2>4. t + grace >= Token
    BY <2>2, <2>3, Rates
  <2> QED BY <2>4 DEF PromiseKept, p, n, t, grace
<1>3. CASE promise' = Bucket!Never
  <2> DEFINE n == now'  m == Bucket!Never  spare == m - MaxTime
  <2>1. n \in Nat /\ n <= MaxTime /\ m \in Nat
    BY <1>1, Rates
  <2>a. spare * Drip >= Token
    BY Rates
  <2> HIDE DEF m, n
  <2>2. spare \in Int /\ m - n \in Int /\ m - n >= spare /\ spare * Drip >= Token
    BY <2>1, <2>a, Rates
  <2> HIDE DEF spare
  <2>3. (m - n) * Drip >= spare * Drip /\ (m - n) * Drip \in Int /\ spare * Drip \in Int
    BY <2>2, Rates
  <2>4. m > n
    <3>1. CASE m - n <= 0
      <4>1. (m - n) * Drip <= 0
        BY <2>2, <3>1, Rates
      <4> QED BY <2>2, <2>3, <4>1, Rates
    <3> QED BY <2>1, <2>2, <3>1
  <2>5. promise' > now' /\ (promise' - now') * Drip >= Token
    BY <1>3, <2>2, <2>3, <2>4, Rates DEF n, m
  <2>6. (promise' - now') * Drip \in Int
    BY <1>1, Rates
  <2> QED BY <2>5, <2>6, Rates DEF PromiseKept
<1> QED BY <1>2, <1>3

\* A tick drips into a bucket that is not full.
LEMMA TokensDrip ==
  ASSUME BucketInv, Bucket!Tick
  PROVE  Bucket!Tokens' = IF Bucket!Tokens + Drip < Bucket!Full THEN Bucket!Tokens + Drip ELSE Bucket!Full
<1>1. bucket' = bucket /\ now' = now + 1
  BY DEF Bucket!Tick
<1>2. CASE bucket = Bucket!Absent
  <2>1. Bucket!Tokens' = Bucket!Full
    BY <1>1, <1>2 DEF Bucket!Tokens, Bucket!Full, Bucket!Absent
  <2>2. Bucket!Tokens = Bucket!Full
    BY <1>2, TokensAre DEF BucketInv
  <2> QED BY <2>1, <2>2, Rates
<1>3. CASE bucket # Bucket!Absent
  <2> DEFINE n == now - bucket.last
  <2>1. /\ bucket.tokens \in Nat /\ n \in Nat /\ now \in Nat /\ n * Drip \in Nat
        /\ Bucket!Tokens = IF bucket.tokens + n * Drip < Bucket!Full THEN bucket.tokens + n * Drip ELSE Bucket!Full
    BY <1>3, TokensAre, Rates DEF BucketInv
  <2>2. bucket.last \in Int
    BY <1>3, Rates DEF BucketInv, Bucket!TypeOK
  <2>3. now + 1 - bucket.last = n + 1
    BY <2>1, <2>2
  <2>4. Bucket!Tokens' = IF bucket.tokens + (n + 1) * Drip < Bucket!Full
                         THEN bucket.tokens + (n + 1) * Drip ELSE Bucket!Full
    <3>1. now' - bucket'.last = n + 1
      <4>1. bucket'.last = bucket.last
        BY <1>1
      <4>2. now' = now + 1
        BY <1>1
      <4>3. now' - bucket'.last = now + 1 - bucket.last
        BY <2>1, <2>2, <4>1, <4>2
      <4> QED BY <2>3, <4>3
    <3>2. bucket' # Bucket!Absent
      BY <1>1, <1>3
    <3>3. Bucket!Tokens' = IF bucket'.tokens + (now' - bucket'.last) * Drip < Bucket!Full
                           THEN bucket'.tokens + (now' - bucket'.last) * Drip ELSE Bucket!Full
      BY <3>2 DEF Bucket!Tokens, Bucket!Full, Bucket!Absent
    <3> QED BY <1>1, <3>1, <3>3
  <2>5. (n + 1) * Drip = n * Drip + Drip
    BY <2>1, Dripped
  <2> HIDE DEF n
  <2> QED BY <2>1, <2>4, <2>5, Rates
<1> QED BY <1>2, <1>3

\* Every script call, loss and tick keeps the invariant.
LEMMA BucketStep == BucketInv /\ [Bucket!Next]_bucketVars => BucketInv'
<1> SUFFICES ASSUME BucketInv, [Bucket!Next]_bucketVars PROVE BucketInv'
  OBVIOUS
<1>0. /\ now \in 0..MaxTime /\ now \in Nat /\ admitted \in [0..MaxTime -> Nat] /\ promise \in Nat
      /\ Bucket!Tokens \in 0..Bucket!Full /\ Bucket!Tokens \in Nat
  BY Rates, TokensAre DEF BucketInv, Bucket!TypeOK
<1>1. CASE Bucket!Request
  <2>1. CASE Bucket!Tokens >= Token
    <3>1. /\ bucket' = [tokens |-> Bucket!Tokens - Token, last |-> now] /\ now' = now
          /\ admitted' = [admitted EXCEPT ![now] = admitted[now] + 1] /\ promise' = Bucket!Never
      BY <1>1, <2>1 DEF Bucket!Request
    <3>2. Bucket!Tokens - Token \in 0..Bucket!Full /\ Bucket!Tokens - Token + 1 * Token <= Bucket!Tokens
      BY <1>0, <2>1, Rates
    <3>3. promise' \in Nat
      BY <3>1, Rates
    <3>4. Bucket!TypeOK' /\ TokensAccounted' /\ RateKept'
      BY <3>1, <3>2, <3>3, Takes
    <3>5. Bucket!Tokens' \in Nat
      BY <3>1, <3>2, Rates, TokensWritten DEF BucketInv
    <3> QED BY <3>1, <3>4, <3>5, PromiseFollows DEF BucketInv
  <2>2. CASE ~ (Bucket!Tokens >= Token)
    <3> DEFINE t == Bucket!Tokens  back == now + Bucket!RetryAfter(t) * PerSecond
    <3>1. /\ bucket' = [tokens |-> t, last |-> now] /\ now' = now /\ admitted' = admitted
          /\ promise' = IF back < promise THEN back ELSE promise
      BY <1>1, <2>2 DEF Bucket!Request
    <3>2. t \in Nat /\ t < Token /\ t + 0 * Token <= t
      BY <1>0, <2>2, Rates
    <3>3. Bucket!RetryAfter(t) \in Nat \ {0} /\ (Bucket!RetryAfter(t) * PerSecond) * Drip >= Token - t
      BY <3>2, RetryAfterIs
    <3>4. back \in Nat /\ back > now /\ back - now = Bucket!RetryAfter(t) * PerSecond
      <4>1. Bucket!RetryAfter(t) * PerSecond \in Nat /\ Bucket!RetryAfter(t) * PerSecond > 0
        BY <3>3, Rates
      <4> QED BY <1>0, <4>1
    <3>5. promise' \in Nat
      BY <1>0, <3>1, <3>4
    <3>6. admitted' = [admitted EXCEPT ![now] = admitted[now] + 0]
      BY <1>0, <3>1
    <3>7. Bucket!TypeOK' /\ TokensAccounted' /\ RateKept'
      BY <1>0, <3>1, <3>2, <3>5, <3>6, Takes
    <3>8. Bucket!Tokens' = t
      BY <1>0, <3>1, TokensWritten DEF BucketInv
    <3>9. PromiseKept'
      <4>1. CASE promise' = promise
        BY <3>1, <3>8, <4>1 DEF PromiseKept, BucketInv
      <4>2. CASE promise' = back
        <5>1. (back - now) * Drip >= Token - t /\ (back - now) * Drip \in Nat
          BY <1>0, <3>3, <3>4, GraceIs
        <5> HIDE DEF back, t
        <5>2. promise' > now' /\ (promise' - now') * Drip = (back - now) * Drip
          BY <3>1, <3>4, <4>2
        <5>3. t + (back - now) * Drip >= Token
          BY <3>2, <5>1, Rates
        <5> QED BY <3>8, <5>2, <5>3 DEF PromiseKept
      <4> QED BY <3>1, <4>1, <4>2
    <3> QED BY <3>7, <3>9 DEF BucketInv
  <2> QED BY <2>1, <2>2
<1>2. CASE Bucket!Degraded
  <2> DEFINE t == IF Bucket!Tokens >= Token THEN Bucket!Tokens - Token ELSE Bucket!Tokens
  <2>1. bucket' = [tokens |-> t, last |-> now] /\ now' = now /\ admitted' = admitted /\ promise' = Bucket!Never
    BY <1>2 DEF Bucket!Degraded
  <2>2. t \in 0..Bucket!Full /\ t \in Nat /\ t + 0 * Token <= Bucket!Tokens
    BY <1>0, Rates
  <2>3. promise' \in Nat /\ admitted' = [admitted EXCEPT ![now] = admitted[now] + 0]
    BY <1>0, <2>1, Rates
  <2> HIDE DEF t
  <2>4. Bucket!TypeOK' /\ TokensAccounted' /\ RateKept'
    BY <2>1, <2>2, <2>3, Takes
  <2>5. Bucket!Tokens' = t
    BY <2>1, <2>2, TokensWritten DEF BucketInv
  <2> QED BY <2>1, <2>2, <2>4, <2>5, PromiseFollows DEF BucketInv
<1>3. CASE Bucket!Evaporate
  <2>1. /\ bucket # Bucket!Absent /\ now - bucket.last >= Expiry /\ bucket' = Bucket!Absent
        /\ now' = now /\ admitted' = admitted /\ promise' = promise
    BY <1>3 DEF Bucket!Evaporate
  <2>2. Bucket!Tokens = Bucket!Full
    <3> DEFINE n == now - bucket.last
    <3>1. /\ bucket.tokens \in Nat /\ n \in Nat /\ n * Drip \in Nat
          /\ Bucket!Tokens = IF bucket.tokens + n * Drip < Bucket!Full THEN bucket.tokens + n * Drip ELSE Bucket!Full
      BY <2>1, TokensAre, Rates DEF BucketInv
    <3>2. n >= Expiry
      BY <2>1
    <3> HIDE DEF n
    <3>3. n * Drip >= Expiry * Drip /\ Expiry * Drip \in Nat
      BY <3>1, <3>2, Rates
    <3> QED BY <3>1, <3>3, Rates
  <2>3. Bucket!Tokens' = Bucket!Full
    BY <2>1 DEF Bucket!Tokens, Bucket!Full, Bucket!Absent
  <2>4. Bucket!TypeOK'
    BY <2>1 DEF BucketInv, Bucket!TypeOK, Bucket!Absent, Bucket!Full
  <2>5. TokensAccounted'
    BY <2>1, <2>2, <2>3 DEF BucketInv, TokensAccounted, Bucket!Before, Bucket!Full
  <2>6. RateKept'
    BY <2>1 DEF BucketInv, RateKept, Bucket!RateKept, Bucket!Before, Bucket!Full
  <2> QED BY <2>3, <2>4, <2>5, <2>6, PromiseFollows, Rates DEF BucketInv
<1>4. CASE Bucket!Forget
  <2>1. /\ bucket' = Bucket!Absent /\ now' = now /\ promise' = promise
        /\ admitted' \in [0..MaxTime -> Nat] /\ \A i \in 0..MaxTime : admitted'[i] = 0
    BY <1>4 DEF Bucket!Forget
  <2>2. Bucket!Tokens' = Bucket!Full
    BY <2>1 DEF Bucket!Tokens, Bucket!Full, Bucket!Absent
  <2>3. Bucket!TypeOK'
    BY <1>0, <2>1 DEF Bucket!TypeOK, Bucket!Absent, Bucket!Full
  <2>4. ASSUME NEW from \in 0..now, NEW to \in from..now
        PROVE  /\ (admitted'[to] - Bucket!Before(from)') * Token = 0
               /\ to \in Nat /\ (to - from) * Drip \in Nat
    <3>1. to \in 0..MaxTime /\ to \in Nat /\ to - from \in Nat /\ (from # 0 => from - 1 \in 0..MaxTime)
      BY <1>0, Rates
    <3>2. admitted'[to] = 0 /\ Bucket!Before(from)' = 0
      BY <2>1, <3>1 DEF Bucket!Before
    <3>3. (admitted'[to] - Bucket!Before(from)') * Token = 0
      BY <3>2, Rates
    <3> QED BY <3>1, <3>3, Dripped
  <2>5. TokensAccounted'
    <3> SUFFICES ASSUME NEW from \in 0..now
                 PROVE  (admitted'[now] - Bucket!Before(from)') * Token + Bucket!Full <= Bucket!Full + (now - from) * Drip
      BY <2>1, <2>2 DEF TokensAccounted, Bucket!Before, Bucket!Full
    <3>1. now \in from..now
      BY <1>0
    <3> QED BY <2>4, <3>1, Rates
  <2>6. RateKept'
    <3> SUFFICES ASSUME NEW from \in 0..now, NEW to \in from..now
                 PROVE  (admitted'[to] - Bucket!Before(from)') * Token <= Bucket!Full + (to - from) * Drip
      BY <2>1 DEF RateKept, Bucket!RateKept, Bucket!Before, Bucket!Full
    <3> QED BY <2>4, Rates
  <2> QED BY <2>2, <2>3, <2>5, <2>6, PromiseFollows, Rates DEF BucketInv
<1>5. CASE Bucket!Tick
  <2>1. /\ now' = now + 1 /\ now + 1 \in 0..MaxTime /\ bucket' = bucket /\ promise' = promise
        /\ admitted' = [admitted EXCEPT ![now + 1] = admitted[now]]
    BY <1>0, <1>5, Rates DEF Bucket!Tick
  <2>2. Bucket!Tokens' = IF Bucket!Tokens + Drip < Bucket!Full THEN Bucket!Tokens + Drip ELSE Bucket!Full
    BY <1>5, TokensDrip
  <2>3. /\ admitted' \in [0..MaxTime -> Nat] /\ admitted'[now + 1] = admitted[now]
        /\ \A i \in 0..now : admitted'[i] = admitted[i]
    BY <1>0, <2>1
  <2>4. Bucket!TypeOK'
    <3>1. 0..now \subseteq 0..now + 1
      BY <1>0
    <3> QED BY <2>1, <2>3, <3>1 DEF BucketInv, Bucket!TypeOK, Bucket!Full, Bucket!Absent
  <2>5. Bucket!Tokens' \in Nat
    BY <1>0, <2>2, Rates
  <2>6. TokensAccounted'
    <3>0. SUFFICES ASSUME NEW from \in 0..now'
                   PROVE  (admitted'[now'] - Bucket!Before(from)') * Token + Bucket!Tokens'
                            <= Bucket!Full + (now' - from) * Drip
      BY DEF TokensAccounted, Bucket!Before, Bucket!Full
    <3> SUFFICES (admitted[now] - Bucket!Before(from)') * Token + Bucket!Tokens' <= Bucket!Full + (now + 1 - from) * Drip
      <4>1. now' = now + 1
        BY <2>1
      <4>2. admitted'[now'] = admitted[now]
        BY <2>3, <4>1
      <4>3. from \in Int
        BY <2>1, <1>0, <3>0
      <4>4. now' - from = now + 1 - from
        BY <1>0, <4>1, <4>3
      <4> QED BY <4>2, <4>4
    <3>a. from \in 0..now + 1
      BY <2>1, <3>0
    <3>1. Bucket!Before(from)' = IF from = 0 THEN 0 ELSE admitted[from - 1]
      <4>1. from # 0 => from - 1 \in 0..now
        BY <1>0, <3>a
      <4> QED BY <2>3, <4>1 DEF Bucket!Before
    <3>2. CASE from = now + 1
      <4>1. Bucket!Before(from)' = admitted[now]
        BY <1>0, <3>1, <3>2
      <4> DEFINE due == (admitted[now] - Bucket!Before(from)') * Token  drips == (now + 1 - from) * Drip
      <4>2. due = 0 /\ drips = 0
        BY <1>0, <3>2, <4>1, Rates
      <4> HIDE DEF due, drips
      <4>3. due + Bucket!Tokens' <= Bucket!Full + drips
        BY <1>0, <2>2, <4>2, Rates
      <4> QED BY <4>3 DEF due, drips
    <3>3. CASE from \in 0..now
      <4>1. Bucket!Before(from)' = Bucket!Before(from)
        BY <3>1 DEF Bucket!Before
      <4> DEFINE used == (admitted[now] - Bucket!Before(from)) * Token
      <4>2. used + Bucket!Tokens <= Bucket!Full + (now - from) * Drip /\ (now - from) * Drip \in Nat
            /\ admitted[now] \in Nat /\ Bucket!Before(from) \in Nat
        BY <3>3, AccountIs
      <4>3. used \in Int
        BY <4>2, Rates
      <4>4. (now + 1 - from) * Drip = (now - from) * Drip + Drip
        <5>1. now - from \in Nat /\ now + 1 - from = (now - from) + 1
          BY <1>0, <3>3
        <5> QED BY <5>1, Dripped
      <4>5. (admitted[now] - Bucket!Before(from)') * Token = used
        BY <4>1
      <4> DEFINE drips == (now - from) * Drip
      <4> HIDE DEF used, drips
      <4>6. used + Bucket!Tokens' <= Bucket!Full + (drips + Drip)
        <5>1. used + Bucket!Tokens <= Bucket!Full + drips /\ drips \in Nat
          BY <4>2 DEF drips
        <5> QED BY <1>0, <2>2, <4>3, <5>1, Rates
      <4> QED BY <4>4, <4>5, <4>6 DEF drips
    <3> QED BY <1>0, <3>a, <3>2, <3>3
  <2>7. RateKept'
    <3>1. \A i \in 0..now' - 1 : admitted'[i] = admitted[i]
      BY <1>0, <2>1, <2>3
    <3> QED BY <2>1, <2>4, <2>5, <2>6, <3>1, RateFollows
  <2>8. PromiseKept'
    <3>1. CASE Bucket!Tokens + Drip >= Bucket!Full
      <4>1. Bucket!Tokens' >= Token
        BY <1>0, <2>2, <3>1, Rates
      <4> QED BY <2>4, <2>5, <4>1, PromiseFollows
    <3>2. CASE Bucket!Tokens + Drip < Bucket!Full
      <4>1. Bucket!Tokens' = Bucket!Tokens + Drip
        BY <2>2, <3>2
      <4>2. CASE promise > now
        <5>1. promise - now \in Nat /\ promise - now > 0 /\ Bucket!Tokens + (promise - now) * Drip >= Token
          BY <1>0, <4>2 DEF BucketInv, PromiseKept
        <5>2. promise - (now + 1) \in Nat /\ promise - now = (promise - (now + 1)) + 1
          BY <1>0, <5>1
        <5>3. (promise - now) * Drip = (promise - (now + 1)) * Drip + Drip
              /\ (promise - (now + 1)) * Drip \in Nat
          BY <5>2, Dripped
        <5>4. Bucket!Tokens' + (promise - (now + 1)) * Drip >= Token
          BY <1>0, <4>1, <5>1, <5>3, Rates
        <5>5. CASE promise > now + 1
          BY <2>1, <5>4, <5>5 DEF PromiseKept
        <5>6. CASE ~ (promise > now + 1)
          <6>1. promise - (now + 1) = 0
            BY <1>0, <5>2, <5>6
          <6>2. (promise - (now + 1)) * Drip = 0
            BY <6>1, Rates
          <6>3. Bucket!Tokens' + 0 >= Token
            BY <5>4, <6>2
          <6> QED BY <2>1, <5>6, <6>3 DEF PromiseKept
        <5> QED BY <5>5, <5>6
      <4>3. CASE ~ (promise > now)
        <5>1. Bucket!Tokens >= Token
          BY <1>0, <4>3, Rates DEF BucketInv, PromiseKept
        <5>2. Bucket!Tokens' >= Token
          BY <1>0, <4>1, <5>1, Rates
        <5> QED BY <2>4, <2>5, <5>2, PromiseFollows
      <4> QED BY <4>2, <4>3
    <3> QED BY <1>0, <3>1, <3>2, Rates
  <2> QED BY <2>4, <2>6, <2>7, <2>8 DEF BucketInv
<1>6. CASE UNCHANGED bucketVars
  BY <1>6 DEF bucketVars, BucketInv, Bucket!TypeOK, TokensAccounted, RateKept, PromiseKept, Bucket!RateKept,
              Bucket!Tokens, Bucket!Before, Bucket!Full, Bucket!Absent
<1> QED BY <1>1, <1>2, <1>3, <1>4, <1>5, <1>6 DEF Bucket!Next

\* A client that has waited as long as it was told has its token.
LEMMA PromisesHold == BucketInv => RetryAfterHolds
<1> SUFFICES ASSUME BucketInv, now >= promise PROVE Bucket!Tokens >= Token
  BY DEF RetryAfterHolds, Bucket!RetryAfterHolds
<1>1. now \in Nat /\ promise \in Nat /\ Bucket!Tokens \in Nat
  BY Rates, TokensAre DEF BucketInv, Bucket!TypeOK
<1>2. ~ (promise > now)
  BY <1>1
<1> QED BY <1>1, <1>2, Rates DEF BucketInv, PromiseKept

-----------------------------------------------------------------------------
(* The cache of signing keys.                                              *)

AllKids == Kids \cup {Another}
Call == [at : {"idle", "missed", "fetching", "answered"}, kid : Kids, forced : BOOLEAN,
         since : Keys!Times, keys : SUBSET AllKids]
Verdicts == [kid : Kids, outcome : {"none", "accepted", "refused"}]

\* Keys that were the provider's at some time since t: what is among them was
\* not withdrawn before t, what is not was published after it or withdrawn.
AsOf(keys, t) ==
  \A k \in Kids : /\ k \in keys => withdrawn[k] >= t
                  /\ k \notin keys => added[k] >= t \/ withdrawn[k] <= keyTime

\* A fetch that is under way began within MaxFetch, and brings keys as of then.
FetchesAreRecent ==
  \A v \in Threads : thread[v].at \in {"fetching", "answered"} =>
    /\ thread[v].since <= keyTime /\ keyTime - thread[v].since <= MaxFetch
    /\ thread[v].at = "answered" => AsOf(thread[v].keys, thread[v].since)

JwksInv ==
  /\ Keys!TypeOK /\ FetchesAreRecent /\ KeysFollowRotation
  /\ cache.at <= keyTime /\ AsOf(cache.keys, cache.at - MaxFetch)

\* The ends of time.
LEMMA Times ==
  /\ MaxFetch \in Nat /\ MaxKeyTime \in Nat /\ Ttl \in Nat /\ MinRefetch \in Nat /\ 0 < MinRefetch /\ MinRefetch < Ttl
  /\ Keys!Times = 0..MaxKeyTime + 1 /\ Keys!Never = MaxKeyTime + 1 /\ Keys!LongAgo = -1000
BY RulesMakeSense DEF Keys!Times, Keys!Never, Keys!LongAgo

\* A thread that has no call, or no verdict, is in shape.
LEMMA NoCallIs == Keys!NoCall \in Call /\ Keys!NoCall.at = "idle" /\ Keys!Undecided \in Verdicts
                  /\ Keys!Undecided.outcome = "none"
<1>1. PICK k \in Kids : TRUE
  BY RulesMakeSense
<1>2. (CHOOSE kid \in Kids : TRUE) \in Kids
  BY <1>1
<1> QED BY <1>2, Times DEF Keys!NoCall, Call, Keys!Undecided, Verdicts

\* The type invariant, in these names.
LEMMA KeysTypes ==
  Keys!TypeOK <=> /\ keyTime \in 0..MaxKeyTime
                  /\ added \in [Kids -> Keys!Times] /\ withdrawn \in [Kids -> Keys!Times]
                  /\ cache \in [keys : SUBSET AllKids, at : Keys!Times \cup {Keys!LongAgo}]
                  /\ thread \in [Threads -> Call] /\ verdict \in Verdicts
BY DEF Keys!TypeOK, AllKids, Call, Verdicts

\* What the invariant says in numbers.
LEMMA KeyNumbers ==
  ASSUME JwksInv
  PROVE  /\ keyTime \in 0..MaxKeyTime /\ keyTime \in Int
         /\ added \in [Kids -> Keys!Times] /\ withdrawn \in [Kids -> Keys!Times]
         /\ \A k \in Kids : added[k] \in Int /\ withdrawn[k] \in Int
         /\ cache \in [keys : SUBSET AllKids, at : Keys!Times \cup {Keys!LongAgo}] /\ cache.at \in Int
         /\ thread \in [Threads -> Call] /\ verdict \in Verdicts
         /\ \A v \in Threads : thread[v].since \in Int /\ thread[v].kid \in Kids /\ thread[v].keys \subseteq AllKids
                               /\ thread[v].forced \in BOOLEAN
<1>1. Keys!TypeOK
  BY DEF JwksInv
<1>2. Keys!Times \subseteq Int /\ Keys!LongAgo \in Int
  BY Times
<1> QED BY <1>1, <1>2, KeysTypes, Times DEF Call

\* At the start the cache is empty and old, and no call is made.
LEMMA JwksInit == Keys!Init => JwksInv
<1> SUFFICES ASSUME Keys!Init PROVE JwksInv
  OBVIOUS
<1>1. /\ keyTime = 0 /\ \A k \in Kids : added[k] = MaxKeyTime + 1
      /\ cache.keys = {} /\ cache.at = -1000 /\ \A v \in Threads : thread[v] = Keys!NoCall
      /\ verdict = Keys!Undecided
  BY Times DEF Keys!Init
<1>2. Keys!TypeOK
  BY Times, NoCallIs, KeysTypes DEF Keys!Init
<1>3. FetchesAreRecent
  BY <1>1, NoCallIs DEF FetchesAreRecent
<1>4. AsOf(cache.keys, cache.at - MaxFetch)
  BY <1>1, Times DEF AsOf
<1>5. KeysFollowRotation
  BY <1>1, NoCallIs DEF KeysFollowRotation, Keys!KeysFollowRotation
<1> QED BY <1>1, <1>2, <1>3, <1>4, <1>5 DEF JwksInv

\* Keys that were the provider's stay those of their time, whatever it
\* publishes and withdraws.
LEMMA AsOfStays ==
  ASSUME JwksInv, NEW keys, NEW t \in Int, t <= keyTime, AsOf(keys, t),
         keyTime' \in Int, keyTime <= keyTime',
         \A k \in Kids : added'[k] \in {added[k], keyTime} /\ withdrawn'[k] \in {withdrawn[k], keyTime}
  PROVE  AsOf(keys, t)'
<1> SUFFICES ASSUME NEW k \in Kids
             PROVE  /\ k \in keys => withdrawn'[k] >= t
                    /\ k \notin keys => added'[k] >= t \/ withdrawn'[k] <= keyTime'
  BY DEF AsOf
<1>1. keyTime \in Int /\ added[k] \in Int /\ withdrawn[k] \in Int
  BY KeyNumbers
<1>2. added'[k] \in {added[k], keyTime} /\ withdrawn'[k] \in {withdrawn[k], keyTime}
  OBVIOUS
<1>3. k \in keys => withdrawn[k] >= t
  BY DEF AsOf
<1>4. k \notin keys => added[k] >= t \/ withdrawn[k] <= keyTime
  BY DEF AsOf
<1> QED BY <1>1, <1>2, <1>3, <1>4

\* A step of the provider, or of the clock.
LEMMA ProviderStep ==
  ASSUME JwksInv, Keys!TypeOK', UNCHANGED <<cache, thread>>, verdict' = Keys!Undecided,
         keyTime <= keyTime',
         \A v \in Threads : thread[v].at \in {"fetching", "answered"} => keyTime' - thread[v].since <= MaxFetch,
         \A k \in Kids : added'[k] \in {added[k], keyTime} /\ withdrawn'[k] \in {withdrawn[k], keyTime}
  PROVE  JwksInv'
<1>1. keyTime \in Int /\ keyTime' \in Int /\ cache.at \in Int /\ MaxFetch \in Nat
  BY KeyNumbers, Times, KeysTypes DEF Keys!TypeOK
<1>2. AsOf(cache.keys, cache.at - MaxFetch)'
  <2> DEFINE ks == cache.keys  t == cache.at - MaxFetch
  <2>1. t \in Int /\ t <= keyTime /\ AsOf(ks, t)
    BY <1>1 DEF JwksInv
  <2> HIDE DEF ks, t
  <2>2. \A k \in Kids : /\ k \in ks => withdrawn'[k] >= t
                        /\ k \notin ks => added'[k] >= t \/ withdrawn'[k] <= keyTime'
    BY <1>1, <2>1, AsOfStays DEF AsOf
  <2> QED BY <2>2 DEF AsOf, ks, t
<1>3. FetchesAreRecent'
  <2> SUFFICES ASSUME NEW v \in Threads, thread[v].at \in {"fetching", "answered"}
               PROVE  /\ thread[v].since <= keyTime' /\ keyTime' - thread[v].since <= MaxFetch
                      /\ thread[v].at = "answered" => AsOf(thread[v].keys, thread[v].since)'
    BY DEF FetchesAreRecent, AsOf
  <2> DEFINE ks == thread[v].keys  t == thread[v].since
  <2>1. t \in Int /\ t <= keyTime /\ (thread[v].at = "answered" => AsOf(ks, t))
    BY KeyNumbers DEF JwksInv, FetchesAreRecent
  <2> HIDE DEF ks, t
  <2>2. thread[v].at = "answered" =>
          \A k \in Kids : /\ k \in ks => withdrawn'[k] >= t
                          /\ k \notin ks => added'[k] >= t \/ withdrawn'[k] <= keyTime'
    BY <1>1, <2>1, AsOfStays DEF AsOf
  <2>3. t <= keyTime'
    BY <1>1, <2>1
  <2> QED BY <2>2, <2>3 DEF AsOf, ks, t
<1>4. cache'.at <= keyTime'
  BY <1>1 DEF JwksInv
<1>5. KeysFollowRotation'
  BY NoCallIs DEF KeysFollowRotation, Keys!KeysFollowRotation
<1> QED BY <1>2, <1>3, <1>4, <1>5 DEF JwksInv

\* A step of one call.
LEMMA CallStep ==
  ASSUME JwksInv, NEW v \in Threads, NEW call \in Call, thread' = [thread EXCEPT ![v] = call],
         UNCHANGED <<keyTime, added, withdrawn>>,
         cache' \in [keys : SUBSET AllKids, at : Keys!Times \cup {Keys!LongAgo}], cache'.at <= keyTime,
         AsOf(cache'.keys, cache'.at - MaxFetch),
         call.at \in {"fetching", "answered"} => call.since <= keyTime /\ keyTime - call.since <= MaxFetch,
         call.at = "answered" => AsOf(call.keys, call.since),
         verdict' \in Verdicts,
         verdict'.outcome = "accepted" => withdrawn[verdict'.kid] > keyTime - (Ttl + MaxFetch),
         verdict'.outcome = "refused" => \/ added[verdict'.kid] > keyTime - (MinRefetch + MaxFetch)
                                         \/ withdrawn[verdict'.kid] <= keyTime
  PROVE  JwksInv'
<1>1. thread \in [Threads -> Call]
  BY KeyNumbers
<1>2. thread' \in [Threads -> Call] /\ thread'[v] = call /\ \A w \in Threads : w # v => thread'[w] = thread[w]
  BY <1>1
<1>3. Keys!TypeOK'
  BY <1>2, KeyNumbers DEF Keys!TypeOK, Call, AllKids, Verdicts, Keys!Times, Keys!LongAgo
<1>4. FetchesAreRecent'
  <2> SUFFICES ASSUME NEW w \in Threads, thread'[w].at \in {"fetching", "answered"}
               PROVE  /\ thread'[w].since <= keyTime /\ keyTime - thread'[w].since <= MaxFetch
                      /\ thread'[w].at = "answered" => AsOf(thread'[w].keys, thread'[w].since)
    BY DEF FetchesAreRecent, AsOf
  <2>1. CASE w = v
    BY <1>2, <2>1
  <2>2. CASE w # v
    BY <1>2, <2>2 DEF JwksInv, FetchesAreRecent
  <2> QED BY <2>1, <2>2
<1>5. KeysFollowRotation'
  BY DEF KeysFollowRotation, Keys!KeysFollowRotation
<1>6. AsOf(cache.keys, cache.at - MaxFetch)'
  BY DEF AsOf
<1> QED BY <1>3, <1>4, <1>5, <1>6 DEF JwksInv

\* A look is over, accepted or refused, or there is a second one to come.
LEMMA LookUpIs ==
  ASSUME NEW v \in Threads, NEW kid \in Kids, NEW keys, NEW forced \in BOOLEAN,
         Keys!LookUp(v, kid, keys, forced)
  PROVE  \E call \in Call :
           /\ thread' = [thread EXCEPT ![v] = call] /\ call.at \in {"idle", "missed"}
           /\ verdict' \in Verdicts
           /\ verdict'.outcome = "accepted" => verdict'.kid = kid /\ kid \in keys
           /\ verdict'.outcome = "refused" => verdict'.kid = kid /\ kid \notin keys /\ forced
<1>1. CASE kid \notin keys /\ ~ forced
  <2> DEFINE call == [Keys!NoCall EXCEPT !.at = "missed", !.kid = kid]
  <2>1. thread' = [thread EXCEPT ![v] = call] /\ verdict' = Keys!Undecided
    BY <1>1 DEF Keys!LookUp
  <2>2. call \in Call /\ call.at = "missed"
    BY NoCallIs DEF Call
  <2> HIDE DEF call
  <2> QED BY <2>1, <2>2, NoCallIs
<1>2. CASE ~ (kid \notin keys /\ ~ forced)
  <2>1. /\ thread' = [thread EXCEPT ![v] = Keys!NoCall]
        /\ verdict' = [kid |-> kid, outcome |-> IF kid \in keys THEN "accepted" ELSE "refused"]
    BY <1>2 DEF Keys!LookUp
  <2>2. /\ verdict' \in Verdicts /\ verdict'.kid = kid
        /\ verdict'.outcome = "accepted" => kid \in keys
        /\ verdict'.outcome = "refused" => kid \notin keys /\ forced
    <3>1. CASE kid \in keys
      BY <2>1, <3>1 DEF Verdicts
    <3>2. CASE kid \notin keys
      BY <1>2, <2>1, <3>2 DEF Verdicts
    <3> QED BY <3>1, <3>2
  <2> QED BY <2>1, <2>2, NoCallIs
<1> QED BY <1>1, <1>2

\* What a fetch that begins looks like.
LEMMA FetchingIs ==
  ASSUME JwksInv, NEW v \in Threads, NEW kid \in Kids, NEW forced \in BOOLEAN, Keys!Fetching(v, kid, forced),
         UNCHANGED <<keyTime, added, withdrawn, cache>>
  PROVE  JwksInv'
<1> DEFINE call == [at |-> "fetching", kid |-> kid, forced |-> forced, since |-> keyTime, keys |-> {}]
<1>1. thread' = [thread EXCEPT ![v] = call] /\ verdict' = Keys!Undecided
  BY DEF Keys!Fetching
<1>2. keyTime \in Keys!Times /\ keyTime \in Int
  BY KeyNumbers, Times
<1>3. call \in Call /\ call.at = "fetching" /\ call.since <= keyTime /\ keyTime - call.since <= MaxFetch
  BY <1>2, Times DEF Call
<1>4. /\ cache' \in [keys : SUBSET AllKids, at : Keys!Times \cup {Keys!LongAgo}] /\ cache'.at <= keyTime
      /\ AsOf(cache'.keys, cache'.at - MaxFetch)
  BY KeyNumbers DEF JwksInv
<1> HIDE DEF call
<1> QED BY <1>1, <1>3, <1>4, NoCallIs, CallStep

\* A look at keys that are recent enough.
LEMMA LookUpKeeps ==
  ASSUME JwksInv, NEW v \in Threads, NEW kid \in Kids, NEW keys, NEW t \in Int, NEW forced \in BOOLEAN,
         Keys!LookUp(v, kid, keys, forced), AsOf(keys, t),
         t > keyTime - (Ttl + MaxFetch), forced => t > keyTime - (MinRefetch + MaxFetch),
         UNCHANGED <<keyTime, added, withdrawn>>,
         cache' \in [keys : SUBSET AllKids, at : Keys!Times \cup {Keys!LongAgo}], cache'.at <= keyTime,
         AsOf(cache'.keys, cache'.at - MaxFetch)
  PROVE  JwksInv'
<1>1. PICK call \in Call :
        /\ thread' = [thread EXCEPT ![v] = call] /\ call.at \in {"idle", "missed"}
        /\ verdict' \in Verdicts
        /\ verdict'.outcome = "accepted" => verdict'.kid = kid /\ kid \in keys
        /\ verdict'.outcome = "refused" => verdict'.kid = kid /\ kid \notin keys /\ forced
  BY LookUpIs
<1>2. keyTime \in Int /\ added[kid] \in Int /\ withdrawn[kid] \in Int
  BY KeyNumbers
<1>3. verdict'.outcome = "accepted" => withdrawn[verdict'.kid] > keyTime - (Ttl + MaxFetch)
  <2>1. kid \in keys => withdrawn[kid] >= t
    BY DEF AsOf
  <2> QED BY <1>1, <1>2, <2>1, Times
<1>4. verdict'.outcome = "refused" => \/ added[verdict'.kid] > keyTime - (MinRefetch + MaxFetch)
                                      \/ withdrawn[verdict'.kid] <= keyTime
  <2>1. kid \notin keys => added[kid] >= t \/ withdrawn[kid] <= keyTime
    BY DEF AsOf
  <2> QED BY <1>1, <1>2, <2>1, Times
<1>5. call.at \notin {"fetching", "answered"}
  BY <1>1
<1> QED BY <1>1, <1>3, <1>4, <1>5, CallStep

\* Every step of the provider, the clock and the calls keeps the invariant.
LEMMA JwksStep == JwksInv /\ [Keys!Next]_keyVars => JwksInv'
<1> SUFFICES ASSUME JwksInv, [Keys!Next]_keyVars PROVE JwksInv'
  OBVIOUS
<1>0. cache.at \in Int /\ keyTime \in Int /\ keyTime \in Keys!Times /\ keyTime \in 0..MaxKeyTime
  BY KeyNumbers, Times
<1>a. /\ cache \in [keys : SUBSET AllKids, at : Keys!Times \cup {Keys!LongAgo}] /\ cache.at <= keyTime
      /\ AsOf(cache.keys, cache.at - MaxFetch)
  BY KeyNumbers DEF JwksInv
<1>1. ASSUME NEW k \in Kids, Keys!Publish(k) \/ Keys!Withdraw(k) PROVE JwksInv'
  <2>1. /\ UNCHANGED <<keyTime, cache, thread>> /\ verdict' = Keys!Undecided
        /\ \/ added' = [added EXCEPT ![k] = keyTime] /\ withdrawn' = withdrawn
           \/ withdrawn' = [withdrawn EXCEPT ![k] = keyTime] /\ added' = added
    BY <1>1 DEF Keys!Publish, Keys!Withdraw
  <2>2. /\ \A j \in Kids : added'[j] \in {added[j], keyTime} /\ withdrawn'[j] \in {withdrawn[j], keyTime}
        /\ added' \in [Kids -> Keys!Times] /\ withdrawn' \in [Kids -> Keys!Times]
    BY <1>0, <2>1, KeyNumbers
  <2>3. Keys!TypeOK'
    BY <2>1, <2>2, NoCallIs, KeyNumbers DEF Keys!TypeOK, Call, AllKids, Verdicts, Keys!Times, Keys!LongAgo
  <2>4. keyTime <= keyTime' /\ \A w \in Threads : thread[w].at \in {"fetching", "answered"} =>
                                keyTime' - thread[w].since <= MaxFetch
    BY <1>0, <2>1 DEF JwksInv, FetchesAreRecent
  <2> QED BY <2>1, <2>2, <2>3, <2>4, ProviderStep
<1>2. ASSUME NEW v \in Threads, NEW k \in Kids, Keys!FirstLook(v, k) PROVE JwksInv'
  <2>1. UNCHANGED <<keyTime, added, withdrawn, cache>>
    BY <1>2 DEF Keys!FirstLook
  <2>2. CASE Keys!Age < Ttl /\ cache.keys # {}
    <3>1. Keys!LookUp(v, k, cache.keys, FALSE) /\ keyTime - cache.at < Ttl
      BY <1>2, <2>2 DEF Keys!FirstLook, Keys!Age
    <3> DEFINE t == cache.at - MaxFetch
    <3>2. t \in Int /\ t > keyTime - (Ttl + MaxFetch)
      BY <1>0, <3>1, Times
    <3>3. AsOf(cache.keys, t)
      BY <1>a
    <3>4. AsOf(cache'.keys, cache'.at - MaxFetch) /\ cache' = cache
      BY <1>a, <2>1
    <3> HIDE DEF t
    <3> QED BY <1>a, <2>1, <3>1, <3>2, <3>3, <3>4, LookUpKeeps
  <2>3. CASE ~ (Keys!Age < Ttl /\ cache.keys # {})
    BY <1>2, <2>1, <2>3, FetchingIs DEF Keys!FirstLook
  <2> QED BY <2>2, <2>3
<1>3. ASSUME NEW v \in Threads, Keys!SecondLook(v) PROVE JwksInv'
  <2>1. UNCHANGED <<keyTime, added, withdrawn, cache>> /\ thread[v].kid \in Kids
    BY <1>3, KeyNumbers DEF Keys!SecondLook
  <2>2. CASE ~ Keys!MayRefetch(Keys!Age)
    <3>1. Keys!LookUp(v, thread[v].kid, cache.keys, TRUE) /\ keyTime - cache.at < MinRefetch
      <4>1. Keys!LookUp(v, thread[v].kid, cache.keys, TRUE)
        BY <1>3, <2>2 DEF Keys!SecondLook
      <4>2. ~ (keyTime - cache.at >= MinRefetch) /\ keyTime - cache.at \in Int
        BY <1>0, <2>2 DEF Keys!Age, Keys!MayRefetch
      <4>3. keyTime - cache.at < MinRefetch
        BY <1>0, <4>2, Times
      <4> QED BY <4>1, <4>3
    <3> DEFINE t == cache.at - MaxFetch
    <3>2. t \in Int /\ t > keyTime - (Ttl + MaxFetch) /\ t > keyTime - (MinRefetch + MaxFetch)
      BY <1>0, <3>1, Times
    <3>3. AsOf(cache.keys, t)
      BY <1>a
    <3>4. AsOf(cache'.keys, cache'.at - MaxFetch) /\ cache' = cache
      BY <1>a, <2>1
    <3> HIDE DEF t
    <3> QED BY <1>a, <2>1, <3>1, <3>2, <3>3, <3>4, LookUpKeeps
  <2>3. CASE Keys!MayRefetch(Keys!Age)
    BY <1>3, <2>1, <2>3, FetchingIs DEF Keys!SecondLook
  <2> QED BY <2>2, <2>3
<1>4. ASSUME NEW v \in Threads, Keys!Answer(v) PROVE JwksInv'
  <2> DEFINE call == [thread[v] EXCEPT !.at = "answered", !.keys = Keys!Published]
  <2>1. /\ thread[v].at = "fetching" /\ thread' = [thread EXCEPT ![v] = call]
        /\ verdict' = Keys!Undecided /\ UNCHANGED <<keyTime, added, withdrawn, cache>>
    BY <1>4 DEF Keys!Answer
  <2>2. Keys!Published \subseteq AllKids
    BY DEF Keys!Published, AllKids
  <2>3. call \in Call /\ call.at = "answered" /\ call.since = thread[v].since /\ call.keys = Keys!Published
    BY <2>2, KeyNumbers DEF Call
  <2>4. call.since \in Int /\ call.since <= keyTime /\ keyTime - call.since <= MaxFetch
    BY <2>1, <2>3, KeyNumbers DEF JwksInv, FetchesAreRecent
  <2> HIDE DEF call
  <2>5. AsOf(call.keys, call.since)
    <3> SUFFICES ASSUME NEW k \in Kids
                 PROVE  /\ k \in call.keys => withdrawn[k] >= call.since
                        /\ k \notin call.keys => added[k] >= call.since \/ withdrawn[k] <= keyTime
      BY DEF AsOf
    <3>1. k \in Keys!Published <=> added[k] <= keyTime /\ withdrawn[k] > keyTime
      BY RulesMakeSense DEF Keys!Published
    <3> QED BY <1>0, <2>3, <2>4, <3>1, KeyNumbers
  <2>6. AsOf(cache'.keys, cache'.at - MaxFetch) /\ cache' = cache
    BY <1>a, <2>1
  <2> QED BY <1>a, <2>1, <2>3, <2>4, <2>5, <2>6, NoCallIs, CallStep
<1>5. ASSUME NEW v \in Threads, Keys!Store(v) PROVE JwksInv'
  <2> DEFINE ks == thread[v].keys  t == thread[v].since
  <2>1. /\ thread[v].at = "answered" /\ cache' = [keys |-> ks, at |-> keyTime]
        /\ Keys!LookUp(v, thread[v].kid, ks, thread[v].forced)
        /\ UNCHANGED <<keyTime, added, withdrawn>>
    BY <1>5 DEF Keys!Store
  <2>2. thread[v].kid \in Kids /\ thread[v].forced \in BOOLEAN /\ ks \subseteq AllKids /\ t \in Int
    BY KeyNumbers
  <2>3. AsOf(ks, t) /\ t <= keyTime /\ keyTime - t <= MaxFetch
    BY <2>1 DEF JwksInv, FetchesAreRecent
  <2>4. t > keyTime - (Ttl + MaxFetch) /\ t > keyTime - (MinRefetch + MaxFetch)
    BY <1>0, <2>2, <2>3, Times
  <2>5. /\ cache' \in [keys : SUBSET AllKids, at : Keys!Times \cup {Keys!LongAgo}]
        /\ cache'.at = keyTime /\ cache'.at <= keyTime /\ cache'.keys = ks
    BY <1>0, <2>1, <2>2
  <2> HIDE DEF ks, t
  <2>6. AsOf(ks, keyTime - MaxFetch)
    <3> SUFFICES ASSUME NEW k \in Kids
                 PROVE  /\ k \in ks => withdrawn[k] >= keyTime - MaxFetch
                        /\ k \notin ks => added[k] >= keyTime - MaxFetch \/ withdrawn[k] <= keyTime
      BY DEF AsOf
    <3>1. keyTime - MaxFetch <= t /\ keyTime - MaxFetch \in Int
      BY <1>0, <2>2, <2>3, Times
    <3>2. (k \in ks => withdrawn[k] >= t) /\ (k \notin ks => added[k] >= t \/ withdrawn[k] <= keyTime)
      BY <2>3 DEF AsOf
    <3>3. added[k] \in Int /\ withdrawn[k] \in Int
      BY KeyNumbers
    <3> QED BY <2>2, <3>1, <3>2, <3>3
  <2>7. AsOf(cache'.keys, cache'.at - MaxFetch)
    BY <2>5, <2>6
  <2> QED BY <2>1, <2>2, <2>3, <2>4, <2>5, <2>7, LookUpKeeps
<1>6. ASSUME NEW v \in Threads, Keys!FetchFails(v) PROVE JwksInv'
  <2>1. /\ thread' = [thread EXCEPT ![v] = Keys!NoCall] /\ verdict' = Keys!Undecided
        /\ UNCHANGED <<keyTime, added, withdrawn, cache>>
    BY <1>6 DEF Keys!FetchFails
  <2>2. AsOf(cache'.keys, cache'.at - MaxFetch) /\ cache' = cache
    BY <1>a, <2>1
  <2> QED BY <1>a, <2>1, <2>2, NoCallIs, CallStep
<1>7. CASE Keys!Tick
  <2>1. /\ keyTime' = keyTime + 1 /\ keyTime < MaxKeyTime /\ verdict' = Keys!Undecided
        /\ UNCHANGED <<added, withdrawn, cache, thread>>
        /\ \A v \in Threads : thread[v].at \in {"fetching", "answered"} => keyTime - thread[v].since < MaxFetch
    BY <1>7 DEF Keys!Tick
  <2>2. keyTime' \in 0..MaxKeyTime /\ keyTime <= keyTime'
    BY <1>0, <2>1, Times
  <2>3. \A v \in Threads : thread[v].at \in {"fetching", "answered"} => keyTime' - thread[v].since <= MaxFetch
    BY <1>0, <2>1, KeyNumbers, Times
  <2>4. Keys!TypeOK'
    BY <2>1, <2>2, NoCallIs, KeyNumbers DEF Keys!TypeOK, Call, AllKids, Verdicts, Keys!Times, Keys!LongAgo
  <2>5. \A j \in Kids : added'[j] \in {added[j], keyTime} /\ withdrawn'[j] \in {withdrawn[j], keyTime}
    BY <2>1
  <2> QED BY <2>1, <2>2, <2>3, <2>4, <2>5, ProviderStep
<1>8. CASE UNCHANGED keyVars
  <2>1. Keys!TypeOK' /\ FetchesAreRecent' /\ KeysFollowRotation' /\ AsOf(cache.keys, cache.at - MaxFetch)'
        /\ cache'.at <= keyTime'
    BY <1>8 DEF keyVars, JwksInv, Keys!TypeOK, FetchesAreRecent, AsOf, KeysFollowRotation, Keys!KeysFollowRotation,
                Keys!Times, Keys!LongAgo
  <2> QED BY <2>1 DEF JwksInv
<1> QED BY <1>1, <1>2, <1>3, <1>4, <1>5, <1>6, <1>7, <1>8 DEF Keys!Next

-----------------------------------------------------------------------------
(* The file.                                                               *)

\* The smallest of some natural numbers,
LEMMA NatLeast ==
  ASSUME NEW T \in SUBSET Nat, T # {}
  PROVE  \E n \in T : \A m \in T : n <= m
<1> DEFINE R == OpToRel(<, Nat)
<1>0. \A x, y \in Nat : <<x, y>> \in R <=> x < y
  BY DEF OpToRel
<1>1. IsWellFoundedOn(R, Nat)
  BY NatLessThanWellFounded
<1> HIDE DEF R
<1>2. PICK n \in T : \A m \in T : ~(<<m, n>> \in R)
  BY <1>1, WFMin
<1>3. ASSUME NEW m \in T PROVE n <= m
  <2>1. n \in Nat /\ m \in Nat
    OBVIOUS
  <2>2. ~ (m < n)
    BY <1>0, <1>2, <2>1
  <2> QED BY <2>1, <2>2
<1> QED BY <1>3

\* and the greatest, if there is a bound.
LEMMA NatGreatest ==
  ASSUME NEW max \in Nat, NEW T \in SUBSET (0..max), T # {}
  PROVE  \E n \in T : \A m \in T : m <= n
<1> DEFINE U == {max - n : n \in T}
<1>1. U \in SUBSET Nat /\ U # {}
  <2>1. ASSUME NEW n \in T PROVE max - n \in Nat
    BY n \in 0..max
  <2> QED BY <2>1
<1> HIDE DEF U
<1>2. PICK u \in U : \A v \in U : u <= v
  BY <1>1, NatLeast
<1>3. PICK n \in T : u = max - n
  BY DEF U
<1>4. ASSUME NEW m \in T PROVE m <= n
  <2>1. max - m \in U
    BY DEF U
  <2> QED BY <1>2, <1>3, <2>1
<1> QED BY <1>4

\* What an upload has yet to do, from its start or from its first conflict.
ToPut == <<"put", "number", "commit">>
ToNumber == <<"number", "commit">>
ToCommit == <<"commit">>
Plans == {<< >>, File!UpdatePlan, ToPut, ToNumber, ToCommit, File!CopyPlan}

UploadType == [edit : File!Contents, base : File!Versions, checked : BOOLEAN, plan : Seq(File!Steps)]
ClientType == [last_seen_event : File!Versions, known : File!Versions, heard : SUBSET Edits, skipped : SUBSET Edits]

\* An edit on its way: it has become a version, or a copy, before its event has
\* a number, and the event has a number before it is visible.
OnItsWay(u) ==
  /\ u.edit \in Edits /\ u.plan \in Plans
  /\ u.plan \in {<< >>, File!UpdatePlan, File!CopyPlan} =>
       u.edit \notin copies /\ versionOf[u.edit] = 0 /\ numbers[u.edit] = 0
  /\ u.plan \in {ToPut, ToNumber} =>
       (u.edit \in copies \/ versionOf[u.edit] # 0) /\ numbers[u.edit] = 0
  /\ u.plan = ToCommit => numbers[u.edit] # 0

\* No edit is uploaded by two devices.
UploadsMakeSense ==
  /\ \A d \in Devices : upload[d] = File!NoUpload \/ OnItsWay(upload[d])
  /\ \A c, d \in Devices : upload[c].edit = upload[d].edit /\ upload[c] # File!NoUpload => c = d

EditsMakeSense ==
  \A e \in Edits : /\ numbers[e] # 0 => e \in copies \/ versionOf[e] # 0
                   /\ e \in visible => numbers[e] # 0
                   /\ versionOf[e] <= row.version

\* Every version and every event is an edit's.
Counted ==
  /\ row.version <= 1 + Cardinality({e \in Edits : versionOf[e] # 0})
  /\ \A e \in Edits : numbers[e] <= Cardinality({f \in Edits : numbers[f] # 0})

\* The cursor is at an event that was given.
ClientsMakeSense ==
  \A d \in Devices : LET c == client[d] IN
    /\ c.known <= row.version
    /\ c.last_seen_event = 0 \/ \E e \in Edits : numbers[e] = c.last_seen_event

\* Bytes on their way are those of a version that was accepted.
BytesAwaited == \A d \in Devices : File!At(d, "put") => upload[d].edit \in rivals

FileInv ==
  /\ File!TypeOK /\ UploadsMakeSense /\ EditsMakeSense /\ Counted /\ ClientsMakeSense
  /\ BytesAwaited /\ BytesAreCurrent /\ CursorCoversChanges

\* The sets of the module are the library's, over finitely many edits.
LEMMA EditsAre ==
  /\ IsFiniteSet(Edits) /\ Cardinality(Edits) \in Nat /\ File!Versions = 0..Cardinality(Edits) + 1
  /\ Original \notin Edits /\ File!Contents = Edits \cup {Original}
<1>1. File!Cardinality(Edits) = Cardinality(Edits)
  BY DEF File!Cardinality, Cardinality
<1>2. IsFiniteSet(Edits) /\ Original \notin Edits
  BY RulesMakeSense
<1> QED BY <1>1, <1>2, FS_CardinalityType DEF File!Versions, File!Contents

\* The greatest of some numbers of events is one of them.
LEMMA GreatestIs ==
  ASSUME NEW T \in SUBSET File!Versions, T # {}
  PROVE  File!Max(T) \in T /\ File!Max(T) \in Nat /\ \A m \in T : m <= File!Max(T)
<1>1. PICK n \in T : \A m \in T : m <= n
  <2> DEFINE max == Cardinality(Edits) + 1
  <2>1. max \in Nat /\ T \in SUBSET (0..max)
    BY EditsAre
  <2> HIDE DEF max
  <2> QED BY <2>1, NatGreatest
<1>2. T \subseteq Nat
  BY EditsAre
<1>3. \A m \in T : n >= m
  BY <1>1, <1>2
<1>4. File!Max(T) \in T /\ \A m \in T : File!Max(T) >= m
  BY <1>3 DEF File!Max
<1> QED BY <1>2, <1>4

\* A set of edits that grows by one counts one more.
LEMMA CountOneMore ==
  ASSUME NEW S \in SUBSET Edits, NEW e \in Edits, e \notin S
  PROVE  /\ IsFiniteSet(S) /\ Cardinality(S) \in Nat
         /\ Cardinality(S \cup {e}) = Cardinality(S) + 1
         /\ Cardinality(S \cup {e}) <= Cardinality(Edits)
<1>1. IsFiniteSet(S) /\ Cardinality(S) \in Nat
  BY EditsAre, FS_Subset, FS_CardinalityType
<1>2. Cardinality(S \cup {e}) = Cardinality(S) + 1
  BY <1>1, FS_AddElement
<1>3. Cardinality(S \cup {e}) <= Cardinality(Edits)
  BY EditsAre, FS_Subset, S \cup {e} \subseteq Edits
<1> QED BY <1>1, <1>2, <1>3

\* The plans, step by step.
LEMMA PlansAre ==
  /\ \A p \in Plans :
       /\ p # << >> /\ Head(p) = "update" <=> p = File!UpdatePlan
       /\ p # << >> /\ Head(p) = "put" <=> p = ToPut
       /\ p # << >> /\ Head(p) = "number" <=> p = ToNumber
       /\ p # << >> /\ Head(p) = "commit" <=> p = ToCommit
       /\ p # << >> /\ Head(p) = "insert copy" <=> p = File!CopyPlan
       /\ p \in Seq(File!Steps)
  /\ Tail(File!UpdatePlan) = ToPut /\ Tail(ToPut) = ToNumber /\ Tail(ToNumber) = ToCommit
  /\ Tail(File!CopyPlan) = ToNumber
  /\ Len(File!UpdatePlan) = 4 /\ Len(ToPut) = 3 /\ Len(ToNumber) = 2 /\ Len(ToCommit) = 1 /\ Len(File!CopyPlan) = 3
  /\ << >> # File!UpdatePlan /\ << >> # ToPut /\ << >> # ToNumber /\ << >> # ToCommit /\ << >> # File!CopyPlan
<1> USE DEF File!UpdatePlan, ToPut, ToNumber, ToCommit, File!CopyPlan
<1>1. /\ Tail(File!UpdatePlan) = ToPut /\ Tail(ToPut) = ToNumber /\ Tail(ToNumber) = ToCommit
      /\ Tail(File!CopyPlan) = ToNumber
  OBVIOUS
<1>2. Len(File!UpdatePlan) = 4 /\ Len(ToPut) = 3 /\ Len(ToNumber) = 2 /\ Len(ToCommit) = 1 /\ Len(File!CopyPlan) = 3
  OBVIOUS
<1>3. /\ File!UpdatePlan[1] = "update" /\ ToPut[1] = "put" /\ ToNumber[1] = "number" /\ ToCommit[1] = "commit"
      /\ File!CopyPlan[1] = "insert copy"
  OBVIOUS
<1>4. /\ Head(File!UpdatePlan) = "update" /\ Head(ToPut) = "put" /\ Head(ToNumber) = "number"
      /\ Head(ToCommit) = "commit" /\ Head(File!CopyPlan) = "insert copy"
  OBVIOUS
<1>5. << >> # File!UpdatePlan /\ << >> # ToPut /\ << >> # ToNumber /\ << >> # ToCommit /\ << >> # File!CopyPlan
  OBVIOUS
<1>6. /\ File!UpdatePlan \in Seq(File!Steps) /\ ToPut \in Seq(File!Steps) /\ ToNumber \in Seq(File!Steps)
      /\ ToCommit \in Seq(File!Steps) /\ File!CopyPlan \in Seq(File!Steps) /\ << >> \in Seq(File!Steps)
  BY DEF File!Steps
<1> HIDE DEF File!UpdatePlan, ToPut, ToNumber, ToCommit, File!CopyPlan
<1> QED BY <1>1, <1>2, <1>4, <1>5, <1>6 DEF Plans

\* No two of them are the same.
LEMMA PlansDiffer ==
  /\ File!UpdatePlan \notin {ToPut, ToNumber, ToCommit} /\ File!CopyPlan \notin {ToPut, ToNumber, ToCommit}
  /\ ToPut # ToNumber /\ ToPut # ToCommit /\ ToNumber # ToCommit
<1>1. /\ File!UpdatePlan[1] = "update" /\ ToPut[1] = "put" /\ ToNumber[1] = "number" /\ ToCommit[1] = "commit"
      /\ File!CopyPlan[1] = "insert copy"
  BY DEF File!UpdatePlan, ToPut, ToNumber, ToCommit, File!CopyPlan
<1> QED BY <1>1

\* An upload that does nothing does not count.
LEMMA NoUploadIs ==
  /\ File!NoUpload.plan = << >> /\ File!NoUpload.edit = Original /\ File!NoUpload \in UploadType
  /\ << >> # ToPut
  /\ \A u : u.plan # << >> => u # File!NoUpload
<1>1. File!NoUpload.plan = << >> /\ File!NoUpload.edit = Original
  BY DEF File!NoUpload
<1>2. << >> \in Seq(File!Steps) /\ 0 \in File!Versions /\ Original \in File!Contents
  <2>1. << >> \in Seq(File!Steps)
    OBVIOUS
  <2> QED BY <2>1, EditsAre
<1>3. File!NoUpload \in UploadType
  BY <1>2 DEF File!NoUpload, UploadType
<1> QED BY <1>1, <1>3, PlansAre

\* What the invariant says of one upload: it is at one of the steps of a plan.
LEMMA UploadIs ==
  ASSUME FileInv, NEW d \in Devices
  PROVE  /\ upload \in [Devices -> UploadType] /\ upload[d] \in UploadType /\ upload[d].plan \in Plans
         /\ upload[d] # File!NoUpload => OnItsWay(upload[d]) /\ upload[d].edit \in Edits
         /\ \A c \in Devices : upload[d] # File!NoUpload /\ upload[c].edit = upload[d].edit => c = d
         /\ File!At(d, "update") <=> upload[d].plan = File!UpdatePlan
         /\ File!At(d, "put") <=> upload[d].plan = ToPut
         /\ File!At(d, "number") <=> upload[d].plan = ToNumber
         /\ File!At(d, "commit") <=> upload[d].plan = ToCommit
         /\ File!At(d, "insert copy") <=> upload[d].plan = File!CopyPlan
         /\ upload[d].plan # << >> => upload[d] # File!NoUpload
<1>1. upload \in [Devices -> UploadType]
  BY DEF FileInv, File!TypeOK, UploadType
<1>2. upload[d] # File!NoUpload => OnItsWay(upload[d])
  BY DEF FileInv, UploadsMakeSense
<1>3. upload[d].plan \in Plans
  BY <1>2, NoUploadIs DEF OnItsWay, Plans
<1>4. \A c \in Devices : upload[d] # File!NoUpload /\ upload[c].edit = upload[d].edit => c = d
  BY DEF FileInv, UploadsMakeSense
<1>5. \A s : File!At(d, s) <=> upload[d].plan # << >> /\ Head(upload[d].plan) = s
  BY DEF File!At, File!Busy
<1> QED BY <1>1, <1>2, <1>3, <1>4, <1>5, PlansAre, NoUploadIs DEF OnItsWay

\* Advancing takes an upload to the next step of its plan, or ends it.
LEMMA AdvanceIs ==
  ASSUME FileInv, NEW d \in Devices, upload[d].plan # << >>, File!Advance(d)
  PROVE  \E new \in UploadType :
           /\ upload' = [upload EXCEPT ![d] = new]
           /\ upload[d].plan = ToCommit => new = File!NoUpload
           /\ upload[d].plan # ToCommit => new.edit = upload[d].edit /\ new.plan = Tail(upload[d].plan)
<1> DEFINE u == upload[d]
           new == IF Len(u.plan) = 1 THEN File!NoUpload ELSE [u EXCEPT !.plan = Tail(u.plan)]
<1>1. upload' = [upload EXCEPT ![d] = new]
  BY DEF File!Advance
<1>2. u \in UploadType /\ u.plan \in Plans
  BY UploadIs
<1>3. CASE u.plan = ToCommit
  <2>1. new = File!NoUpload
    BY <1>3, PlansAre
  <2> QED BY <1>1, <1>3, <2>1, NoUploadIs
<1>4. CASE u.plan # ToCommit
  <2>1. Len(u.plan) # 1
    <3> HIDE DEF u
    <3>1. u.plan \in {File!UpdatePlan, ToPut, ToNumber, File!CopyPlan}
      BY <1>2, <1>4 DEF Plans, u
    <3>2. Len(File!UpdatePlan) # 1 /\ Len(ToPut) # 1 /\ Len(ToNumber) # 1 /\ Len(File!CopyPlan) # 1
      BY DEF File!UpdatePlan, ToPut, ToNumber, File!CopyPlan
    <3> QED BY <3>1, <3>2
  <2>2. new = [u EXCEPT !.plan = Tail(u.plan)]
    BY <2>1
  <2>3. Tail(u.plan) \in Seq(File!Steps)
    BY <1>2 DEF UploadType
  <2>4. new \in UploadType /\ new.edit = u.edit /\ new.plan = Tail(u.plan)
    BY <1>2, <2>2, <2>3 DEF UploadType
  <2> QED BY <1>1, <1>4, <2>4
<1> QED BY <1>3, <1>4

\* A turn of one upload, whose edit no other has.
LEMMA UploadTurn ==
  ASSUME FileInv, NEW d \in Devices, NEW new \in UploadType, upload' = [upload EXCEPT ![d] = new],
         new = File!NoUpload \/ OnItsWay(new)',
         new # File!NoUpload => \/ upload[d] # File!NoUpload /\ new.edit = upload[d].edit
                                \/ \A c \in Devices : upload[c].edit # new.edit,
         \A c \in Devices : c # d /\ upload[c] # File!NoUpload =>
           LET e == upload[c].edit
           IN  (e \in copies' <=> e \in copies) /\ versionOf'[e] = versionOf[e] /\ numbers'[e] = numbers[e]
  PROVE  /\ UploadsMakeSense' /\ upload' \in [Devices -> UploadType]
         /\ upload'[d] = new /\ \A c \in Devices : c # d => upload'[c] = upload[c]
<1>1. upload \in [Devices -> UploadType]
  BY UploadIs
<1>2. /\ upload' \in [Devices -> UploadType]
      /\ upload'[d] = new /\ \A c \in Devices : c # d => upload'[c] = upload[c]
  BY <1>1
<1>3. ASSUME NEW c \in Devices PROVE upload'[c] = File!NoUpload \/ OnItsWay(upload[c])'
  <2>1. CASE c = d
    BY <1>2, <2>1 DEF OnItsWay
  <2>2. CASE c # d
    <3>1. upload'[c] = upload[c] /\ (upload[c] = File!NoUpload \/ OnItsWay(upload[c]))
      BY <1>2, <2>2 DEF FileInv, UploadsMakeSense
    <3> DEFINE u == upload[c]
    <3>2. CASE u # File!NoUpload
      <4>1. LET e == u.edit IN (e \in copies' <=> e \in copies) /\ versionOf'[e] = versionOf[e] /\ numbers'[e] = numbers[e]
        BY <2>2, <3>2
      <4> QED BY <3>1, <3>2, <4>1 DEF OnItsWay
    <3> QED BY <3>1, <3>2
  <2> QED BY <2>1, <2>2
<1>4. \A b, c \in Devices : upload'[b].edit = upload'[c].edit /\ upload'[b] # File!NoUpload => b = c
  <2> SUFFICES ASSUME NEW b \in Devices, NEW c \in Devices, upload'[b].edit = upload'[c].edit,
                      upload'[b] # File!NoUpload, b # c
               PROVE  FALSE
    OBVIOUS
  <2>0. \A x, y \in Devices : upload[x].edit = upload[y].edit /\ upload[x] # File!NoUpload => x = y
    BY DEF FileInv, UploadsMakeSense
  <2>1. CASE b = d
    <3>1. upload'[b] = new /\ upload'[c] = upload[c]
      BY <1>2, <2>1
    <3> QED BY <2>0, <2>1, <3>1
  <2>2. CASE c = d
    <3>1. upload'[c] = new /\ upload'[b] = upload[b] /\ upload[b] # File!NoUpload
      BY <1>2, <2>2
    <3>2. upload[b].edit \in Edits
      BY <3>1, UploadIs
    <3>3. new # File!NoUpload
      BY <3>1, <3>2, NoUploadIs, EditsAre
    <3> QED BY <2>0, <2>2, <3>1, <3>3
  <2>3. CASE b # d /\ c # d
    BY <1>2, <2>0, <2>3
  <2> QED BY <2>1, <2>2, <2>3
<1>5. UploadsMakeSense'
  BY <1>3, <1>4 DEF UploadsMakeSense, OnItsWay, File!NoUpload
<1> QED BY <1>2, <1>5

\* The bytes, as far as the plans go.
LEMMA BytesNow ==
  ASSUME FileInv
  PROVE  /\ \A c \in Devices : upload[c].plan = ToPut => upload[c].edit \in rivals
         /\ (\A c \in Devices : upload[c].plan # ToPut) => object \in rivals
BY UploadIs DEF FileInv, BytesAwaited, BytesAreCurrent, File!BytesAreCurrent

\* The two parts about bytes, from what they say of the plans.
LEMMA BytesFollow ==
  ASSUME UploadsMakeSense',
         \A c \in Devices : upload'[c].plan = ToPut => upload'[c].edit \in rivals',
         (\A c \in Devices : upload'[c].plan # ToPut) => object' \in rivals'
  PROVE  BytesAwaited' /\ BytesAreCurrent'
<1>1. ASSUME NEW c \in Devices PROVE File!At(c, "put")' <=> upload'[c].plan = ToPut
  <2>1. upload'[c].plan \in Plans
    BY NoUploadIs DEF UploadsMakeSense, OnItsWay, Plans, File!NoUpload
  <2> QED BY <2>1, PlansAre DEF File!At, File!Busy
<1> QED BY <1>1 DEF BytesAwaited, BytesAreCurrent, File!BytesAreCurrent, File!At, File!Busy

\* What a client knows it goes on knowing; an event without a number, or past
\* its cursor, is no concern of its.
LEMMA CursorFollows ==
  ASSUME FileInv, client' = client,
         \A e \in Edits : \/ /\ numbers'[e] = numbers[e]
                             /\ numbers[e] # 0 => (e \in copies' <=> e \in copies) /\ versionOf'[e] = versionOf[e]
                          \/ \A d \in Devices : numbers'[e] \notin 1..client[d].last_seen_event
  PROVE  CursorCoversChanges'
<1> SUFFICES ASSUME NEW d \in Devices, NEW e \in Edits, numbers'[e] > 0,
                    numbers'[e] \in numbers'[e]..client[d].last_seen_event
             PROVE  IF e \in copies' THEN e \in client[d].heard \cup client[d].skipped
                    ELSE /\ versionOf'[e] # 0
                         /\ \A f \in Edits \ (copies' \cup client[d].skipped) :
                              numbers'[f] \in numbers'[e]..client[d].last_seen_event => versionOf'[e] <= client[d].known
  BY DEF CursorCoversChanges, File!CursorCoversChanges
<1>0. numbers \in [Edits -> Nat] /\ client[d].last_seen_event \in Nat
  BY EditsAre DEF FileInv, File!TypeOK
<1>1. ASSUME NEW f \in Edits, numbers'[f] \in numbers'[e]..client[d].last_seen_event
      PROVE  numbers'[f] = numbers[f] /\ numbers[f] # 0 /\ (f \in copies' <=> f \in copies) /\ versionOf'[f] = versionOf[f]
  <2>1. numbers'[f] \in 1..client[d].last_seen_event
    BY <1>0, <1>1
  <2> QED BY <2>1
<1>2. numbers'[e] = numbers[e] /\ numbers[e] # 0 /\ (e \in copies' <=> e \in copies) /\ versionOf'[e] = versionOf[e]
  BY <1>1
<1>3. IF e \in copies THEN e \in client[d].heard \cup client[d].skipped
      ELSE /\ versionOf[e] # 0
           /\ \A f \in Edits \ (copies \cup client[d].skipped) :
                numbers[f] \in numbers[e]..client[d].last_seen_event => versionOf[e] <= client[d].known
  BY <1>2 DEF FileInv, CursorCoversChanges, File!CursorCoversChanges
<1> QED BY <1>1, <1>2, <1>3

\* At the start nothing is on its way.
LEMMA FileInit == File!Init => FileInv
<1> SUFFICES ASSUME File!Init PROVE FileInv
  OBVIOUS
<1>1. /\ row.version = 1 /\ row.fingerprint = Original /\ object = Original /\ copies = {} /\ visible = {}
      /\ rivals = {Original}
      /\ \A e \in Edits : numbers[e] = 0 /\ versionOf[e] = 0
      /\ \A d \in Devices : upload[d] = File!NoUpload /\ client[d] = File!NewClient
  BY DEF File!Init
<1>2. 0 \in File!Versions /\ 1 \in File!Versions
  BY EditsAre
<1>3. File!NewClient \in ClientType /\ File!NewClient.last_seen_event = 0 /\ File!NewClient.known = 1
  BY <1>2 DEF File!NewClient, ClientType
<1>4. File!TypeOK
  <2>1. row \in [version : File!Versions, fingerprint : File!Contents] /\ object \in File!Contents
    BY <1>2, EditsAre DEF File!Init
  <2>2. numbers \in [Edits -> File!Versions] /\ versionOf \in [Edits -> File!Versions]
    BY <1>2 DEF File!Init
  <2>3. upload \in [Devices -> UploadType] /\ client \in [Devices -> ClientType]
    BY <1>3, NoUploadIs DEF File!Init
  <2> QED BY <1>1, <2>1, <2>2, <2>3, EditsAre DEF File!TypeOK, UploadType, ClientType
<1>5. UploadsMakeSense
  <2>1. ASSUME NEW c \in Devices, NEW d \in Devices, upload[c] # File!NoUpload PROVE FALSE
    BY <1>1, <2>1
  <2> QED BY <1>1, <2>1 DEF UploadsMakeSense
<1>6. EditsMakeSense
  BY <1>1 DEF EditsMakeSense
<1>7. Counted
  <2>1. \A S \in SUBSET Edits : Cardinality(S) \in Nat
    BY EditsAre, FS_Subset, FS_CardinalityType
  <2>2. Cardinality({e \in Edits : versionOf[e] # 0}) \in Nat /\ Cardinality({f \in Edits : numbers[f] # 0}) \in Nat
    BY <2>1
  <2> QED BY <1>1, <2>2 DEF Counted
<1>8. ClientsMakeSense
  BY <1>1, <1>3 DEF ClientsMakeSense
<1>9. BytesAwaited /\ BytesAreCurrent
  BY <1>1, NoUploadIs DEF BytesAwaited, BytesAreCurrent, File!BytesAreCurrent, File!At, File!Busy
<1>10. CursorCoversChanges
  BY <1>1 DEF CursorCoversChanges, File!CursorCoversChanges
<1> QED BY <1>4, <1>5, <1>6, <1>7, <1>8, <1>9, <1>10 DEF FileInv

\* The state's types, one by one.
LEMMA FileTypes ==
  File!TypeOK <=> /\ row \in [version : File!Versions, fingerprint : File!Contents] /\ object \in File!Contents
                  /\ copies \subseteq Edits /\ visible \subseteq Edits /\ rivals \subseteq File!Contents
                  /\ numbers \in [Edits -> File!Versions] /\ versionOf \in [Edits -> File!Versions]
                  /\ upload \in [Devices -> UploadType] /\ client \in [Devices -> ClientType]
BY DEF File!TypeOK, UploadType, ClientType

\* A turn in which nothing but the upload changes, and no bytes leave.
LEMMA QuietTurn ==
  ASSUME FileInv, NEW d \in Devices, NEW new \in UploadType, upload' = [upload EXCEPT ![d] = new],
         new = File!NoUpload \/ OnItsWay(new), new.plan # ToPut, upload[d].plan # ToPut,
         new # File!NoUpload => \/ upload[d] # File!NoUpload /\ new.edit = upload[d].edit
                                \/ \A c \in Devices : upload[c].edit # new.edit,
         UNCHANGED <<row, object, copies, numbers, visible, client, versionOf, rivals>>
  PROVE  FileInv'
<1>1. new = File!NoUpload \/ OnItsWay(new)'
  BY DEF OnItsWay
<1>2. /\ UploadsMakeSense' /\ upload' \in [Devices -> UploadType]
      /\ upload'[d] = new /\ \A c \in Devices : c # d => upload'[c] = upload[c]
  BY <1>1, UploadTurn
<1>3. File!TypeOK'
  BY <1>2 DEF FileInv, File!TypeOK, UploadType, File!Versions, File!Contents, File!Steps
<1>4. BytesAwaited' /\ BytesAreCurrent'
  <2>1. \A c \in Devices : upload'[c].plan = ToPut <=> upload[c].plan = ToPut
    BY <1>2
  <2>2. \A c \in Devices : upload'[c].plan = ToPut => upload'[c].edit \in rivals'
    BY <1>2, BytesNow
  <2>3. (\A c \in Devices : upload'[c].plan # ToPut) => object' \in rivals'
    BY <2>1, BytesNow
  <2> QED BY <1>2, <2>2, <2>3, BytesFollow
<1>5. EditsMakeSense' /\ Counted' /\ ClientsMakeSense' /\ CursorCoversChanges'
  BY DEF FileInv, EditsMakeSense, Counted, ClientsMakeSense, CursorCoversChanges, File!CursorCoversChanges
<1> QED BY <1>2, <1>3, <1>4, <1>5 DEF FileInv

\* A device takes up an edit.
LEMMA EditStep ==
  ASSUME FileInv, NEW d \in Devices, NEW e \in Edits, NEW checked \in BOOLEAN, File!Edit(d, e, checked)
  PROVE  FileInv'
<1> DEFINE new == [edit |-> e, base |-> IF checked THEN row.version ELSE 0, checked |-> checked, plan |-> File!UpdatePlan]
<1>1. /\ upload[d] = File!NoUpload /\ File!Unused(e) /\ upload' = [upload EXCEPT ![d] = new]
      /\ UNCHANGED <<row, object, copies, numbers, visible, client, versionOf, rivals>>
  BY DEF File!Edit
<1>2. new.edit = e /\ new.plan = File!UpdatePlan /\ File!UpdatePlan \in Plans /\ new \in UploadType
  <2>1. row.version \in File!Versions /\ 0 \in File!Versions /\ e \in File!Contents
    BY EditsAre DEF FileInv, File!TypeOK
  <2>2. File!UpdatePlan \in Plans /\ File!UpdatePlan \in Seq(File!Steps)
    BY PlansAre DEF Plans
  <2> QED BY <2>1, <2>2 DEF UploadType
<1>3. e \notin copies /\ versionOf[e] = 0 /\ numbers[e] = 0 /\ \A c \in Devices : upload[c].edit # e
  BY <1>1 DEF File!Unused, FileInv, EditsMakeSense
<1> HIDE DEF new
<1>4. File!UpdatePlan # ToPut /\ File!UpdatePlan # ToNumber /\ File!UpdatePlan # ToCommit
  BY PlansDiffer
<1>5. OnItsWay(new) /\ new.plan # ToPut
  BY <1>2, <1>3, <1>4 DEF OnItsWay
<1>6. upload[d].plan # ToPut
  BY <1>1, NoUploadIs
<1> QED BY <1>1, <1>2, <1>3, <1>5, <1>6, QuietTurn

\* The answer to a conflict.
LEMMA AnswerStep ==
  ASSUME FileInv, NEW d \in Devices, File!LastWriteWins(d) \/ File!KeepBoth(d)
  PROVE  FileInv'
<1>1. upload[d] # File!NoUpload /\ upload[d].plan = << >>
      /\ UNCHANGED <<row, object, copies, numbers, visible, client, versionOf, rivals>>
  BY DEF File!LastWriteWins, File!KeepBoth, File!Conflict, File!Busy
<1>2. PICK new \in UploadType : /\ upload' = [upload EXCEPT ![d] = new] /\ new.edit = upload[d].edit
                                /\ new.plan \in {File!UpdatePlan, File!CopyPlan}
  <2>0. upload \in [Devices -> UploadType] /\ upload[d] \in UploadType
    BY UploadIs
  <2>1. CASE File!LastWriteWins(d)
    <3> DEFINE new == [upload[d] EXCEPT !.plan = File!UpdatePlan, !.checked = FALSE]
    <3>1. upload' = [upload EXCEPT ![d] = new]
      BY <2>0, <2>1 DEF File!LastWriteWins
    <3>2. File!UpdatePlan \in Seq(File!Steps)
      BY PlansAre DEF Plans
    <3>3. new \in UploadType /\ new.edit = upload[d].edit /\ new.plan = File!UpdatePlan
      BY <2>0, <3>2 DEF UploadType
    <3> QED BY <3>1, <3>3
  <2>2. CASE File!KeepBoth(d)
    <3> DEFINE new == [upload[d] EXCEPT !.plan = File!CopyPlan]
    <3>1. upload' = [upload EXCEPT ![d] = new]
      BY <2>0, <2>2 DEF File!KeepBoth
    <3>2. File!CopyPlan \in Seq(File!Steps)
      BY PlansAre DEF Plans
    <3>3. new \in UploadType /\ new.edit = upload[d].edit /\ new.plan = File!CopyPlan
      BY <2>0, <3>2 DEF UploadType
    <3> QED BY <3>1, <3>3
  <2> QED BY <2>1, <2>2
<1>3. /\ upload[d].edit \in Edits /\ upload[d].edit \notin copies /\ versionOf[upload[d].edit] = 0
      /\ numbers[upload[d].edit] = 0
  BY <1>1, UploadIs DEF OnItsWay
<1>4. \A p \in {File!UpdatePlan, File!CopyPlan} : p \in Plans /\ p \notin {ToPut, ToNumber, ToCommit}
  BY PlansDiffer DEF Plans
<1>5. OnItsWay(new) /\ new.plan # ToPut /\ upload[d].plan # ToPut
  BY <1>1, <1>2, <1>3, <1>4, NoUploadIs DEF OnItsWay
<1> QED BY <1>1, <1>2, <1>5, QuietTurn

\* The row takes a new version, or the version is not the one that was read.
LEMMA UpdateStep ==
  ASSUME FileInv, NEW d \in Devices, File!Update(d)
  PROVE  FileInv'
<1> DEFINE u == upload[d]  e == u.edit
<1>1. /\ u.plan = File!UpdatePlan /\ u # File!NoUpload /\ e \in Edits /\ e \notin copies /\ versionOf[e] = 0
      /\ numbers[e] = 0 /\ u \in UploadType /\ u.plan # << >> /\ upload \in [Devices -> UploadType]
  <2>1. File!At(d, "update")
    BY DEF File!Update
  <2>2. u.plan = File!UpdatePlan /\ u.plan # << >>
    BY <2>1, UploadIs, PlansAre
  <2> QED BY <2>2, UploadIs DEF OnItsWay
<1>2. UNCHANGED <<object, copies, numbers, visible, client>>
  BY DEF File!Update
<1>3. CASE u.checked /\ row.version # u.base
  <2> DEFINE new == [u EXCEPT !.plan = << >>]
  <2>1. upload' = [upload EXCEPT ![d] = new] /\ UNCHANGED <<row, versionOf, rivals>>
    BY <1>1, <1>3 DEF File!Update
  <2>2. << >> \in Seq(File!Steps)
    OBVIOUS
  <2>3. new \in UploadType /\ new.edit = e /\ new.plan = << >>
    BY <1>1, <2>2 DEF UploadType
  <2> HIDE DEF new
  <2>4. OnItsWay(new) /\ new.plan # ToPut /\ u.plan # ToPut
    BY <1>1, <2>3, PlansAre, PlansDiffer DEF OnItsWay, Plans
  <2> QED BY <1>1, <1>2, <2>1, <2>3, <2>4, QuietTurn
<1>4. CASE ~ (u.checked /\ row.version # u.base)
  <2>1. /\ row' = [version |-> row.version + 1, fingerprint |-> e]
        /\ versionOf' = [versionOf EXCEPT ![e] = row.version + 1]
        /\ rivals' = {e} \cup {upload[o].edit : o \in {o \in Devices : File!At(o, "put")}}
        /\ File!Advance(d)
    BY <1>4 DEF File!Update
  <2>2. PICK new \in UploadType : upload' = [upload EXCEPT ![d] = new] /\ new.edit = e /\ new.plan = ToPut
    <3>1. u.plan # ToCommit /\ Tail(u.plan) = ToPut
      BY <1>1, PlansAre, PlansDiffer
    <3> QED BY <1>1, <2>1, <3>1, AdvanceIs
  <2>3. /\ row.version \in File!Versions /\ versionOf \in [Edits -> File!Versions] /\ row.version \in Nat
        /\ numbers \in [Edits -> File!Versions]
    BY EditsAre DEF FileInv, File!TypeOK
  <2>4. versionOf'[e] = row.version + 1 /\ \A f \in Edits : f # e => versionOf'[f] = versionOf[f]
    BY <1>1, <2>1, <2>3
  <2>5. row'.version = row.version + 1 /\ row'.fingerprint = e
    BY <2>1
  <2>6. row.version + 1 <= 1 + Cardinality({f \in Edits : versionOf'[f] # 0}) /\ row.version + 1 \in File!Versions
    <3> DEFINE S == {f \in Edits : versionOf[f] # 0}  T == {f \in Edits : versionOf'[f] # 0}
    <3>1. S \in SUBSET Edits /\ e \notin S /\ row.version <= 1 + Cardinality(S)
      BY <1>1 DEF FileInv, Counted
    <3>2. T = S \cup {e}
      BY <1>1, <2>3, <2>4
    <3> HIDE DEF S, T
    <3>3. Cardinality(S) \in Nat /\ Cardinality(T) = Cardinality(S) + 1 /\ Cardinality(T) <= Cardinality(Edits)
      BY <1>1, <3>1, <3>2, CountOneMore
    <3>4. row.version + 1 <= 1 + Cardinality(T)
      BY <2>3, <3>1, <3>3
    <3>5. row.version + 1 \in File!Versions
      BY <2>3, <3>3, <3>4, EditsAre
    <3> QED BY <3>4, <3>5 DEF T
  <2>7. OnItsWay(new)'
    <3>1. versionOf'[e] # 0 /\ numbers'[e] = 0
      BY <1>1, <1>2, <2>3, <2>4
    <3>2. ToPut \in Plans /\ ToPut \notin {<< >>, File!UpdatePlan, File!CopyPlan, ToCommit}
      BY PlansAre, PlansDiffer DEF Plans
    <3> QED BY <1>1, <2>2, <3>1, <3>2 DEF OnItsWay
  <2>8. ASSUME NEW c \in Devices, c # d, upload[c] # File!NoUpload
        PROVE  LET f == upload[c].edit
               IN  (f \in copies' <=> f \in copies) /\ versionOf'[f] = versionOf[f] /\ numbers'[f] = numbers[f]
    <3>1. upload[c].edit \in Edits /\ upload[c].edit # e
      BY <1>1, <2>8, UploadIs
    <3> QED BY <1>2, <2>4, <3>1
  <2>9. /\ UploadsMakeSense' /\ upload' \in [Devices -> UploadType]
        /\ upload'[d] = new /\ \A c \in Devices : c # d => upload'[c] = upload[c]
    BY <1>1, <2>2, <2>7, <2>8, UploadTurn
  <2>10. File!TypeOK'
    <3>1. row' \in [version : File!Versions, fingerprint : File!Contents]
      BY <1>1, <2>1, <2>6, EditsAre
    <3>2. rivals' \subseteq File!Contents
      <4>1. \A o \in Devices : upload[o].edit \in File!Contents
        BY <1>1 DEF UploadType
      <4> QED BY <1>1, <2>1, <4>1, EditsAre
    <3>3. versionOf' \in [Edits -> File!Versions]
      BY <2>1, <2>3, <2>6
    <3> QED BY <1>2, <2>9, <3>1, <3>2, <3>3, FileTypes
         DEF FileInv, File!TypeOK, UploadType, ClientType, File!Versions, File!Contents, File!Steps
  <2>11. EditsMakeSense'
    <3> SUFFICES ASSUME NEW f \in Edits
                 PROVE  /\ numbers[f] # 0 => f \in copies \/ versionOf'[f] # 0
                        /\ f \in visible => numbers[f] # 0
                        /\ versionOf'[f] <= row.version + 1
      BY <1>2, <2>5 DEF EditsMakeSense
    <3>1. /\ numbers[f] # 0 => f \in copies \/ versionOf[f] # 0
          /\ f \in visible => numbers[f] # 0
          /\ versionOf[f] <= row.version /\ versionOf[f] \in Nat
      BY <2>3, EditsAre DEF FileInv, EditsMakeSense
    <3> QED BY <1>1, <2>3, <2>4, <3>1
  <2>12. Counted'
    BY <1>2, <2>5, <2>6 DEF FileInv, Counted
  <2>13. ClientsMakeSense'
    <3> SUFFICES ASSUME NEW c \in Devices
                 PROVE  /\ client[c].known <= row.version + 1
                        /\ client[c].last_seen_event = 0 \/ \E f \in Edits : numbers[f] = client[c].last_seen_event
      BY <1>2, <2>5 DEF ClientsMakeSense
    <3>1. client[c].known \in Nat
      BY EditsAre DEF FileInv, File!TypeOK
    <3> QED BY <2>3, <3>1 DEF FileInv, ClientsMakeSense
  <2>14. BytesAwaited' /\ BytesAreCurrent'
    <3>1. ASSUME NEW c \in Devices, upload'[c].plan = ToPut PROVE upload'[c].edit \in rivals'
      <4>1. CASE c = d
        BY <2>1, <2>2, <2>9, <4>1
      <4>2. CASE c # d
        BY <2>1, <2>9, <3>1, <4>2, UploadIs
      <4> QED BY <4>1, <4>2
    <3>2. upload'[d].plan = ToPut
      BY <2>2, <2>9
    <3> QED BY <2>9, <3>1, <3>2, BytesFollow
  <2>15. CursorCoversChanges'
    <3>1. \A f \in Edits : numbers'[f] = numbers[f] /\ (numbers[f] # 0 => (f \in copies' <=> f \in copies) /\ versionOf'[f] = versionOf[f])
      BY <1>1, <1>2, <2>4
    <3> QED BY <1>2, <3>1, CursorFollows
  <2> QED BY <2>9, <2>10, <2>11, <2>12, <2>13, <2>14, <2>15 DEF FileInv
<1> QED BY <1>3, <1>4

\* The bytes are those of an upload whose version was accepted.
LEMMA PutStep ==
  ASSUME FileInv, NEW d \in Devices, File!Put(d)
  PROVE  FileInv'
<1> DEFINE u == upload[d]  e == u.edit
<1>1. /\ u.plan = ToPut /\ u # File!NoUpload /\ e \in Edits /\ OnItsWay(u) /\ u.plan # << >>
      /\ File!Advance(d) /\ object' = e
      /\ UNCHANGED <<row, copies, numbers, visible, client, versionOf, rivals>>
  <2>1. File!At(d, "put") /\ File!Advance(d) /\ object' = e
        /\ UNCHANGED <<row, copies, numbers, visible, client, versionOf, rivals>>
    BY DEF File!Put
  <2>2. u.plan = ToPut /\ u.plan # << >>
    BY <2>1, UploadIs, PlansAre
  <2> QED BY <2>1, <2>2, UploadIs
<1>2. PICK new \in UploadType : upload' = [upload EXCEPT ![d] = new] /\ new.edit = e /\ new.plan = ToNumber
  <2>1. u.plan # ToCommit /\ Tail(u.plan) = ToNumber
    BY <1>1, PlansAre, PlansDiffer
  <2> QED BY <1>1, <2>1, AdvanceIs
<1>3. OnItsWay(new)'
  <2>1. ToNumber \in Plans /\ ToNumber \notin {<< >>, File!UpdatePlan, File!CopyPlan, ToCommit}
    BY PlansAre, PlansDiffer DEF Plans
  <2> QED BY <1>1, <1>2, <2>1 DEF OnItsWay
<1>4. /\ UploadsMakeSense' /\ upload' \in [Devices -> UploadType]
      /\ upload'[d] = new /\ \A c \in Devices : c # d => upload'[c] = upload[c]
  BY <1>1, <1>2, <1>3, UploadTurn
<1>5. File!TypeOK'
  BY <1>1, <1>4, EditsAre DEF FileInv, File!TypeOK, UploadType, File!Versions, File!Contents, File!Steps
<1>6. BytesAwaited' /\ BytesAreCurrent'
  <2>1. ASSUME NEW c \in Devices, upload'[c].plan = ToPut PROVE upload'[c].edit \in rivals'
    <3>1. c # d
      BY <1>2, <1>4, <2>1, PlansDiffer
    <3> QED BY <1>1, <1>4, <2>1, <3>1, BytesNow
  <2>2. object' \in rivals'
    BY <1>1, BytesNow
  <2> QED BY <1>4, <2>1, <2>2, BytesFollow
<1>7. EditsMakeSense' /\ Counted' /\ ClientsMakeSense' /\ CursorCoversChanges'
  BY <1>1 DEF FileInv, EditsMakeSense, Counted, ClientsMakeSense, CursorCoversChanges, File!CursorCoversChanges
<1> QED BY <1>4, <1>5, <1>6, <1>7 DEF FileInv

\* The event takes the next number.
LEMMA NumberStep ==
  ASSUME FileInv, NEW d \in Devices, File!Number(d)
  PROVE  FileInv'
<1> DEFINE u == upload[d]  e == u.edit  next == File!Max({numbers[f] : f \in Edits}) + 1
<1>1. /\ u.plan = ToNumber /\ u # File!NoUpload /\ e \in Edits /\ OnItsWay(u) /\ u.plan # << >>
      /\ File!Advance(d) /\ numbers' = [numbers EXCEPT ![e] = next]
      /\ UNCHANGED <<row, object, copies, visible, client, versionOf, rivals>>
  <2>1. File!At(d, "number") /\ File!Advance(d) /\ numbers' = [numbers EXCEPT ![e] = next]
        /\ UNCHANGED <<row, object, copies, visible, client, versionOf, rivals>>
    BY DEF File!Number
  <2>2. u.plan = ToNumber /\ u.plan # << >>
    BY <2>1, UploadIs, PlansAre
  <2> QED BY <2>1, <2>2, UploadIs
<1>2. PICK new \in UploadType : upload' = [upload EXCEPT ![d] = new] /\ new.edit = e /\ new.plan = ToCommit
  <2>1. u.plan # ToCommit /\ Tail(u.plan) = ToCommit
    BY <1>1, PlansAre, PlansDiffer
  <2> QED BY <1>1, <2>1, AdvanceIs
<1>3. numbers \in [Edits -> File!Versions] /\ \A f \in Edits : numbers[f] \in Nat
  BY EditsAre DEF FileInv, File!TypeOK
<1>4. next \in Nat /\ next - 1 \in Nat /\ (\E f \in Edits : next = numbers[f] + 1) /\ \A f \in Edits : numbers[f] < next
  <2> DEFINE T == {numbers[f] : f \in Edits}
  <2>1. T \in SUBSET File!Versions /\ T # {}
    BY <1>1, <1>3
  <2> HIDE DEF T
  <2>2. File!Max(T) \in T /\ File!Max(T) \in Nat /\ \A m \in T : m <= File!Max(T)
    BY <2>1, GreatestIs
  <2>3. \A f \in Edits : numbers[f] \in T
    BY DEF T
  <2>4. PICK f \in Edits : File!Max(T) = numbers[f]
    BY <2>2 DEF T
  <2>5. next = File!Max(T) + 1
    BY DEF T
  <2> HIDE DEF next
  <2> QED BY <1>3, <2>2, <2>3, <2>4, <2>5
<1> HIDE DEF next
<1>5. numbers'[e] = next /\ numbers[e] = 0 /\ \A f \in Edits : f # e => numbers'[f] = numbers[f]
  BY <1>1, <1>3, PlansDiffer DEF OnItsWay
<1>6. (\A f \in Edits : numbers'[f] <= Cardinality({g \in Edits : numbers'[g] # 0})) /\ next \in File!Versions
  <2> DEFINE S == {f \in Edits : numbers[f] # 0}  T == {f \in Edits : numbers'[f] # 0}
  <2>1. S \in SUBSET Edits /\ e \notin S /\ \A f \in Edits : numbers[f] <= Cardinality(S)
    BY <1>5 DEF FileInv, Counted
  <2>2. T = S \cup {e}
    BY <1>1, <1>4, <1>5
  <2> HIDE DEF S, T
  <2>3. Cardinality(S) \in Nat /\ Cardinality(T) = Cardinality(S) + 1 /\ Cardinality(T) <= Cardinality(Edits)
    BY <1>1, <2>1, <2>2, CountOneMore
  <2>4. next <= Cardinality(T)
    BY <1>3, <1>4, <2>1, <2>3
  <2>5. \A f \in Edits : numbers'[f] <= Cardinality(T)
    BY <1>3, <1>5, <2>1, <2>3, <2>4
  <2>6. next \in File!Versions
    BY <1>4, <2>3, <2>4, EditsAre
  <2> QED BY <2>5, <2>6 DEF T
<1>7. OnItsWay(new)'
  <2>1. ToCommit \in Plans /\ ToCommit \notin {<< >>, File!UpdatePlan, File!CopyPlan, ToPut, ToNumber}
    BY PlansAre, PlansDiffer DEF Plans
  <2>2. numbers'[e] # 0
    BY <1>4, <1>5
  <2> QED BY <1>1, <1>2, <2>1, <2>2 DEF OnItsWay
<1>8. ASSUME NEW c \in Devices, c # d, upload[c] # File!NoUpload
      PROVE  LET f == upload[c].edit
             IN  (f \in copies' <=> f \in copies) /\ versionOf'[f] = versionOf[f] /\ numbers'[f] = numbers[f]
  <2>1. upload[c].edit \in Edits /\ upload[c].edit # e
    BY <1>1, <1>8, UploadIs
  <2> QED BY <1>1, <1>5, <2>1
<1>9. /\ UploadsMakeSense' /\ upload' \in [Devices -> UploadType]
      /\ upload'[d] = new /\ \A c \in Devices : c # d => upload'[c] = upload[c]
  BY <1>1, <1>2, <1>7, <1>8, UploadTurn
<1>10. File!TypeOK'
  <2>1. numbers' \in [Edits -> File!Versions]
    BY <1>1, <1>3, <1>6
  <2> QED BY <1>1, <1>9, <2>1 DEF FileInv, File!TypeOK, UploadType, File!Versions, File!Contents, File!Steps
<1>11. EditsMakeSense'
  <2> SUFFICES ASSUME NEW f \in Edits
               PROVE  /\ numbers'[f] # 0 => f \in copies \/ versionOf[f] # 0
                      /\ f \in visible => numbers'[f] # 0
                      /\ versionOf[f] <= row.version
    BY <1>1 DEF EditsMakeSense
  <2>1. e \in copies \/ versionOf[e] # 0
    BY <1>1 DEF OnItsWay
  <2>2. next # 0
    BY <1>4
  <2> QED BY <1>5, <2>1, <2>2 DEF FileInv, EditsMakeSense
<1>12. Counted'
  BY <1>1, <1>6 DEF FileInv, Counted
<1>13. ClientsMakeSense'
  <2> SUFFICES ASSUME NEW c \in Devices
               PROVE  /\ client[c].known <= row.version
                      /\ client[c].last_seen_event = 0 \/ \E f \in Edits : numbers'[f] = client[c].last_seen_event
    BY <1>1 DEF ClientsMakeSense
  <2>1. client[c].known <= row.version
    BY DEF FileInv, ClientsMakeSense
  <2>2. CASE client[c].last_seen_event # 0
    <3>1. PICK f \in Edits : numbers[f] = client[c].last_seen_event
      BY <2>2 DEF FileInv, ClientsMakeSense
    <3>2. numbers'[f] = client[c].last_seen_event
      BY <1>5, <2>2, <3>1
    <3> QED BY <2>1, <3>2
  <2> QED BY <2>1, <2>2
<1>14. BytesAwaited' /\ BytesAreCurrent'
  <2>1. \A c \in Devices : upload'[c].plan = ToPut <=> upload[c].plan = ToPut
    BY <1>1, <1>2, <1>9, PlansDiffer
  <2>2. \A c \in Devices : upload'[c].plan = ToPut => upload'[c].edit \in rivals'
    BY <1>1, <1>2, <1>9, BytesNow, PlansDiffer
  <2>3. (\A c \in Devices : upload'[c].plan # ToPut) => object' \in rivals'
    BY <1>1, <2>1, BytesNow
  <2> QED BY <1>9, <2>2, <2>3, BytesFollow
<1>15. CursorCoversChanges'
  <2>1. ASSUME NEW c \in Devices PROVE numbers'[e] \notin 1..client[c].last_seen_event
    <3>1. client[c].last_seen_event \in Nat
      BY EditsAre DEF FileInv, File!TypeOK
    <3>2. client[c].last_seen_event = 0 \/ \E f \in Edits : numbers[f] = client[c].last_seen_event
      BY DEF FileInv, ClientsMakeSense
    <3>3. client[c].last_seen_event < next
      BY <1>4, <3>2
    <3> QED BY <1>4, <1>5, <3>1, <3>3
  <2>2. \A f \in Edits : f # e => numbers'[f] = numbers[f] /\ (f \in copies' <=> f \in copies) /\ versionOf'[f] = versionOf[f]
    BY <1>1, <1>5
  <2> QED BY <1>1, <2>1, <2>2, CursorFollows
<1> QED BY <1>9, <1>10, <1>11, <1>12, <1>13, <1>14, <1>15 DEF FileInv

\* The event is seen.
LEMMA CommitStep ==
  ASSUME FileInv, NEW d \in Devices, File!Commit(d)
  PROVE  FileInv'
<1> DEFINE u == upload[d]  e == u.edit
<1>1. /\ u.plan = ToCommit /\ e \in Edits /\ OnItsWay(u) /\ u.plan # << >>
      /\ File!Advance(d) /\ visible' = visible \cup {e}
      /\ UNCHANGED <<row, object, copies, numbers, client, versionOf, rivals>>
  <2>1. File!At(d, "commit") /\ File!Advance(d) /\ visible' = visible \cup {e}
        /\ UNCHANGED <<row, object, copies, numbers, client, versionOf, rivals>>
    BY DEF File!Commit
  <2>2. u.plan = ToCommit /\ u.plan # << >>
    BY <2>1, UploadIs, PlansAre
  <2> QED BY <2>1, <2>2, UploadIs
<1>2. upload' = [upload EXCEPT ![d] = File!NoUpload]
  BY <1>1, AdvanceIs
<1>3. /\ UploadsMakeSense' /\ upload' \in [Devices -> UploadType]
      /\ upload'[d] = File!NoUpload /\ \A c \in Devices : c # d => upload'[c] = upload[c]
  BY <1>1, <1>2, NoUploadIs, UploadTurn
<1>4. File!TypeOK'
  BY <1>1, <1>3 DEF FileInv, File!TypeOK, UploadType, File!Versions, File!Contents, File!Steps
<1>5. BytesAwaited' /\ BytesAreCurrent'
  <2>1. \A c \in Devices : upload'[c].plan = ToPut <=> upload[c].plan = ToPut
    BY <1>1, <1>3, PlansDiffer, NoUploadIs
  <2>2. \A c \in Devices : upload'[c].plan = ToPut => upload'[c].edit \in rivals'
    BY <1>1, <1>3, NoUploadIs, BytesNow
  <2>3. (\A c \in Devices : upload'[c].plan # ToPut) => object' \in rivals'
    BY <1>1, <2>1, BytesNow
  <2> QED BY <1>3, <2>2, <2>3, BytesFollow
<1>6. EditsMakeSense'
  <2>1. numbers[e] # 0
    BY <1>1 DEF OnItsWay
  <2> QED BY <1>1, <2>1 DEF FileInv, EditsMakeSense
<1>7. Counted' /\ ClientsMakeSense' /\ CursorCoversChanges'
  BY <1>1 DEF FileInv, Counted, ClientsMakeSense, CursorCoversChanges, File!CursorCoversChanges
<1> QED BY <1>3, <1>4, <1>5, <1>6, <1>7 DEF FileInv

\* The copy has its row.
LEMMA InsertCopyStep ==
  ASSUME FileInv, NEW d \in Devices, File!InsertCopy(d)
  PROVE  FileInv'
<1> DEFINE u == upload[d]  e == u.edit
<1>1. /\ u.plan = File!CopyPlan /\ u # File!NoUpload /\ e \in Edits /\ OnItsWay(u) /\ u.plan # << >>
      /\ File!Advance(d) /\ copies' = copies \cup {e}
      /\ UNCHANGED <<row, object, numbers, visible, client, versionOf, rivals>>
  <2>1. File!At(d, "insert copy") /\ File!Advance(d) /\ copies' = copies \cup {e}
        /\ UNCHANGED <<row, object, numbers, visible, client, versionOf, rivals>>
    BY DEF File!InsertCopy
  <2>2. u.plan = File!CopyPlan /\ u.plan # << >>
    BY <2>1, UploadIs, PlansAre
  <2> QED BY <2>1, <2>2, UploadIs
<1>2. PICK new \in UploadType : upload' = [upload EXCEPT ![d] = new] /\ new.edit = e /\ new.plan = ToNumber
  <2>1. u.plan # ToCommit /\ Tail(u.plan) = ToNumber
    BY <1>1, PlansAre, PlansDiffer
  <2> QED BY <1>1, <2>1, AdvanceIs
<1>3. numbers[e] = 0
  BY <1>1 DEF OnItsWay
<1>4. OnItsWay(new)'
  <2>1. ToNumber \in Plans /\ ToNumber \notin {<< >>, File!UpdatePlan, File!CopyPlan, ToCommit}
    BY PlansAre, PlansDiffer DEF Plans
  <2> QED BY <1>1, <1>2, <1>3, <2>1 DEF OnItsWay
<1>5. ASSUME NEW c \in Devices, c # d, upload[c] # File!NoUpload
      PROVE  LET f == upload[c].edit
             IN  (f \in copies' <=> f \in copies) /\ versionOf'[f] = versionOf[f] /\ numbers'[f] = numbers[f]
  <2>1. upload[c].edit # e
    BY <1>1, <1>5, UploadIs
  <2> QED BY <1>1, <2>1
<1>6. /\ UploadsMakeSense' /\ upload' \in [Devices -> UploadType]
      /\ upload'[d] = new /\ \A c \in Devices : c # d => upload'[c] = upload[c]
  BY <1>1, <1>2, <1>4, <1>5, UploadTurn
<1>7. File!TypeOK'
  BY <1>1, <1>6 DEF FileInv, File!TypeOK, UploadType, File!Versions, File!Contents, File!Steps
<1>8. BytesAwaited' /\ BytesAreCurrent'
  <2>1. \A c \in Devices : upload'[c].plan = ToPut <=> upload[c].plan = ToPut
    BY <1>1, <1>2, <1>6, PlansDiffer
  <2>2. \A c \in Devices : upload'[c].plan = ToPut => upload'[c].edit \in rivals'
    BY <1>1, <1>2, <1>6, BytesNow, PlansDiffer
  <2>3. (\A c \in Devices : upload'[c].plan # ToPut) => object' \in rivals'
    BY <1>1, <2>1, BytesNow
  <2> QED BY <1>6, <2>2, <2>3, BytesFollow
<1>9. EditsMakeSense' /\ Counted' /\ ClientsMakeSense'
  BY <1>1 DEF FileInv, EditsMakeSense, Counted, ClientsMakeSense
<1>10. CursorCoversChanges'
  <2>1. \A f \in Edits : numbers'[f] = numbers[f] /\ (numbers[f] # 0 => (f \in copies' <=> f \in copies) /\ versionOf'[f] = versionOf[f])
    BY <1>1, <1>3
  <2> QED BY <1>1, <2>1, CursorFollows
<1> QED BY <1>6, <1>7, <1>8, <1>9, <1>10 DEF FileInv

\* An upload stops: if its bytes were on their way, those in the store stay.
LEMMA StopStep ==
  ASSUME FileInv, NEW d \in Devices, File!Stop(d)
  PROVE  FileInv'
<1>1. /\ upload' = [upload EXCEPT ![d] = File!NoUpload]
      /\ rivals' = IF File!At(d, "put") THEN rivals \cup {object} ELSE rivals
      /\ UNCHANGED <<row, object, copies, numbers, visible, client, versionOf>>
  BY DEF File!Stop
<1>2. /\ UploadsMakeSense' /\ upload' \in [Devices -> UploadType]
      /\ upload'[d] = File!NoUpload /\ \A c \in Devices : c # d => upload'[c] = upload[c]
  BY <1>1, NoUploadIs, UploadTurn
<1>3. rivals \subseteq rivals' /\ rivals' \subseteq File!Contents
  BY <1>1 DEF FileInv, File!TypeOK
<1>4. File!TypeOK'
  BY <1>1, <1>2, <1>3 DEF FileInv, File!TypeOK, UploadType, File!Versions, File!Contents, File!Steps
<1>5. BytesAwaited' /\ BytesAreCurrent'
  <2>1. \A c \in Devices : upload'[c].plan = ToPut => upload'[c].edit \in rivals'
    BY <1>2, <1>3, NoUploadIs, BytesNow
  <2>2. ASSUME \A c \in Devices : upload'[c].plan # ToPut PROVE object' \in rivals'
    <3>1. CASE File!At(d, "put")
      BY <1>1, <3>1
    <3>2. CASE ~ File!At(d, "put")
      <4>1. upload[d].plan # ToPut
        BY <3>2, UploadIs
      <4>2. \A c \in Devices : upload[c].plan # ToPut
        BY <1>2, <2>2, <4>1
      <4> QED BY <1>1, <3>2, <4>2, BytesNow
    <3> QED BY <3>1, <3>2
  <2> QED BY <1>2, <2>1, <2>2, BytesFollow
<1>6. EditsMakeSense' /\ Counted' /\ ClientsMakeSense' /\ CursorCoversChanges'
  BY <1>1 DEF FileInv, EditsMakeSense, Counted, ClientsMakeSense, CursorCoversChanges, File!CursorCoversChanges
<1> QED BY <1>2, <1>4, <1>5, <1>6 DEF FileInv

\* A client is given the events past its cursor.
LEMMA PollRound ==
  ASSUME FileInv, NEW d \in Devices, File!Poll(d)
  PROVE  FileInv'
<1> DEFINE c == client[d]  cursor == c.last_seen_event
           news == {e \in visible : numbers[e] > cursor}
           T == {numbers[e] : e \in news}
           last == File!Max(T)
           after == [last_seen_event |-> last, known |-> IF news \subseteq copies THEN c.known ELSE row.version,
                     heard |-> c.heard \cup (news \cap copies),
                     skipped |-> c.skipped \cup {e \in Edits \ visible : numbers[e] \in cursor + 1..last}]
<1>1. /\ client \in [Devices -> ClientType] /\ c \in ClientType /\ row.version \in File!Versions
      /\ visible \subseteq Edits /\ numbers \in [Edits -> File!Versions] /\ versionOf \in [Edits -> File!Versions]
  BY DEF FileInv, File!TypeOK, ClientType
<1>2. news # {} /\ client' = [client EXCEPT ![d] = after]
      /\ UNCHANGED <<row, object, copies, numbers, visible, upload, versionOf, rivals>>
  BY <1>1 DEF File!Poll
<1>3. T \in SUBSET File!Versions /\ T # {}
  BY <1>1, <1>2
<1>4. last \in T /\ last \in Nat /\ \A e \in news : numbers[e] <= last
  <2> HIDE DEF T
  <2>1. last \in T /\ last \in Nat /\ \A m \in T : m <= last
    BY <1>3, GreatestIs
  <2>2. \A e \in news : numbers[e] \in T
    BY DEF T
  <2> QED BY <2>1, <2>2
<1>5. last \in File!Versions /\ \E e \in Edits : numbers[e] = last
  BY <1>1, <1>3, <1>4
<1> HIDE DEF last
<1>6. after \in ClientType
  BY <1>1, <1>5 DEF ClientType
<1>7. /\ after.last_seen_event = last /\ after.heard = c.heard \cup (news \cap copies)
      /\ after.known = IF news \subseteq copies THEN c.known ELSE row.version
      /\ after.skipped = c.skipped \cup {e \in Edits \ visible : numbers[e] \in cursor + 1..last}
  OBVIOUS
<1> HIDE DEF after
<1>8. client'[d] = after /\ \A b \in Devices : b # d => client'[b] = client[b]
  BY <1>1, <1>2
<1>9. c.known <= row.version /\ c.known \in Nat /\ row.version \in Nat /\ cursor \in Nat
  BY <1>1, EditsAre DEF FileInv, ClientsMakeSense, ClientType
<1>10. after.known <= row.version /\ c.known <= after.known /\ after.known \in Nat
  BY <1>7, <1>9
<1>11. File!TypeOK'
  <2>1. client' \in [Devices -> ClientType]
    BY <1>1, <1>2, <1>6
  <2> QED BY <1>2, <2>1 DEF FileInv, File!TypeOK, ClientType, File!Versions, File!Contents, File!Steps
<1>12. ClientsMakeSense'
  <2> SUFFICES ASSUME NEW b \in Devices
               PROVE  /\ client'[b].known <= row.version
                      /\ client'[b].last_seen_event = 0 \/ \E e \in Edits : numbers[e] = client'[b].last_seen_event
    BY <1>2 DEF ClientsMakeSense
  <2>1. CASE b = d
    BY <1>5, <1>7, <1>8, <1>10, <2>1
  <2>2. CASE b # d
    BY <1>8, <2>2 DEF FileInv, ClientsMakeSense
  <2> QED BY <2>1, <2>2
<1>13. CursorCoversChanges'
  <2> SUFFICES ASSUME NEW b \in Devices, NEW e \in Edits, numbers[e] > 0,
                      numbers[e] \in numbers[e]..client'[b].last_seen_event
               PROVE  IF e \in copies THEN e \in client'[b].heard \cup client'[b].skipped
                      ELSE /\ versionOf[e] # 0
                           /\ \A f \in Edits \ (copies \cup client'[b].skipped) :
                                numbers[f] \in numbers[e]..client'[b].last_seen_event => versionOf[e] <= client'[b].known
    BY <1>2 DEF CursorCoversChanges, File!CursorCoversChanges
  <2>0. \A a \in Devices : numbers[e] \in numbers[e]..client[a].last_seen_event =>
          IF e \in copies THEN e \in client[a].heard \cup client[a].skipped
          ELSE /\ versionOf[e] # 0
               /\ \A f \in Edits \ (copies \cup client[a].skipped) :
                    numbers[f] \in numbers[e]..client[a].last_seen_event => versionOf[e] <= client[a].known
    BY DEF FileInv, CursorCoversChanges, File!CursorCoversChanges
  <2>1. CASE b # d
    BY <1>8, <2>0, <2>1
  <2>2. CASE b = d
    <3>1. client'[b] = after /\ numbers[e] \in Nat /\ numbers[e] <= last /\ versionOf[e] \in Nat
      BY <1>1, <1>7, <1>8, <2>2, EditsAre
    <3>2. /\ e \in copies \/ versionOf[e] # 0
          /\ versionOf[e] <= row.version
      BY DEF FileInv, EditsMakeSense
    <3>3. ASSUME NEW f \in Edits, numbers[f] \in cursor + 1..last, f \notin after.skipped
          PROVE  f \in news
      BY <1>1, <1>4, <1>7, <1>9, <3>3, EditsAre
    <3>4. e \in copies => e \in after.heard \cup after.skipped
      <4>1. CASE numbers[e] <= cursor
        <5>1. numbers[e] \in numbers[e]..cursor
          BY <1>9, <3>1, <4>1
        <5> QED BY <1>7, <2>0, <5>1
      <4>2. CASE ~ (numbers[e] <= cursor)
        <5>1. numbers[e] \in cursor + 1..last
          BY <1>4, <1>9, <3>1, <4>2
        <5> QED BY <1>7, <3>3, <5>1
      <4> QED BY <4>1, <4>2
    <3>5. ASSUME e \notin copies, NEW f \in Edits, f \notin copies, f \notin after.skipped,
                 numbers[f] \in numbers[e]..last
          PROVE  versionOf[e] <= after.known
      <4>1. numbers[f] \in Nat
        BY <1>1, EditsAre
      <4>2. CASE numbers[f] <= cursor
        <5>1. numbers[e] \in numbers[e]..cursor /\ numbers[f] \in numbers[e]..cursor
          BY <1>9, <3>1, <3>5, <4>1, <4>2
        <5>2. versionOf[e] <= c.known
          BY <1>7, <2>0, <3>5, <5>1
        <5> QED BY <1>9, <1>10, <3>1, <5>2
      <4>3. CASE ~ (numbers[f] <= cursor)
        <5>1. numbers[f] \in cursor + 1..last
          BY <1>4, <1>9, <3>5, <4>1, <4>3
        <5>2. f \in news
          BY <3>3, <3>5, <5>1
        <5>3. after.known = row.version
          BY <1>7, <3>5, <5>2
        <5> QED BY <3>2, <5>3
      <4> QED BY <4>2, <4>3
    <3> QED BY <1>7, <3>1, <3>2, <3>4, <3>5
  <2> QED BY <2>1, <2>2
<1>14. /\ UploadsMakeSense' /\ EditsMakeSense' /\ Counted' /\ BytesAwaited' /\ BytesAreCurrent'
  BY <1>2 DEF FileInv, UploadsMakeSense, OnItsWay, EditsMakeSense, Counted, BytesAwaited, BytesAreCurrent,
              File!BytesAreCurrent, File!At, File!Busy, File!NoUpload
<1> QED BY <1>11, <1>12, <1>13, <1>14 DEF FileInv

\* Every step of an upload and of a client keeps the invariant.
LEMMA FileStep == FileInv /\ [File!Next]_fileVars => FileInv'
<1> SUFFICES ASSUME FileInv, [File!Next]_fileVars PROVE FileInv'
  OBVIOUS
<1>1. ASSUME NEW d \in Devices,
             \/ \E e \in Edits, checked \in BOOLEAN : File!Edit(d, e, checked)
             \/ File!Update(d) \/ File!Put(d) \/ File!Number(d) \/ File!Commit(d)
             \/ File!LastWriteWins(d) \/ File!KeepBoth(d) \/ File!InsertCopy(d)
             \/ File!Stop(d) \/ File!Poll(d)
      PROVE  FileInv'
  BY <1>1, EditStep, UpdateStep, PutStep, NumberStep, CommitStep, AnswerStep, InsertCopyStep, StopStep, PollRound
<1>2. CASE UNCHANGED fileVars
  <2>1. File!TypeOK' /\ ClientsMakeSense' /\ CursorCoversChanges'
    BY <1>2 DEF fileVars, FileInv, File!TypeOK, File!Versions, File!Contents, File!Steps, ClientsMakeSense,
                CursorCoversChanges, File!CursorCoversChanges
  <2>2. UploadsMakeSense' /\ EditsMakeSense' /\ Counted' /\ BytesAwaited' /\ BytesAreCurrent'
    BY <1>2 DEF fileVars, FileInv, UploadsMakeSense, OnItsWay, EditsMakeSense, Counted, BytesAwaited, BytesAreCurrent,
                File!BytesAreCurrent, File!At, File!Busy, File!NoUpload
  <2> QED BY <2>1, <2>2 DEF FileInv
<1> QED BY <1>1, <1>2 DEF File!Next

-----------------------------------------------------------------------------
(* The services side by side.                                              *)

Services == Inv /\ SagaInv /\ BucketInv /\ JwksInv /\ FileInv

\* Every service starts in its invariant.
LEMMA ServicesStart == ServicesInit => Services
BY InitInv, SagaInit, BucketInit, JwksInit, FileInit DEF ServicesInit, Services

\* A step is one of one service, and leaves the others alone.
LEMMA ServicesAlone ==
  [ServicesNext]_serviceVars =>
    /\ [Next]_vars /\ [Saga!Next]_sagaVars /\ [Bucket!Next]_bucketVars
    /\ [Keys!Next]_keyVars /\ [File!Next]_fileVars
BY DEF ServicesNext, serviceVars, ticketVars

\* It keeps every service's invariant.
LEMMA ServicesStep == Services /\ [ServicesNext]_serviceVars => Services'
BY ServicesAlone, NextInv, SagaStep, BucketStep, JwksStep, FileStep DEF Services

\* The invariants hold in every behaviour.
LEMMA ServicesKeep == ServicesSpec => []Services
BY ServicesStart, ServicesStep, PTL DEF ServicesSpec
-----------------------------------------------------------------------------
(* The theorems.                                                           *)

\* Every service's state stays of the shape its module declares.
THEOREM ServicesTypeCorrect == ServicesSpec => []ServicesTypeOK
<1>1. Services => ServicesTypeOK
  BY DEF Services, ServicesTypeOK, Inv, SagaInv, BucketInv, JwksInv, FileInv
<1> QED BY <1>1, ServicesKeep, PTL

\* workflows.py: nothing is charged before the order was created or shipped before
\* it was paid, not even by an attempt that was given up and took effect late; of
\* a completed order nothing was or will be undone; of a failed one what the
\* workflow was told of was undone, refund before cancellation, but for undo
\* actions that failed at every attempt.  What given-up attempts of a failed order
\* did is not settled by the code, and not claimed.
THEOREM OrdersAllOrNothing == ServicesSpec => []AllOrNothing
<1>1. Services => AllOrNothing
  BY SagaEnds DEF Services
<1> QED BY <1>1, ServicesKeep, PTL

\* rate-limiter/app/server.py: in no stretch of time is a client let through
\* more often than the full bucket and what drips in allow, whether or not the
\* idle bucket has evaporated in between.
THEOREM BucketKeepsRate == ServicesSpec => []RateKept
<1>1. Services => RateKept
  BY DEF Services, BucketInv
<1> QED BY <1>1, ServicesKeep, PTL

\* rate-limiter/app/server.py: when a client has waited as long as Retry-After
\* says, and has had no other request admitted, there is a token for it.
THEOREM RetryAfterIsEnough == ServicesSpec => []RetryAfterHolds
<1>1. Services => RetryAfterHolds
  BY PromisesHold DEF Services
<1> QED BY <1>1, ServicesKeep, PTL

\* auth.py: a key that was withdrawn is accepted for the time to live and one
\* fetch at most, even if an old answer is stored over a newer one; a key the
\* provider has is refused for the refetch interval and one fetch at most.
THEOREM VerdictsFollowRotation == ServicesSpec => []KeysFollowRotation
<1>1. Services => KeysFollowRotation
  BY DEF Services, JwksInv
<1> QED BY <1>1, ServicesKeep, PTL

\* dropbox notebook 02: when no bytes are on their way, those in the store are
\* of the version in the database, or of an upload that was on its way or died
\* when that version was accepted; a refused edit never comes back.
THEOREM FileBytesAreCurrent == ServicesSpec => []BytesAreCurrent
<1>1. Services => BytesAreCurrent
  BY DEF Services, FileInv
<1> QED BY <1>1, ServicesKeep, PTL

\* dropbox notebook 02: a client whose cursor has passed the event of an update
\* knows of the version once it was given that event or any later one of the file;
\* a conflict copy it knows unless the copy's event was invisible then, overtaken
\* by a later one.
THEOREM CursorsCoverChanges == ServicesSpec => []CursorCoversChanges
<1>1. Services => CursorCoversChanges
  BY DEF Services, FileInv
<1> QED BY <1>1, ServicesKeep, PTL
=============================================================================
