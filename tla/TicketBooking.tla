---------------------------- MODULE TicketBooking ----------------------------
(***************************************************************************)
(* Reserving, paying for and confirming a ticket, as in the Ticketmaster   *)
(* lab 03_payment_and_reservation_flow.ipynb.  A reservation is a lock in  *)
(* Redis that expires; the sale is a transaction in PostgreSQL.  Each step *)
(* of a request is one command to either, and a request may stop between   *)
(* any two of them.                                                        *)
(*                                                                         *)
(* The time left on a lock is left out: it may expire at any moment, which *)
(* covers every time to live and every extension of it.                    *)
(***************************************************************************)
EXTENDS Integers, FiniteSets

CONSTANTS
  Users, Tickets,
  Bookings,    \* the ids bookings may get: a bound on reservations
  Requests,    \* what may be under way at the same time
  Nobody       \* no holder, no user, no ticket, no booking

ASSUME NobodyIsNoUser == Nobody \notin Users

VARIABLES
  status,      \* ticket -> tickets.status
  lock,        \* ticket -> ticket:{id}:lock, the holder
  reserved,    \* event:{id}:reserved
  booking,     \* id -> the row of bookings, with its ticket
  payment,     \* id -> what the payment provider has said
  request,     \* request -> where it is
  sales,       \* history: the bookings a ticket was sold to
  told         \* history: the bookings reported as confirmed

vars == <<status, lock, reserved, booking, payment, request, sales, told>>

NoBooking == [status |-> "none", user |-> Nobody, ticket |-> Nobody]
Idle == [at |-> "idle", user |-> Nobody, ticket |-> Nobody, booking |-> Nobody]

Init ==
  /\ status = [t \in Tickets |-> "available"]
  /\ lock = [t \in Tickets |-> Nobody]
  /\ reserved = {}
  /\ booking = [b \in Bookings |-> NoBooking]
  /\ payment = [b \in Bookings |-> "none"]
  /\ request = [q \in Requests |-> Idle]
  /\ sales = {} /\ told = {}

GoTo(q, at) == request' = [request EXCEPT ![q].at = at]
Finish(q) == request' = [request EXCEPT ![q] = Idle]

\* A request about an existing booking gets under way.
Begin(q, b, at) ==
  request' = [request EXCEPT ![q] = [at |-> at, user |-> booking[b].user,
                                     ticket |-> booking[b].ticket, booking |-> b]]

\* reserve_ticket: SET NX.  Whoever finds a holder is turned away.
ReserveLock(q, u, t) ==
  /\ request[q] = Idle
  /\ lock[t] = Nobody
  /\ lock' = [lock EXCEPT ![t] = u]
  /\ request' = [request EXCEPT ![q] = [at |-> "locked", user |-> u, ticket |-> t, booking |-> Nobody]]
  /\ UNCHANGED <<status, reserved, booking, payment, sales, told>>

\* SELECT ... AND status = 'available'
ReserveRead(q) ==
  /\ request[q].at = "locked"
  /\ GoTo(q, IF status[request[q].ticket] = "available" THEN "inserting" ELSE "undo")
  /\ UNCHANGED <<status, lock, reserved, booking, payment, sales, told>>

\* The ticket goes into the set for the seat map before the commit.
ReserveMark(q) ==
  /\ request[q].at = "inserting"
  /\ reserved' = reserved \cup {request[q].ticket}
  /\ GoTo(q, "marked")
  /\ UNCHANGED <<status, lock, booking, payment, sales, told>>

ReserveCommit(q) ==
  /\ request[q].at = "marked"
  /\ \E b \in Bookings :
       /\ booking[b] = NoBooking
       /\ booking' = [booking EXCEPT ![b] = [status |-> "in-progress", user |-> request[q].user,
                                             ticket |-> request[q].ticket]]
  /\ Finish(q)
  /\ UNCHANGED <<status, lock, reserved, payment, sales, told>>

\* The database fails: the lock goes, and the mark stays.
ReserveFails(q) ==
  /\ request[q].at \in {"locked", "inserting", "marked"}
  /\ GoTo(q, "undo")
  /\ UNCHANGED <<status, lock, reserved, booking, payment, sales, told>>

\* A plain DEL, whoever holds the lock by then.
ReserveUndo(q) ==
  /\ request[q].at = "undo"
  /\ lock' = [lock EXCEPT ![request[q].ticket] = Nobody]
  /\ Finish(q)
  /\ UNCHANGED <<status, reserved, booking, payment, sales, told>>

\* simulate_payment, for which the driver waits.
Pay(b, outcome) ==
  /\ booking[b].status # "none" /\ payment[b] = "none"
  /\ payment' = [payment EXCEPT ![b] = outcome]
  /\ UNCHANGED <<status, lock, reserved, booking, request, sales, told>>

\* confirm_booking, once or more often for a payment: the status is read,
ConfirmRead(q, b) ==
  /\ request[q] = Idle
  /\ payment[b] = "paid"
  /\ IF booking[b].status = "in-progress"
     THEN Begin(q, b, "checking") /\ UNCHANGED told
     ELSE /\ UNCHANGED request
          /\ told' = IF booking[b].status = "confirmed" THEN told \cup {b} ELSE told
  /\ UNCHANGED <<status, lock, reserved, booking, payment, sales>>

\* then the lock.
ConfirmCheck(q) ==
  /\ request[q].at = "checking"
  /\ GoTo(q, IF lock[request[q].ticket] = request[q].user THEN "selling" ELSE "refusing")
  /\ UNCHANGED <<status, lock, reserved, booking, payment, sales, told>>

ConfirmRefuse(q) ==
  /\ request[q].at = "refusing"
  /\ booking' = [booking EXCEPT ![request[q].booking].status = "cancelled"]
  /\ Finish(q)
  /\ UNCHANGED <<status, lock, reserved, payment, sales, told>>

\* Mutant: the update does not ask for status = 'available'.
ForSaleAlways(t) == t \in Tickets

\* UPDATE tickets ... AND status = 'available'
ForSale(t) == status[t] = "available"

\* The ticket and the booking change in one transaction, or neither does.
ConfirmSell(q) ==
  LET t == request[q].ticket b == request[q].booking IN
  /\ request[q].at = "selling"
  /\ IF ForSale(t)
     THEN /\ status' = [status EXCEPT ![t] = "sold"]
          /\ booking' = [booking EXCEPT ![b].status = "confirmed"]
          /\ sales' = sales \cup {b}
          /\ GoTo(q, "releasing")
     ELSE Finish(q) /\ UNCHANGED <<status, booking, sales>>
  /\ UNCHANGED <<lock, reserved, payment, told>>

\* Another plain DEL, for a ticket that is sold.
ConfirmRelease(q) ==
  /\ request[q].at = "releasing"
  /\ lock' = [lock EXCEPT ![request[q].ticket] = Nobody]
  /\ GoTo(q, "confirmed")
  /\ UNCHANGED <<status, reserved, booking, payment, sales, told>>

\* cancel_booking, for a payment that was declined.
CancelWrite(q, b) ==
  /\ request[q] = Idle
  /\ payment[b] = "declined"
  /\ booking' = [booking EXCEPT ![b].status = "cancelled"]
  /\ Begin(q, b, "cancelled")
  /\ UNCHANGED <<status, lock, reserved, payment, sales, told>>

\* Mutant: cancel_booking deletes the lock without a look at its holder.
ReleaseAny(t, u) == IF u \in Users THEN Nobody ELSE lock[t]

\* RELEASE_LUA: compare and delete.
Release(t, u) == IF lock[t] = u THEN Nobody ELSE lock[t]

CancelRelease(q) ==
  /\ request[q].at = "cancelled"
  /\ LET t == request[q].ticket
     IN  lock' = [lock EXCEPT ![t] = Release(t, request[q].user)]
  /\ GoTo(q, "unmark")
  /\ UNCHANGED <<status, reserved, booking, payment, sales, told>>

\* get_reserved_tickets finds a marked ticket without a lock,
Sweep(q, t) ==
  /\ request[q] = Idle
  /\ t \in reserved /\ lock[t] = Nobody
  /\ request' = [request EXCEPT ![q] = [Idle EXCEPT !.at = "unmark", !.ticket = t]]
  /\ UNCHANGED <<status, lock, reserved, booking, payment, sales, told>>

\* and takes it from the set, the last thing that cancel_booking does, and
\* confirm_booking before it returns True.
Unmark(q) ==
  /\ request[q].at \in {"unmark", "confirmed"}
  /\ reserved' = reserved \ {request[q].ticket}
  /\ told' = IF request[q].at = "confirmed" THEN told \cup {request[q].booking} ELSE told
  /\ Finish(q)
  /\ UNCHANGED <<status, lock, booking, payment, sales>>

\* The time to live is over.
Expire(t) ==
  /\ lock[t] # Nobody
  /\ lock' = [lock EXCEPT ![t] = Nobody]
  /\ UNCHANGED <<status, reserved, booking, payment, request, sales, told>>

\* The process dies, or an error ends the request with the transaction it is in.
Stop(q) ==
  /\ request[q] # Idle
  /\ Finish(q)
  /\ UNCHANGED <<status, lock, reserved, booking, payment, sales, told>>

Reserving(q) ==
  \/ \E u \in Users, t \in Tickets : ReserveLock(q, u, t)
  \/ ReserveRead(q) \/ ReserveMark(q) \/ ReserveCommit(q) \/ ReserveFails(q) \/ ReserveUndo(q)

Confirming(q) ==
  \/ \E b \in Bookings : ConfirmRead(q, b)
  \/ ConfirmCheck(q) \/ ConfirmRefuse(q) \/ ConfirmSell(q) \/ ConfirmRelease(q)

Cancelling(q) == CancelRelease(q) \/ \E b \in Bookings : CancelWrite(q, b)

Next ==
  \/ \E q \in Requests : Reserving(q) \/ Confirming(q) \/ Cancelling(q)
                         \/ Unmark(q) \/ Stop(q) \/ \E t \in Tickets : Sweep(q, t)
  \/ \E b \in Bookings, outcome \in {"paid", "declined"} : Pay(b, outcome)
  \/ \E t \in Tickets : Expire(t)

Spec == Init /\ [][Next]_vars
-----------------------------------------------------------------------------
Stages == {"idle", "locked", "inserting", "marked", "undo", "checking", "refusing", "selling",
           "releasing", "confirmed", "cancelled", "unmark"}

TypeOK ==
  /\ status \in [Tickets -> {"available", "sold"}]
  /\ lock \in [Tickets -> Users \cup {Nobody}]
  /\ reserved \subseteq Tickets
  /\ booking \in [Bookings -> [status : {"none", "in-progress", "confirmed", "cancelled"},
                               user : Users \cup {Nobody}, ticket : Tickets \cup {Nobody}]]
  /\ payment \in [Bookings -> {"none", "paid", "declined"}]
  /\ request \in [Requests -> [at : Stages, user : Users \cup {Nobody},
                               ticket : Tickets \cup {Nobody}, booking : Bookings \cup {Nobody}]]
  /\ sales \subseteq Bookings /\ told \subseteq Bookings

\* A ticket is sold to one booking for good, and nobody else is ever told that
\* it is his: not when the lock expires during the payment, when a confirmation
\* comes twice, or when a process dies between the sale and the release
\* (notebook 03, "prevents double-selling even if Redis fails").
SoldOnce ==
  /\ told \subseteq sales
  /\ \A b \in sales : status[booking[b].ticket] = "sold"
  /\ \A b, c \in sales : booking[b].ticket = booking[c].ticket => b = c

\* A request takes another user's lock away only from a ticket that is sold, or
\* to clean up after a reservation of its own that failed.  In particular the
\* late cancellation of an expired reservation leaves the next holder alone.
OthersLocksSurvive ==
  [][\A q \in Requests, t \in Tickets :
       request'[q] # request[q] /\ lock[t] # Nobody /\ lock'[t] = Nobody =>
         \/ lock[t] = request[q].user
         \/ status[t] = "sold"
         \/ request[q].at = "undo"]_vars

\* What the notebook says of a second confirmation (line 632, "a safe no-op"):
\* a booking that is confirmed stays so.
ConfirmedStays ==
  [][\A b \in Bookings : booking[b].status = "confirmed" => booking'[b].status = "confirmed"]_vars
=============================================================================
