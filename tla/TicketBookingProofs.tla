------------------------- MODULE TicketBookingProofs -------------------------
(***************************************************************************)
(* For any users, tickets, bookings and requests: a ticket is sold once,   *)
(* and a lock goes only with its holder's leave.  Both follow from one     *)
(* inductive invariant, which says what a request may rely on at each of   *)
(* its steps although everything it has read may have changed since.       *)
(***************************************************************************)
EXTENDS TicketBooking, TLAPS

\* A booking that exists is for a ticket; only such a booking is paid for; and
\* one that is confirmed was sold its ticket.
BookingsMakeSense ==
  \A b \in Bookings :
    /\ booking[b].status # "none" => booking[b].ticket \in Tickets
    /\ payment[b] # "none" => booking[b].status # "none"
    /\ booking[b].status = "confirmed" => b \in sales
    /\ b \in sales => booking[b].status # "none"

OfBooking == {"checking", "refusing", "selling", "releasing", "confirmed", "cancelled"}
OfTicket == {"locked", "inserting", "marked", "undo", "unmark"}

\* A request is about a ticket; one that is about a booking as well agrees with
\* its row; and past the sale, the booking was sold its ticket.
RequestsMakeSense ==
  \A q \in Requests :
    LET r == request[q]
    IN  /\ r.at \in OfTicket => r.ticket \in Tickets
        /\ r.at \in OfBooking =>
             /\ r.booking \in Bookings
             /\ booking[r.booking].status # "none"
             /\ booking[r.booking].ticket = r.ticket
        /\ r.at \in {"releasing", "confirmed"} => r.booking \in sales

Inv == TypeOK /\ BookingsMakeSense /\ RequestsMakeSense /\ SoldOnce

Requested == [at : Stages, user : Users \cup {Nobody},
              ticket : Tickets \cup {Nobody}, booking : Bookings \cup {Nobody}]
Booked == [status : {"none", "in-progress", "confirmed", "cancelled"},
           user : Users \cup {Nobody}, ticket : Tickets \cup {Nobody}]

\* At the start nothing is booked, and no request is under way.
LEMMA InitInv == Init => Inv
BY DEF Init, Inv, TypeOK, BookingsMakeSense, RequestsMakeSense, SoldOnce,
       NoBooking, Idle, Stages, OfBooking, OfTicket

\* What GoTo leaves of a request.
LEMMA GoToIs ==
  ASSUME NEW q \in Requests, NEW at \in Stages, request \in [Requests -> Requested], GoTo(q, at)
  PROVE  /\ request' = [request EXCEPT ![q] = [at |-> at, user |-> request[q].user,
                                               ticket |-> request[q].ticket,
                                               booking |-> request[q].booking]]
         /\ [at |-> at, user |-> request[q].user, ticket |-> request[q].ticket,
             booking |-> request[q].booking] \in Requested
<1> DEFINE r == [at |-> at, user |-> request[q].user, ticket |-> request[q].ticket,
                 booking |-> request[q].booking]
<1>1. request[q] \in Requested
  OBVIOUS
<1>2. [request[q] EXCEPT !.at = at] = r
  BY <1>1 DEF Requested
<1>3. r \in Requested
  BY <1>1 DEF Requested
<1>4. request' = [request EXCEPT ![q] = [request[q] EXCEPT !.at = at]]
  BY DEF GoTo
<1> QED
  BY <1>2, <1>3, <1>4

\* A step that leaves bookings and sales alone, and moves one request to a
\* record that makes sense, keeps RequestsMakeSense.
LEMMA OneRequest ==
  ASSUME NEW q \in Requests, NEW r \in Requested,
         request \in [Requests -> Requested], RequestsMakeSense,
         request' = [request EXCEPT ![q] = r],
         r.at \in OfTicket => r.ticket \in Tickets,
         r.at \in OfBooking =>
           /\ r.booking \in Bookings
           /\ booking'[r.booking].status # "none"
           /\ booking'[r.booking].ticket = r.ticket,
         r.at \in {"releasing", "confirmed"} => r.booking \in sales',
         sales \subseteq sales',
         \A b \in Bookings : booking[b].status # "none" =>
            booking'[b].status # "none" /\ booking'[b].ticket = booking[b].ticket
  PROVE  RequestsMakeSense' /\ request' \in [Requests -> Requested]
<1>1. request' \in [Requests -> Requested]
  OBVIOUS
<1>2. ASSUME NEW p \in Requests
      PROVE  /\ request'[p].at \in OfTicket => request'[p].ticket \in Tickets
             /\ request'[p].at \in OfBooking =>
                  /\ request'[p].booking \in Bookings
                  /\ booking'[request'[p].booking].status # "none"
                  /\ booking'[request'[p].booking].ticket = request'[p].ticket
             /\ request'[p].at \in {"releasing", "confirmed"} => request'[p].booking \in sales'
  <2>1. CASE p = q
    <3>1. request'[p] = r
      BY <2>1
    <3> QED
      BY <3>1
  <2>2. CASE p # q
    <3>1. request'[p] = request[p]
      BY <2>2
    <3> QED
      BY <3>1 DEF RequestsMakeSense
  <2> QED
    BY <2>1, <2>2
<1> QED
  BY <1>1, <1>2 DEF RequestsMakeSense

\* The steps that leave bookings, sales and the status of tickets alone keep
\* BookingsMakeSense and SoldOnce, whatever they do to locks and payments.
LEMMA Undisturbed ==
  ASSUME Inv, UNCHANGED <<booking, sales, status>>, told' \subseteq sales,
         \A b \in Bookings : payment'[b] # "none" => booking[b].status # "none"
  PROVE  BookingsMakeSense' /\ SoldOnce'
<1>1. BookingsMakeSense'
  BY DEF Inv, BookingsMakeSense
<1>2. SoldOnce'
  BY DEF Inv, SoldOnce
<1> QED
  BY <1>1, <1>2

\* A request that ends, or was not there, makes sense.
LEMMA IdleIs == Idle \in Requested /\ Idle.at = "idle" /\ "idle" \notin OfTicket \cup OfBooking
BY DEF Idle, Requested, Stages, OfTicket, OfBooking

\* The steps of a request that change nothing in the database and take it from
\* one stage to another.
LEMMA Moves ==
  ASSUME Inv, NEW q \in Requests, NEW at \in Stages, GoTo(q, at),
         UNCHANGED <<booking, sales, status, payment, told>>,
         lock' \in [Tickets -> Users \cup {Nobody}], reserved' \subseteq Tickets,
         at \in OfTicket => request[q].ticket \in Tickets,
         at \in OfBooking => request[q].at \in OfBooking,
         at \in {"releasing", "confirmed"} => request[q].booking \in sales
  PROVE  Inv'
<1> DEFINE r == [at |-> at, user |-> request[q].user, ticket |-> request[q].ticket,
                 booking |-> request[q].booking]
<1>1. request \in [Requests -> Requested]
  BY DEF Inv, TypeOK, Requested
<1>2. request' = [request EXCEPT ![q] = r] /\ r \in Requested
  BY <1>1, GoToIs
<1>3. r.at = at /\ r.ticket = request[q].ticket /\ r.booking = request[q].booking
  OBVIOUS
<1>4. at \in OfBooking => /\ request[q].booking \in Bookings
                          /\ booking[request[q].booking].status # "none"
                          /\ booking[request[q].booking].ticket = request[q].ticket
  BY DEF Inv, RequestsMakeSense
<1> HIDE DEF r
<1>5. RequestsMakeSense' /\ request' \in [Requests -> Requested]
  BY <1>1, <1>2, <1>3, <1>4, OneRequest DEF Inv
<1>6. BookingsMakeSense' /\ SoldOnce'
  BY Undisturbed DEF Inv, BookingsMakeSense, SoldOnce
<1>7. TypeOK'
  BY <1>5 DEF Inv, TypeOK, Requested
<1> QED
  BY <1>5, <1>6, <1>7 DEF Inv

\* The steps with which a request ends without a change of the database.
LEMMA Ends ==
  ASSUME Inv, NEW q \in Requests, Finish(q),
         UNCHANGED <<booking, sales, status, payment>>,
         told' \subseteq sales, told' \subseteq Bookings,
         lock' \in [Tickets -> Users \cup {Nobody}], reserved' \subseteq Tickets
  PROVE  Inv'
<1>1. request \in [Requests -> Requested]
  BY DEF Inv, TypeOK, Requested
<1>2. request' = [request EXCEPT ![q] = Idle]
  BY DEF Finish
<1>3. Idle.at \notin OfTicket /\ Idle.at \notin OfBooking /\ Idle.at \notin {"releasing", "confirmed"}
  BY IdleIs
<1>4. RequestsMakeSense' /\ request' \in [Requests -> Requested]
  BY <1>1, <1>2, <1>3, IdleIs, OneRequest DEF Inv
<1>5. BookingsMakeSense' /\ SoldOnce'
  BY Undisturbed DEF Inv, BookingsMakeSense
<1>6. TypeOK'
  BY <1>4 DEF Inv, TypeOK, Requested
<1> QED
  BY <1>4, <1>5, <1>6 DEF Inv

\* The ticket a request is about, once it is about one.
LEMMA ItsTicket ==
  ASSUME Inv, NEW q \in Requests, request[q].at \in OfTicket \cup OfBooking
  PROVE  request[q].ticket \in Tickets
BY DEF Inv, RequestsMakeSense, BookingsMakeSense

\* What Begin makes of a request, about a booking that exists.
LEMMA Begins ==
  ASSUME Inv, NEW q \in Requests, NEW b \in Bookings, NEW at \in {"checking", "cancelled"},
         booking[b].status # "none", Begin(q, b, at),
         booking' \in [Bookings -> Booked], sales' = sales,
         \A c \in Bookings : booking[c].status # "none" =>
            booking'[c].status # "none" /\ booking'[c].ticket = booking[c].ticket
  PROVE  RequestsMakeSense' /\ request' \in [Requests -> Requested]
<1> DEFINE r == [at |-> at, user |-> booking[b].user, ticket |-> booking[b].ticket, booking |-> b]
<1>1. request \in [Requests -> Requested] /\ booking \in [Bookings -> Booked]
  BY DEF Inv, TypeOK, Requested, Booked
<1>2. booking[b] \in Booked
  BY <1>1
<1>3. r \in Requested
  BY <1>2 DEF Booked, Requested, Stages
<1>4. request' = [request EXCEPT ![q] = r]
  BY DEF Begin
<1>5. r.at = at /\ r.ticket = booking[b].ticket /\ r.booking = b
  OBVIOUS
<1>6. r.at \notin OfTicket /\ r.at \notin {"releasing", "confirmed"}
  BY <1>5 DEF OfTicket
<1> HIDE DEF r
<1> QED
  BY <1>1, <1>3, <1>4, <1>5, <1>6, OneRequest DEF Inv

\* An update of the status of one booking leaves the rest of its row.
LEMMA StatusIs ==
  ASSUME NEW b \in Bookings, NEW s \in {"none", "in-progress", "confirmed", "cancelled"},
         booking \in [Bookings -> Booked], booking' = [booking EXCEPT ![b].status = s]
  PROVE  /\ booking' \in [Bookings -> Booked]
         /\ booking'[b].status = s
         /\ \A c \in Bookings : /\ booking'[c].ticket = booking[c].ticket
                                /\ c # b => booking'[c] = booking[c]
<1> DEFINE new == [status |-> s, user |-> booking[b].user, ticket |-> booking[b].ticket]
<1>1. booking[b] \in Booked
  OBVIOUS
<1>2. [booking[b] EXCEPT !.status = s] = new
  BY <1>1 DEF Booked
<1>3. new \in Booked /\ new.status = s /\ new.ticket = booking[b].ticket
  BY <1>1 DEF Booked
<1>4. booking' = [booking EXCEPT ![b] = new]
  BY <1>2
<1> HIDE DEF new
<1>5. booking'[b] = new /\ booking' \in [Bookings -> Booked]
      /\ \A c \in Bookings : c # b => booking'[c] = booking[c]
  BY ONLY booking \in [Bookings -> Booked], b \in Bookings, <1>3, <1>4
<1> QED
  BY ONLY <1>3, <1>5

\* No command of reserve_ticket breaks the invariant, its own undoing included:
\* a new booking is for a ticket, and was sold nothing yet.
LEMMA ReservingStep ==
  ASSUME Inv, NEW q \in Requests, Reserving(q)
  PROVE  Inv'
<1> USE DEF OfTicket, OfBooking
<1>t. TypeOK
  BY DEF Inv
<1>1. ASSUME NEW u \in Users, NEW t \in Tickets, ReserveLock(q, u, t)
      PROVE  Inv'
  <2> DEFINE r == [at |-> "locked", user |-> u, ticket |-> t, booking |-> Nobody]
  <2>1. request' = [request EXCEPT ![q] = r] /\ UNCHANGED <<status, booking, sales, payment, told, reserved>>
    BY <1>1 DEF ReserveLock
  <2>2. r \in Requested /\ r.at = "locked" /\ r.ticket \in Tickets
    BY DEF Requested, Stages
  <2>3. request \in [Requests -> Requested]
    BY <1>t DEF TypeOK, Requested
  <2> HIDE DEF r
  <2>4. RequestsMakeSense' /\ request' \in [Requests -> Requested]
    BY <2>1, <2>2, <2>3, OneRequest DEF Inv
  <2>5. BookingsMakeSense' /\ SoldOnce'
    BY <2>1, Undisturbed DEF Inv, BookingsMakeSense, SoldOnce
  <2>6. TypeOK'
    BY <1>1, <1>t, <2>1, <2>4 DEF TypeOK, Requested, ReserveLock
  <2> QED
    BY <2>4, <2>5, <2>6 DEF Inv
<1>2. CASE ReserveRead(q)
  <2>1. PICK at \in {"inserting", "undo"} : GoTo(q, at)
    BY <1>2 DEF ReserveRead
  <2>2. request[q].ticket \in Tickets
    BY <1>2, ItsTicket DEF ReserveRead
  <2> QED
    BY <1>2, <1>t, <2>1, <2>2, Moves DEF ReserveRead, TypeOK, Stages
<1>3. CASE ReserveMark(q)
  <2>1. request[q].ticket \in Tickets
    BY <1>3, ItsTicket DEF ReserveMark
  <2> QED
    BY <1>3, <1>t, <2>1, Moves DEF ReserveMark, TypeOK, Stages
<1>4. CASE ReserveCommit(q)
  <2>1. request[q].ticket \in Tickets
    BY <1>4, ItsTicket DEF ReserveCommit
  <2>2. PICK b \in Bookings :
          /\ booking[b] = NoBooking
          /\ booking' = [booking EXCEPT ![b] = [status |-> "in-progress", user |-> request[q].user,
                                                ticket |-> request[q].ticket]]
    BY <1>4 DEF ReserveCommit
  <2>3. /\ Finish(q) /\ UNCHANGED <<status, lock, reserved, payment, sales, told>>
    BY <1>4 DEF ReserveCommit
  <2>4. request[q] \in Requested /\ request \in [Requests -> Requested] /\ booking \in [Bookings -> Booked]
    BY <1>t DEF TypeOK, Requested, Booked
  <2>5. /\ booking'[b].status = "in-progress" /\ booking'[b].ticket \in Tickets
        /\ booking[b].status = "none" /\ b \notin sales
        /\ \A c \in Bookings : c # b => booking'[c] = booking[c]
    BY <2>1, <2>2, <2>4 DEF NoBooking, Inv, BookingsMakeSense
  <2>6. booking' \in [Bookings -> Booked]
    <3>1. [status |-> "in-progress", user |-> request[q].user, ticket |-> request[q].ticket] \in Booked
      BY <2>4 DEF Requested, Booked
    <3> QED
      BY <3>1, <2>2, <2>4
  <2>7. BookingsMakeSense'
    BY <2>3, <2>5 DEF Inv, BookingsMakeSense
  <2>8. SoldOnce'
    <3>1. sales \subseteq Bookings
      BY <1>t DEF TypeOK
    <3>2. \A c \in sales : booking'[c] = booking[c]
      BY <2>5, <3>1
    <3> QED
      BY <2>3, <3>2 DEF Inv, SoldOnce
  <2>9. RequestsMakeSense' /\ request' \in [Requests -> Requested]
    <3>1. Idle.at \notin OfTicket /\ Idle.at \notin OfBooking /\ Idle.at \notin {"releasing", "confirmed"}
      BY IdleIs
    <3>2. request' = [request EXCEPT ![q] = Idle] /\ sales' = sales
      BY <2>3 DEF Finish
    <3>3. \A c \in Bookings : booking[c].status # "none" =>
             booking'[c].status # "none" /\ booking'[c].ticket = booking[c].ticket
      BY <2>5
    <3> QED
      BY <2>4, <3>1, <3>2, <3>3, IdleIs, OneRequest DEF Inv
  <2>10. TypeOK'
    BY <1>t, <2>3, <2>6, <2>9 DEF TypeOK, Requested, Booked
  <2> QED
    BY <2>7, <2>8, <2>9, <2>10 DEF Inv
<1>5. CASE ReserveFails(q)
  <2>1. request[q].ticket \in Tickets
    BY <1>5, ItsTicket DEF ReserveFails
  <2> QED
    BY <1>5, <1>t, <2>1, Moves DEF ReserveFails, TypeOK, Stages
<1>6. CASE ReserveUndo(q)
  BY <1>6, <1>t, Ends DEF ReserveUndo, TypeOK, Inv, SoldOnce
<1> QED
  BY <1>1, <1>2, <1>3, <1>4, <1>5, <1>6 DEF Reserving

\* Nor does one of confirm_booking: the sale is of a ticket that is available,
\* hence of none that another booking was sold.
LEMMA ConfirmingStep ==
  ASSUME Inv, NEW q \in Requests, Confirming(q)
  PROVE  Inv'
<1> USE DEF OfTicket, OfBooking
<1>t. TypeOK
  BY DEF Inv
<1>b. booking \in [Bookings -> Booked] /\ request \in [Requests -> Requested] /\ request[q] \in Requested
  BY <1>t DEF TypeOK, Booked, Requested
<1>1. ASSUME NEW b \in Bookings, ConfirmRead(q, b)
      PROVE  Inv'
  <2>1. UNCHANGED <<status, lock, reserved, booking, payment, sales>>
    BY <1>1 DEF ConfirmRead
  <2>2. told' \subseteq sales /\ told' \subseteq Bookings
    BY <1>1, <1>t DEF ConfirmRead, Inv, SoldOnce, BookingsMakeSense, TypeOK
  <2>3. BookingsMakeSense' /\ SoldOnce'
    BY <2>1, <2>2, Undisturbed DEF Inv, BookingsMakeSense
  <2>4. RequestsMakeSense' /\ request' \in [Requests -> Requested]
    <3>1. CASE booking[b].status = "in-progress"
      <4>1. Begin(q, b, "checking")
        BY <1>1, <3>1 DEF ConfirmRead
      <4> QED
        BY <1>b, <2>1, <3>1, <4>1, Begins
    <3>2. CASE booking[b].status # "in-progress"
      <4>1. request' = request
        BY <1>1, <3>2 DEF ConfirmRead
      <4> QED
        BY <1>b, <2>1, <4>1 DEF Inv, RequestsMakeSense
    <3> QED
      BY <3>1, <3>2
  <2>5. TypeOK'
    BY <1>t, <2>1, <2>2, <2>4 DEF TypeOK, Requested
  <2> QED
    BY <2>3, <2>4, <2>5 DEF Inv
<1>2. CASE ConfirmCheck(q)
  <2>1. PICK at \in {"selling", "refusing"} : GoTo(q, at)
    BY <1>2 DEF ConfirmCheck
  <2> QED
    BY <1>2, <1>t, <2>1, Moves DEF ConfirmCheck, TypeOK, Stages, Inv, SoldOnce
<1>3. CASE ConfirmRefuse(q)
  <2> DEFINE b == request[q].booking
  <2>1. request[q].at = "refusing" /\ booking' = [booking EXCEPT ![b].status = "cancelled"]
        /\ Finish(q) /\ UNCHANGED <<status, lock, reserved, payment, sales, told>>
    BY <1>3 DEF ConfirmRefuse
  <2>2. b \in Bookings /\ booking[b].status # "none"
    BY <2>1 DEF Inv, RequestsMakeSense
  <2>3. /\ booking' \in [Bookings -> Booked] /\ booking'[b].status = "cancelled"
        /\ \A c \in Bookings : /\ booking'[c].ticket = booking[c].ticket
                               /\ c # b => booking'[c] = booking[c]
    BY <1>b, <2>1, <2>2, StatusIs
  <2> HIDE DEF b
  <2>4. BookingsMakeSense'
    BY <2>1, <2>2, <2>3 DEF Inv, BookingsMakeSense
  <2>5. SoldOnce'
    BY <1>t, <2>1, <2>3 DEF Inv, SoldOnce, TypeOK
  <2>6. RequestsMakeSense' /\ request' \in [Requests -> Requested]
    <3>1. Idle.at \notin OfTicket /\ Idle.at \notin OfBooking /\ Idle.at \notin {"releasing", "confirmed"}
      BY IdleIs
    <3>2. request' = [request EXCEPT ![q] = Idle] /\ sales' = sales
      BY <2>1 DEF Finish
    <3>3. \A c \in Bookings : booking[c].status # "none" =>
             booking'[c].status # "none" /\ booking'[c].ticket = booking[c].ticket
      BY <2>3
    <3> QED
      BY <1>b, <3>1, <3>2, <3>3, IdleIs, OneRequest DEF Inv
  <2>7. TypeOK'
    BY <1>t, <2>1, <2>3, <2>6 DEF TypeOK, Requested, Booked
  <2> QED
    BY <2>4, <2>5, <2>6, <2>7 DEF Inv
<1>4. CASE ConfirmSell(q)
  <2> DEFINE t == request[q].ticket
             b == request[q].booking
  <2>1. request[q].at = "selling" /\ UNCHANGED <<lock, reserved, payment, told>>
    BY <1>4 DEF ConfirmSell
  <2>2. b \in Bookings /\ booking[b].status # "none" /\ booking[b].ticket = t
    BY <2>1 DEF Inv, RequestsMakeSense
  <2>3. t \in Tickets
    BY <2>1, ItsTicket
  <2>4. CASE ~ ForSale(t)
    BY <1>4, <1>t, <2>1, <2>4, Ends DEF ConfirmSell, TypeOK, Inv, SoldOnce
  <2>5. CASE ForSale(t)
    <3>1. /\ status' = [status EXCEPT ![t] = "sold"]
          /\ booking' = [booking EXCEPT ![b].status = "confirmed"]
          /\ sales' = sales \cup {b}
          /\ GoTo(q, "releasing")
      BY <1>4, <2>5 DEF ConfirmSell
    <3>2. /\ booking' \in [Bookings -> Booked] /\ booking'[b].status = "confirmed"
          /\ \A c \in Bookings : /\ booking'[c].ticket = booking[c].ticket
                                 /\ c # b => booking'[c] = booking[c]
      BY <1>b, <2>2, <3>1, StatusIs
    <3>3. /\ request' = [request EXCEPT ![q] = [at |-> "releasing", user |-> request[q].user,
                                               ticket |-> t, booking |-> b]]
          /\ [at |-> "releasing", user |-> request[q].user, ticket |-> t, booking |-> b] \in Requested
      BY <1>b, <3>1, GoToIs DEF Stages
    <3>4. status[t] = "available" /\ status'[t] = "sold"
          /\ \A u \in Tickets : status[u] = "sold" => status'[u] = "sold"
      BY <1>t, <2>3, <2>5, <3>1 DEF ForSale, TypeOK
    <3> DEFINE r == [at |-> "releasing", user |-> request[q].user, ticket |-> t, booking |-> b]
    <3>5. r \in Requested /\ r.at = "releasing" /\ r.ticket = t /\ r.booking = b
          /\ request' = [request EXCEPT ![q] = r]
      BY <3>3
    <3> HIDE DEF t, b, r
    <3>6. BookingsMakeSense'
      BY <2>1, <2>2, <3>1, <3>2 DEF Inv, BookingsMakeSense
    <3>7. SoldOnce'
      <4>1. sales \subseteq Bookings /\ told' \subseteq sales'
        BY <1>t, <2>1, <3>1 DEF TypeOK, Inv, SoldOnce
      <4>2. \A c \in sales : status[booking[c].ticket] = "sold" /\ booking[c].ticket \in Tickets
        BY <4>1 DEF Inv, SoldOnce, BookingsMakeSense
      <4>3. \A c \in sales' : status'[booking'[c].ticket] = "sold"
        BY <2>2, <3>1, <3>2, <3>4, <4>1, <4>2
      <4>4. \A c \in sales : booking[c].ticket # t
        BY <3>4, <4>2
      <4>5. \A c, d \in sales : booking[c].ticket = booking[d].ticket => c = d
        BY DEF Inv, SoldOnce
      <4>6. \A c, d \in sales' : booking'[c].ticket = booking'[d].ticket => c = d
        BY <2>2, <3>1, <3>2, <4>1, <4>4, <4>5
      <4> QED
        BY <4>1, <4>3, <4>6 DEF SoldOnce
    <3>8. RequestsMakeSense' /\ request' \in [Requests -> Requested]
      <4>1. \A c \in Bookings : booking[c].status # "none" =>
               booking'[c].status # "none" /\ booking'[c].ticket = booking[c].ticket
        BY <3>2
      <4>2. r.at \notin OfTicket /\ r.booking \in sales' /\ sales \subseteq sales'
        BY <3>1, <3>5
      <4>3. r.booking \in Bookings /\ booking'[r.booking].status # "none"
            /\ booking'[r.booking].ticket = r.ticket
        BY <2>2, <3>2, <3>5
      <4> QED
        BY <1>b, <3>5, <4>1, <4>2, <4>3, OneRequest DEF Inv
    <3>9. TypeOK'
      BY <1>t, <2>1, <2>2, <3>1, <3>2, <3>8 DEF TypeOK, Requested, Booked
    <3> QED
      BY <3>6, <3>7, <3>8, <3>9 DEF Inv
  <2> QED
    BY <2>4, <2>5
<1>5. CASE ConfirmRelease(q)
  <2>1. request[q].booking \in sales
    BY <1>5 DEF ConfirmRelease, Inv, RequestsMakeSense
  <2> QED
    BY <1>5, <1>t, <2>1, Moves DEF ConfirmRelease, TypeOK, Stages
<1> QED
  BY <1>1, <1>2, <1>3, <1>4, <1>5 DEF Confirming

\* Nor one of cancel_booking, which leaves the row's user and ticket alone.
LEMMA CancellingStep ==
  ASSUME Inv, NEW q \in Requests, Cancelling(q)
  PROVE  Inv'
<1> USE DEF OfTicket, OfBooking
<1>t. TypeOK
  BY DEF Inv
<1>b. booking \in [Bookings -> Booked]
  BY <1>t DEF TypeOK, Booked
<1>1. CASE CancelRelease(q)
  <2>1. request[q].ticket \in Tickets /\ GoTo(q, "unmark")
    BY <1>1, ItsTicket DEF CancelRelease
  <2>2. lock' \in [Tickets -> Users \cup {Nobody}]
    BY <1>1, <1>t, <2>1 DEF CancelRelease, Release, TypeOK
  <2> QED
    BY <1>1, <1>t, <2>1, <2>2, Moves DEF CancelRelease, TypeOK, Stages
<1>2. ASSUME NEW b \in Bookings, CancelWrite(q, b)
      PROVE  Inv'
  <2>1. /\ payment[b] = "declined" /\ booking' = [booking EXCEPT ![b].status = "cancelled"]
        /\ Begin(q, b, "cancelled")
        /\ UNCHANGED <<status, lock, reserved, payment, sales, told>>
    BY <1>2 DEF CancelWrite
  <2>2. booking[b].status # "none"
    BY <2>1 DEF Inv, BookingsMakeSense
  <2>3. /\ booking' \in [Bookings -> Booked] /\ booking'[b].status = "cancelled"
        /\ \A c \in Bookings : /\ booking'[c].ticket = booking[c].ticket
                               /\ c # b => booking'[c] = booking[c]
    BY <1>b, <2>1, StatusIs
  <2>4. BookingsMakeSense'
    BY <2>1, <2>2, <2>3 DEF Inv, BookingsMakeSense
  <2>5. SoldOnce'
    BY <1>t, <2>1, <2>3 DEF Inv, SoldOnce, TypeOK
  <2>6. RequestsMakeSense' /\ request' \in [Requests -> Requested]
    BY <2>1, <2>2, <2>3, Begins
  <2>7. TypeOK'
    BY <1>t, <2>1, <2>3, <2>6 DEF TypeOK, Requested, Booked
  <2> QED
    BY <2>4, <2>5, <2>6, <2>7 DEF Inv
<1> QED
  BY <1>1, <1>2 DEF Cancelling

\* Nor the seat map's sweep, a payment, an expiry, or a process that dies.
LEMMA OtherStep ==
  ASSUME Inv,
         \/ \E q \in Requests : Unmark(q) \/ Stop(q) \/ \E t \in Tickets : Sweep(q, t)
         \/ \E b \in Bookings, outcome \in {"paid", "declined"} : Pay(b, outcome)
         \/ \E t \in Tickets : Expire(t)
  PROVE  Inv'
<1>t. TypeOK
  BY DEF Inv
<1>1. ASSUME NEW q \in Requests, Unmark(q) PROVE Inv'
  <2>1. told' \subseteq sales
    BY <1>1 DEF Unmark, Inv, SoldOnce, RequestsMakeSense
  <2> QED
    BY <1>1, <1>t, <2>1, Ends DEF Unmark, TypeOK
<1>2. ASSUME NEW q \in Requests, Stop(q) PROVE Inv'
  BY <1>2, <1>t, Ends DEF Stop, TypeOK, Inv, SoldOnce
<1>3. ASSUME NEW q \in Requests, NEW t \in Tickets, Sweep(q, t) PROVE Inv'
  <2> DEFINE r == [Idle EXCEPT !.at = "unmark", !.ticket = t]
  <2>1. request' = [request EXCEPT ![q] = r]
        /\ UNCHANGED <<status, lock, reserved, booking, payment, sales, told>>
    BY <1>3 DEF Sweep
  <2>2. r \in Requested /\ r.at = "unmark" /\ r.ticket \in Tickets
    BY DEF Idle, Requested, Stages
  <2>3. request \in [Requests -> Requested]
    BY <1>t DEF TypeOK, Requested
  <2> HIDE DEF r
  <2>4. RequestsMakeSense' /\ request' \in [Requests -> Requested]
    BY <2>1, <2>2, <2>3, OneRequest DEF Inv, OfBooking
  <2>5. BookingsMakeSense' /\ SoldOnce'
    BY <2>1, Undisturbed DEF Inv, BookingsMakeSense, SoldOnce
  <2>6. TypeOK'
    BY <1>t, <2>1, <2>4 DEF TypeOK, Requested
  <2> QED
    BY <2>4, <2>5, <2>6 DEF Inv
<1>4. ASSUME NEW b \in Bookings, NEW outcome \in {"paid", "declined"}, Pay(b, outcome) PROVE Inv'
  BY <1>4, <1>t DEF Pay, Inv, TypeOK, BookingsMakeSense, RequestsMakeSense, SoldOnce
<1>5. ASSUME NEW t \in Tickets, Expire(t) PROVE Inv'
  BY <1>5, <1>t DEF Expire, Inv, TypeOK, BookingsMakeSense, RequestsMakeSense, SoldOnce
<1> QED
  BY <1>1, <1>2, <1>3, <1>4, <1>5

\* The invariant is inductive.
LEMMA NextInv == Inv /\ [Next]_vars => Inv'
<1> SUFFICES ASSUME Inv, [Next]_vars
             PROVE  Inv'
  OBVIOUS
<1>1. CASE Next
  <2>1. CASE \E q \in Requests : Reserving(q) \/ Confirming(q) \/ Cancelling(q)
    BY <2>1, ReservingStep, ConfirmingStep, CancellingStep
  <2>2. CASE ~ \E q \in Requests : Reserving(q) \/ Confirming(q) \/ Cancelling(q)
    BY <1>1, <2>2, OtherStep DEF Next
  <2> QED
    BY <2>1, <2>2
<1>2. CASE UNCHANGED vars
  BY <1>2 DEF vars, Inv, TypeOK, BookingsMakeSense, RequestsMakeSense, SoldOnce
<1> QED
  BY <1>1, <1>2

\* For any users, tickets, bookings and requests, whatever the order of their
\* commands: what a request relies on holds at each of its steps (notebook 03).
THEOREM Invariance == Spec => []Inv
<1>1. Init => Inv
  BY InitInv
<1>2. Inv /\ [Next]_vars => Inv'
  BY NextInv
<1> QED
  BY <1>1, <1>2, PTL DEF Spec

\* Every variable keeps its shape, for any instance (the state of notebook 03).
THEOREM TypeCorrect == Spec => []TypeOK
<1>1. Inv => TypeOK
  BY DEF Inv
<1> QED
  BY <1>1, Invariance, PTL

\* A ticket is sold to one booking, and only its owner is told so: the UPDATE
\* that asks for status = 'available' protects the sale whatever happened to
\* the lock.
THEOREM TicketSoldOnce == Spec => []SoldOnce
<1>1. Inv => SoldOnce
  BY DEF Inv
<1> QED
  BY <1>1, Invariance, PTL

\* A step that takes a lock away as part of a request.
LEMMA LockTaken ==
  ASSUME Inv, Next, NEW q \in Requests, NEW t \in Tickets,
         request'[q] # request[q], lock[t] # Nobody, lock'[t] = Nobody
  PROVE  lock[t] = request[q].user \/ status[t] = "sold" \/ request[q].at = "undo"
<1>t. lock \in [Tickets -> Users \cup {Nobody}] /\ request \in [Requests -> Requested]
  BY DEF Inv, TypeOK, Requested
<1>1. ASSUME NEW p \in Requests, Reserving(p)
      PROVE  lock[t] = request[q].user \/ status[t] = "sold" \/ request[q].at = "undo"
  <2>1. ASSUME NEW u \in Users, NEW s \in Tickets, ReserveLock(p, u, s)
        PROVE  FALSE
    BY <1>t, <2>1, NobodyIsNoUser DEF ReserveLock
  <2>2. CASE ReserveUndo(p)
    <3>1. request[p].at = "undo" /\ request' = [request EXCEPT ![p] = Idle]
      BY <2>2 DEF ReserveUndo, Finish
    <3> QED
      BY <1>t, <3>1
  <2>3. CASE ReserveRead(p) \/ ReserveMark(p) \/ ReserveCommit(p) \/ ReserveFails(p)
    BY <2>3 DEF ReserveRead, ReserveMark, ReserveCommit, ReserveFails
  <2> QED
    BY <1>1, <2>1, <2>2, <2>3 DEF Reserving
<1>2. ASSUME NEW p \in Requests, Confirming(p)
      PROVE  lock[t] = request[q].user \/ status[t] = "sold" \/ request[q].at = "undo"
  <2>1. CASE ConfirmRelease(p)
    <3>1. request[p].at = "releasing" /\ lock' = [lock EXCEPT ![request[p].ticket] = Nobody]
      BY <2>1 DEF ConfirmRelease
    <3>2. t = request[p].ticket
      BY <1>t, <3>1
    <3>3. status[request[p].ticket] = "sold"
      BY <3>1 DEF Inv, RequestsMakeSense, SoldOnce, OfBooking
    <3> QED
      BY <3>2, <3>3
  <2>2. CASE ~ ConfirmRelease(p)
    BY <1>2, <2>2 DEF Confirming, ConfirmRead, ConfirmCheck, ConfirmRefuse, ConfirmSell
  <2> QED
    BY <2>1, <2>2
<1>3. ASSUME NEW p \in Requests, Cancelling(p)
      PROVE  lock[t] = request[q].user \/ status[t] = "sold" \/ request[q].at = "undo"
  <2>1. CASE CancelRelease(p)
    <3>1. lock' = [lock EXCEPT ![request[p].ticket] = Release(request[p].ticket, request[p].user)]
          /\ request' = [request EXCEPT ![p].at = "unmark"]
      BY <2>1 DEF CancelRelease, GoTo
    <3>2. p = q
      BY <1>t, <3>1
    <3>3. t = request[p].ticket
      BY <1>t, <3>1
    <3> QED
      BY <1>t, <3>1, <3>2, <3>3 DEF Release
  <2>2. CASE ~ CancelRelease(p)
    BY <1>3, <2>2 DEF Cancelling, CancelWrite
  <2> QED
    BY <2>1, <2>2
<1>4. ASSUME NEW s \in Tickets, Expire(s)
      PROVE  FALSE
  BY <1>4 DEF Expire
<1>5. CASE ~ \E p \in Requests : Reserving(p) \/ Confirming(p) \/ Cancelling(p)
  <2>1. CASE \E s \in Tickets : Expire(s)
    BY <1>4, <2>1
  <2>2. CASE ~ \E s \in Tickets : Expire(s)
    <3>1. lock' = lock
      BY <1>5, <2>2 DEF Next, Unmark, Stop, Sweep, Pay
    <3> QED
      BY <3>1
  <2> QED
    BY <2>1, <2>2
<1> QED
  BY <1>1, <1>2, <1>3, <1>5

\* No request takes another user's lock, but from a ticket that is sold or to
\* clean up after its own failed reservation (RELEASE_LUA).
THEOREM LocksSurvive == Spec => OthersLocksSurvive
<1>1. Inv /\ [Next]_vars =>
        [\A q \in Requests, t \in Tickets :
           request'[q] # request[q] /\ lock[t] # Nobody /\ lock'[t] = Nobody =>
             \/ lock[t] = request[q].user
             \/ status[t] = "sold"
             \/ request[q].at = "undo"]_vars
  BY LockTaken DEF vars
<1> QED
  BY <1>1, Invariance, PTL DEF Spec, OthersLocksSurvive

=============================================================================
