CONSTANTS
  Users = {u1, u2}
  Tickets = {t1}
  Bookings = {b1, b2}
  Requests = {q1, q2}
  Nobody = Nobody
SPECIFICATION Spec
PROPERTY ConfirmedStays
CHECK_DEADLOCK FALSE
