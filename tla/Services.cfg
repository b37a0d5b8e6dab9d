CONSTANTS
  Users = {u1, u2}
  Tickets = {t1}
  Bookings = {b1, b2}
  Requests = {q1, q2}
  Nobody = Nobody
  MaxAttempts = 3
  MaxGivenUp = 3
  Token = 6
  Drip = 2
  PerSecond = 2
  MaxTokens = 2
  Expiry = 7
  MaxTime = 12
  Kids = {k1}
  Another = Another
  Threads = {v1, v2}
  Ttl = 3
  MinRefetch = 1
  MaxFetch = 1
  MaxKeyTime = 6
  Devices = {d1, d2}
  Edits = {e1, e2, e3}
  Original = Original
  Me = 2
  Others = {1, 3}
  MaxBase = 3
  MaxLog = 2
SPECIFICATION ServicesSpec
INVARIANTS
  ServicesTypeOK
  SoldOnce
  AllOrNothing
  RateKept
  RetryAfterHolds
  KeysFollowRotation
  BytesAreCurrent
  CursorCoversChanges
  LogTypeOK
  IntentPreserved
  TP1
  CaretFollowsText
PROPERTIES
  OthersLocksSurvive
  OrderEnds
CHECK_DEADLOCK FALSE
