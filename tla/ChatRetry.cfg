CONSTANTS
  a1 = a1
  b1 = b1
  b2 = b2
  Conns = {a1, b1, b2}
  UserOf <- TwoDevices
  Seeds <- Pair
  Beating = {a1, b1, b2}
  Impatient = TRUE
  MaxSends = 2
  MaxReceipts = 0
  MaxCloses = 1
  MaxCrashes = 0
  MaxChats = 1
  MaxTotal = 3
  NoCounter = NoCounter
SPECIFICATION Spec
INVARIANT SentOnce
CHECK_DEADLOCK FALSE
