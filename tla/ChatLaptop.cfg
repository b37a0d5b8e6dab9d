CONSTANTS
  a1 = a1
  b1 = b1
  b2 = b2
  Conns = {a1, b1, b2}
  UserOf <- TwoDevices
  Seeds <- Pair
  Beating = {a1, b1, b2}
  Impatient = FALSE
  MaxSends = 1
  MaxReceipts = 1
  MaxCloses = 0
  MaxCrashes = 0
  MaxChats = 1
  MaxTotal = 2
  NoCounter = NoCounter
SPECIFICATION Spec
INVARIANT ReachesAllDevices
CHECK_DEADLOCK FALSE
