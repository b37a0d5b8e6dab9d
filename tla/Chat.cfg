CONSTANTS
  a1 = a1
  b1 = b1
  b2 = b2
  Conns = {a1, b1, b2}
  UserOf <- TwoDevices
  Seeds <- PairOrNone
  Beating = {b1, b2}
  Impatient = FALSE
  MaxSends = 2
  MaxReceipts = 2
  MaxCloses = 2
  MaxCrashes = 1
  MaxChats = 1
  MaxTotal = 3
  NoCounter = NoCounter
SPECIFICATION Spec
SYMMETRY Devices
INVARIANTS TypeOK ReceiptsInOrder PresenceFollowsDevices MessagesArrive
PROPERTY ImplementsStore
CHECK_DEADLOCK FALSE
