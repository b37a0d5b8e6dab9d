CONSTANTS
  c1 = c1
  c2 = c2
  c3 = c3
  Conns = {c1, c2}
  UserOf <- TwoUsers
  Roles <- TwoEditors
  Seed <- TwoChars
  Slow = {}
  Rude = {}
  Threshold = 2
  MaxEdits = 2
  MaxSaves = 0
  MaxRestores = 1
  MaxCursors = 0
  MaxCloses = 1
  MaxCrashes = 1
  MaxTotal = 3
  Free = Free
  NotLoaded = NotLoaded
  NoText = NoText
SPECIFICATION Spec
INVARIANTS TypeOK VersionsAdvance ReplicasConverge EditorsKeepDocument PresenceShowsEditors
PROPERTIES EditsKeepIntent CaretsFollow ImplementsStore
CHECK_DEADLOCK FALSE
