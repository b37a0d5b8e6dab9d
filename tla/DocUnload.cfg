CONSTANTS
  c1 = c1
  c2 = c2
  c3 = c3
  Conns = {c1, c2, c3}
  UserOf <- ThreeUsers
  Roles <- ThreeEditors
  Seed <- TwoChars
  Slow = {c2}
  Rude = {}
  Threshold = 2
  MaxEdits = 0
  MaxSaves = 0
  MaxRestores = 0
  MaxCursors = 0
  MaxCloses = 2
  MaxCrashes = 0
  MaxTotal = 3
  Free = Free
  NotLoaded = NotLoaded
  NoText = NoText
SPECIFICATION Spec
INVARIANT EditorsKeepDocument
CHECK_DEADLOCK FALSE
