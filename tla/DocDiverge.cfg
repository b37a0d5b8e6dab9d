CONSTANTS
  c1 = c1
  c2 = c2
  c3 = c3
  Conns = {c1, c2}
  UserOf <- TwoUsers
  Roles <- EditorOrViewer
  Seed <- TwoChars
  Slow = {c1, c2}
  Rude = {}
  Threshold = 2
  MaxEdits = 2
  MaxSaves = 0
  MaxRestores = 0
  MaxCursors = 0
  MaxCloses = 0
  MaxCrashes = 0
  MaxTotal = 2
  Free = Free
  NotLoaded = NotLoaded
  NoText = NoText
SPECIFICATION Spec
INVARIANT ReplicasConverge
CHECK_DEADLOCK FALSE
