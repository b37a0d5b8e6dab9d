CONSTANTS
  c1 = c1
  c2 = c2
  c3 = c3
  Conns = {c1, c2}
  UserOf <- TwoUsers
  Roles <- EditorOrViewer
  Seed <- TwoChars
  Slow = {c2}
  Rude = {c1}
  Threshold = 2
  MaxEdits = 2
  MaxSaves = 1
  MaxRestores = 0
  MaxCursors = 1
  MaxCloses = 2
  MaxCrashes = 1
  MaxTotal = 2
  Free = Free
  NotLoaded = NotLoaded
  NoText = NoText
SPECIFICATION FairSpec
INVARIANTS Recoverable NoGhostEditors
PROPERTY RequestsAnswered
CHECK_DEADLOCK FALSE
