CONSTANTS
  Devices = {d1, d2}
  Edits = {e1, e2, e3}
  Original = Original
SPECIFICATION Spec
INVARIANT PollingMissesNothing
CHECK_DEADLOCK FALSE
