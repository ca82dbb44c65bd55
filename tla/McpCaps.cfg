SPECIFICATION Spec
CONSTANTS
  Jobs = {j1, j2}
  Stops = {}
  MaxScans = 1
  MaxStarts = 2
  MaxFindings = 0
  MaxBeats = 0
SYMMETRY Symmetry
INVARIANTS
  NeverTooMany
  AuditedOnce
CHECK_DEADLOCK FALSE
