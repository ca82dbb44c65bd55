CONSTANTS
  r1 = r1
  r2 = r2
  Requests = {r1, r2}
  Kinds = {"adaptive", "one-off"}
  Words = {1, 2}
  Workers = {0, 1}
  MaxFaults = 1
  MaxCrashes = 1
  MaxSweeps = 1
SPECIFICATION Spec
SYMMETRY Symmetry
INVARIANTS OneWorkerPerEntry StreamIsExhausted ParkedCanEnd
CHECK_DEADLOCK FALSE
