SPECIFICATION FairSpec
CONSTANTS
  Scans = {s1}
  Payloads = {p1, p2}
  Attempts = 2
  Polls = 2
  Cap = 2
  MaxRegs = 1
  MaxCalls = 4
  MaxRestarts = 1
INVARIANTS
  EveryCallbackIsAccountedFor
  UnregisteredIsDropped
PROPERTIES
  RegistrationsEnd
CHECK_DEADLOCK FALSE
