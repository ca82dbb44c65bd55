CONSTANTS
  r1 = r1
  r2 = r2
  Requests = {r1, r2}
  Words = {1}
  Workers = {0, 1}
  MaxFaults = 1
  MaxCrashes = 1
SPECIFICATION FairSpec
INVARIANTS DoneIsExhausted
PROPERTIES ResumeKeepsResults ScansEnd
CHECK_DEADLOCK FALSE
