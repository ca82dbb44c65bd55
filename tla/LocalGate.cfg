CONSTANTS
  r1 = r1
  r2 = r2
  o1 = o1
  o2 = o2
  w1 = w1
  Requests = {r1, r2}
  Operators = {o1, o2}
  Watchers = {w1}
  Timeout = TRUE
  OnTimeout = "forward"
SPECIFICATION FairSpec
INVARIANTS NothingUnseenWhileOn EveryHoldHasOneSender
PROPERTY ShutdownEndsEveryHold
