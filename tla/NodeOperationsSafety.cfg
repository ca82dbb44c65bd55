SPECIFICATION Spec
CONSTANTS
  o1 = o1
  m1 = m1
  m2 = m2
  c1 = c1
  c2 = c2
  Ops = {o1}
  Gated = {o1}
  Claimed = {o1}
  Attentive = {o1}
  Unknown = {}
  Msgs = {m1, m2}
  Copies = {c1, c2}
  Tasks = 1
  MaxAckPending = 2
  OutboxSize = 1
  MaxHalts = 1
  MaxCrashes = 1
  MaxLosses = 0
SYMMETRY Symmetry
INVARIANTS HaltedStaysQueued Throttled AckedIsAccountedFor OnlyTheOwnerWorks PushedIsFreeToRun
CHECK_DEADLOCK FALSE
