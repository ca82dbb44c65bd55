SPECIFICATION FairSpec
CONSTANTS
  o1 = o1
  o2 = o2
  m1 = m1
  c1 = c1
  c2 = c2
  Ops = {o1, o2}
  Gated = {o1}
  Claimed = {o1}
  Attentive = {o1}
  Unknown = {o2}
  Msgs = {m1}
  Copies = {c1, c2}
  Tasks = 1
  MaxAckPending = 2
  OutboxSize = 1
  MaxHalts = 0
  MaxCrashes = 1
  MaxLosses = 1
PROPERTIES EveryOpIsHeardOf
CHECK_DEADLOCK FALSE
