CONSTANTS
  o1 = o1
  c1 = c1
  p1 = p1
  p2 = p2
  Ops = {o1}
  CfxJobs = {c1}
  Proxies = {p1, p2}
  MaxRev = 2
  SettingAt <- SettingAtBack
  MaxDrops = 1
  MaxReauths = 0
  UnnamedChanges = FALSE
  BenchSends = FALSE
SPECIFICATION Spec
INVARIANTS KnowsItIsBehind ExpectationHonoured OpsDoNotHammer
PROPERTY InstallsInOrder
