CONSTANTS
  o1 = o1
  c1 = c1
  p1 = p1
  p2 = p2
  Ops = {}
  CfxJobs = {c1}
  Proxies = {p1, p2}
  MaxRev = 1
  SettingAt <- SettingAtUnusable
  MaxDrops = 1
  MaxReauths = 1
  UnnamedChanges = TRUE
  BenchSends = TRUE
SPECIFICATION FairSpec
INVARIANTS OldOnlyWhileReplaced
PROPERTIES CatchesUp NoDirectWorkOutlivesASwitch
