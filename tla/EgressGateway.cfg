CONSTANTS
  l1 = l1
  l2 = l2
  c1 = c1
  c2 = c2
  n1 = n1
  pub4 = pub4
  alt4 = alt4
  pub6 = pub6
  int4 = int4
  Leases = {l1, l2}
  BlockInternal = {l1}
  Socks4 = {l1}
  Operations = {l1}
  Conns = {c1, c2}
  Names = {n1}
  Addresses = {pub4, alt4, pub6, int4}
  Internal = {int4}
  V6 = {pub6}
  OpenFiles = 3
  ReservedFds = 1
  MinConnections = 1
  MaxConnections = 3
  MaxAddresses = 2
  MaxHosts = 1
SPECIFICATION FairSpec
CHECK_DEADLOCK FALSE
INVARIANTS SlotsAddUp OnlyVettedGoesOn EachCountsOnce
PROPERTIES EndedIsCut
