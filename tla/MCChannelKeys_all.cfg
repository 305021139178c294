SPECIFICATION FairSpec
CONSTANTS
  k1 = k1
  k2 = k2
  p1 = p1
  p2 = p2
  Keys = {k1, k2}
  Packets = {p1, p2}
  Configs <- MCConfigs
  Lists <- MCLists
  HashOf <- MCHashOf
  KeyOf <- MCKeyOf
  Workers = {w1, w2}
  w1 = w1
  w2 = w2
  Scans = {boot, s1}
  boot = boot
  s1 = s1
  Boot = boot
  None = None
  MaxHeard = 2
  MaxLists = 2
  MaxRestarts = 1
CHECK_DEADLOCK FALSE
INVARIANT KnownIsDecrypted
INVARIANT MarkedHasMessage
INVARIANT ToldOnce
PROPERTY HistoryFills
