SPECIFICATION MCSpec
CONSTANTS
  Readers = {r1, r2}
  r1 = r1
  r2 = r2
  Named = {names}
  names = names
  Prefixed = {byName}
  byName = byName
  Ttl = 2
  RevisionTtl = 1
  FillLimit = 1
  ReadLimit = 0
  None = None
  MaxVersion = 1
  MaxClock = 4
  StatsClock = 3
INVARIANT InvalidationHolds
PROPERTY KeepsPromise
CHECK_DEADLOCK FALSE
VIEW CacheView
SYMMETRY Symmetry
