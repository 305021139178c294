\* Two workers: a hearing and a renaming overlap.
SPECIFICATION Spec
CONSTANTS
  Callers = {c1, c2}
  Keys = {k1}
  Iatas = {i1}
  Names = {n1}
  NoIata = NoIata
  NoName = NoName
  DeleteAfter = 2
  CallMax = 1
  DBMayFail = FALSE
  MaxIds = 2
  MaxHeard = 3
  MaxClock = 1
INVARIANTS
  CachedNameCurrent
CHECK_DEADLOCK FALSE
