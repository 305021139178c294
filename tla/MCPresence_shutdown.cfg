\* A shutdown while bumps wait to be flushed.
SPECIFICATION Spec
CONSTANTS
  Callers = {c1}
  Keys = {k1}
  Iatas = {i1}
  Names = {n1}
  NoIata = NoIata
  NoName = NoName
  DeleteAfter = 2
  CallMax = 1
  DBMayFail = FALSE
  MaxIds = 2
  MaxHeard = 2
  MaxClock = 1
INVARIANTS
  CleanShutdownLosesNothing
CHECK_DEADLOCK FALSE
