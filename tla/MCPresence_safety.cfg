\* Two workers, two IATAs, three messages at up to four times, failing
\* statements, prunes of what was silent for two ticks, any shutdown. It may
\* stop: the process ends.
SPECIFICATION Spec
CONSTANTS
  Callers = {c1, c2}
  Keys = {k1}
  Iatas = {i1, i2}
  Names = {n1}
  NoIata = NoIata
  NoName = NoName
  DeleteAfter = 2
  CallMax = 1
  DBMayFail = TRUE
  MaxIds = 2
  MaxHeard = 3
  MaxClock = 4
SYMMETRY Symmetry
INVARIANTS
  CountConserved
  NewestHearingKept
  CachedIdLives
  NothingLeftBehind
PROPERTIES
  ActiveObserverKept
CHECK_DEADLOCK FALSE
