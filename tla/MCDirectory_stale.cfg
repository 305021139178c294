SPECIFICATION Spec
CONSTANTS
  Tasks = {zones, scopes}
  zones = zones
  scopes = scopes
  Fresh = 2
  CallLimit = 1
  Allowance = 1
  RetryAfter = 3
  None = None
  MaxVersion = 1
  MaxClock = 5
CHECK_DEADLOCK FALSE
INVARIANT ServedFresh
SYMMETRY Symmetry
