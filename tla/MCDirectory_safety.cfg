SPECIFICATION FairSpec
CONSTANTS
  Tasks = {zones, scopes}
  zones = zones
  scopes = scopes
  Fresh = 3
  CallLimit = 1
  Allowance = 2
  RetryAfter = 3
  None = None
  MaxVersion = 1
  MaxClock = 5
PROPERTY KeepsAllowance
PROPERTY FlightEnds
PROPERTY LastGoodKept
CHECK_DEADLOCK FALSE
