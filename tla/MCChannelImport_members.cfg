SPECIFICATION Spec
CONSTANTS
  Sites = {s1, s2}
  s1 = s1
  s2 = s2
  Interval = 3
  Retry = 2
  CallLimit = 1
  Allowance = 1
  RetryAfter = 3
  None = None
  MaxVersion = 1
  MaxClock = 4
CHECK_DEADLOCK FALSE
SYMMETRY Symmetry
INVARIANT MembersMatch
