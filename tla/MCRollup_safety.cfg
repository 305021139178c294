SPECIFICATION Spec
CONSTANTS
  Packets = {p1, p2}
  Workers = {w1}
  HourLen = 2
  Clamp = 1
  Lag = 1
  Delay = 4
  Margin = 2
  Cap = 1
  Retention = 4
  RollupRetention = 5
  MissingBudget = 1
  DirtyBatch = 1
  DirtyBudget = 1
  DeleteBatch = 1
  NoTime = NoTime
  MaxHeard = 2
  MaxHeardAt = 1
  MaxClock = 6
SYMMETRY Symmetry
INVARIANTS
  WholeHours
  BackfilledCounted
PROPERTIES
  PartialOnlyAfterCap
  RevisionMoves
CHECK_DEADLOCK FALSE
