\* Three observers on two lanes of two messages, sizes 1 and 2, a budget of 4,
\* four arrivals. It may stop: the worker has returned.
SPECIFICATION FairSpec
CONSTANTS
  o1 = o1
  o2 = o2
  o3 = o3
  l1 = l1
  l2 = l2
  PublicKeys = {o1, o2, o3}
  Lanes = {l1, l2}
  LaneOf <- MCLaneOf
  Sizes = {1, 2}
  LaneCap = 2
  MaxBytes = 4
  MaxMessages = 4
INVARIANTS
  BytesExact
  CleanCloseLosesNothing
  DropsReported
PROPERTIES
  InArrivalOrder
  AcceptedIsHandled
  ShutdownEnds
CHECK_DEADLOCK FALSE
