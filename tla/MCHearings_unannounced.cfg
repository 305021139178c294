\* Two brokers carry the same hearing.
SPECIFICATION Spec
CONSTANTS
  Brokers = {b1, b2}
  Observers = {o1}
  Packets = {p1}
  Paths = {a}
  Traces = {}
  SentTTL = 2
  SentMax = 2
  MaxHeard = 1
  MaxClock = 0
INVARIANTS
  NewPacketAnnounced
