\* Two observers hear two packets, one a TRACE, twice in all, over two paths
\* through two brokers; the memory lasts one tick and holds four keys.
SPECIFICATION Spec
CONSTANTS
  Brokers = {b1, b2}
  Observers = {o1, o2}
  Packets = {p1, t1}
  Paths = {a, b}
  Traces = {t1}
  SentTTL = 1
  SentMax = 4
  MaxHeard = 2
  MaxClock = 1
SYMMETRY Symmetry
INVARIANTS
  NumberedOnce
  CopiesNotStreamed
  StoredIsStreamedOrLost
