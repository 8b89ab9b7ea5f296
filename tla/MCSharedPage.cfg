\* One writer and two readers, killed at any step and started again.  A kill at
\* the page leaves everybody waiting, so the system may really stop.
SPECIFICATION FairSpec
CHECK_DEADLOCK FALSE
CONSTANTS
  w1 = w1
  r1 = r1
  r2 = r2
  Writers <- OneWriter
  Readers <- TwoReaders
  N = 3
  W = 4
  MaxKills = 2
INVARIANTS Exclusion PageWhole NoTornRead
PROPERTIES Progress
