\* Two entries, changed once while they are copied.  The program stops at its end.
SPECIFICATION Spec
CHECK_DEADLOCK FALSE
CONSTANTS
  f1 = f1
  f2 = f2
  b1 = b1
  b2 = b2
  None = None
  MaxLen = 3
  MaxEdits = 1
  Names <- TwoNames
  Bytes <- TwoBytes
INVARIANTS MirrorImage NoLeak
