\* An entry that accept has just added is scanned before poll has seen it.
SPECIFICATION Spec
CHECK_DEADLOCK FALSE
CONSTANTS
  N = 2
  MaxClients = 2
  Backlog = 2
  MaxChunk = 2
  Listener = Listener
  MaxSent = 1
INVARIANT NeverBlocksInRecv
