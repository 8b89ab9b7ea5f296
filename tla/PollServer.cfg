\* Three clients compete for two slots and send two messages.  The server stops
\* when all clients are gone (it waits in poll) or when SIGPIPE has killed it.
SPECIFICATION FairSpec
CHECK_DEADLOCK FALSE
CONSTANTS
  N = 3
  MaxClients = 2
  Backlog = 2
  MaxChunk = 2
  Listener = Listener
  MaxSent = 2
INVARIANTS ArrayIsOpen EchoExact
PROPERTIES SlotFreed 
