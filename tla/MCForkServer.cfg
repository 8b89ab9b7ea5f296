\* Two clients, room for two server processes.  The system stops when every
\* client is gone: the server waits in accept, or it has been killed.
SPECIFICATION FairSpec
CHECK_DEADLOCK FALSE
CONSTANTS
  c1 = c1
  c2 = c2
  Parent = Parent
  Listener = Listener
  Backlog = 1
  MaxProcs = 2
  MaxFds = 2
  Clients <- TwoClients
INVARIANTS NoStrayDescriptor ProcessesAreSessions
PROPERTIES  HangUp PortFreed
