\* A datagram is lost, one arrives twice, a call fails.  The system stops when
\* the bound on what the clients send is met.
SPECIFICATION FairSpec
CHECK_DEADLOCK FALSE
CONSTANTS
  c1 = c1
  c2 = c2
  BufferSize = 1
  MaxSent = 2
  MaxLost = 1
  MaxDup = 1
  MaxErrors = 1
  Clients <- TwoClients
INVARIANTS TerminatorFits OwnReplies InStep
PROPERTY Answered
