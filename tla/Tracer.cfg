\* Three system calls and two signals, a kill at any step, fork failing.  The
\* system stops when the tracer is done; when the child is killed it spins.
SPECIFICATION FairSpec
CHECK_DEADLOCK FALSE
CONSTANTS
  MaxCalls = 3
  MaxSignals = 2
INVARIANTS TraceComplete
PROPERTY ExitEndsTrace
