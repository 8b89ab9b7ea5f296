\* The growing heap in an address space of six pages.
SPECIFICATION Spec
CONSTANTS
  PageSize <- MCPageSize
  InitialSize <- MCInitialSize
  MaxAlloc <- MCMaxAlloc
  HeaderSize <- MCHeaderSize
  Arena <- MCArena
  Requests <- MCRequests
INVARIANTS BlocksApart Accounted RetryFits NoFault
PROPERTY ImplementsAllocator
