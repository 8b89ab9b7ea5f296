\* The heap on 25 words: safety, refinement and termination of every call.
SPECIFICATION FairSpec
CONSTANTS
  HeapSize <- MCHeapSize
  HeaderSize <- MCHeaderSize
  SizeMod <- MCSizeMod
  Requests <- MCRequests
INVARIANTS Tiling Owned Coalesced FirstFit
PROPERTIES HeldUntouched CallsReturn ImplementsAllocator
