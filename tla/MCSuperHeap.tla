----------------------------- MODULE MCSuperHeap -----------------------------
(***************************************************************************)
(* SuperHeap with pages of 64 bytes, an initial region of two of them and  *)
(* an address space of six.                                                *)
(***************************************************************************)
EXTENDS SuperHeap

MCPageSize == 64
MCInitialSize == 128
MCMaxAlloc == 144
MCHeaderSize == 24
MCArena == 6

(* 37 splits a block; 110 needs a region of three pages, which its payload *)
(* alone would not; 145 is over MAX_ALLOC_SIZE.                            *)
MCRequests == {0, 37, 110, 145}

=============================================================================
