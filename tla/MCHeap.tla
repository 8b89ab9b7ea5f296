------------------------------- MODULE MCHeap -------------------------------
(***************************************************************************)
(* Heap on a mapping of 25 words instead of 131072, with the header of the *)
(* real program and size_t cut to 9 bits.                                  *)
(***************************************************************************)
EXTENDS Heap

MCHeapSize == 200

(* sizeof(block_t) on the 64-bit build the comment in heap.c describes.    *)
MCHeaderSize == 24

MCSizeMod == 512

(* 1 rounds up; 24 leaves a tail smaller than a header in some blocks; 40  *)
(* fits some blocks exactly; 176 is the whole heap and 180 can never fit.  *)
MCRequests == {0, 1, 24, 40, 176, 180}

=============================================================================
