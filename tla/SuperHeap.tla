------------------------------ MODULE SuperHeap ------------------------------
(***************************************************************************)
(* The growing heap of lab4/third/superheap.c.  It maps a region when it   *)
(* starts and another one whenever no free block is large enough, links    *)
(* the new region's block at the end of its list, and unmaps everything in *)
(* destroy_heap().                                                         *)
(*                                                                         *)
(* Addresses are bytes of an address space of Arena pages; mmap picks any  *)
(* hole in it, so that a new region may lie above, below or right next to  *)
(* an older one.  The linked list is a sequence of blocks in list order,   *)
(* which is not address order.  "at" is the cursor of the call in          *)
(* progress, and every turn of the search, merge and destroy loops is a    *)
(* step.  The program has one thread; the caller frees only buffers it     *)
(* holds, and destroys the heap only when it holds none, as main does.     *)
(***************************************************************************)
EXTENDS Integers, FiniteSets, SequencesExt

CONSTANTS
  PageSize,    (* sysconf(_SC_PAGESIZE)                                    *)
  InitialSize, (* INITIAL_HEAP_SIZE                                        *)
  MaxAlloc,    (* MAX_ALLOC_SIZE                                           *)
  HeaderSize,  (* BLOCK_HEADER_SIZE                                        *)
  Arena,       (* bound: pages of address space mmap can choose from       *)
  Requests     (* the sizes callers ask for                                *)

Align == 8     (* the 8 of "(size + 7) & ~7"                               *)

ASSUME SuperHeapConstants ==
  /\ PageSize \in Nat \ {0} /\ PageSize % Align = 0
  /\ HeaderSize \in Nat \ {0} /\ HeaderSize % Align = 0
  /\ InitialSize \in Nat /\ InitialSize % PageSize = 0 /\ InitialSize > HeaderSize
  /\ MaxAlloc \in Nat /\ MaxAlloc % Align = 0
  /\ Arena \in Nat \ {0}
  /\ Requests \subseteq Nat

VARIABLES
  list,   (* the blocks from heap_start on, in list order                  *)
  mapped, (* the pages this heap has mapped                                *)
  total,  (* total_heap_size                                               *)
  pc,     (* "idle" or where the call in progress is                       *)
  at,     (* the position of that call's cursor in list                    *)
  asked,  (* the size passed to the my_malloc in progress                  *)
  size,   (* the same after rounding up                                    *)
  live    (* the buffers the caller holds                                  *)

vars == <<list, mapped, total, pc, at, asked, size, live>>

Page == 0 .. Arena - 1
Block == [addr : 0 .. Arena * PageSize - 1, size : 0 .. Arena * PageSize, free : BOOLEAN]

AlignUp(n) == ((n + Align - 1) \div Align) * Align

Payload(b) == b.addr + HeaderSize
End(b) == Payload(b) + b.size

(* The pages that the len bytes from addr on touch.                        *)
Pages(addr, len) == (addr \div PageSize) .. ((addr + len - 1) \div PageSize)

(* The bytes expand_heap(n) maps.                                          *)
RegionSize(n) ==
  LET rounded == ((n + PageSize - 1) \div PageSize) * PageSize
  IN  IF rounded < InitialSize THEN InitialSize ELSE rounded

-----------------------------------------------------------------------------
Init ==
  /\ list = <<>>
  /\ mapped = {}
  /\ total = 0
  /\ pc = "idle"
  /\ at = 1
  /\ asked = 0
  /\ size = 0
  /\ live = {}

(* my_malloc(n): the first call maps the initial region before it searches.*)
(* Requests for 0 bytes or more than MAX_ALLOC_SIZE return NULL at once.   *)
Malloc(n) ==
  /\ pc = "idle"
  /\ n # 0 /\ n <= MaxAlloc
  /\ asked' = n
  /\ size' = AlignUp(n)
  /\ at' = 1
  /\ pc' = IF list = <<>> THEN "start" ELSE "search"
  /\ UNCHANGED <<list, mapped, total, live>>

(* Mutant of Required: the header of the new block is forgotten.           *)
RequiredPayload == IF pc = "start" THEN InitialSize ELSE size

(* What the expand_heap of the call in progress is asked for.              *)
Required == IF pc = "start" THEN InitialSize ELSE size + HeaderSize

(* Mutant of NewBlock: the new block counts its own header as payload.     *)
NewBlockWithoutHeader(addr, bytes) == [addr |-> addr, size |-> bytes, free |-> TRUE]
NewBlock(addr, bytes) == [addr |-> addr, size |-> bytes - HeaderSize, free |-> TRUE]

(* expand_heap: mmap finds room at page p.  After the initial region comes *)
(* the search; after a later one, the recursive call of my_malloc.         *)
Expand(p) ==
  LET bytes == RegionSize(Required) IN
  /\ pc \in {"start", "expand"}
  /\ Pages(p * PageSize, bytes) \subseteq Page \ mapped
  /\ mapped' = mapped \cup Pages(p * PageSize, bytes)
  /\ list' = Append(list, NewBlock(p * PageSize, bytes))
  /\ total' = total + bytes
  /\ at' = 1
  /\ pc' = IF pc = "start" THEN "search" ELSE "retry"
  /\ UNCHANGED <<asked, size, live>>

Return ==
  /\ pc' = "idle"
  /\ at' = 1
  /\ asked' = 0
  /\ size' = 0

(* mmap fails: my_malloc returns NULL.                                     *)
ExpandFails ==
  /\ pc \in {"start", "expand"}
  /\ Return
  /\ UNCHANGED <<list, mapped, total, live>>

(* Mutant of Fits: the free flag is not looked at.                         *)
FitsUsed(b) == b.size >= size

Fits(b) == b.free /\ b.size >= size

SearchAdvance ==
  /\ pc \in {"search", "retry"}
  /\ at <= Len(list)
  /\ ~Fits(list[at])
  /\ at' = at + 1
  /\ UNCHANGED <<list, mapped, total, pc, asked, size, live>>

(* split_block: the block at position i keeps n bytes and the rest becomes *)
(* a free block behind it, in memory and on the list.                      *)
SplitBlock(i, n) ==
  LET b == list[i] IN
  InsertAt([list EXCEPT ![i].size = n, ![i].free = FALSE], i + 1,
           [addr |-> Payload(b) + n, size |-> b.size - n - HeaderSize, free |-> TRUE])

(* The search ends at a block that fits; it is cut when more is left over  *)
(* than a header and 8 bytes.                                              *)
SearchTake ==
  /\ pc \in {"search", "retry"}
  /\ at <= Len(list)
  /\ Fits(list[at])
  /\ list' = IF list[at].size > size + HeaderSize + 8
             THEN SplitBlock(at, size)
             ELSE [list EXCEPT ![at].free = FALSE]
  /\ live' = live \cup {[ptr |-> Payload(list[at]), size |-> asked]}
  /\ Return
  /\ UNCHANGED <<mapped, total>>

SearchEnd ==
  /\ pc \in {"search", "retry"}
  /\ at > Len(list)
  /\ pc' = "expand"
  /\ UNCHANGED <<list, mapped, total, at, asked, size, live>>

(* my_free(b.ptr) up to the loop of merge_blocks().                        *)
Free(b) ==
  /\ pc = "idle"
  /\ live' = live \ {b}
  /\ list' = [i \in DOMAIN list |->
                IF Payload(list[i]) = b.ptr THEN [list[i] EXCEPT !.free = TRUE] ELSE list[i]]
  /\ at' = 1
  /\ pc' = "merge"
  /\ UNCHANGED <<mapped, total, asked, size>>

(* merge_blocks fuses free neighbours of the list only when they also touch*)
(* in memory.                                                              *)
Fusable(i) ==
  /\ i < Len(list)
  /\ list[i].free /\ list[i + 1].free
  /\ End(list[i]) = list[i + 1].addr

(* Mutant of Fused: the header that disappears is not counted.             *)
FusedLosesHeader(b, c) == [b EXCEPT !.size = @ + c.size]
Fused(b, c) == [b EXCEPT !.size = @ + HeaderSize + c.size]

MergeFuse ==
  /\ pc = "merge"
  /\ Fusable(at)
  /\ list' = RemoveAt([list EXCEPT ![at] = Fused(@, list[at + 1])], at + 1)
  /\ UNCHANGED <<mapped, total, pc, at, asked, size, live>>

MergeAdvance ==
  /\ pc = "merge"
  /\ at < Len(list)
  /\ ~Fusable(at)
  /\ at' = at + 1
  /\ UNCHANGED <<list, mapped, total, pc, asked, size, live>>

MergeDone ==
  /\ pc = "merge"
  /\ at >= Len(list)
  /\ Return
  /\ UNCHANGED <<list, mapped, total, live>>

(* destroy_heap() walks the list; it reads the link of a block just before *)
(* it unmaps the block.                                                    *)
Destroy ==
  /\ pc = "idle"
  /\ live = {}
  /\ pc' = "destroy"
  /\ UNCHANGED <<list, mapped, total, at, asked, size, live>>

(* munmap refuses an address that is not page aligned, and rounds a length *)
(* up to whole pages.                                                      *)
Unmapped(addr, len) == IF addr % PageSize = 0 THEN Pages(addr, len) ELSE {}

(* Mutant of Extent: the size of the whole heap is unmapped.               *)
ExtentWhole(b) == total
Extent(b) == b.size + HeaderSize

DestroyBlock ==
  /\ pc = "destroy"
  /\ list # <<>>
  /\ mapped' = mapped \ Unmapped(Head(list).addr, Extent(Head(list)))
  /\ list' = Tail(list)
  /\ UNCHANGED <<total, pc, at, asked, size, live>>

DestroyDone ==
  /\ pc = "destroy"
  /\ list = <<>>
  /\ total' = 0
  /\ Return
  /\ UNCHANGED <<list, mapped, live>>

(* The steps of the call in progress.                                      *)
Step ==
  \/ \E p \in Page : Expand(p)
  \/ ExpandFails
  \/ SearchAdvance \/ SearchTake \/ SearchEnd
  \/ MergeFuse \/ MergeAdvance \/ MergeDone
  \/ DestroyBlock \/ DestroyDone

Next ==
  \/ \E n \in Requests : Malloc(n)
  \/ \E b \in live : Free(b)
  \/ Destroy
  \/ Step

Spec == Init /\ [][Next]_vars

-----------------------------------------------------------------------------
(* The type invariant: what each variable may hold.                        *)
TypeOK ==
  /\ list \in Seq(Block)
  /\ mapped \subseteq Page
  /\ total \in Nat
  /\ pc \in {"idle", "start", "search", "expand", "retry", "merge", "destroy"}
  /\ at \in 1 .. Len(list) + 1
  /\ asked \in Nat
  /\ size \in Nat
  /\ live \subseteq [ptr : Nat, size : Nat]

(* Blocks never overlap and never leave the pages the heap has mapped,     *)
(* wherever mmap puts the regions and whichever regions merging joins.     *)
BlocksApart ==
  \A i \in DOMAIN list :
    /\ Pages(list[i].addr, list[i].size + HeaderSize) \subseteq mapped
    /\ \A j \in DOMAIN list :
         i # j => End(list[i]) <= list[j].addr \/ End(list[j]) <= list[i].addr

(* Nothing is lost: every byte of every page mapped belongs to a block, no *)
(* block stays marked used that nobody holds, and total_heap_size is what  *)
(* the kernel holds for the heap.                                          *)
Accounted ==
  /\ \A p \in mapped : \A byte \in PageSize * p .. PageSize * p + PageSize - 1 :
       \E i \in DOMAIN list : list[i].addr <= byte /\ byte < End(list[i])
  /\ \A i \in DOMAIN list : ~list[i].free => \E b \in live : b.ptr = Payload(list[i])
  /\ pc # "destroy" => total = PageSize * Cardinality(mapped)

(* The recursive call of my_malloc finds a block: growing by the size plus *)
(* a header is enough, so that my_malloc recurses once and not for ever.   *)
RetryFits ==
  pc = "retry" => \E i \in DOMAIN list : i >= at /\ list[i].free /\ list[i].size >= size

(* destroy_heap never reads the header of a block whose page it has        *)
(* unmapped with an earlier block.                                         *)
NoFault ==
  pc = "destroy" => \A i \in DOMAIN list : list[i].addr \div PageSize \in mapped

(* The heap keeps the contract of an allocator.                            *)
Abstract == INSTANCE Allocator WITH Limit <- Arena * PageSize, Alignment <- Align

ImplementsAllocator == Abstract!Spec

=============================================================================
