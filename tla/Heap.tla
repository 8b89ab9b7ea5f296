-------------------------------- MODULE Heap --------------------------------
(***************************************************************************)
(* The first-fit heap of lab4/third/heap.c: one anonymous mapping of       *)
(* HeapSize bytes, cut into blocks that are linked in a singly linked      *)
(* list.  A block is a header (size, free, next) followed by size bytes.   *)
(*                                                                         *)
(* Addresses are byte offsets from the start of the mapping.  "blocks"     *)
(* holds the headers that the list reaches; curr and pc are the loop       *)
(* cursor of the call in progress, so that every turn of the search loop   *)
(* and of the merge loop is a step of its own.  The program has one        *)
(* thread: the caller acts only when no call is in progress (pc = "idle"), *)
(* and it frees only buffers it holds, once.                               *)
(***************************************************************************)
EXTENDS Integers

CONSTANTS
  HeapSize,   (* HEAP_SIZE, in bytes                                       *)
  HeaderSize, (* BLOCK_HEADER_SIZE: sizeof(block_t) with its padding       *)
  SizeMod,    (* 2^w for a size_t of w bits                                *)
  Requests    (* the sizes callers ask for                                 *)

Align == 8    (* the 8 of "(size + 7) & ~7"                                *)

ASSUME HeapConstants ==
  /\ HeaderSize \in Nat \ {0} /\ HeaderSize % Align = 0
  /\ HeapSize \in Nat /\ HeapSize % Align = 0 /\ HeapSize > HeaderSize
  /\ SizeMod \in Nat /\ SizeMod % Align = 0 /\ SizeMod > HeapSize
  /\ Requests \subseteq 0 .. SizeMod - 1

VARIABLES
  blocks,     (* header address -> the header, for the headers on the list *)
  heap_start, (* Null before the first call, then the first header         *)
  pc,         (* "idle", or the loop a call is in: "search", "merge"       *)
  curr,       (* the cursor of that loop                                   *)
  asked,      (* the size the caller passed to the my_malloc in progress   *)
  size,       (* the same after rounding up                                *)
  live        (* the buffers the caller holds                              *)

vars == <<blocks, heap_start, pc, curr, asked, size, live>>

Null == -1
Addr == 0 .. HeapSize - 1
Header == [size : 0 .. HeapSize, free : BOOLEAN, next : Addr \cup {Null}]

Headers == DOMAIN blocks

(* (n + 7) & ~7 in size_t arithmetic.                                      *)
AlignUp(n) == LET m == (n + (Align - 1)) % SizeMod IN m - (m % Align)

(* The caller's pointer, (void * )(curr + 1), and back.                    *)
Payload(a) == a + HeaderSize
HeaderOf(p) == p - HeaderSize

(* The address just after the block at a.                                  *)
End(a) == Payload(a) + blocks[a].size

-----------------------------------------------------------------------------
Init ==
  /\ blocks = [a \in {} |-> Null]
  /\ heap_start = Null
  /\ pc = "idle"
  /\ curr = Null
  /\ asked = 0
  /\ size = 0
  /\ live = {}

(* my_malloc(n) up to its search loop.  A request for 0 bytes returns NULL *)
(* at once and changes nothing, and so does a failed mmap of the first     *)
(* call: those calls are stuttering steps.                                 *)
Malloc(n) ==
  /\ pc = "idle"
  /\ n # 0
  /\ IF heap_start = Null
     THEN /\ heap_start' = 0
          /\ blocks' = [a \in {0} |->
                          [size |-> HeapSize - HeaderSize, free |-> TRUE, next |-> Null]]
     ELSE UNCHANGED <<heap_start, blocks>>
  /\ asked' = n
  /\ size' = AlignUp(n)
  /\ curr' = heap_start'
  /\ pc' = "search"
  /\ UNCHANGED live

(* Mutants of Fits: one passes over a block that fits exactly, the other    *)
(* over the free flag.                                                     *)
FitsLarger(a) == blocks[a].free /\ blocks[a].size > size
FitsUsed(a) == blocks[a].size >= size

Fits(a) == blocks[a].free /\ blocks[a].size >= size

SearchAdvance ==
  /\ pc = "search"
  /\ curr # Null
  /\ ~Fits(curr)
  /\ curr' = blocks[curr].next
  /\ UNCHANGED <<blocks, heap_start, pc, asked, size, live>>

(* Mutant of Taken: the part handed out stays marked free.                 *)
TakenStaysFree(n, tail) == [size |-> n, free |-> TRUE, next |-> tail]
Taken(n, tail) == [size |-> n, free |-> FALSE, next |-> tail]

(* split_block(curr, size): the tail becomes a free block of its own.  The *)
(* function refuses a size of 0 and then leaves the block free.            *)
SplitBlock(a, n) ==
  LET tail == Payload(a) + n IN
  IF n = 0
  THEN blocks
  ELSE [b \in Headers \cup {tail} |->
          IF b = tail
          THEN [size |-> blocks[a].size - n - HeaderSize, free |-> TRUE,
                next |-> blocks[a].next]
          ELSE IF b = a
          THEN Taken(n, tail)
          ELSE blocks[b]]

(* The search ends at a fitting block, which is split when something is    *)
(* left over, and its payload is returned.                                 *)
SearchTake ==
  /\ pc = "search"
  /\ curr # Null
  /\ Fits(curr)
  /\ blocks' = IF blocks[curr].size > size + HeaderSize
               THEN SplitBlock(curr, size)
               ELSE [blocks EXCEPT ![curr].free = FALSE]
  /\ live' = live \cup {[ptr |-> Payload(curr), size |-> asked]}
  /\ pc' = "idle"
  /\ curr' = Null
  /\ asked' = 0
  /\ size' = 0
  /\ UNCHANGED heap_start

(* The search falls off the list: NULL.                                    *)
SearchFail ==
  /\ pc = "search"
  /\ curr = Null
  /\ pc' = "idle"
  /\ asked' = 0
  /\ size' = 0
  /\ UNCHANGED <<blocks, heap_start, curr, live>>

(* Mutant of Free: returns without merging.                                *)
FreeOnly(b) ==
  /\ pc = "idle"
  /\ live' = live \ {b}
  /\ blocks' = [blocks EXCEPT ![HeaderOf(b.ptr)].free = TRUE]
  /\ UNCHANGED <<heap_start, pc, curr, asked, size>>

(* my_free(b.ptr) up to the loop of merge_blocks().                        *)
Free(b) ==
  /\ pc = "idle"
  /\ live' = live \ {b}
  /\ blocks' = [blocks EXCEPT ![HeaderOf(b.ptr)].free = TRUE]
  /\ curr' = heap_start
  /\ pc' = "merge"
  /\ UNCHANGED <<heap_start, asked, size>>

(* Mutant of BothFree: the successor's flag is not looked at.              *)
BothFreeFirst(a) == blocks[a].next # Null /\ blocks[a].free

BothFree(a) ==
  blocks[a].next # Null /\ blocks[a].free /\ blocks[blocks[a].next].free

(* Mutant of Merged: the header that disappears is not counted.            *)
MergedLosesHeader(a, n) ==
  [size |-> blocks[a].size + blocks[n].size, free |-> TRUE, next |-> blocks[n].next]
Merged(a, n) ==
  [size |-> blocks[a].size + HeaderSize + blocks[n].size, free |-> TRUE, next |-> blocks[n].next]

(* The cursor's block swallows its successor; the cursor stays.            *)
MergeFuse ==
  /\ pc = "merge"
  /\ curr # Null
  /\ BothFree(curr)
  /\ LET n == blocks[curr].next IN
       blocks' = [b \in Headers \ {n} |-> IF b = curr THEN Merged(b, n) ELSE blocks[b]]
  /\ UNCHANGED <<heap_start, pc, curr, asked, size, live>>

(* Mutant of MergeAdvance: the cursor stays.                               *)
MergeAdvanceStays ==
  /\ pc = "merge"
  /\ curr # Null
  /\ blocks[curr].next # Null
  /\ ~BothFree(curr)
  /\ UNCHANGED vars

MergeAdvance ==
  /\ pc = "merge"
  /\ curr # Null
  /\ blocks[curr].next # Null
  /\ ~BothFree(curr)
  /\ curr' = blocks[curr].next
  /\ UNCHANGED <<blocks, heap_start, pc, asked, size, live>>

MergeDone ==
  /\ pc = "merge"
  /\ curr # Null => blocks[curr].next = Null
  /\ pc' = "idle"
  /\ curr' = Null
  /\ UNCHANGED <<blocks, heap_start, asked, size, live>>

(* The steps of the call in progress.                                      *)
Step ==
  \/ SearchAdvance \/ SearchTake \/ SearchFail
  \/ MergeFuse \/ MergeAdvance \/ MergeDone

Next ==
  \/ \E n \in Requests : Malloc(n)
  \/ \E b \in live : Free(b)
  \/ Step

Spec == Init /\ [][Next]_vars

(* A call, once entered, runs: nothing in it waits for anything.           *)
FairSpec == Spec /\ WF_vars(Step)

-----------------------------------------------------------------------------
(* No request is so close to the top of size_t that rounding it up wraps.  *)
RequestsFit == \A n \in Requests : n + Align <= SizeMod

(* The type invariant: what each variable may hold.                        *)
TypeOK ==
  /\ Headers \subseteq Addr
  /\ blocks \in [Headers -> Header]
  /\ heap_start \in {Null, 0}
  /\ pc \in {"idle", "search", "merge"}
  /\ curr \in Headers \cup {Null}
  /\ asked \in Nat
  /\ size \in Nat
  /\ live \subseteq [ptr : Nat, size : Nat]

(* The list is a tiling of the mapping, at every turn of every loop: the   *)
(* pointer arithmetic of split_block and merge_blocks never makes a gap,   *)
(* an overlap or a link to anything but the byte after the block.          *)
Tiling ==
  /\ heap_start = Null <=> Headers = {}
  /\ Headers # {} => 0 \in Headers
  /\ \A a \in Headers :
       /\ End(a) = IF blocks[a].next = Null THEN HeapSize ELSE blocks[a].next
       /\ blocks[a].next \in Headers \cup {Null}
       /\ \A b \in Headers : a < b => End(a) <= b

(* Buffers and used blocks correspond one to one: what the caller holds is *)
(* marked used and large enough, and no block stays marked used that       *)
(* nobody holds (my_malloc and my_free lose no memory).                    *)
Owned ==
  /\ \A b \in live :
       /\ HeaderOf(b.ptr) \in Headers
       /\ ~blocks[HeaderOf(b.ptr)].free
       /\ b.size <= blocks[HeaderOf(b.ptr)].size
  /\ \A b, c \in live : b.ptr = c.ptr => b = c
  /\ \A a \in Headers : ~blocks[a].free => \E b \in live : b.ptr = Payload(a)

(* Whenever no my_free is in progress, no two neighbouring blocks are      *)
(* free: splitting and merging never leave fragmentation that merging      *)
(* could have removed.                                                     *)
Coalesced == pc # "merge" => \A a \in Headers : ~BothFree(a)

(* my_malloc is first fit, and returns NULL only if no free block is large *)
(* enough: every block the search has passed does not fit.                 *)
FirstFit ==
  pc = "search" =>
    \A a \in Headers :
      curr = Null \/ a < curr => ~(blocks[a].free /\ size <= blocks[a].size)

(* When the caller has given everything back, the heap is again the single *)
(* free block that init_heap made: no sequence of calls wears it out.      *)
NothingLost ==
  pc = "idle" /\ live = {} /\ heap_start # Null =>
    blocks = [a \in {0} |->
                [size |-> HeapSize - HeaderSize, free |-> TRUE, next |-> Null]]

(* The block of a buffer the caller holds is neither moved, resized nor    *)
(* freed by a call about another buffer.                                   *)
HeldUntouched ==
  [][\A b \in live \cap live' :
       LET a == HeaderOf(b.ptr) IN
         /\ a \in DOMAIN blocks'
         /\ blocks'[a].size = blocks[a].size
         /\ blocks'[a].free = blocks[a].free]_vars

(* Every call returns: neither loop can run for ever.                      *)
CallsReturn == pc # "idle" ~> pc = "idle"

(* The heap keeps the contract of an allocator.                            *)
Abstract == INSTANCE Allocator WITH Limit <- HeapSize, Alignment <- Align

ImplementsAllocator == Abstract!Spec

=============================================================================
