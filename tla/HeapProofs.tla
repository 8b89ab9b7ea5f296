----------------------------- MODULE HeapProofs -----------------------------
(***************************************************************************)
(* Proofs about Heap, for every heap size, header size, word size and set  *)
(* of requests that do not wrap (RequestsFit).  The inductive invariant    *)
(* IInv is the conjunction of the checked invariants and three facts they  *)
(* do not imply: where free neighbours may be while merge_blocks runs,     *)
(* that block sizes stay multiples of 8, and what the size being searched  *)
(* for has to do with the size the caller asked for.                       *)
(***************************************************************************)
EXTENDS Heap, TLAPS

(* Headers and sizes are multiples of 8.                                   *)
Aligned == \A a \in Headers : a % Align = 0 /\ blocks[a].size % Align = 0

(* Two free neighbours exist only while merge_blocks runs, and only at or  *)
(* beyond its cursor: what it has passed stays merged.                     *)
MergeFront ==
  \A a \in Headers : BothFree(a) => pc = "merge" /\ curr # Null /\ curr <= a

(* The size searched for is the requested one, rounded up without wrapping.*)
SearchSize ==
  pc = "search" =>
    /\ asked \in Requests \ {0}
    /\ asked <= size
    /\ size % Align = 0

(* The inductive invariant: what is to be proved, and what the loops rely  *)
(* on.                                                                     *)
IInv ==
  /\ TypeOK
  /\ Tiling
  /\ Owned
  /\ Aligned
  /\ MergeFront
  /\ FirstFit
  /\ SearchSize

(* Rounding up to 8 neither wraps nor loses bytes.                         *)
LEMMA AlignUpRounds ==
  ASSUME RequestsFit, NEW n \in Requests, n # 0
  PROVE  /\ AlignUp(n) \in Nat
         /\ AlignUp(n) % Align = 0
         /\ n <= AlignUp(n)
<1>1. n \in Nat /\ n + 8 <= SizeMod /\ SizeMod \in Nat
  BY HeapConstants DEF RequestsFit, Align
<1>2. (n + 7) % SizeMod = n + 7
  BY <1>1
<1>3. AlignUp(n) = (n + 7) - ((n + 7) % 8)
  BY <1>2 DEF AlignUp, Align
<1>4. (n + 7) % 8 \in 0 .. 7 /\ ((n + 7) - ((n + 7) % 8)) % 8 = 0
  BY <1>1
<1> QED
  BY <1>1, <1>3, <1>4 DEF Align

(* Before the first call there is no list, and nothing to violate.         *)
LEMMA InitIInv == Init => IInv
BY HeapConstants DEF Init, IInv, TypeOK, Tiling, Owned, Aligned, MergeFront, FirstFit,
   SearchSize, Headers, Header, Addr, Null

(* A step that leaves the list and the held buffers alone keeps what is     *)
(* said about them.                                                        *)
LEMMA ListUnchanged ==
  ASSUME UNCHANGED <<blocks, heap_start, live>>, Tiling, Owned, Aligned
  PROVE  Tiling' /\ Owned' /\ Aligned'
BY DEF Tiling, Owned, Aligned, Headers, End, Payload, HeaderOf

(* The entry of my_malloc: either the list is there, or init_heap makes    *)
(* the one block that fills the mapping.                                   *)
LEMMA MallocIInv ==
  ASSUME RequestsFit, IInv, NEW n \in Requests, Malloc(n)
  PROVE  IInv'
<1> USE HeapConstants DEF Null
<1>0. AlignUp(n) \in Nat /\ AlignUp(n) % Align = 0 /\ n <= AlignUp(n) /\ n # 0
  BY AlignUpRounds DEF Malloc
<1>1. CASE heap_start = Null
  <2>1. Headers' = {0} /\ blocks' = [a \in {0} |-> [size |-> HeapSize - HeaderSize,
                                      free |-> TRUE, next |-> Null]]
    BY <1>1 DEF Malloc, Headers
  <2>2. TypeOK'
    BY <1>0, <1>1, <2>1 DEF Malloc, IInv, TypeOK, Header, Addr
  <2> QED
    BY <1>0, <1>1, <2>1, <2>2 DEF Malloc, IInv, TypeOK, Tiling, Owned, Aligned, MergeFront,
       FirstFit, SearchSize, Header, Addr, End, Payload, BothFree, Align
<1>2. CASE heap_start # Null
  <2>1. UNCHANGED <<blocks, heap_start, live>> /\ curr' = 0 /\ pc' = "search"
    BY <1>2 DEF Malloc, IInv, TypeOK
  <2>2. 0 \in Headers
    BY <1>2 DEF IInv, Tiling
  <2>3. TypeOK'
    BY <1>0, <2>1, <2>2 DEF Malloc, IInv, TypeOK, Headers
  <2>4. Tiling' /\ Owned' /\ Aligned'
    BY <2>1, ListUnchanged DEF IInv
  <2>5. MergeFront'
    BY <2>1 DEF Malloc, IInv, MergeFront, BothFree, Headers
  <2>6. FirstFit'
    BY <2>1 DEF IInv, TypeOK, FirstFit, Headers, Addr
  <2>7. SearchSize'
    BY <1>0, HeapConstants DEF Malloc, SearchSize
  <2> QED
    BY <2>3, <2>4, <2>5, <2>6, <2>7 DEF IInv
<1> QED
  BY <1>1, <1>2 DEF Malloc

(* The cursor passes a block that does not fit.                            *)
LEMMA SearchAdvanceIInv ==
  ASSUME IInv, SearchAdvance
  PROVE  IInv'
<1>1. UNCHANGED <<blocks, heap_start, live>> /\ pc' = "search" /\ pc = "search"
  BY DEF SearchAdvance
<1>2. curr \in Headers /\ curr' = blocks[curr].next
  BY DEF SearchAdvance, IInv, TypeOK
<1>3. TypeOK'
  BY <1>1, <1>2 DEF SearchAdvance, IInv, TypeOK, Tiling, Headers
<1>4. Tiling' /\ Owned' /\ Aligned'
  BY <1>1, ListUnchanged DEF IInv
<1>5. MergeFront'
  BY <1>1 DEF IInv, MergeFront, BothFree, Headers
<1>6. FirstFit'
  <2> SUFFICES ASSUME NEW a \in Headers, curr' = Null \/ a < curr'
               PROVE  ~(blocks[a].free /\ size <= blocks[a].size)
    BY <1>1 DEF SearchAdvance, FirstFit, Headers
  <2>1. CASE a = curr
    BY <2>1 DEF SearchAdvance, Fits, IInv, TypeOK, Header
  <2>2. CASE a < curr
    BY <2>2, <1>1 DEF IInv, FirstFit
  <2>3. CASE curr < a
    <3>1. End(curr) <= a
      BY <1>2, <2>3 DEF IInv, Tiling
    <3>2. End(curr) = IF curr' = Null THEN HeapSize ELSE curr'
      BY <1>2 DEF IInv, Tiling
    <3>3. a \in Addr
      BY DEF IInv, TypeOK
    <3>4. curr' \in Addr \cup {Null}
      BY <1>2 DEF IInv, TypeOK, Header
    <3> QED
      BY <3>1, <3>2, <3>3, <3>4, HeapConstants DEF Addr, Null
  <2> QED
    BY <1>2, <2>1, <2>2, <2>3 DEF IInv, TypeOK, Addr
<1>7. SearchSize'
  BY <1>1 DEF SearchAdvance, IInv, SearchSize
<1> QED
  BY <1>3, <1>4, <1>5, <1>6, <1>7 DEF IInv

(* my_malloc returns NULL and leaves the list as it was.                   *)
LEMMA SearchFailIInv ==
  ASSUME IInv, SearchFail
  PROVE  IInv'
<1>1. UNCHANGED <<blocks, heap_start, live, curr>> /\ pc' = "idle" /\ pc = "search"
  BY DEF SearchFail
<1>2. TypeOK'
  BY <1>1 DEF SearchFail, IInv, TypeOK, Headers
<1>3. Tiling' /\ Owned' /\ Aligned'
  BY <1>1, ListUnchanged DEF IInv
<1>4. MergeFront' /\ FirstFit' /\ SearchSize'
  BY <1>1 DEF IInv, MergeFront, BothFree, Headers, FirstFit, SearchSize
<1> QED
  BY <1>2, <1>3, <1>4 DEF IInv

(* The two ways a search ends with a block: cutting it, or taking it whole.*)
LEMMA TakeSplitIInv ==
  ASSUME IInv, SearchTake, blocks[curr].size > size + HeaderSize
  PROVE  IInv'
<1> USE HeapConstants
<1>a. PICK cur : cur = curr
  OBVIOUS
<1>b. PICK tail : tail = Payload(cur) + size
  OBVIOUS
<1>c. PICK got : got = [ptr |-> Payload(cur), size |-> asked]
  OBVIOUS
<1>1. /\ cur \in Headers /\ pc = "search" /\ pc' = "idle" /\ curr' = Null
      /\ blocks[cur].free
      /\ live' = live \cup {got}
      /\ heap_start' = heap_start
      /\ asked' = 0 /\ size' = 0
  BY <1>a, <1>c DEF SearchTake, Fits, IInv, TypeOK
<1>2. asked \in Nat \ {0} /\ asked <= size /\ size \in Nat \ {0} /\ size % 8 = 0
  BY <1>1 DEF IInv, TypeOK, SearchSize, Align
<1>3. /\ blocks \in [Headers -> Header] /\ Headers \subseteq Addr
      /\ \A a \in Headers : /\ blocks[a].size \in Nat /\ a \in Nat
                            /\ blocks[a].free \in BOOLEAN
                            /\ blocks[a].next \in Addr \cup {Null}
  BY DEF IInv, TypeOK, Header, Addr
<1>4. /\ tail \in Nat /\ tail \in Addr /\ cur < tail /\ tail + HeaderSize < End(cur)
      /\ End(cur) \in Nat /\ End(cur) <= HeapSize
  <2>1. End(cur) = IF blocks[cur].next = Null THEN HeapSize ELSE blocks[cur].next
    BY <1>1 DEF IInv, Tiling
  <2> QED
    BY <1>1, <1>2, <1>3, <1>a, <1>b, <2>1 DEF Payload, End, Addr
<1>5. tail \notin Headers /\ tail # cur
  BY <1>1, <1>3, <1>4 DEF IInv, Tiling, End, Payload
<1>6. blocks' = [b \in Headers \cup {tail} |->
                   IF b = tail
                   THEN [size |-> blocks[cur].size - size - HeaderSize, free |-> TRUE,
                         next |-> blocks[cur].next]
                   ELSE IF b = cur
                   THEN [size |-> size, free |-> FALSE, next |-> tail]
                   ELSE blocks[b]]
  BY <1>2, <1>a, <1>b DEF SearchTake, SplitBlock, Taken
<1>7. /\ Headers' = Headers \cup {tail}
      /\ blocks'[tail].size = blocks[cur].size - size - HeaderSize
      /\ blocks'[tail].free /\ blocks'[tail].next = blocks[cur].next
      /\ blocks'[cur].size = size
      /\ ~blocks'[cur].free /\ blocks'[cur].next = tail
      /\ \A b \in Headers \ {cur} : blocks'[b] = blocks[b]
  BY <1>1, <1>5, <1>6 DEF Headers
<1>8. TypeOK'
  <2>1. Headers' \subseteq Addr
    BY <1>3, <1>4, <1>7
  <2>2. ASSUME NEW b \in Headers' PROVE blocks'[b] \in Header
    <3>1. CASE b = tail
      <4>1. blocks[cur].size - size - HeaderSize \in 0 .. HeapSize
        BY <1>b, <1>1, <1>2, <1>3, <1>4 DEF Payload, End, Addr
      <4> QED
        BY <3>1, <4>1, <1>1, <1>3, <1>4, <1>5, <1>6 DEF Header
    <3>2. CASE b = cur
      <4>1. size \in 0 .. HeapSize
        BY <1>b, <1>1, <1>2, <1>3, <1>4 DEF Payload, End, Addr
      <4> QED
        BY <3>2, <4>1, <1>1, <1>3, <1>4, <1>5, <1>6 DEF Header
    <3>3. CASE b \in Headers \ {cur}
      BY <3>3, <1>3, <1>7
    <3> QED
      BY <3>1, <3>2, <3>3, <1>7
  <2>3. blocks' \in [Headers' -> Header]
    BY <2>2, <1>6, <1>7
  <2> QED
    BY <2>1, <2>3, <1>c, <1>1, <1>2, <1>3 DEF IInv, TypeOK, Payload
<1>9. Tiling'
  <2>1. End(tail)' = End(cur) /\ End(cur)' = tail
    BY <1>b, <1>1, <1>2, <1>3, <1>7 DEF End, Payload
  <2>2. \A b \in Headers \ {cur} : End(b)' = End(b)
    BY <1>7 DEF End, Payload
  <2>3. \A b \in Headers \ {cur} : b < cur => End(b) <= cur
    BY <1>1 DEF IInv, Tiling
  <2>4. \A b \in Headers : cur < b => End(cur) <= b
    BY <1>1 DEF IInv, Tiling
  <2>5. \A b \in Headers : tail < b => End(cur) <= b
    BY <2>4, <1>3, <1>4, <1>1
  <2>6. \A b \in Headers \ {cur} : b < tail => b < cur
    BY <2>4, <1>3, <1>4, <1>1 DEF End, Payload
  <2>7. ASSUME NEW a \in Headers', NEW b \in Headers', a < b PROVE End(a)' <= b
    <3>1. CASE a = tail
      <4>1. b \in Headers
        BY <3>1, <2>7, <1>4, <1>7
      <4>2. End(cur) <= b
        BY <3>1, <4>1, <2>5, <2>7
      <4> QED
        BY <3>1, <4>2, <2>1
    <3>2. CASE a = cur
      <4>1. CASE b = tail
        BY <3>2, <4>1, <2>1, <1>4
      <4>2. CASE b \in Headers
        BY <3>2, <4>2, <2>1, <2>4, <2>7, <1>3, <1>4, <1>1, End(cur) \in Int DEF End, Payload
      <4> QED
        BY <4>1, <4>2, <1>7
    <3>3. CASE a \in Headers \ {cur}
      <4>1. CASE b = tail
        BY <3>3, <4>1, <2>2, <2>3, <2>6, <2>7, <1>1, <1>3, <1>4 DEF End, Payload
      <4>2. CASE b \in Headers
        BY <3>3, <4>2, <2>2, <2>7 DEF IInv, Tiling
      <4> QED
        BY <4>1, <4>2, <1>7
    <3> QED
      BY <3>1, <3>2, <3>3, <1>7
  <2>8. ASSUME NEW a \in Headers'
        PROVE  /\ End(a)' = IF blocks'[a].next = Null THEN HeapSize ELSE blocks'[a].next
               /\ blocks'[a].next \in Headers' \cup {Null}
    <3>1. CASE a = tail
      BY <3>1, <2>1, <1>1, <1>7 DEF IInv, Tiling
    <3>2. CASE a = cur
      BY <3>2, <2>1, <1>4, <1>7 DEF Null
    <3>3. CASE a \in Headers \ {cur}
      BY <3>3, <2>2, <1>7 DEF IInv, Tiling
    <3> QED
      BY <3>1, <3>2, <3>3, <1>7
  <2> QED
    BY <2>7, <2>8, <1>1, <1>7 DEF IInv, Tiling
<1>10. Owned'
  <2>1. ASSUME NEW b \in live'
        PROVE  /\ HeaderOf(b.ptr) \in Headers'
               /\ ~blocks'[HeaderOf(b.ptr)].free
               /\ b.size <= blocks'[HeaderOf(b.ptr)].size
    <3>1. CASE b = got
      BY <3>1, <1>c, <1>1, <1>2, <1>3, <1>7 DEF HeaderOf, Payload
    <3>2. CASE b \in live
      BY <3>2, <1>1, <1>7 DEF IInv, Owned
    <3> QED
      BY <3>1, <3>2, <1>1
  <2>2. \A b \in live : b.ptr # got.ptr
    BY <1>c, <1>1, <1>3 DEF IInv, Owned, TypeOK, HeaderOf, Payload
  <2>3. \A b, c \in live' : b.ptr = c.ptr => b = c
    BY <2>2, <1>1 DEF IInv, Owned
  <2>4. ASSUME NEW a \in Headers', ~blocks'[a].free
        PROVE  \E b \in live' : b.ptr = Payload(a)
    <3>1. CASE a = cur
      BY <3>1, <1>c, <1>1 DEF Payload
    <3>2. CASE a \in Headers \ {cur}
      BY <3>2, <2>4, <1>1, <1>7 DEF IInv, Owned
    <3> QED
      BY <3>1, <3>2, <2>4, <1>7
  <2> QED
    BY <2>1, <2>3, <2>4 DEF Owned, HeaderOf, Payload
<1>11. Aligned'
  <2>1. cur % 8 = 0 /\ blocks[cur].size % 8 = 0
    BY <1>1 DEF IInv, Aligned, Align
  <2>2. tail % 8 = 0 /\ (blocks[cur].size - size - HeaderSize) % 8 = 0
    BY <2>1, <1>b, <1>1, <1>2, <1>3 DEF Payload, Align
  <2> QED
    BY <2>1, <2>2, <1>2, <1>7 DEF IInv, Aligned, Align
<1>12. MergeFront'
  <2> SUFFICES ASSUME NEW a \in Headers', BothFree(a)'
               PROVE  FALSE
    BY DEF MergeFront
  <2>1. \A b \in Headers : ~BothFree(b)
    BY <1>1 DEF IInv, MergeFront
  <2>2. CASE a = tail
    BY <2>1, <2>2, <1>1, <1>3, <1>5, <1>7 DEF BothFree, IInv, Tiling
  <2>3. CASE a \in Headers \ {cur}
    <3>1. blocks[a].next # Null => blocks[a].next \in Headers
      BY <2>3 DEF IInv, Tiling
    <3> QED
      BY <3>1, <2>1, <2>3, <1>1, <1>7 DEF BothFree
  <2> QED
    BY <2>2, <2>3, <1>7 DEF BothFree
<1>13. FirstFit' /\ SearchSize'
  BY <1>1 DEF FirstFit, SearchSize
<1> QED
  BY <1>8, <1>9, <1>10, <1>11, <1>12, <1>13 DEF IInv

(* A block is handed out whole when a tail would not hold a header and a   *)
(* byte.                                                                   *)
LEMMA TakeWholeIInv ==
  ASSUME IInv, SearchTake, ~(blocks[curr].size > size + HeaderSize)
  PROVE  IInv'
<1> USE HeapConstants
<1>a. PICK cur : cur = curr
  OBVIOUS
<1>c. PICK got : got = [ptr |-> Payload(cur), size |-> asked]
  OBVIOUS
<1>1. /\ cur \in Headers /\ pc = "search" /\ pc' = "idle" /\ curr' = Null
      /\ blocks[cur].free /\ size <= blocks[cur].size
      /\ live' = live \cup {got}
      /\ heap_start' = heap_start
      /\ asked' = 0 /\ size' = 0
      /\ blocks' = [blocks EXCEPT ![cur].free = FALSE]
  BY <1>a, <1>c DEF SearchTake, Fits, IInv, TypeOK
<1>2. asked \in Nat /\ asked <= size /\ size \in Nat
  BY <1>1 DEF IInv, TypeOK, SearchSize
<1>3. /\ blocks \in [Headers -> Header] /\ Headers \subseteq Addr
      /\ \A a \in Headers : a \in Nat /\ blocks[a].size \in Nat
  BY DEF IInv, TypeOK, Header, Addr
<1>4. /\ Headers' = Headers
      /\ ~blocks'[cur].free
      /\ \A a \in Headers : blocks'[a].size = blocks[a].size /\ blocks'[a].next = blocks[a].next
      /\ \A a \in Headers \ {cur} : blocks'[a] = blocks[a]
  BY <1>1, <1>3 DEF Headers, Header
<1>5. TypeOK'
  <2>1. blocks' \in [Headers' -> Header]
    BY <1>1, <1>3, <1>4, ZenonT(30) DEF Header
  <2> QED
    BY <2>1, <1>c, <1>1, <1>2, <1>3, <1>4 DEF IInv, TypeOK, Payload
<1>6. Tiling' /\ Aligned'
  BY <1>1, <1>4 DEF IInv, Tiling, Aligned, End, Payload
<1>7. Owned'
  <2>1. ASSUME NEW b \in live'
        PROVE  /\ HeaderOf(b.ptr) \in Headers'
               /\ ~blocks'[HeaderOf(b.ptr)].free
               /\ b.size <= blocks'[HeaderOf(b.ptr)].size
    <3>1. CASE b = got
      BY <3>1, <1>c, <1>1, <1>2, <1>3, <1>4 DEF HeaderOf, Payload
    <3>2. CASE b \in live
      BY <3>2, <1>1, <1>4 DEF IInv, Owned
    <3> QED
      BY <3>1, <3>2, <1>1
  <2>2. \A b \in live : b.ptr # got.ptr
    BY <1>c, <1>1, <1>3 DEF IInv, Owned, TypeOK, HeaderOf, Payload
  <2>3. \A b, c \in live' : b.ptr = c.ptr => b = c
    BY <2>2, <1>1 DEF IInv, Owned
  <2>4. ASSUME NEW a \in Headers', ~blocks'[a].free
        PROVE  \E b \in live' : b.ptr = Payload(a)
    <3>1. CASE a = cur
      BY <3>1, <1>c, <1>1 DEF Payload
    <3>2. CASE a \in Headers \ {cur}
      BY <3>2, <2>4, <1>1, <1>4 DEF IInv, Owned
    <3> QED
      BY <3>1, <3>2, <1>4
  <2> QED
    BY <2>1, <2>3, <2>4 DEF Owned, HeaderOf, Payload
<1>8. MergeFront'
  <2> SUFFICES ASSUME NEW a \in Headers', BothFree(a)'
               PROVE  FALSE
    BY DEF MergeFront
  <2>1. a \in Headers /\ (blocks[a].next # Null => blocks[a].next \in Headers)
    BY <1>4 DEF IInv, Tiling
  <2>2. BothFree(a)
    BY <2>1, <1>4 DEF BothFree
  <2> QED
    BY <2>1, <2>2, <1>1 DEF IInv, MergeFront
<1>9. FirstFit' /\ SearchSize'
  BY <1>1 DEF FirstFit, SearchSize
<1> QED
  BY <1>5, <1>6, <1>7, <1>8, <1>9 DEF IInv

(* Marking the block of a held buffer free: the caller no longer owns it,  *)
(* and the merge loop starts in front of every pair of free neighbours.    *)
LEMMA FreeIInv ==
  ASSUME IInv, NEW b \in live, Free(b)
  PROVE  IInv'
<1> USE HeapConstants
<1>a. PICK f : f = HeaderOf(b.ptr)
  OBVIOUS
<1>1. /\ pc = "idle" /\ pc' = "merge" /\ curr' = heap_start
      /\ live' = live \ {b}
      /\ UNCHANGED <<heap_start, asked, size>>
      /\ blocks' = [blocks EXCEPT ![f].free = TRUE]
      /\ f \in Headers /\ ~blocks[f].free
  BY <1>a DEF Free, IInv, Owned
<1>2. /\ blocks \in [Headers -> Header] /\ Headers \subseteq Addr
      /\ \A a \in Headers : a \in Nat /\ blocks[a].size \in Nat
  BY DEF IInv, TypeOK, Header, Addr
<1>3. /\ Headers' = Headers
      /\ blocks'[f].free
      /\ \A a \in Headers : blocks'[a].size = blocks[a].size /\ blocks'[a].next = blocks[a].next
      /\ \A a \in Headers \ {f} : blocks'[a] = blocks[a]
  BY <1>1, <1>2 DEF Headers, Header
<1>4. heap_start = 0 /\ 0 \in Headers
  BY <1>1 DEF IInv, TypeOK, Tiling
<1>5. TypeOK'
  <2>1. blocks' \in [Headers' -> Header]
    BY <1>1, <1>2, <1>3, ZenonT(30) DEF Header
  <2> QED
    BY <2>1, <1>1, <1>2, <1>3, <1>4 DEF IInv, TypeOK
<1>6. Tiling' /\ Aligned'
  BY <1>1, <1>3 DEF IInv, Tiling, Aligned, End, Payload
<1>7. Owned'
  <2>1. ASSUME NEW c \in live' PROVE HeaderOf(c.ptr) # f
    <3>1. c \in live /\ c.ptr # b.ptr
      BY <1>1 DEF IInv, Owned
    <3>2. c.ptr \in Nat /\ b.ptr \in Nat
      BY <3>1 DEF IInv, TypeOK
    <3> QED
      BY <3>1, <3>2, <1>a DEF HeaderOf
  <2>2. \A c \in live' : /\ HeaderOf(c.ptr) \in Headers'
                         /\ ~blocks'[HeaderOf(c.ptr)].free
                         /\ c.size <= blocks'[HeaderOf(c.ptr)].size
    BY <2>1, <1>1, <1>3 DEF IInv, Owned
  <2>3. ASSUME NEW a \in Headers', ~blocks'[a].free
        PROVE  \E c \in live' : c.ptr = Payload(a)
    <3>1. a \in Headers \ {f} /\ ~blocks[a].free
      BY <2>3, <1>3
    <3>2. PICK c \in live : c.ptr = Payload(a)
      BY <3>1 DEF IInv, Owned
    <3>3. c # b
      BY <3>1, <3>2, <1>a, <1>2 DEF Payload, HeaderOf
    <3> QED
      BY <3>2, <3>3, <1>1
  <2> QED
    BY <2>2, <2>3, <1>1 DEF IInv, Owned, HeaderOf, Payload
<1>8. MergeFront'
  BY <1>1, <1>2, <1>3, <1>4 DEF MergeFront, Null, Addr
<1>9. FirstFit' /\ SearchSize'
  BY <1>1 DEF FirstFit, SearchSize
<1> QED
  BY <1>5, <1>6, <1>7, <1>8, <1>9 DEF IInv

(* The merge loop's three steps.  A fusion keeps the outer edges of the two *)
(* blocks, and what the cursor has left behind stays merged.               *)
LEMMA MergeFuseIInv ==
  ASSUME IInv, MergeFuse
  PROVE  IInv'
<1> USE HeapConstants
<1>a. PICK cur : cur = curr
  OBVIOUS
<1>b. PICK n : n = blocks[cur].next
  OBVIOUS
<1>1. /\ cur \in Headers /\ pc = "merge" /\ pc' = "merge" /\ curr' = cur
      /\ n \in Headers /\ n # Null /\ n # cur
      /\ blocks[cur].free /\ blocks[n].free
      /\ UNCHANGED <<heap_start, asked, size, live>>
  <2>1. cur \in Headers /\ n # Null /\ n \in Headers
    BY <1>a, <1>b DEF MergeFuse, Merged, BothFree, IInv, TypeOK, Tiling
  <2>2. End(cur) = n /\ blocks[cur].size \in Nat /\ cur \in Nat
    BY <1>b, <2>1 DEF IInv, TypeOK, Tiling, Header, Addr
  <2> QED
    BY <1>a, <1>b, <2>1, <2>2 DEF MergeFuse, Merged, BothFree, End, Payload
<1>2. /\ blocks \in [Headers -> Header] /\ Headers \subseteq Addr
      /\ \A a \in Headers : /\ blocks[a].size \in Nat /\ a \in Nat /\ End(a) \in Nat
                            /\ blocks[a].next \in Headers \cup {Null}
  BY DEF IInv, TypeOK, Tiling, Header, Addr, End, Payload
<1>3. blocks' = [b \in Headers \ {n} |->
                   IF b = cur
                   THEN [size |-> blocks[b].size + HeaderSize + blocks[n].size,
                         free |-> TRUE, next |-> blocks[n].next]
                   ELSE blocks[b]]
  BY <1>a, <1>b DEF MergeFuse, Merged
<1>4. /\ Headers' = Headers \ {n}
      /\ blocks'[cur].size = blocks[cur].size + HeaderSize + blocks[n].size
      /\ blocks'[cur].free /\ blocks'[cur].next = blocks[n].next
      /\ \A b \in Headers \ {n, cur} : blocks'[b] = blocks[b]
  BY <1>1, <1>3 DEF Headers
<1>5. End(cur) = n /\ End(n) <= HeapSize /\ cur < n /\ n < End(n)
  <2>1. End(cur) = n
    BY <1>b, <1>1 DEF IInv, Tiling
  <2>2. End(n) = IF blocks[n].next = Null THEN HeapSize ELSE blocks[n].next
    BY <1>1 DEF IInv, Tiling
  <2> QED
    BY <2>1, <2>2, <1>1, <1>2 DEF Addr, End, Payload
<1>6. End(cur)' = End(n) /\ \A a \in Headers \ {n, cur} : End(a)' = End(a)
  <2>1. End(cur)' = End(n)
    BY <1>1, <1>2, <1>4, <1>5 DEF End, Payload
  <2> QED
    BY <2>1, <1>4 DEF End, Payload
<1>7. TypeOK'
  <2>1. blocks[cur].size + HeaderSize + blocks[n].size \in 0 .. HeapSize
    BY <1>1, <1>2, <1>5 DEF End, Payload
  <2>2. blocks[n].next \in Addr \cup {Null}
    BY <1>1, <1>2
  <2>3. ASSUME NEW b \in Headers' PROVE blocks'[b] \in Header
    <3>1. CASE b = cur
      BY <3>1, <2>1, <2>2, <2>3, <1>1, <1>3, <1>4 DEF Header
    <3>2. CASE b \in Headers \ {n, cur}
      BY <3>2, <1>2, <1>4
    <3> QED
      BY <3>1, <3>2, <2>3, <1>4
  <2>4. blocks' \in [Headers' -> Header]
    BY <2>3, <1>3, <1>4
  <2> QED
    BY <2>4, <1>1, <1>2, <1>4 DEF IInv, TypeOK
<1>8. Tiling'
  <2>1. 0 \in Headers' /\ heap_start' # Null
    <3>1. 0 \in Headers /\ heap_start # Null
      BY <1>1 DEF IInv, Tiling
    <3> QED
      BY <3>1, <1>1, <1>2, <1>4, <1>5
  <2>2. ASSUME NEW a \in Headers', NEW b \in Headers', a < b PROVE End(a)' <= b
    <3>1. CASE a = cur
      <4>1. End(cur) <= b
        BY <3>1, <2>2, <1>1, <1>4 DEF IInv, Tiling
      <4>2. n < b
        BY <4>1, <2>2, <1>1, <1>2, <1>4, <1>5
      <4>3. End(n) <= b
        BY <4>2, <2>2, <1>1, <1>4 DEF IInv, Tiling
      <4> QED
        BY <3>1, <4>3, <1>6
    <3>2. CASE a # cur
      <4>1. End(a) <= b
        BY <2>2, <1>4 DEF IInv, Tiling
      <4> QED
        BY <3>2, <4>1, <2>2, <1>4, <1>6
    <3> QED
      BY <3>1, <3>2
  <2>3. ASSUME NEW a \in Headers'
        PROVE  /\ End(a)' = IF blocks'[a].next = Null THEN HeapSize ELSE blocks'[a].next
               /\ blocks'[a].next \in Headers' \cup {Null}
    <3>1. CASE a = cur
      <4>1. /\ End(n) = IF blocks[n].next = Null THEN HeapSize ELSE blocks[n].next
            /\ blocks[n].next \in Headers \cup {Null}
        BY <1>1 DEF IInv, Tiling
      <4>2. blocks[n].next # n
        BY <4>1, <1>1, <1>2, <1>5
      <4> QED
        BY <3>1, <4>1, <4>2, <1>4, <1>6
    <3>2. CASE a # cur
      <4>1. /\ End(a) = IF blocks[a].next = Null THEN HeapSize ELSE blocks[a].next
            /\ blocks[a].next \in Headers \cup {Null}
        BY <2>3, <1>4 DEF IInv, Tiling
      <4>2. blocks[a].next # n
        <5>1. ASSUME blocks[a].next = n PROVE FALSE
          <6>1. End(a) = n
            BY <5>1, <4>1, <1>1
          <6>2. a < cur => End(a) <= cur
            BY <2>3, <1>1, <1>4 DEF IInv, Tiling
          <6>3. cur < a => n <= a
            BY <2>3, <1>1, <1>4, <1>5 DEF IInv, Tiling
          <6>4. a < n
            BY <6>1, <2>3, <1>2, <1>4 DEF End, Payload
          <6> QED
            BY <3>2, <6>1, <6>2, <6>3, <6>4, <2>3, <1>1, <1>2, <1>4, <1>5
        <5> QED
          BY <5>1
      <4> QED
        BY <3>2, <4>1, <4>2, <2>3, <1>4, <1>6
    <3> QED
      BY <3>1, <3>2
  <2> QED
    BY <2>1, <2>2, <2>3 DEF Tiling
<1>9. Owned'
  <2>1. ASSUME NEW b \in live'
        PROVE  /\ HeaderOf(b.ptr) \in Headers'
               /\ ~blocks'[HeaderOf(b.ptr)].free
               /\ b.size <= blocks'[HeaderOf(b.ptr)].size
    <3>1. /\ HeaderOf(b.ptr) \in Headers \ {n, cur}
          /\ ~blocks[HeaderOf(b.ptr)].free
          /\ b.size <= blocks[HeaderOf(b.ptr)].size
      BY <2>1, <1>1 DEF IInv, Owned
    <3> QED
      BY <3>1, <1>4
  <2>2. ASSUME NEW a \in Headers', ~blocks'[a].free
        PROVE  \E b \in live' : b.ptr = Payload(a)
    BY <2>2, <1>1, <1>4 DEF IInv, Owned
  <2> QED
    BY <2>1, <2>2, <1>1 DEF IInv, Owned, HeaderOf, Payload
<1>10. Aligned'
  <2>1. /\ cur % 8 = 0 /\ blocks[cur].size % 8 = 0 /\ blocks[n].size % 8 = 0
        /\ HeaderSize % 8 = 0
    BY <1>1 DEF IInv, Aligned, Align
  <2>2. (blocks[cur].size + HeaderSize + blocks[n].size) % 8 = 0
    BY <2>1, <1>1, <1>2
  <2> QED
    BY <2>1, <2>2, <1>4 DEF IInv, Aligned, Align
<1>11. MergeFront'
  <2> SUFFICES ASSUME NEW a \in Headers', BothFree(a)', a # cur
               PROVE  cur <= a
    BY <1>1, <1>2, <1>4 DEF MergeFront, Null
  <2>1. a \in Headers \ {n, cur} /\ blocks'[a] = blocks[a]
    BY <1>4
  <2>2. BothFree(a)
    <3>1. blocks[a].next # Null /\ blocks[a].next \in Headers /\ blocks[a].free
      BY <2>1, <1>2 DEF BothFree
    <3> QED
      BY <2>1, <3>1, <1>1, <1>4 DEF BothFree
  <2> QED
    BY <2>1, <2>2, <1>a DEF IInv, MergeFront
<1>12. FirstFit' /\ SearchSize'
  BY <1>1 DEF FirstFit, SearchSize
<1> QED
  BY <1>7, <1>8, <1>9, <1>10, <1>11, <1>12 DEF IInv

(* The cursor passes a pair that is not free on both sides.                *)
LEMMA MergeAdvanceIInv ==
  ASSUME IInv, MergeAdvance
  PROVE  IInv'
<1>1. UNCHANGED <<blocks, heap_start, live>> /\ pc' = "merge" /\ pc = "merge"
  BY DEF MergeAdvance
<1>2. /\ curr \in Headers /\ curr' = blocks[curr].next
      /\ curr' \in Headers /\ curr' # Null
      /\ ~BothFree(curr)
  BY DEF MergeAdvance, IInv, TypeOK, Tiling
<1>3. TypeOK'
  BY <1>1, <1>2 DEF MergeAdvance, IInv, TypeOK, Headers
<1>4. Tiling' /\ Owned' /\ Aligned'
  BY <1>1, ListUnchanged DEF IInv
<1>5. MergeFront'
  <2> SUFFICES ASSUME NEW a \in Headers, BothFree(a)
               PROVE  curr' <= a
    BY <1>1, <1>2 DEF MergeFront, BothFree, Headers
  <2>1. curr <= a /\ a # curr
    BY <1>2 DEF IInv, MergeFront
  <2>2. curr \in Nat /\ a \in Nat
    BY <1>2 DEF IInv, TypeOK, Addr
  <2>3. End(curr) <= a
    BY <2>1, <2>2, <1>2 DEF IInv, Tiling
  <2>4. End(curr) = curr'
    BY <1>2 DEF IInv, Tiling
  <2> QED
    BY <2>3, <2>4
<1>6. FirstFit' /\ SearchSize'
  BY <1>1 DEF FirstFit, SearchSize
<1> QED
  BY <1>3, <1>4, <1>5, <1>6 DEF IInv

(* The cursor has reached the last block: every pair is behind it.         *)
LEMMA MergeDoneIInv ==
  ASSUME IInv, MergeDone
  PROVE  IInv'
<1> USE HeapConstants
<1>1. UNCHANGED <<blocks, heap_start, live>> /\ pc' = "idle" /\ pc = "merge"
  BY DEF MergeDone
<1>2. TypeOK'
  BY <1>1 DEF MergeDone, IInv, TypeOK, Headers
<1>3. Tiling' /\ Owned' /\ Aligned'
  BY <1>1, ListUnchanged DEF IInv
<1>4. \A a \in Headers : ~BothFree(a)
  <2> SUFFICES ASSUME NEW a \in Headers, BothFree(a)
               PROVE  FALSE
    OBVIOUS
  <2>1. curr \in Headers /\ curr # Null /\ curr <= a
    BY DEF IInv, MergeFront, TypeOK
  <2>2. blocks[curr].next = Null /\ End(curr) = HeapSize
    BY <2>1 DEF MergeDone, IInv, Tiling
  <2>3. curr # a
    BY <2>2 DEF BothFree
  <2>4. curr \in Nat /\ a \in Nat /\ a < HeapSize
    BY <2>1 DEF IInv, TypeOK, Addr
  <2>5. End(curr) <= a
    BY <2>1, <2>3, <2>4 DEF IInv, Tiling
  <2> QED
    BY <2>2, <2>4, <2>5
<1>5. MergeFront' /\ FirstFit' /\ SearchSize'
  BY <1>1, <1>4 DEF MergeFront, BothFree, Headers, FirstFit, SearchSize
<1> QED
  BY <1>2, <1>3, <1>5 DEF IInv

(* Every step of the heap preserves the inductive invariant.               *)
LEMMA StepIInv == ASSUME RequestsFit PROVE IInv /\ [Next]_vars => IInv'
<1> SUFFICES ASSUME IInv, [Next]_vars
             PROVE  IInv'
  OBVIOUS
<1>1. ASSUME NEW n \in Requests, Malloc(n) PROVE IInv'
  BY <1>1, MallocIInv
<1>2. ASSUME NEW b \in live, Free(b) PROVE IInv'
  BY <1>2, FreeIInv
<1>3. CASE SearchAdvance
  BY <1>3, SearchAdvanceIInv
<1>4. CASE SearchTake
  BY <1>4, TakeSplitIInv, TakeWholeIInv
<1>5. CASE SearchFail
  BY <1>5, SearchFailIInv
<1>6. CASE MergeFuse
  BY <1>6, MergeFuseIInv
<1>7. CASE MergeAdvance
  BY <1>7, MergeAdvanceIInv
<1>8. CASE MergeDone
  BY <1>8, MergeDoneIInv
<1>9. CASE UNCHANGED vars
  BY <1>9 DEF vars, IInv, TypeOK, Tiling, Owned, Aligned, MergeFront, FirstFit, SearchSize,
     Headers, End, Payload, HeaderOf, BothFree
<1> QED
  BY <1>1, <1>2, <1>3, <1>4, <1>5, <1>6, <1>7, <1>8, <1>9 DEF Next, Step

-----------------------------------------------------------------------------
(* The heap's list stays well formed for every heap size, header size and  *)
(* set of requests: the inductive invariant that the theorems below use.   *)
THEOREM Invariance == ASSUME RequestsFit PROVE Spec => []IInv
<1>1. Init => IInv
  BY InitIInv
<1>2. IInv /\ [Next]_vars => IInv'
  BY StepIInv
<1> QED
  BY <1>1, <1>2, PTL DEF Spec

(* Every variable keeps its type: no header outside the mapping, no size   *)
(* that a subtraction in split_block has taken below zero.                 *)
THEOREM TypeCorrect == ASSUME RequestsFit PROVE Spec => []TypeOK
<1>1. IInv => TypeOK
  BY DEF IInv
<1> QED
  BY <1>1, Invariance, PTL

(* The list tiles the mapping at every turn of every loop of heap.c.       *)
THEOREM ListTiles == ASSUME RequestsFit PROVE Spec => []Tiling
<1>1. IInv => Tiling
  BY DEF IInv
<1> QED
  BY <1>1, Invariance, PTL

(* What the caller holds and what the list marks used are the same blocks. *)
THEOREM HeldIsUsed == ASSUME RequestsFit PROVE Spec => []Owned
<1>1. IInv => Owned
  BY DEF IInv
<1> QED
  BY <1>1, Invariance, PTL

(* Outside my_free no two neighbouring blocks are free.                    *)
THEOREM AlwaysCoalesced == ASSUME RequestsFit PROVE Spec => []Coalesced
<1>1. IInv => Coalesced
  BY DEF IInv, MergeFront, Coalesced
<1> QED
  BY <1>1, Invariance, PTL

(* my_malloc returns the first block that fits, and NULL only when no free *)
(* block does.                                                             *)
THEOREM SearchIsFirstFit == ASSUME RequestsFit PROVE Spec => []FirstFit
<1>1. IInv => FirstFit
  BY DEF IInv
<1> QED
  BY <1>1, Invariance, PTL

(* When everything is given back, the heap is as init_heap left it.        *)
THEOREM HeapRecovers == ASSUME RequestsFit PROVE Spec => []NothingLost
<1>1. IInv => NothingLost
  <2> SUFFICES ASSUME IInv, pc = "idle", live = {}, heap_start # Null
               PROVE  blocks = [a \in {0} |-> [size |-> HeapSize - HeaderSize,
                                               free |-> TRUE, next |-> Null]]
    BY DEF NothingLost
  <2>1. \A a \in Headers : blocks[a].free
    BY DEF IInv, Owned
  <2>2. \A a \in Headers : blocks[a].next = Null
    <3>1. \A a \in Headers : blocks[a].next # Null => BothFree(a)
      BY <2>1 DEF IInv, Tiling, BothFree
    <3> QED
      BY <3>1 DEF IInv, MergeFront
  <2>3. 0 \in Headers /\ \A a \in Headers : End(a) = HeapSize
    BY <2>2 DEF IInv, Tiling
  <2>4. Headers = {0}
    <3> SUFFICES ASSUME NEW a \in Headers, a # 0
                 PROVE  FALSE
      BY <2>3
    <3>1. 0 < a /\ a < HeapSize
      BY HeapConstants DEF IInv, TypeOK, Addr
    <3>2. End(0) <= a
      BY <3>1, <2>3 DEF IInv, Tiling
    <3> QED
      BY <3>1, <3>2, <2>3, HeapConstants DEF IInv, TypeOK, Addr
  <2>5. blocks \in [{0} -> Header] /\ blocks[0] \in Header
    BY <2>4 DEF IInv, TypeOK
  <2>6. blocks[0].size = HeapSize - HeaderSize
    BY <2>3, <2>5, HeapConstants DEF End, Payload, Header
  <2>7. blocks[0] = [size |-> HeapSize - HeaderSize, free |-> TRUE, next |-> Null]
    BY <2>1, <2>2, <2>3, <2>5, <2>6 DEF Header
  <2> QED
    BY <2>5, <2>7
<1> QED
  BY <1>1, Invariance, PTL

-----------------------------------------------------------------------------
(* No call moves, resizes or frees the block of a buffer it was not given. *)
THEOREM HeldBuffersStay == ASSUME RequestsFit PROVE Spec => HeldUntouched
<1> DEFINE Stays == \A b \in live \cap live' :
                      LET a == HeaderOf(b.ptr) IN
                        /\ a \in DOMAIN blocks'
                        /\ blocks'[a].size = blocks[a].size
                        /\ blocks'[a].free = blocks[a].free
              Same(a) == /\ a \in DOMAIN blocks'
                         /\ blocks'[a].size = blocks[a].size
                         /\ blocks'[a].free = blocks[a].free
<1>1. ASSUME IInv, Next PROVE Stays
  <2> SUFFICES ASSUME NEW b \in live, b \in live', NEW a, a = HeaderOf(b.ptr)
               PROVE  Same(a)
    OBVIOUS
  <2>1. a \in Headers /\ ~blocks[a].free /\ blocks \in [Headers -> Header]
    BY <1>1 DEF IInv, Owned, TypeOK
  <2>2. ASSUME NEW n \in Requests, Malloc(n)
        PROVE  Same(a)
    BY <2>1, <2>2, <1>1 DEF Malloc, IInv, Tiling, Headers
  <2>3. ASSUME NEW c \in live, Free(c)
        PROVE  Same(a)
    <3>1. b.ptr # c.ptr
      BY <2>3, <1>1 DEF Free, IInv, Owned
    <3>2. b.ptr \in Nat /\ c.ptr \in Nat
      BY <1>1 DEF IInv, TypeOK
    <3>3. a # HeaderOf(c.ptr)
      BY <3>1, <3>2, HeapConstants DEF HeaderOf
    <3> QED
      BY <2>1, <2>3, <3>3 DEF Free, Headers
  <2>4. CASE SearchTake
    <3>1. blocks[curr].free /\ curr \in Headers /\ a # curr
      BY <2>1, <2>4, <1>1 DEF SearchTake, Fits, IInv, TypeOK
    <3>2. CASE blocks[curr].size > size + HeaderSize
      <4>1. Payload(curr) + size \notin Headers
        <5>1. /\ curr \in Nat /\ size \in Nat /\ blocks[curr].size \in Nat
              /\ Payload(curr) + size > curr /\ Payload(curr) + size < End(curr)
          BY <3>1, <3>2, <1>1, HeapConstants DEF IInv, TypeOK, Header, Addr, Payload, End
        <5>2. \A c \in Headers : curr < c => End(curr) <= c
          BY <3>1, <1>1 DEF IInv, Tiling
        <5> QED
          BY <5>1, <5>2, HeapConstants DEF End, Payload
      <4> QED
        BY <2>1, <2>4, <3>1, <3>2, <4>1 DEF SearchTake, SplitBlock, Taken, Headers
    <3>3. CASE ~(blocks[curr].size > size + HeaderSize)
      BY <2>1, <2>4, <3>1, <3>3 DEF SearchTake, Headers
    <3> QED
      BY <3>2, <3>3
  <2>5. CASE MergeFuse
    <3>1. blocks[curr].free /\ blocks[blocks[curr].next].free
      BY <2>5 DEF MergeFuse, BothFree
    <3> QED
      BY <2>1, <2>5, <3>1 DEF MergeFuse, Merged, Headers
  <2>6. CASE SearchAdvance \/ SearchFail \/ MergeAdvance \/ MergeDone
    BY <2>1, <2>6 DEF SearchAdvance, SearchFail, MergeAdvance, MergeDone, Headers
  <2> QED
    BY <2>2, <2>3, <2>4, <2>5, <2>6, <1>1 DEF Next, Step
<1>2. IInv /\ [Next]_vars => [Stays]_vars
  BY <1>1
<1> QED
  BY <1>2, Invariance, PTL DEF Spec, HeldUntouched

-----------------------------------------------------------------------------
(* The buffer a search ends with is one the contract allows.               *)
LEMMA TakenIsGrantable ==
  ASSUME IInv, SearchTake
  PROVE  Abstract!Grantable([ptr |-> Payload(curr), size |-> asked])
<1> DEFINE got == [ptr |-> Payload(curr), size |-> asked]
<1>1. /\ curr \in Headers /\ blocks[curr].free /\ pc = "search"
      /\ size <= blocks[curr].size
  BY DEF SearchTake, Fits, IInv, TypeOK
<1>2. asked \in Nat /\ size \in Nat /\ asked <= size
  BY <1>1 DEF IInv, TypeOK, SearchSize
<1>3. \A a \in Headers : a \in Nat /\ a < HeapSize /\ blocks[a].size \in Nat /\ End(a) \in Nat
  BY HeapConstants DEF IInv, TypeOK, Header, Addr, End, Payload
<1>4. got.ptr + got.size <= End(curr) /\ End(curr) <= HeapSize
  <2>1. End(curr) = IF blocks[curr].next = Null THEN HeapSize ELSE blocks[curr].next
    BY <1>1 DEF IInv, Tiling
  <2>2. blocks[curr].next \in Headers \cup {Null}
    BY <1>1 DEF IInv, Tiling
  <2> QED
    BY <2>1, <2>2, <1>1, <1>2, <1>3, HeapConstants DEF End, Payload, Null
<1>5. got.ptr % Align = 0
  <2>1. curr % 8 = 0 /\ HeaderSize % 8 = 0
    BY <1>1, HeapConstants DEF IInv, Aligned, Align
  <2> QED
    BY <2>1, <1>1, <1>3, HeapConstants DEF Payload, Align
<1>6. ASSUME NEW c \in live
      PROVE  got.ptr + got.size <= c.ptr \/ c.ptr + c.size <= got.ptr
  <2>1. PICK h : h = HeaderOf(c.ptr)
    OBVIOUS
  <2>2. h \in Headers /\ ~blocks[h].free /\ c.size <= blocks[h].size
    BY <2>1 DEF IInv, Owned
  <2>3. c.ptr \in Nat /\ c.size \in Nat /\ c.ptr = h + HeaderSize
    BY <2>1, HeapConstants DEF IInv, TypeOK, HeaderOf
  <2>4. CASE h < curr
    <3>1. End(h) <= curr
      BY <2>2, <2>4, <1>1 DEF IInv, Tiling
    <3> QED
      BY <3>1, <2>2, <2>3, <1>1, <1>2, <1>3, HeapConstants DEF End, Payload
  <2>5. CASE curr < h
    <3>1. End(curr) <= h
      BY <2>2, <2>5, <1>1 DEF IInv, Tiling
    <3> QED
      BY <3>1, <2>2, <2>3, <1>1, <1>2, <1>3, <1>4, HeapConstants DEF Payload
  <2> QED
    BY <2>2, <2>4, <2>5, <1>1, <1>3
<1>7. got.ptr + got.size <= HeapSize
  <2>1. got.ptr \in Nat /\ got.size \in Nat
    BY <1>1, <1>2, <1>3, HeapConstants DEF Payload
  <2> QED
    BY <2>1, <1>4, <1>1, <1>3, HeapConstants
<1> HIDE DEF got
<1>8. Abstract!Grantable(got)
  BY <1>5, <1>6, <1>7 DEF Abstract!Grantable, Abstract!Apart
<1> QED
  BY <1>8 DEF got

(* The heap implements the abstract allocator: every buffer my_malloc      *)
(* hands out is aligned, inside the mapping and apart from those held, and *)
(* no other step changes what the caller holds.                            *)
THEOREM HeapIsAllocator == ASSUME RequestsFit PROVE Spec => ImplementsAllocator
<1>1. Init => Abstract!Init
  BY DEF Init, Abstract!Init
<1>2. IInv /\ [Next]_vars => [Abstract!Next]_live
  <2> SUFFICES ASSUME IInv, [Next]_vars
               PROVE  Abstract!Next \/ UNCHANGED live
    OBVIOUS
  <2>1. CASE SearchTake
    <3>1. Abstract!Grant([ptr |-> Payload(curr), size |-> asked])
      BY <2>1, TakenIsGrantable DEF SearchTake, Abstract!Grant
    <3>2. asked \in Requests \ {0} /\ asked \in Nat
      BY <2>1 DEF SearchTake, IInv, SearchSize, TypeOK
    <3>3. curr \in Nat
      BY <2>1 DEF SearchTake, IInv, TypeOK, Addr
    <3>4. Payload(curr) \in 0 .. HeapSize
      <4>1. Payload(curr) + asked <= HeapSize
        BY <2>1, TakenIsGrantable DEF Abstract!Grantable
      <4> QED
        BY <4>1, <3>2, <3>3, HeapConstants DEF Payload
    <3> QED
      BY <3>1, <3>2, <3>4 DEF Abstract!Next
  <2>2. ASSUME NEW b \in live, Free(b) PROVE Abstract!Next
    BY <2>2 DEF Free, Abstract!Next, Abstract!Release
  <2> QED
    BY <2>1, <2>2 DEF Next, Step, vars, Malloc, SearchAdvance, SearchFail, MergeFuse,
       MergeAdvance, MergeDone
<1> QED
  BY <1>1, <1>2, Invariance, PTL DEF Spec, ImplementsAllocator, Abstract!Spec

(* How far a call is from its end, at most: what lies behind the cursor    *)
(* and behind the block it is at, and the last step.                       *)
Distance ==
  IF pc = "idle" THEN 0
  ELSE IF curr = Null THEN 1
  ELSE 2 + (HeapSize - curr) + (HeapSize - End(curr))

(* The list only leads upwards, so the distance is a number.               *)
LEMMA CursorInside ==
  ASSUME IInv, NEW a \in Headers
  PROVE  /\ a \in 0 .. HeapSize - 1 /\ End(a) \in a + 1 .. HeapSize
         /\ blocks[a].next # Null => blocks[a].next \in Headers /\ blocks[a].next = End(a)
<1>1. a \in 0 .. HeapSize - 1 /\ blocks[a].size \in Nat
  <2>1. blocks[a] \in Header /\ a \in Addr
    BY DEF IInv, TypeOK
  <2> QED
    BY <2>1 DEF Header, Addr
<1>2. /\ blocks[a].next \in Headers \cup {Null}
      /\ End(a) = IF blocks[a].next = Null THEN HeapSize ELSE blocks[a].next
  BY DEF IInv, Tiling
<1>3. End(a) \in a + 1 .. HeapSize
  <2>1. End(a) = a + HeaderSize + blocks[a].size
    BY <1>1, HeapConstants DEF End, Payload
  <2>2. End(a) \in Nat /\ End(a) > a
    BY <1>1, <2>1, HeapConstants
  <2>3. End(a) <= HeapSize
    <3>1. blocks[a].next \in 0 .. HeapSize - 1 \/ blocks[a].next = Null
      BY <1>2 DEF IInv, TypeOK, Addr
    <3> QED
      BY <1>2, <3>1, HeapConstants
  <2> QED
    BY <1>1, <2>2, <2>3, HeapConstants
<1> QED
  BY <1>1, <1>2, <1>3

LEMMA DistanceIsNat == IInv => Distance \in Nat
BY CursorInside, HeapConstants DEF IInv, TypeOK, Distance

LEMMA StepGetsNearer ==
  ASSUME IInv, IInv', Step
  PROVE  Distance' < Distance
<1>1. pc # "idle" /\ Distance \in Nat /\ Distance > 0
  <2>1. pc # "idle"
    BY DEF Step, SearchAdvance, SearchTake, SearchFail, MergeFuse, MergeAdvance, MergeDone
  <2>2. CASE curr = Null
    BY <2>1, <2>2 DEF Distance
  <2>3. CASE curr # Null
    BY <2>1, <2>3, CursorInside, HeapConstants DEF Distance, IInv, TypeOK
  <2> QED
    BY <2>1, <2>2, <2>3
<1>2. CASE SearchTake \/ SearchFail \/ MergeDone
  BY <1>1, <1>2 DEF Distance, SearchTake, SearchFail, MergeDone
<1>3. CASE SearchAdvance \/ MergeAdvance
  <2>1. /\ curr \in Headers /\ curr # Null /\ UNCHANGED <<pc, blocks>>
        /\ curr' = blocks[curr].next
    BY <1>3 DEF IInv, TypeOK, SearchAdvance, MergeAdvance
  <2>2. CASE curr' = Null
    BY <1>1, <2>1, <2>2, CursorInside, HeapConstants DEF Distance
  <2>3. CASE curr' # Null
    <3>1. curr' \in Headers /\ curr' = End(curr)
      BY <2>1, <2>3, CursorInside
    <3>2. End(curr') \in curr' + 1 .. HeapSize /\ End(curr) \in curr + 1 .. HeapSize /\ curr \in Nat
      BY <2>1, <3>1, CursorInside
    <3>3. Distance' = 2 + (HeapSize - curr') + (HeapSize - End(curr'))
      BY <1>1, <2>1, <2>3 DEF Distance, End
    <3>4. Distance = 2 + (HeapSize - curr) + (HeapSize - End(curr))
      BY <1>1, <2>1 DEF Distance
    <3> QED
      BY <3>1, <3>2, <3>3, <3>4, HeapConstants
  <2> QED
    BY <2>2, <2>3
<1>4. CASE MergeFuse
  <2> DEFINE n == blocks[curr].next
  <2>1. /\ curr \in Headers /\ curr # Null /\ n # Null /\ UNCHANGED <<pc, curr>>
        /\ blocks' = [b \in Headers \ {n} |-> IF b = curr THEN Merged(b, n) ELSE blocks[b]]
    BY <1>4 DEF IInv, TypeOK, MergeFuse, BothFree
  <2>2. n \in Headers /\ n = End(curr) /\ End(curr) \in curr + 1 .. HeapSize /\ curr \in Nat
    BY <2>1, CursorInside
  <2>3. End(n) \in n + 1 .. HeapSize
    BY <2>2, CursorInside
  <2>4. blocks'[curr] = Merged(curr, n)
    BY <2>1, <2>2
  <2>5. (End(curr))' = End(n)
    <3>1. blocks[curr].size \in Nat /\ blocks[n].size \in Nat
      BY <2>1, <2>2 DEF IInv, TypeOK, Header
    <3> QED
      BY <2>1, <2>2, <2>4, <3>1, HeapConstants DEF End, Payload, Merged
  <2>6. Distance' = 2 + (HeapSize - curr) + (HeapSize - End(n))
    BY <1>1, <2>1, <2>5 DEF Distance
  <2>7. Distance = 2 + (HeapSize - curr) + (HeapSize - End(curr))
    BY <1>1, <2>1 DEF Distance
  <2> QED
    BY <2>2, <2>3, <2>6, <2>7, HeapConstants
<1> QED
  BY <1>2, <1>3, <1>4 DEF Step

(* Every step of a call brings it nearer to its end, which is never more   *)
(* than 2 * HeapSize + 2 steps away: no list that a sequence of calls can  *)
(* make keeps one of the two loops busy for ever.  That a call takes its   *)
(* steps is the fairness that CallsReturn assumes.                         *)
THEOREM CallsEnd ==
  ASSUME RequestsFit
  PROVE  Spec => /\ [](Distance \in 0 .. 2 * HeapSize + 2)
                 /\ [][pc # "idle" => Distance' < Distance]_vars
<1>1. IInv => Distance \in 0 .. 2 * HeapSize + 2
  <2> SUFFICES ASSUME IInv PROVE Distance \in 0 .. 2 * HeapSize + 2
    OBVIOUS
  <2>1. CASE pc = "idle" \/ curr = Null
    BY <2>1, HeapConstants DEF Distance
  <2>2. CASE pc # "idle" /\ curr # Null
    <3>1. curr \in Headers
      BY <2>2 DEF IInv, TypeOK
    <3>2. Distance = 2 + (HeapSize - curr) + (HeapSize - End(curr))
      BY <2>2 DEF Distance
    <3> QED
      BY <3>1, <3>2, CursorInside, HeapConstants
  <2> QED
    BY <2>1, <2>2
<1>2. IInv /\ IInv' /\ [Next]_vars => [pc # "idle" => Distance' < Distance]_vars
  <2>1. ASSUME IInv, IInv', Next, pc # "idle" PROVE Distance' < Distance
    BY <2>1, StepGetsNearer DEF Next, Malloc, Free
  <2> QED
    BY <2>1
<1> QED
  BY <1>1, <1>2, Invariance, PTL DEF Spec

=============================================================================
