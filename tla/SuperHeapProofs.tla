-------------------------- MODULE SuperHeapProofs --------------------------
(***************************************************************************)
(* Proofs about SuperHeap, for every page size, every size of the initial  *)
(* region and of the headers, every limit on a request and every arena:    *)
(* wherever mmap puts the regions.                                         *)
(*                                                                         *)
(* The inductive invariant IInv adds to what is to be proved the layout of *)
(* the list: blocks and mapped pages cover each other, and a block that    *)
(* does not start a page starts where its neighbour on the list ends.  It  *)
(* also says where neighbours that could be fused may be (Merged): nowhere *)
(* once the caller holds nothing, so that destroy_heap finds blocks of     *)
(* whole pages.                                                            *)
(***************************************************************************)
EXTENDS SuperHeap, SequenceTheorems, FiniteSetTheorems, WellFoundedInduction, TLAPS

-----------------------------------------------------------------------------
(* Pages and bytes.                                                        *)

(* What the quotient by the page size bounds.                              *)
LEMMA DivBounds ==
  ASSUME NEW a \in Nat
  PROVE  /\ a \div PageSize \in Nat
         /\ PageSize * (a \div PageSize) <= a
         /\ a < PageSize * (a \div PageSize) + PageSize
BY SuperHeapConstants

(* An address is page aligned when it is its page times the page size.     *)
LEMMA ModZero ==
  ASSUME NEW a \in Nat
  PROVE  a % PageSize = 0 <=> a = PageSize * (a \div PageSize)
<1>1. a % PageSize = 0 => a = PageSize * (a \div PageSize)
  BY SuperHeapConstants
<1>2. PICK d \in Nat : d = a \div PageSize
  BY DivBounds
<1>3. a = PageSize * d => a % PageSize = 0
  <2>1. (PageSize * d) % PageSize = 0
    BY SuperHeapConstants
  <2> QED
    BY <2>1
<1> QED
  BY <1>1, <1>2, <1>3

(* Multiples of the page size are a page apart.                            *)
LEMMA PageGap ==
  ASSUME NEW a \in Nat, NEW b \in Nat, a < b
  PROVE  PageSize * a + PageSize <= PageSize * b
<1>1. PICK d \in Nat : b = a + 1 + d
  <2>1. b - a - 1 \in Nat /\ b = a + 1 + (b - a - 1)
    OBVIOUS
  <2> QED
    BY <2>1
<1>2. PageSize * b = PageSize * a + PageSize + PageSize * d
  BY <1>1, SuperHeapConstants
<1>3. PageSize * d >= 0 /\ PageSize * a \in Int /\ PageSize \in Int /\ PageSize * d \in Int
  BY <1>1, SuperHeapConstants
<1> QED
  BY <1>2, <1>3

(* The page of a byte lies below page k when the byte does.                *)
LEMMA DivLess ==
  ASSUME NEW a \in Nat, NEW k \in Nat
  PROVE  a \div PageSize < k <=> a < PageSize * k
<1>1. PICK d \in Nat : d = a \div PageSize
  BY DivBounds
<1>2. PageSize * d <= a /\ a < PageSize * d + PageSize
  BY <1>1, DivBounds
<1>3. d < k => PageSize * d + PageSize <= PageSize * k
  BY PageGap
<1>4. k < d => PageSize * k + PageSize <= PageSize * d
  BY PageGap
<1>5. PageSize * d \in Nat /\ PageSize * k \in Nat /\ PageSize \in Nat \ {0}
  BY SuperHeapConstants
<1> QED
  BY <1>1, <1>2, <1>3, <1>4, <1>5

(* A page is touched when it starts before the bytes end, and ends after   *)
(* they start.                                                             *)
LEMMA InPages ==
  ASSUME NEW a \in Nat, NEW n \in Nat \ {0}, NEW k \in Nat
  PROVE  k \in Pages(a, n) <=> a < PageSize * k + PageSize /\ PageSize * k < a + n
<1>1. a + n - 1 \in Nat /\ k + 1 \in Nat
  OBVIOUS
<1>2. PageSize * (k + 1) = PageSize * k + PageSize /\ PageSize * k \in Nat
  BY SuperHeapConstants
<1>3. a \div PageSize < k + 1 <=> a < PageSize * k + PageSize
  BY <1>1, <1>2, DivLess
<1>4. (a + n - 1) \div PageSize < k <=> a + n - 1 < PageSize * k
  BY <1>1, DivLess
<1>5. PICK x \in Nat, y \in Nat : x = a \div PageSize /\ y = (a + n - 1) \div PageSize
  BY <1>1, DivBounds
<1>6. k \in Pages(a, n) <=> x <= k /\ k <= y
  BY <1>5 DEF Pages
<1>7. (x <= k <=> a < PageSize * k + PageSize) /\ (k <= y <=> ~(a + n - 1 < PageSize * k))
  BY <1>3, <1>4, <1>5
<1> QED
  BY <1>2, <1>6, <1>7

(* Pages have numbers, and the first byte touches one of them.             *)
LEMMA PagesAreNat ==
  ASSUME NEW a \in Nat, NEW n \in Nat \ {0}
  PROVE  Pages(a, n) \subseteq Nat /\ a \div PageSize \in Pages(a, n)
<1>1. a \div PageSize \in Nat /\ (a + n - 1) \div PageSize \in Nat
  BY DivBounds
<1>2. PICK d \in Nat : d = a \div PageSize
  BY <1>1
<1>3. PageSize * d <= a /\ a < PageSize * d + PageSize /\ PageSize * d \in Nat
  BY <1>2, DivBounds, SuperHeapConstants
<1>4. d \in Pages(a, n)
  BY <1>3, InPages
<1> QED
  BY <1>1, <1>2, <1>4 DEF Pages

(* A part of a range touches no other page than the range.                 *)
LEMMA PagesMonotone ==
  ASSUME NEW a \in Nat, NEW n \in Nat \ {0}, NEW b \in Nat, NEW m \in Nat \ {0},
         a <= b, b + m <= a + n
  PROVE  Pages(b, m) \subseteq Pages(a, n)
<1> SUFFICES ASSUME NEW k \in Pages(b, m) PROVE k \in Pages(a, n)
  OBVIOUS
<1>1. k \in Nat /\ PageSize * k \in Nat /\ PageSize \in Nat
  BY PagesAreNat, SuperHeapConstants
<1>2. b < PageSize * k + PageSize /\ PageSize * k < b + m
  BY <1>1, InPages
<1>3. a < PageSize * k + PageSize /\ PageSize * k < a + n
  BY <1>1, <1>2
<1> QED
  BY <1>1, <1>3, InPages

(* A range touches the pages its two parts touch.                          *)
LEMMA PagesSplit ==
  ASSUME NEW a \in Nat, NEW n \in Nat \ {0}, NEW m \in Nat \ {0}
  PROVE  Pages(a, n + m) = Pages(a, n) \cup Pages(a + n, m)
<1>1. Pages(a, n) \subseteq Pages(a, n + m) /\ Pages(a + n, m) \subseteq Pages(a, n + m)
  BY PagesMonotone
<1>2. ASSUME NEW k \in Pages(a, n + m) PROVE k \in Pages(a, n) \cup Pages(a + n, m)
  <2>1. k \in Nat /\ PageSize * k \in Nat /\ PageSize \in Nat \ {0}
    <3>1. n + m \in Nat \ {0}
      OBVIOUS
    <3> QED
      BY <3>1, PagesAreNat, SuperHeapConstants
  <2>2. a < PageSize * k + PageSize /\ PageSize * k < a + (n + m)
    BY <2>1, InPages
  <2>3. CASE PageSize * k < a + n
    BY <2>1, <2>2, <2>3, InPages
  <2>4. CASE a + n <= PageSize * k
    <3>1. a + n < PageSize * k + PageSize /\ PageSize * k < (a + n) + m
      BY <2>1, <2>2, <2>4
    <3> QED
      BY <2>1, <3>1, InPages
  <2> QED
    BY <2>1, <2>3, <2>4
<1> QED
  BY <1>1, <1>2

(* Ranges that touch no common page do not overlap.                        *)
LEMMA PagesApart ==
  ASSUME NEW a \in Nat, NEW n \in Nat \ {0}, NEW b \in Nat, NEW m \in Nat \ {0},
         Pages(a, n) \cap Pages(b, m) = {}
  PROVE  a + n <= b \/ b + m <= a
<1> SUFFICES ASSUME b < a + n, a < b + m PROVE FALSE
  OBVIOUS
<1>1. PICK c \in {a, b} : a <= c /\ b <= c /\ c < a + n /\ c < b + m
  OBVIOUS
<1>2. PICK k \in Nat : PageSize * k <= c /\ c < PageSize * k + PageSize
  BY <1>1, DivBounds
<1>3. PageSize * k \in Nat /\ PageSize \in Nat
  BY SuperHeapConstants
<1>4. a < PageSize * k + PageSize /\ PageSize * k < a + n
  BY <1>1, <1>2, <1>3
<1>5. b < PageSize * k + PageSize /\ PageSize * k < b + m
  BY <1>1, <1>2, <1>3
<1>6. k \in Pages(a, n) /\ k \in Pages(b, m)
  BY <1>4, <1>5, InPages
<1> QED
  BY <1>6

(* Whole pages share none with what they do not overlap.                   *)
LEMMA WholePagesApart ==
  ASSUME NEW a \in Nat, NEW n \in Nat \ {0}, NEW b \in Nat, NEW m \in Nat \ {0},
         a % PageSize = 0, (a + n) % PageSize = 0,
         a + n <= b \/ b + m <= a
  PROVE  Pages(a, n) \cap Pages(b, m) = {}
<1> SUFFICES ASSUME NEW k \in Nat, k \in Pages(a, n), k \in Pages(b, m) PROVE FALSE
  BY PagesAreNat
<1>1. PICK d \in Nat : a = PageSize * d
  BY ModZero, DivBounds
<1>2. PICK e \in Nat : a + n = PageSize * e
  <2>1. a + n \in Nat
    OBVIOUS
  <2> QED
    BY <2>1, ModZero, DivBounds
<1>3. /\ a < PageSize * k + PageSize /\ PageSize * k < a + n
      /\ b < PageSize * k + PageSize /\ PageSize * k < b + m
  BY InPages
<1>4. PageSize * k \in Nat /\ PageSize \in Nat /\ PageSize * d \in Nat /\ PageSize * e \in Nat
  BY SuperHeapConstants
<1>5. k < e => PageSize * k + PageSize <= PageSize * e
  BY PageGap
<1>6. k < d => PageSize * k + PageSize <= PageSize * d
  BY PageGap
<1>7. e < k => PageSize * e + PageSize <= PageSize * k
  BY PageGap
<1>8. d < k => PageSize * d + PageSize <= PageSize * k
  BY PageGap
<1> QED
  BY <1>1, <1>2, <1>3, <1>4, <1>5, <1>6, <1>7, <1>8

(* A region of m pages from page p on.                                     *)
LEMMA RegionPages ==
  ASSUME NEW p \in Nat, NEW m \in Nat \ {0}
  PROVE  /\ p * PageSize \in Nat /\ PageSize * m \in Nat \ {0}
         /\ Pages(p * PageSize, PageSize * m) = p .. p + m - 1
         /\ (p * PageSize) % PageSize = 0 /\ (p * PageSize + PageSize * m) % PageSize = 0
<1>1. /\ p * PageSize = PageSize * p /\ PageSize * p \in Nat /\ PageSize \in Nat
      /\ PageSize * m \in Nat \ {0}
      /\ PageSize * p + PageSize * m = PageSize * (p + m)
  BY SuperHeapConstants
<1>2. ASSUME NEW k \in Nat
      PROVE  k \in Pages(PageSize * p, PageSize * m) <=> p <= k /\ k < p + m
  <2>1. k \in Pages(PageSize * p, PageSize * m) <=>
          PageSize * p < PageSize * k + PageSize /\ PageSize * k < PageSize * (p + m)
    BY <1>1, InPages
  <2>2. /\ k < p => PageSize * k + PageSize <= PageSize * p
        /\ p < k => PageSize * p + PageSize <= PageSize * k
    BY PageGap
  <2>3. /\ k < p + m => PageSize * k + PageSize <= PageSize * (p + m)
        /\ p + m < k => PageSize * (p + m) + PageSize <= PageSize * k
    BY PageGap
  <2>4. PageSize * k \in Nat /\ PageSize * (p + m) \in Nat /\ PageSize > 0
    BY SuperHeapConstants
  <2>5. PageSize * p < PageSize * k + PageSize <=> p <= k
    BY <1>1, <2>2, <2>4
  <2>6. PageSize * k < PageSize * (p + m) <=> k < p + m
    BY <1>1, <2>3, <2>4
  <2> QED
    BY <2>1, <2>5, <2>6
<1>3. Pages(PageSize * p, PageSize * m) \subseteq Nat
  BY <1>1, PagesAreNat
<1>4. Pages(PageSize * p, PageSize * m) = p .. p + m - 1
  <2>1. \A k \in Nat : k \in p .. p + m - 1 <=> p <= k /\ k < p + m
    OBVIOUS
  <2>2. p .. p + m - 1 \subseteq Nat
    OBVIOUS
  <2> HIDE DEF Pages
  <2> QED
    BY <1>2, <1>3, <2>1, <2>2
<1>5. (PageSize * p) % PageSize = 0 /\ (PageSize * (p + m)) % PageSize = 0
  <2>1. ASSUME NEW x \in Nat PROVE (PageSize * x) % PageSize = 0
    BY SuperHeapConstants, SMTT(30)
  <2> QED
    BY <2>1
<1> QED
  BY <1>1, <1>4, <1>5

(* expand_heap maps whole pages, enough of them, and room for a header.    *)
LEMMA RegionIsEnough ==
  ASSUME NEW n \in Nat
  PROVE  \E m \in Nat \ {0} : /\ RegionSize(n) = PageSize * m
                              /\ n <= PageSize * m
                              /\ HeaderSize < PageSize * m
<1>1. PICK k \in Nat : InitialSize = PageSize * k
  BY ModZero, DivBounds, SuperHeapConstants
<1>2. n + PageSize - 1 \in Nat
  BY SuperHeapConstants
<1>3. PICK d \in Nat : d = (n + PageSize - 1) \div PageSize
  BY <1>2, DivBounds
<1>4. n + PageSize - 1 < PageSize * d + PageSize
  BY <1>2, <1>3, DivBounds
<1>5. /\ d * PageSize = PageSize * d /\ PageSize * d \in Nat /\ PageSize * k \in Nat
      /\ HeaderSize \in Nat \ {0} /\ HeaderSize < PageSize * k /\ PageSize \in Nat
  BY <1>1, SuperHeapConstants
<1>6. RegionSize(n) = IF PageSize * d < PageSize * k THEN PageSize * k ELSE PageSize * d
  BY <1>1, <1>3, <1>5 DEF RegionSize
<1>7. k # 0 /\ (PageSize * d > 0 => d # 0)
  BY <1>5, SuperHeapConstants
<1>8. CASE PageSize * d < PageSize * k
  <2>1. n <= PageSize * k
    BY <1>4, <1>5, <1>8
  <2> QED
    BY <1>5, <1>6, <1>7, <1>8, <2>1
<1>9. CASE ~(PageSize * d < PageSize * k)
  <2>1. n <= PageSize * d /\ HeaderSize < PageSize * d /\ PageSize * d > 0
    BY <1>4, <1>5, <1>9
  <2> QED
    BY <1>6, <1>7, <1>9, <2>1
<1> QED
  BY <1>8, <1>9

(* Rounding up to 8 loses no bytes.                                        *)
LEMMA AlignUpRounds ==
  ASSUME NEW n \in Nat
  PROVE  AlignUp(n) \in Nat /\ AlignUp(n) % Align = 0 /\ n <= AlignUp(n)
BY DEF AlignUp, Align

(* Whole pages are a multiple of 8 bytes.                                  *)
LEMMA PagesAligned ==
  ASSUME NEW p \in Nat
  PROVE  (p * PageSize) % Align = 0
<1>1. PageSize % 8 = 0 /\ PageSize \in Nat
  BY SuperHeapConstants DEF Align
<1>2. PICK d \in Nat : PageSize = 8 * d
  <2>1. PageSize \div 8 \in Nat /\ PageSize = 8 * (PageSize \div 8)
    BY <1>1
  <2> QED
    BY <2>1
<1>3. p * d \in Nat /\ p * PageSize = 8 * (p * d)
  BY <1>2
<1>4. (8 * (p * d)) % 8 = 0
  BY <1>3
<1> QED
  BY <1>3, <1>4 DEF Align

(* Sums of multiples of 8.                                                 *)
LEMMA EightSum ==
  ASSUME NEW a \in Nat, NEW b \in Nat, NEW c \in Nat, a % 8 = 0, b % 8 = 0, c % 8 = 0
  PROVE  (a + b + c) % 8 = 0
OBVIOUS

-----------------------------------------------------------------------------
(* The layout of a list of blocks l over the mapped pages m.               *)

Span(b) == Pages(b.addr, Extent(b))

(* Every block is backed by mapped pages, and every mapped page by a block.*)
Inside(l, m) == \A i \in 1 .. Len(l) : Span(l[i]) \subseteq m
Covers(l, m) == \A p \in m : \E i \in 1 .. Len(l) : p \in Span(l[i])

Disjoint(l) ==
  \A i, j \in 1 .. Len(l) : i # j => End(l[i]) <= l[j].addr \/ End(l[j]) <= l[i].addr

(* A block that does not start a page starts where the block before it on  *)
(* the list ends; likewise for its end.                                    *)
Chained(l) ==
  \A i \in 1 .. Len(l) :
    /\ l[i].addr % PageSize = 0 \/ (i > 1 /\ End(l[i - 1]) = l[i].addr)
    /\ End(l[i]) % PageSize = 0 \/ (i < Len(l) /\ End(l[i]) = l[i + 1].addr)

Eightfold(l) == \A i \in 1 .. Len(l) : l[i].addr % Align = 0 /\ l[i].size % Align = 0

Layout(l, m) == Inside(l, m) /\ Covers(l, m) /\ Disjoint(l) /\ Chained(l) /\ Eightfold(l)

(* c is the list l with its block i cut in two.                            *)
Cut(l, i, c) ==
  /\ Len(c) = Len(l) + 1
  /\ \A k \in 1 .. i - 1 : c[k] = l[k]
  /\ \A k \in i + 1 .. Len(l) : c[k + 1] = l[k]
  /\ c[i].addr = l[i].addr
  /\ End(c[i]) = c[i + 1].addr
  /\ End(c[i + 1]) = End(l[i])

(* The numbers of a block.                                                 *)
LEMMA BlockNat ==
  ASSUME NEW b \in Block
  PROVE  /\ b.addr \in Nat /\ b.size \in Nat /\ b.free \in BOOLEAN
         /\ Payload(b) = b.addr + HeaderSize /\ Payload(b) \in Nat
         /\ Extent(b) \in Nat \ {0} /\ End(b) \in Nat
         /\ End(b) = b.addr + Extent(b) /\ End(b) = Payload(b) + b.size
BY SuperHeapConstants DEF Block, Payload, Extent, End

(* Blocks, their places and that they are not empty.                       *)
LEMMA ListNat ==
  ASSUME NEW l \in Seq(Block)
  PROVE  /\ Len(l) \in Nat
         /\ \A j \in 1 .. Len(l) : /\ l[j] \in Block
                                   /\ l[j].addr \in Nat /\ End(l[j]) \in Nat
                                   /\ l[j].addr < End(l[j])
<1>1. ASSUME NEW b \in Block PROVE b.addr \in Nat /\ End(b) \in Nat /\ b.addr < End(b)
  <2>1. /\ b.addr \in Nat /\ End(b) \in Nat /\ Extent(b) \in Nat \ {0}
        /\ End(b) = b.addr + Extent(b)
    BY BlockNat
  <2> QED
    BY <2>1
<1> QED
  BY <1>1, LenProperties

(* A part of a block lies on its pages.                                    *)
LEMMA SpanWithin ==
  ASSUME NEW b \in Block, NEW c \in Block, b.addr <= c.addr, End(c) <= End(b)
  PROVE  Span(c) \subseteq Span(b)
<1>1. c.addr + Extent(c) <= b.addr + Extent(b)
  BY BlockNat
<1> QED
  BY <1>1, BlockNat, PagesMonotone DEF Span

(* The halves of a block lie on its pages, and on all of them.             *)
LEMMA SpanCut ==
  ASSUME NEW b \in Block, NEW c \in Block, NEW d \in Block,
         c.addr = b.addr, End(c) = d.addr, End(d) = End(b)
  PROVE  Span(b) = Span(c) \cup Span(d)
<1>1. Extent(b) = Extent(c) + Extent(d) /\ c.addr + Extent(c) = d.addr
  BY BlockNat
<1>2. Pages(c.addr, Extent(c) + Extent(d)) = Pages(c.addr, Extent(c)) \cup Pages(c.addr + Extent(c), Extent(d))
  <2>1. c.addr \in Nat /\ Extent(c) \in Nat \ {0} /\ Extent(d) \in Nat \ {0}
    BY BlockNat
  <2> HIDE DEF Pages
  <2> QED
    BY <2>1, PagesSplit, ZenonT(30)
<1>3. Pages(b.addr, Extent(b)) = Pages(c.addr, Extent(c) + Extent(d))
  BY <1>1
<1> QED
  BY <1>1, <1>2, <1>3 DEF Span

(* What lies in mapped pages ends within the arena.                        *)
LEMMA EndInArena ==
  ASSUME NEW b \in Block, Span(b) \subseteq Page
  PROVE  End(b) <= Arena * PageSize
<1>1. PICK a \in Nat, n \in Nat \ {0} : a = b.addr /\ n = Extent(b) /\ End(b) = a + n
  BY BlockNat
<1>2. a + n - 1 \in Nat /\ Arena \in Nat /\ PageSize \in Nat
  BY SuperHeapConstants
<1>3. PICK k \in Nat : k = (a + n - 1) \div PageSize
  BY <1>2, DivBounds
<1>4. k \in Pages(a, n)
  <2>1. PageSize * k <= a + n - 1 /\ a + n - 1 < PageSize * k + PageSize /\ PageSize * k \in Nat
    BY <1>2, <1>3, DivBounds, SuperHeapConstants
  <2> QED
    BY <1>2, <2>1, InPages
<1>5. k < Arena
  BY <1>1, <1>2, <1>4 DEF Span, Page
<1>6. a + n - 1 < PageSize * Arena
  BY <1>2, <1>3, <1>5, DivLess
<1>7. PageSize * Arena = Arena * PageSize /\ Arena * PageSize \in Nat
  BY <1>2
<1> QED
  BY <1>1, <1>6, <1>7

(* A block that ends in the arena is a block.                              *)
LEMMA BlockInArena ==
  ASSUME NEW a \in Nat, NEW n \in Nat, NEW f \in BOOLEAN, a + HeaderSize + n <= Arena * PageSize
  PROVE  [addr |-> a, size |-> n, free |-> f] \in Block
<1>1. HeaderSize \in Nat \ {0} /\ Arena * PageSize \in Nat
  BY SuperHeapConstants
<1>2. a \in 0 .. Arena * PageSize - 1 /\ n \in 0 .. Arena * PageSize
  BY <1>1
<1> QED
  BY <1>2 DEF Block

(* At most is transitive.                                                  *)
LEMMA UpTo ==
  ASSUME NEW a \in Nat, NEW b \in Nat, NEW c \in Nat, a <= b, b <= c
  PROVE  a <= c
OBVIOUS

(* A buffer no longer than its block ends within it.                       *)
LEMMA FitsIn ==
  ASSUME NEW a \in Nat, NEW n \in Nat, NEW s \in Nat, NEW e \in Nat, n <= s, e = a + s
  PROVE  a + n <= e
OBVIOUS

(* The two halves of a block lie within it, and every other block is kept. *)
LEMMA CutParts ==
  ASSUME NEW l \in Seq(Block), NEW i \in 1 .. Len(l), NEW c \in Seq(Block), Cut(l, i, c)
  PROVE  /\ \A j \in 1 .. Len(c) : j <= i =>
              j \in 1 .. Len(l) /\ c[j].addr = l[j].addr /\ (j < i => c[j] = l[j])
         /\ \A j \in 1 .. Len(c) : j > i =>
              /\ j - 1 \in 1 .. Len(l) /\ End(c[j]) = End(l[j - 1])
              /\ (j > i + 1 => c[j] = l[j - 1])
         /\ i + 1 \in 1 .. Len(c) /\ i \in 1 .. Len(c)
         /\ End(c[i]) = c[i + 1].addr
         /\ l[i].addr < End(c[i]) /\ End(c[i]) < End(l[i])
<1>0. Len(l) \in Nat /\ i \in Nat /\ Len(c) = Len(l) + 1
  BY LenProperties DEF Cut
<1>1. i + 1 \in 1 .. Len(c) /\ i \in 1 .. Len(c)
  BY <1>0
<1>2. c[i] \in Block /\ c[i + 1] \in Block
  BY <1>1
<1>3. l[i].addr < End(c[i]) /\ End(c[i]) < End(l[i])
  <2>1. c[i].addr = l[i].addr /\ End(c[i]) = c[i + 1].addr /\ End(c[i + 1]) = End(l[i])
    BY DEF Cut
  <2>2. /\ c[i].addr \in Nat /\ End(c[i]) = c[i].addr + Extent(c[i]) /\ Extent(c[i]) \in Nat \ {0}
        /\ c[i + 1].addr \in Nat /\ End(c[i + 1]) = c[i + 1].addr + Extent(c[i + 1])
        /\ Extent(c[i + 1]) \in Nat \ {0}
    BY <1>2, BlockNat
  <2> QED
    BY <2>1, <2>2
<1>4. ASSUME NEW j \in 1 .. Len(c), j > i + 1 PROVE c[j] = l[j - 1]
  <2>1. j - 1 \in i + 1 .. Len(l) /\ (j - 1) + 1 = j
    BY <1>0, <1>4
  <2> QED
    BY <2>1 DEF Cut
<1>5. ASSUME NEW j \in 1 .. Len(c), j < i PROVE c[j] = l[j]
  <2>1. j \in 1 .. i - 1
    BY <1>0, <1>5
  <2> QED
    BY <2>1 DEF Cut
<1>6. ASSUME NEW j \in 1 .. Len(c), j > i PROVE j - 1 \in 1 .. Len(l) /\ End(c[j]) = End(l[j - 1])
  <2>1. j - 1 \in 1 .. Len(l) /\ (j = i + 1 => j - 1 = i)
    BY <1>0, <1>6
  <2>2. j = i + 1 => End(c[j]) = End(l[i])
    BY DEF Cut
  <2>3. j # i + 1 => j > i + 1
    BY <1>0, <1>6
  <2> QED
    BY <1>4, <2>1, <2>2, <2>3
<1>7. ASSUME NEW j \in 1 .. Len(c), j <= i PROVE j \in 1 .. Len(l) /\ c[j].addr = l[j].addr
  BY <1>0, <1>5, <1>7 DEF Cut
<1>8. End(c[i]) = c[i + 1].addr
  BY DEF Cut
<1> QED
  BY <1>1, <1>3, <1>4, <1>5, <1>6, <1>7, <1>8

(* Cutting a block keeps the layout.                                       *)
LEMMA CutLayout ==
  ASSUME NEW m, NEW l \in Seq(Block), NEW i \in 1 .. Len(l), NEW c \in Seq(Block),
         Cut(l, i, c), Layout(l, m),
         c[i].size % Align = 0, c[i + 1].size % Align = 0
  PROVE  Layout(c, m)
<1>0. /\ Len(l) \in Nat /\ Len(c) = Len(l) + 1 /\ i \in 1 .. Len(l)
      /\ \A j \in 1 .. Len(l) : l[j] \in Block /\ l[j].addr \in Nat /\ End(l[j]) \in Nat /\ l[j].addr < End(l[j])
      /\ \A j \in 1 .. Len(c) : c[j] \in Block /\ c[j].addr \in Nat /\ End(c[j]) \in Nat /\ c[j].addr < End(c[j])
  BY ListNat DEF Cut
<1>1. /\ \A j \in 1 .. Len(c) : j <= i =>
           j \in 1 .. Len(l) /\ c[j].addr = l[j].addr /\ (j < i => c[j] = l[j])
      /\ \A j \in 1 .. Len(c) : j > i =>
           /\ j - 1 \in 1 .. Len(l) /\ End(c[j]) = End(l[j - 1])
           /\ (j > i + 1 => c[j] = l[j - 1])
      /\ i + 1 \in 1 .. Len(c) /\ i \in 1 .. Len(c)
      /\ End(c[i]) = c[i + 1].addr
      /\ l[i].addr < End(c[i]) /\ End(c[i]) < End(l[i])
  BY CutParts
<1>2. ASSUME NEW j \in 1 .. Len(c)
      PROVE  \E q \in 1 .. Len(l) : /\ q = IF j <= i THEN j ELSE j - 1
                                    /\ l[q].addr <= c[j].addr /\ End(c[j]) <= End(l[q])
  <2>1. CASE j < i
    <3>1. j \in 1 .. Len(l) /\ c[j] = l[j]
      BY <1>0, <1>1, <2>1
    <3> QED
      BY <1>0, <2>1, <3>1
  <2>2. CASE j = i
    BY <1>0, <1>1, <2>2
  <2>3. CASE j = i + 1
    <3>1. i \in 1 .. Len(l) /\ l[i].addr <= c[j].addr /\ End(c[j]) = End(l[j - 1]) /\ j - 1 = i
      BY <1>0, <1>1, <2>3
    <3> QED
      BY <1>0, <2>3, <3>1
  <2>4. CASE j > i + 1
    <3>1. j - 1 \in 1 .. Len(l) /\ c[j] = l[j - 1]
      BY <1>0, <1>1, <2>4
    <3> QED
      BY <1>0, <2>4, <3>1
  <2> QED
    BY <1>0, <2>1, <2>2, <2>3, <2>4
<1>3. Inside(c, m)
  <2> SUFFICES ASSUME NEW j \in 1 .. Len(c) PROVE Span(c[j]) \subseteq m
    BY DEF Inside
  <2>1. PICK q \in 1 .. Len(l) : l[q].addr <= c[j].addr /\ End(c[j]) <= End(l[q])
    BY <1>2
  <2>2. Span(c[j]) \subseteq Span(l[q])
    BY <1>0, <2>1, SpanWithin
  <2> QED
    BY <2>2 DEF Layout, Inside
<1>4. Covers(c, m)
  <2> SUFFICES ASSUME NEW p \in m PROVE \E j \in 1 .. Len(c) : p \in Span(c[j])
    BY DEF Covers
  <2>1. PICK q \in 1 .. Len(l) : p \in Span(l[q])
    BY DEF Layout, Covers
  <2>2. CASE q < i
    <3>1. q \in 1 .. Len(c) /\ c[q] = l[q]
      BY <1>0, <1>1, <2>2
    <3> QED
      BY <2>1, <3>1
  <2>3. CASE q > i
    <3>1. q + 1 \in 1 .. Len(c) /\ c[q + 1] = l[q]
      BY <1>0, <2>3 DEF Cut
    <3> QED
      BY <2>1, <3>1
  <2>4. CASE q = i
    <3>1. Span(l[i]) = Span(c[i]) \cup Span(c[i + 1])
      <4>1. l[i] \in Block /\ c[i] \in Block /\ c[i + 1] \in Block
        BY <1>0, <1>1
      <4>2. c[i].addr = l[i].addr /\ End(c[i]) = c[i + 1].addr /\ End(c[i + 1]) = End(l[i])
        BY DEF Cut
      <4> QED
        BY <4>1, <4>2, SpanCut
    <3> QED
      BY <1>1, <2>1, <2>4, <3>1
  <2> QED
    BY <2>2, <2>3, <2>4
<1>5. Disjoint(c)
  <2> SUFFICES ASSUME NEW j \in 1 .. Len(c), NEW k \in 1 .. Len(c), j < k
               PROVE  End(c[j]) <= c[k].addr \/ End(c[k]) <= c[j].addr
    BY <1>0 DEF Disjoint
  <2>1. PICK q \in 1 .. Len(l) : /\ q = IF j <= i THEN j ELSE j - 1
                                 /\ l[q].addr <= c[j].addr /\ End(c[j]) <= End(l[q])
    BY <1>2
  <2>2. PICK r \in 1 .. Len(l) : /\ r = IF k <= i THEN k ELSE k - 1
                                 /\ l[r].addr <= c[k].addr /\ End(c[k]) <= End(l[r])
    BY <1>2
  <2>3. CASE q = r
    <3>1. j = i /\ k = i + 1
      BY <1>0, <2>1, <2>2, <2>3, SMTT(30)
    <3> QED
      BY <1>0, <1>1, <3>1
  <2>4. CASE q # r
    <3>1. End(l[q]) <= l[r].addr \/ End(l[r]) <= l[q].addr
      BY <2>4 DEF Layout, Disjoint
    <3>2. /\ l[q].addr \in Nat /\ End(l[q]) \in Nat /\ l[r].addr \in Nat /\ End(l[r]) \in Nat
          /\ c[j].addr \in Nat /\ End(c[j]) \in Nat /\ c[k].addr \in Nat /\ End(c[k]) \in Nat
      BY <1>0
    <3>3. l[q].addr <= c[j].addr /\ End(c[j]) <= End(l[q])
      BY <2>1
    <3>4. l[r].addr <= c[k].addr /\ End(c[k]) <= End(l[r])
      BY <2>2
    <3>5. CASE End(l[q]) <= l[r].addr
      <4>1. End(c[j]) <= l[r].addr
        BY <3>2, <3>3, <3>5, UpTo
      <4> QED
        BY <3>2, <3>4, <4>1, UpTo
    <3>6. CASE End(l[r]) <= l[q].addr
      <4>1. End(c[k]) <= l[q].addr
        BY <3>2, <3>4, <3>6, UpTo
      <4> QED
        BY <3>2, <3>3, <4>1, UpTo
    <3> QED
      BY <3>1, <3>5, <3>6
  <2> QED
    BY <2>3, <2>4
<1>6. Chained(c)
  <2> SUFFICES ASSUME NEW j \in 1 .. Len(c)
               PROVE  /\ c[j].addr % PageSize = 0 \/ (j > 1 /\ End(c[j - 1]) = c[j].addr)
                      /\ End(c[j]) % PageSize = 0 \/ (j < Len(c) /\ End(c[j]) = c[j + 1].addr)
    BY DEF Chained
  <2>0. \A q \in 1 .. Len(l) :
          /\ l[q].addr % PageSize = 0 \/ (q > 1 /\ End(l[q - 1]) = l[q].addr)
          /\ End(l[q]) % PageSize = 0 \/ (q < Len(l) /\ End(l[q]) = l[q + 1].addr)
    BY DEF Layout, Chained
  <2>1. ASSUME j <= i
        PROVE  c[j].addr % PageSize = 0 \/ (j > 1 /\ End(c[j - 1]) = c[j].addr)
    <3>1. j \in 1 .. Len(l) /\ c[j].addr = l[j].addr
      BY <1>1, <2>1
    <3>2. j > 1 => j - 1 \in 1 .. Len(c) /\ j - 1 < i
      BY <1>0, <2>1
    <3>3. j > 1 => c[j - 1] = l[j - 1]
      BY <1>0, <1>1, <3>2, SMTT(30)
    <3> QED
      BY <2>0, <3>1, <3>3
  <2>2. ASSUME j > i
        PROVE  c[j].addr % PageSize = 0 \/ (j > 1 /\ End(c[j - 1]) = c[j].addr)
    <3>1. CASE j = i + 1
      BY <1>0, <1>1, <3>1
    <3>2. CASE j > i + 1
      <4>1. /\ j - 1 \in 1 .. Len(l) /\ c[j] = l[j - 1] /\ j - 1 \in 1 .. Len(c) /\ j - 1 > i
        BY <1>0, <1>1, <3>2
      <4>2. End(c[j - 1]) = End(l[(j - 1) - 1])
        BY <1>1, <4>1
      <4> QED
        BY <1>0, <2>0, <4>1, <4>2, SMTT(30)
    <3> QED
      BY <1>0, <2>2, <3>1, <3>2
  <2>3. ASSUME j > i
        PROVE  End(c[j]) % PageSize = 0 \/ (j < Len(c) /\ End(c[j]) = c[j + 1].addr)
    <3>1. j - 1 \in 1 .. Len(l) /\ End(c[j]) = End(l[j - 1])
      BY <1>1, <2>3
    <3>2. j < Len(c) => j + 1 \in 1 .. Len(c) /\ j + 1 > i + 1
      BY <1>0, <2>3
    <3>3. j < Len(c) => c[j + 1] = l[(j + 1) - 1]
      BY <1>0, <1>1, <3>2
    <3>4. (j + 1) - 1 = (j - 1) + 1 /\ (j - 1 < Len(l) => j < Len(c))
      BY <1>0
    <3> QED
      BY <2>0, <3>1, <3>3, <3>4
  <2>4. ASSUME j <= i
        PROVE  End(c[j]) % PageSize = 0 \/ (j < Len(c) /\ End(c[j]) = c[j + 1].addr)
    <3>1. CASE j = i
      BY <1>0, <1>1, <3>1
    <3>2. CASE j < i
      <4>1. /\ c[j] = l[j] /\ j \in 1 .. Len(l) /\ j < Len(l) /\ j < Len(c)
            /\ j + 1 \in 1 .. Len(c) /\ j + 1 <= i
        BY <1>0, <1>1, <3>2
      <4>2. c[j + 1].addr = l[j + 1].addr
        BY <1>1, <4>1
      <4> QED
        BY <2>0, <4>1, <4>2
    <3> QED
      BY <1>0, <2>4, <3>1, <3>2
  <2> QED
    BY <1>0, <2>1, <2>2, <2>3, <2>4
<1>7. Eightfold(c)
  <2>1. l[i].addr % 8 = 0 /\ HeaderSize % 8 = 0 /\ HeaderSize \in Nat /\ c[i].size % 8 = 0
    BY <1>0, SuperHeapConstants DEF Layout, Eightfold, Align
  <2>2. c[i + 1].addr % 8 = 0
    <3>1. c[i + 1].addr = l[i].addr + HeaderSize + c[i].size /\ c[i].size \in Nat /\ l[i].addr \in Nat
      <4>1. c[i] \in Block /\ c[i].addr = l[i].addr
        BY <1>0, <1>1
      <4> QED
        BY <1>0, <1>1, <4>1, BlockNat DEF End, Payload
    <3> QED
      BY <2>1, <3>1, EightSum
  <2>0. \A q \in 1 .. Len(l) : l[q].addr % 8 = 0 /\ l[q].size % 8 = 0
    BY DEF Layout, Eightfold, Align
  <2> SUFFICES ASSUME NEW j \in 1 .. Len(c) PROVE c[j].addr % 8 = 0 /\ c[j].size % 8 = 0
    BY DEF Eightfold, Align
  <2>3. CASE j < i
    BY <1>0, <1>1, <2>0, <2>3, SMTT(30)
  <2>4. CASE j > i + 1
    <3>1. j - 1 \in 1 .. Len(l) /\ c[j] = l[j - 1]
      BY <1>0, <1>1, <2>4
    <3> QED
      BY <2>0, <3>1
  <2>5. CASE j = i
    BY <1>0, <1>1, <2>1, <2>5 DEF Align
  <2>6. CASE j = i + 1
    BY <2>2, <2>6 DEF Align
  <2> QED
    BY <1>0, <2>3, <2>4, <2>5, <2>6
<1> QED
  BY <1>3, <1>4, <1>5, <1>6, <1>7 DEF Layout

(* Fusing two neighbours is the cut undone, and keeps the layout.          *)
LEMMA FuseLayout ==
  ASSUME NEW m, NEW l \in Seq(Block), NEW i \in 1 .. Len(l), NEW c \in Seq(Block),
         Cut(l, i, c), Layout(c, m), l[i].size % Align = 0
  PROVE  Layout(l, m)
<1>0. /\ Len(l) \in Nat /\ Len(c) = Len(l) + 1 /\ i \in 1 .. Len(l)
      /\ \A j \in 1 .. Len(l) : l[j] \in Block /\ l[j].addr \in Nat /\ End(l[j]) \in Nat /\ l[j].addr < End(l[j])
      /\ \A j \in 1 .. Len(c) : c[j] \in Block /\ c[j].addr \in Nat /\ End(c[j]) \in Nat /\ c[j].addr < End(c[j])
  BY ListNat DEF Cut
<1>1. /\ i \in 1 .. Len(c) /\ i + 1 \in 1 .. Len(c)
      /\ c[i].addr = l[i].addr /\ End(c[i]) = c[i + 1].addr /\ End(c[i + 1]) = End(l[i])
  BY <1>0 DEF Cut
<1>2. \A q \in 1 .. Len(l) : q < i => q \in 1 .. Len(c) /\ c[q] = l[q]
  BY <1>0 DEF Cut
<1>3. \A q \in 1 .. Len(l) : q > i => q + 1 \in 1 .. Len(c) /\ q + 1 > i + 1 /\ c[q + 1] = l[q]
  BY <1>0 DEF Cut
<1>4. Span(l[i]) = Span(c[i]) \cup Span(c[i + 1])
  <2>1. l[i] \in Block /\ c[i] \in Block /\ c[i + 1] \in Block
    BY <1>0, <1>1
  <2> QED
    BY <1>1, <2>1, SpanCut
<1>5. Inside(l, m)
  <2> SUFFICES ASSUME NEW q \in 1 .. Len(l) PROVE Span(l[q]) \subseteq m
    BY DEF Inside
  <2>1. \A j \in 1 .. Len(c) : Span(c[j]) \subseteq m
    BY DEF Layout, Inside
  <2>2. q < i \/ q > i \/ q = i
    BY <1>0
  <2> QED
    BY <1>1, <1>2, <1>3, <1>4, <2>1, <2>2
<1>6. Covers(l, m)
  <2> SUFFICES ASSUME NEW p \in m PROVE \E q \in 1 .. Len(l) : p \in Span(l[q])
    BY DEF Covers
  <2>1. PICK j \in 1 .. Len(c) : p \in Span(c[j])
    BY DEF Layout, Covers
  <2>2. CASE j < i
    <3>1. j \in 1 .. Len(l) /\ c[j] = l[j]
      BY <1>0, <1>2, <2>2
    <3> QED
      BY <2>1, <3>1
  <2>3. CASE j = i \/ j = i + 1
    BY <1>0, <1>4, <2>1, <2>3
  <2>4. CASE j > i + 1
    <3>1. j - 1 \in 1 .. Len(l) /\ j - 1 > i /\ (j - 1) + 1 = j
      BY <1>0, <2>4
    <3>2. c[j] = l[j - 1]
      BY <1>3, <3>1
    <3> QED
      BY <2>1, <3>1, <3>2
  <2> QED
    BY <1>0, <2>2, <2>3, <2>4
<1>7. Disjoint(l)
  <2>0. \A j, k \in 1 .. Len(c) : j # k => End(c[j]) <= c[k].addr \/ End(c[k]) <= c[j].addr
    BY DEF Layout, Disjoint
  <2>1. ASSUME NEW k \in 1 .. Len(c), k # i, k # i + 1
        PROVE  End(l[i]) <= c[k].addr \/ End(c[k]) <= l[i].addr
    <3>1. End(c[i]) <= c[k].addr \/ End(c[k]) <= l[i].addr
      BY <1>1, <2>0, <2>1
    <3>2. End(l[i]) <= c[k].addr \/ End(c[k]) <= End(c[i])
      BY <1>1, <2>0, <2>1
    <3>3. c[k].addr < End(c[k]) /\ c[k].addr \in Nat /\ End(c[k]) \in Nat /\ End(c[i]) \in Nat
      BY <1>0, <1>1
    <3> QED
      BY <3>1, <3>2, <3>3
  <2>2. ASSUME NEW q \in 1 .. Len(l), q # i
        PROVE  \E k \in 1 .. Len(c) : /\ k # i /\ k # i + 1 /\ l[q] = c[k]
                                      /\ (q < i => k = q) /\ (q > i => k = q + 1)
    <3>1. CASE q < i
      <4>1. q \in 1 .. Len(c) /\ c[q] = l[q] /\ q # i /\ q # i + 1
        BY <1>0, <1>2, <3>1
      <4> QED
        BY <1>0, <3>1, <4>1
    <3>2. CASE q > i
      <4>1. q + 1 \in 1 .. Len(c) /\ c[q + 1] = l[q] /\ q + 1 # i /\ q + 1 # i + 1
        BY <1>0, <1>3, <3>2
      <4> QED
        BY <1>0, <3>2, <4>1
    <3> QED
      BY <1>0, <2>2, <3>1, <3>2
  <2> SUFFICES ASSUME NEW q \in 1 .. Len(l), NEW r \in 1 .. Len(l), q # r
               PROVE  End(l[q]) <= l[r].addr \/ End(l[r]) <= l[q].addr
    BY DEF Disjoint
  <2>3. CASE q = i
    BY <2>1, <2>2, <2>3
  <2>4. CASE r = i
    BY <2>1, <2>2, <2>4
  <2>5. CASE q # i /\ r # i
    <3>1. PICK j \in 1 .. Len(c) : l[q] = c[j] /\ (q < i => j = q) /\ (q > i => j = q + 1)
      BY <2>2, <2>5
    <3>2. PICK k \in 1 .. Len(c) : l[r] = c[k] /\ (r < i => k = r) /\ (r > i => k = r + 1)
      BY <2>2, <2>5
    <3>3. j # k
      BY <1>0, <2>5, <3>1, <3>2
    <3> QED
      BY <2>0, <3>1, <3>2, <3>3
  <2> QED
    BY <2>3, <2>4, <2>5
<1>8. Chained(l)
  <2>0. \A j \in 1 .. Len(c) :
          /\ c[j].addr % PageSize = 0 \/ (j > 1 /\ End(c[j - 1]) = c[j].addr)
          /\ End(c[j]) % PageSize = 0 \/ (j < Len(c) /\ End(c[j]) = c[j + 1].addr)
    BY DEF Layout, Chained
  <2> SUFFICES ASSUME NEW q \in 1 .. Len(l)
               PROVE  /\ l[q].addr % PageSize = 0 \/ (q > 1 /\ End(l[q - 1]) = l[q].addr)
                      /\ End(l[q]) % PageSize = 0 \/ (q < Len(l) /\ End(l[q]) = l[q + 1].addr)
    BY DEF Chained
  <2>1. ASSUME q <= i
        PROVE  l[q].addr % PageSize = 0 \/ (q > 1 /\ End(l[q - 1]) = l[q].addr)
    <3>1. q \in 1 .. Len(c) /\ c[q].addr = l[q].addr
      BY <1>0, <1>1, <1>2, <2>1
    <3>2. q > 1 => q - 1 \in 1 .. Len(l) /\ q - 1 < i
      BY <1>0, <2>1
    <3>3. q > 1 => c[q - 1] = l[q - 1]
      BY <1>2, <3>2
    <3> QED
      BY <2>0, <3>1, <3>3
  <2>2. ASSUME q > i
        PROVE  l[q].addr % PageSize = 0 \/ (q > 1 /\ End(l[q - 1]) = l[q].addr)
    <3>1. q + 1 \in 1 .. Len(c) /\ c[q + 1] = l[q] /\ (q + 1) - 1 = q /\ q > 1 /\ q - 1 \in 1 .. Len(l)
      BY <1>0, <1>3, <2>2
    <3>2. CASE q = i + 1
      <4>1. q - 1 = i /\ End(c[q]) = End(l[i])
        BY <1>0, <1>1, <3>2
      <4> QED
        BY <2>0, <3>1, <4>1
    <3>3. CASE q > i + 1
      <4>1. q - 1 > i /\ (q - 1) + 1 = q
        BY <1>0, <3>3
      <4>2. c[q] = l[q - 1]
        BY <1>3, <3>1, <4>1
      <4> QED
        BY <2>0, <3>1, <4>2
    <3> QED
      BY <1>0, <2>2, <3>2, <3>3
  <2>3. ASSUME q >= i
        PROVE  End(l[q]) % PageSize = 0 \/ (q < Len(l) /\ End(l[q]) = l[q + 1].addr)
    <3>1. q + 1 \in 1 .. Len(c) /\ End(c[q + 1]) = End(l[q])
      BY <1>0, <1>1, <1>3, <2>3
    <3>2. q + 1 < Len(c) => q + 1 \in 1 .. Len(l) /\ q + 1 > i /\ q < Len(l)
      BY <1>0, <2>3
    <3>3. q + 1 < Len(c) => c[(q + 1) + 1] = l[q + 1]
      BY <1>3, <3>2
    <3> QED
      BY <2>0, <3>1, <3>2, <3>3
  <2>4. ASSUME q < i
        PROVE  End(l[q]) % PageSize = 0 \/ (q < Len(l) /\ End(l[q]) = l[q + 1].addr)
    <3>1. q \in 1 .. Len(c) /\ c[q] = l[q] /\ q < Len(l) /\ q + 1 \in 1 .. Len(l) /\ q + 1 <= i
      BY <1>0, <1>2, <2>4
    <3>2. c[q + 1].addr = l[q + 1].addr
      <4>1. q + 1 < i \/ q + 1 = i
        BY <1>0, <3>1
      <4> QED
        BY <1>1, <1>2, <3>1, <4>1
    <3> QED
      BY <2>0, <3>1, <3>2
  <2> QED
    BY <1>0, <2>1, <2>2, <2>3, <2>4
<1>9. Eightfold(l)
  <2>0. \A j \in 1 .. Len(c) : c[j].addr % Align = 0 /\ c[j].size % Align = 0
    BY DEF Layout, Eightfold
  <2> SUFFICES ASSUME NEW q \in 1 .. Len(l) PROVE l[q].addr % Align = 0 /\ l[q].size % Align = 0
    BY DEF Eightfold
  <2>1. q < i \/ q > i \/ q = i
    BY <1>0
  <2>2. q < i => l[q].addr % Align = 0 /\ l[q].size % Align = 0
    BY <1>2, <2>0
  <2>3. q > i => l[q].addr % Align = 0 /\ l[q].size % Align = 0
    BY <1>3, <2>0
  <2>4. q = i => l[q].addr % Align = 0 /\ l[q].size % Align = 0
    <3>1. c[i].addr % Align = 0
      BY <1>1, <2>0
    <3> QED
      BY <1>1, <3>1
  <2> QED
    BY <2>1, <2>2, <2>3, <2>4
<1> QED
  BY <1>5, <1>6, <1>7, <1>8, <1>9 DEF Layout

(* The layout does not look at the free flags.                             *)
LEMMA FlagsLayout ==
  ASSUME NEW m, NEW l \in Seq(Block), NEW c \in Seq(Block), Layout(l, m), Len(c) = Len(l),
         \A j \in 1 .. Len(l) : c[j].addr = l[j].addr /\ c[j].size = l[j].size
  PROVE  Layout(c, m)
<1>1. Len(l) \in Nat /\ \A j \in 1 .. Len(l) : End(c[j]) = End(l[j]) /\ Span(c[j]) = Span(l[j])
  BY LenProperties DEF End, Payload, Span, Extent
<1>2. \A j \in 1 .. Len(l) : (j > 1 => j - 1 \in 1 .. Len(l)) /\ (j < Len(l) => j + 1 \in 1 .. Len(l))
  BY <1>1
<1>3. Inside(c, m) /\ Covers(c, m)
  BY <1>1 DEF Layout, Inside, Covers
<1>4. Disjoint(c) /\ Eightfold(c)
  BY <1>1 DEF Layout, Disjoint, Eightfold
<1>5. Chained(c)
  BY <1>1, <1>2 DEF Layout, Chained
<1> QED
  BY <1>3, <1>4, <1>5 DEF Layout

(* A region of pages that were not mapped, behind the list.                *)
LEMMA AppendLayout ==
  ASSUME NEW m, NEW l \in Seq(Block), NEW b \in Block, Layout(l, m), Span(b) \cap m = {},
         b.addr % PageSize = 0, End(b) % PageSize = 0, b.addr % Align = 0, b.size % Align = 0
  PROVE  Append(l, b) \in Seq(Block) /\ Layout(Append(l, b), m \cup Span(b))
<1> DEFINE c == Append(l, b)
<1>1. /\ c \in Seq(Block) /\ Len(c) = Len(l) + 1 /\ Len(l) \in Nat
      /\ \A j \in 1 .. Len(l) : c[j] = l[j] /\ j \in 1 .. Len(c)
      /\ c[Len(c)] = b /\ Len(c) \in 1 .. Len(c)
      /\ \A j \in 1 .. Len(c) : j \in 1 .. Len(l) \/ j = Len(c)
  BY AppendProperties, LenProperties
<1> HIDE DEF c
<1>2. Inside(c, m \cup Span(b)) /\ Covers(c, m \cup Span(b))
  BY <1>1 DEF Layout, Inside, Covers
<1>3. Disjoint(c)
  <2>1. ASSUME NEW j \in 1 .. Len(l)
        PROVE  End(l[j]) <= b.addr \/ End(b) <= l[j].addr
    <3>1. l[j] \in Block /\ Span(l[j]) \cap Span(b) = {}
      BY ListNat DEF Layout, Inside
    <3>2. /\ l[j].addr \in Nat /\ Extent(l[j]) \in Nat \ {0} /\ End(l[j]) = l[j].addr + Extent(l[j])
          /\ b.addr \in Nat /\ Extent(b) \in Nat \ {0} /\ End(b) = b.addr + Extent(b)
      BY <3>1, BlockNat
    <3>3. Pages(l[j].addr, Extent(l[j])) \cap Pages(b.addr, Extent(b)) = {}
      BY <3>1 DEF Span
    <3>4. l[j].addr + Extent(l[j]) <= b.addr \/ b.addr + Extent(b) <= l[j].addr
      BY <3>2, <3>3, PagesApart
    <3> QED
      BY <3>2, <3>4
  <2>2. \A j, k \in 1 .. Len(l) : j # k => End(l[j]) <= l[k].addr \/ End(l[k]) <= l[j].addr
    BY DEF Layout, Disjoint
  <2> QED
    BY <1>1, <2>1, <2>2 DEF Disjoint
<1>4. Chained(c)
  <2>0. \A j \in 1 .. Len(l) :
          /\ l[j].addr % PageSize = 0 \/ (j > 1 /\ End(l[j - 1]) = l[j].addr)
          /\ End(l[j]) % PageSize = 0 \/ (j < Len(l) /\ End(l[j]) = l[j + 1].addr)
    BY DEF Layout, Chained
  <2> SUFFICES ASSUME NEW j \in 1 .. Len(c)
               PROVE  /\ c[j].addr % PageSize = 0 \/ (j > 1 /\ End(c[j - 1]) = c[j].addr)
                      /\ End(c[j]) % PageSize = 0 \/ (j < Len(c) /\ End(c[j]) = c[j + 1].addr)
    BY DEF Chained
  <2>1. CASE j = Len(c)
    BY <1>1, <2>1
  <2>2. CASE j \in 1 .. Len(l)
    <3>1. /\ j > 1 => j - 1 \in 1 .. Len(l)
          /\ j < Len(l) => j + 1 \in 1 .. Len(l) /\ j < Len(c)
      BY <1>1, <2>2
    <3> QED
      BY <1>1, <2>0, <2>2, <3>1
  <2> QED
    BY <1>1, <2>1, <2>2
<1>5. Eightfold(c)
  BY <1>1 DEF Layout, Eightfold
<1> QED
  BY <1>1, <1>2, <1>3, <1>4, <1>5 DEF Layout, c

(* Blocks that are made of whole pages.                                    *)
Whole(l) == \A i \in 1 .. Len(l) : l[i].addr % PageSize = 0 /\ End(l[i]) % PageSize = 0

(* Unmapping the first block takes its own pages and no others.            *)
LEMMA TailLayout ==
  ASSUME NEW m, NEW l \in Seq(Block), l # <<>>, Layout(l, m), Whole(l)
  PROVE  /\ Tail(l) \in Seq(Block) /\ Layout(Tail(l), m \ Span(Head(l))) /\ Whole(Tail(l))
         /\ Head(l) = l[1] /\ 1 \in 1 .. Len(l) /\ Len(Tail(l)) = Len(l) - 1
         /\ \A j \in 1 .. Len(Tail(l)) : Tail(l)[j] = l[j + 1] /\ j + 1 \in 1 .. Len(l)
<1> DEFINE c == Tail(l)
<1>1. /\ c \in Seq(Block) /\ Len(l) \in Nat /\ Len(c) = Len(l) - 1 /\ Len(c) \in Nat
      /\ Head(l) = l[1] /\ 1 \in 1 .. Len(l)
      /\ \A j \in 1 .. Len(c) : c[j] = l[j + 1]
  <2>1. Len(l) \in Nat /\ Len(l) # 0
    BY EmptySeq, LenProperties
  <2>2. c \in Seq(Block) /\ Len(c) = Len(l) - 1 /\ \A j \in 1 .. Len(c) : c[j] = l[j + 1]
    BY HeadTailProperties
  <2> QED
    BY <2>1, <2>2
<1>2. \A j \in 1 .. Len(c) : j + 1 \in 1 .. Len(l) /\ j + 1 # 1
  BY <1>1
<1> HIDE DEF c
<1>3. Whole(c) /\ Eightfold(c)
  BY <1>1, <1>2 DEF Whole, Layout, Eightfold
<1>4. Chained(c)
  BY <1>3 DEF Whole, Chained
<1>5. Disjoint(c)
  <2>1. \A j, k \in 1 .. Len(l) : j # k => End(l[j]) <= l[k].addr \/ End(l[k]) <= l[j].addr
    BY DEF Layout, Disjoint
  <2>2. \A j, k \in 1 .. Len(c) : j # k => j + 1 # k + 1
    OBVIOUS
  <2> QED
    BY <1>1, <1>2, <2>1, <2>2 DEF Disjoint
<1>6. ASSUME NEW k \in 1 .. Len(l), k # 1
      PROVE  Span(l[1]) \cap Span(l[k]) = {}
  <2>1. l[1] \in Block /\ l[k] \in Block
    BY <1>1, ListNat
  <2>2. End(l[1]) <= l[k].addr \/ End(l[k]) <= l[1].addr
    BY <1>1, <1>6 DEF Layout, Disjoint
  <2>3. /\ l[1].addr \in Nat /\ Extent(l[1]) \in Nat \ {0} /\ End(l[1]) = l[1].addr + Extent(l[1])
        /\ l[k].addr \in Nat /\ Extent(l[k]) \in Nat \ {0} /\ End(l[k]) = l[k].addr + Extent(l[k])
    BY <2>1, BlockNat
  <2>4. l[1].addr % PageSize = 0 /\ (l[1].addr + Extent(l[1])) % PageSize = 0
    BY <1>1, <2>3 DEF Whole
  <2>5. l[1].addr + Extent(l[1]) <= l[k].addr \/ l[k].addr + Extent(l[k]) <= l[1].addr
    BY <2>2, <2>3
  <2> HIDE DEF Pages
  <2>6. Pages(l[1].addr, Extent(l[1])) \cap Pages(l[k].addr, Extent(l[k])) = {}
    BY <2>3, <2>4, <2>5, WholePagesApart
  <2> QED
    BY <2>6 DEF Span
<1>7. Inside(c, m \ Span(Head(l)))
  BY <1>1, <1>2, <1>6 DEF Layout, Inside
<1>8. Covers(c, m \ Span(Head(l)))
  <2> SUFFICES ASSUME NEW p \in m, p \notin Span(l[1])
               PROVE  \E j \in 1 .. Len(c) : p \in Span(c[j])
    BY <1>1 DEF Covers
  <2>1. PICK k \in 1 .. Len(l) : p \in Span(l[k])
    BY DEF Layout, Covers
  <2>2. k # 1
    BY <2>1
  <2>3. k - 1 \in 1 .. Len(c) /\ (k - 1) + 1 = k
    BY <1>1, <2>2
  <2> QED
    BY <1>1, <2>1, <2>3
<1> QED
  BY <1>1, <1>2, <1>3, <1>4, <1>5, <1>7, <1>8 DEF Layout, c

(* A layout with nothing left to fuse is made of whole pages.              *)
LEMMA NothingToFuse ==
  ASSUME NEW m, NEW l \in Seq(Block), Layout(l, m),
         \A i \in 1 .. Len(l) : i < Len(l) => End(l[i]) # l[i + 1].addr
  PROVE  Whole(l)
<1>1. Len(l) \in Nat
  BY LenProperties
<1> SUFFICES ASSUME NEW i \in 1 .. Len(l) PROVE l[i].addr % PageSize = 0 /\ End(l[i]) % PageSize = 0
  BY DEF Whole
<1>2. i > 1 => i - 1 \in 1 .. Len(l) /\ i - 1 < Len(l) /\ (i - 1) + 1 = i
  BY <1>1
<1>3. i > 1 => End(l[i - 1]) # l[i].addr
  BY <1>2
<1> QED
  BY <1>3 DEF Layout, Chained

(* An address inside a page is not page aligned.                           *)
LEMMA InsidePage ==
  ASSUME NEW a \in Nat, NEW k \in Nat, PageSize * k < a, a < PageSize * k + PageSize
  PROVE  a % PageSize # 0
<1>1. PICK d \in Nat : d = a \div PageSize
  BY DivBounds
<1>2. PageSize * d <= a /\ a < PageSize * d + PageSize
  BY <1>1, DivBounds
<1>3. d < k => PageSize * d + PageSize <= PageSize * k
  BY PageGap
<1>4. k < d => PageSize * k + PageSize <= PageSize * d
  BY PageGap
<1>5. PageSize * d \in Nat /\ PageSize * k \in Nat /\ PageSize \in Nat \ {0}
  BY SuperHeapConstants
<1>6. d = k
  BY <1>2, <1>3, <1>4, <1>5
<1> QED
  BY <1>1, <1>6, ModZero

(* Every set of natural numbers has a least element.                       *)
LEMMA LeastNatural ==
  ASSUME NEW T, T \subseteq Nat, T # {}
  PROVE  \E m \in T : \A k \in T : m <= k
<1> DEFINE R == {x \in Nat \X Nat : x[1] < x[2]}
<1>1. IsWellFoundedOn(R, Nat)
  BY NatLessThanWellFounded DEF OpToRel
<1>2. \A k, m \in Nat : <<k, m>> \in R <=> k < m
  OBVIOUS
<1> HIDE DEF R
<1>3. PICK m \in T : \A k \in T : <<k, m>> \notin R
  BY <1>1, WFMin
<1>4. \A k \in T : ~(k < m)
  BY <1>2, <1>3
<1>5. \A k \in T : m <= k
  BY <1>4
<1> QED
  BY <1>5

(* No byte of a mapped page lies between two blocks.  A block that ended   *)
(* before such a byte within its page would have a next one there, and one *)
(* that began after it a previous one; nearest to the byte there is none.  *)
LEMMA NoGap ==
  ASSUME NEW m, NEW l \in Seq(Block), Layout(l, m),
         NEW p \in Nat, p \in m, NEW x \in Nat, PageSize * p <= x, x < PageSize * p + PageSize
  PROVE  \E i \in 1 .. Len(l) : l[i].addr <= x /\ x < End(l[i])
<1> SUFFICES ASSUME \A i \in 1 .. Len(l) : x < l[i].addr \/ End(l[i]) <= x
             PROVE  FALSE
  <2>1. \A i \in 1 .. Len(l) : l[i].addr \in Nat /\ End(l[i]) \in Nat
    BY ListNat
  <2> QED
    BY <2>1
<1>0. /\ Len(l) \in Nat
      /\ \A j \in 1 .. Len(l) : l[j] \in Block /\ l[j].addr \in Nat /\ End(l[j]) \in Nat /\ l[j].addr < End(l[j])
      /\ PageSize * p \in Nat /\ PageSize \in Nat \ {0}
  BY ListNat, SuperHeapConstants
<1> DEFINE IsAbove(i) == x < l[i].addr /\ l[i].addr < PageSize * p + PageSize
<1> DEFINE IsBelow(i) == End(l[i]) <= x /\ PageSize * p < End(l[i])
<1> DEFINE Above == {l[i].addr : i \in {j \in 1 .. Len(l) : IsAbove(j)}}
<1> DEFINE Below == {x - End(l[i]) : i \in {j \in 1 .. Len(l) : IsBelow(j)}}
<1>a. /\ Above \subseteq Nat
      /\ \A y \in Above : \E i \in 1 .. Len(l) : y = l[i].addr /\ IsAbove(i)
      /\ \A i \in 1 .. Len(l) : IsAbove(i) => l[i].addr \in Above
  BY <1>0
<1>b. /\ Below \subseteq Nat
      /\ \A y \in Below : \E i \in 1 .. Len(l) : y = x - End(l[i]) /\ IsBelow(i)
      /\ \A i \in 1 .. Len(l) : IsBelow(i) => x - End(l[i]) \in Below
  BY <1>0
<1> HIDE DEF Above, Below
<1>1. Above = {}
  <2> SUFFICES ASSUME Above # {} PROVE FALSE
    OBVIOUS
  <2>1. PICK y \in Above : \A z \in Above : y <= z
    BY <1>a, LeastNatural
  <2>2. PICK i \in 1 .. Len(l) : y = l[i].addr /\ IsAbove(i)
    BY <1>a, <2>1
  <2>3. l[i].addr % PageSize # 0
    <3>1. l[i].addr \in Nat /\ PageSize * p < l[i].addr /\ l[i].addr < PageSize * p + PageSize
      BY <1>0, <2>2
    <3> QED
      BY <3>1, InsidePage
  <2>4. i > 1 /\ End(l[i - 1]) = l[i].addr
    BY <2>3 DEF Layout, Chained
  <2>5. i - 1 \in 1 .. Len(l)
    BY <1>0, <2>4
  <2>6. x < l[i - 1].addr /\ l[i - 1].addr < y
    BY <1>0, <2>2, <2>4, <2>5
  <2>7. l[i - 1].addr \in Above
    <3>1. IsAbove(i - 1)
      BY <1>0, <2>2, <2>5, <2>6, SMTT(30)
    <3> QED
      BY <1>a, <2>5, <3>1
  <2> QED
    <3>1. y <= l[i - 1].addr
      BY <2>1, <2>7
    <3>2. y \in Nat /\ l[i - 1].addr \in Nat
      BY <1>a, <2>1, <2>7
    <3> QED
      BY <2>6, <3>1, <3>2
<1>2. Below = {}
  <2> SUFFICES ASSUME Below # {} PROVE FALSE
    OBVIOUS
  <2>1. PICK y \in Below : \A z \in Below : y <= z
    BY <1>b, LeastNatural
  <2>2. PICK i \in 1 .. Len(l) : y = x - End(l[i]) /\ IsBelow(i)
    BY <1>b, <2>1
  <2>3. End(l[i]) % PageSize # 0
    <3>1. End(l[i]) \in Nat /\ PageSize * p < End(l[i]) /\ End(l[i]) < PageSize * p + PageSize
      BY <1>0, <2>2
    <3> QED
      BY <3>1, InsidePage
  <2>4. i < Len(l) /\ End(l[i]) = l[i + 1].addr
    BY <2>3 DEF Layout, Chained
  <2>5. i + 1 \in 1 .. Len(l)
    BY <1>0, <2>4
  <2>6. End(l[i + 1]) <= x /\ End(l[i]) < End(l[i + 1])
    BY <1>0, <2>2, <2>4, <2>5
  <2>7. x - End(l[i + 1]) \in Below
    <3>1. IsBelow(i + 1)
      BY <1>0, <2>2, <2>5, <2>6
    <3> QED
      BY <1>b, <2>5, <3>1
  <2> QED
    BY <1>0, <2>1, <2>2, <2>5, <2>6, <2>7
<1>3. PICK k \in 1 .. Len(l) : p \in Span(l[k])
  BY DEF Layout, Covers
<1>4. l[k].addr < PageSize * p + PageSize /\ PageSize * p < End(l[k])
  <2>1. /\ l[k].addr \in Nat /\ Extent(l[k]) \in Nat \ {0}
        /\ End(l[k]) = l[k].addr + Extent(l[k])
    BY <1>0, BlockNat
  <2> QED
    BY <1>3, <2>1, InPages DEF Span
<1>5. CASE x < l[k].addr
  <2>1. l[k].addr \in Above
    BY <1>a, <1>4, <1>5
  <2> QED
    BY <1>1, <2>1
<1>6. CASE End(l[k]) <= x
  <2>1. x - End(l[k]) \in Below
    BY <1>b, <1>4, <1>6
  <2> QED
    BY <1>2, <2>1
<1> QED
  BY <1>5, <1>6

-----------------------------------------------------------------------------
(* What the caller holds and the blocks marked used are the same buffers.  *)
Held(l, v) ==
  /\ \A i \in 1 .. Len(l) : ~l[i].free => \E b \in v : b.ptr = Payload(l[i])
  /\ \A b \in v : \E i \in 1 .. Len(l) :
       ~l[i].free /\ b.ptr = Payload(l[i]) /\ b.size <= l[i].size
  /\ \A b, d \in v : b.ptr = d.ptr => b = d

(* Neighbours that could be fused exist only while a buffer is held (a new *)
(* region may touch the last block), or ahead of the merge loop.           *)
Merged ==
  /\ pc \in {"idle", "start", "search", "expand"} /\ live = {} =>
       \A i \in 1 .. Len(list) : ~Fusable(i)
  /\ pc = "merge" => \A i \in 1 .. Len(list) : i < at => ~Fusable(i)

(* The size searched for is the one asked for, rounded up.                 *)
Searching ==
  pc \in {"start", "search", "expand", "retry"} =>
    asked \in Requests \ {0} /\ asked <= size /\ size % Align = 0

Cursor ==
  /\ pc \in {"idle", "destroy"} => at = 1
  /\ pc = "start" => list = <<>>

(* destroy_heap finds blocks of whole pages.                               *)
Destroying == pc = "destroy" => live = {} /\ Whole(list)

Counted == pc # "destroy" => total = PageSize * Cardinality(mapped)

(* The inductive invariant.                                                *)
IInv ==
  /\ TypeOK
  /\ Layout(list, mapped)
  /\ Held(list, live)
  /\ Merged /\ Searching /\ Cursor /\ Destroying /\ RetryFits /\ Counted

-----------------------------------------------------------------------------
(* The sequence operators the steps use.                                   *)

(* InsertAt puts e at i and moves the rest up.                             *)
LEMMA InsertAtProperties ==
  ASSUME NEW S, NEW s \in Seq(S), NEW e \in S, NEW i \in 1 .. Len(s) + 1
  PROVE  /\ InsertAt(s, i, e) \in Seq(S)
         /\ Len(InsertAt(s, i, e)) = Len(s) + 1
         /\ \A k \in 1 .. i - 1 : InsertAt(s, i, e)[k] = s[k]
         /\ InsertAt(s, i, e)[i] = e
         /\ \A k \in i .. Len(s) : InsertAt(s, i, e)[k + 1] = s[k]
<1> DEFINE a == SubSeq(s, 1, i - 1)
           b == SubSeq(s, i, Len(s))
<1>1. Len(s) \in Nat /\ i \in Nat /\ \A k \in 1 .. Len(s) : s[k] \in S
  BY LenProperties
<1>2. /\ a \in Seq(S) /\ Len(a) = i - 1 /\ \A k \in 1 .. i - 1 : a[k] = s[k]
  <2>1. \A k \in 1 .. i - 1 : s[k] \in S /\ 1 + k - 1 = k
    BY <1>1
  <2>2. (1 <= i - 1 => (i - 1) - 1 + 1 = i - 1) /\ (~(1 <= i - 1) => i - 1 = 0) /\ i - 1 \in Int
    BY <1>1
  <2> QED
    BY <2>1, <2>2, SubSeqProperties
<1>3. /\ b \in Seq(S) /\ Len(b) = Len(s) - i + 1
      /\ \A k \in 1 .. Len(s) - i + 1 : b[k] = s[i + k - 1]
  <2>1. \A k \in i .. Len(s) : s[k] \in S
    BY <1>1
  <2>2. ~(i <= Len(s)) => Len(s) - i + 1 = 0
    BY <1>1
  <2> QED
    BY <1>1, <2>1, <2>2, SubSeqProperties
<1> HIDE DEF a, b
<1>4. <<e>> \in Seq(S) /\ Len(<<e>>) = 1 /\ <<e>>[1] = e
  OBVIOUS
<1>5. PICK x : x = a \o <<e>>
  OBVIOUS
<1>6. /\ x \in Seq(S) /\ Len(x) = i
      /\ \A k \in 1 .. i - 1 : x[k] = s[k]
      /\ x[i] = e
  <2>1. /\ x \in Seq(S) /\ Len(x) = Len(a) + 1
        /\ \A k \in 1 .. Len(a) + 1 : x[k] = IF k <= Len(a) THEN a[k] ELSE <<e>>[k - Len(a)]
    BY <1>2, <1>4, <1>5, ConcatProperties
  <2>2. /\ Len(a) = i - 1 /\ Len(a) + 1 = i /\ i - Len(a) = 1
    BY <1>1, <1>2
  <2> QED
    BY <1>1, <1>2, <1>4, <2>1, <2>2
<1>7. /\ x \o b \in Seq(S) /\ Len(x \o b) = Len(x) + Len(b)
      /\ \A k \in 1 .. Len(x) + Len(b) : (x \o b)[k] = IF k <= Len(x) THEN x[k] ELSE b[k - Len(x)]
  BY <1>3, <1>6, ConcatProperties
<1>8. InsertAt(s, i, e) = x \o b
  BY <1>5 DEF InsertAt, a, b
<1>9. Len(x \o b) = Len(s) + 1
  BY <1>1, <1>3, <1>6, <1>7
<1>10. \A k \in 1 .. i - 1 : (x \o b)[k] = s[k]
  BY <1>1, <1>3, <1>6, <1>7
<1>11. (x \o b)[i] = e
  BY <1>1, <1>3, <1>6, <1>7
<1>12. ASSUME NEW k \in i .. Len(s) PROVE (x \o b)[k + 1] = s[k]
  <2>1. /\ k + 1 \in 1 .. Len(x) + Len(b) /\ ~(k + 1 <= Len(x)) /\ (k + 1) - Len(x) \in 1 .. Len(s) - i + 1
        /\ i + ((k + 1) - Len(x)) - 1 = k
    BY <1>1, <1>3, <1>6
  <2> QED
    BY <1>3, <1>7, <2>1
<1> QED
  BY <1>7, <1>8, <1>9, <1>10, <1>11, <1>12

(* RemoveAt drops place i and moves the rest down.                         *)
LEMMA RemoveAtProperties ==
  ASSUME NEW S, NEW s \in Seq(S), NEW i \in 1 .. Len(s)
  PROVE  /\ RemoveAt(s, i) \in Seq(S)
         /\ Len(RemoveAt(s, i)) = Len(s) - 1
         /\ \A k \in 1 .. i - 1 : RemoveAt(s, i)[k] = s[k]
         /\ \A k \in i .. Len(s) - 1 : RemoveAt(s, i)[k] = s[k + 1]
<1> DEFINE a == SubSeq(s, 1, i - 1)
           b == SubSeq(s, i + 1, Len(s))
<1>1. Len(s) \in Nat /\ i \in Nat /\ \A k \in 1 .. Len(s) : s[k] \in S
  BY LenProperties
<1>2. /\ a \in Seq(S) /\ Len(a) = i - 1 /\ \A k \in 1 .. i - 1 : a[k] = s[k]
  <2>1. \A k \in 1 .. i - 1 : s[k] \in S /\ 1 + k - 1 = k
    BY <1>1
  <2>2. (1 <= i - 1 => (i - 1) - 1 + 1 = i - 1) /\ (~(1 <= i - 1) => i - 1 = 0) /\ i - 1 \in Int
    BY <1>1
  <2> QED
    BY <2>1, <2>2, SubSeqProperties
<1>3. /\ b \in Seq(S) /\ Len(b) = Len(s) - i
      /\ \A k \in 1 .. Len(s) - i : b[k] = s[i + k]
  <2>1. \A k \in i + 1 .. Len(s) : s[k] \in S
    BY <1>1
  <2>2. /\ i + 1 \in Int /\ Len(s) - (i + 1) + 1 = Len(s) - i /\ (~(i + 1 <= Len(s)) => Len(s) - i = 0)
        /\ \A k \in 1 .. Len(s) - i : (i + 1) + k - 1 = i + k
    BY <1>1
  <2>3. /\ b \in Seq(S)
        /\ Len(b) = IF i + 1 <= Len(s) THEN Len(s) - (i + 1) + 1 ELSE 0
        /\ \A k \in 1 .. Len(s) - (i + 1) + 1 : b[k] = s[(i + 1) + k - 1]
    <3>1. i + 1 \in Int /\ Len(s) \in Int
      BY <1>1
    <3> QED
      BY <2>1, <3>1, SubSeqProperties
  <2> HIDE DEF b
  <2>4. Len(b) = Len(s) - i
    BY <1>1, <2>3
  <2>5. ASSUME NEW k \in 1 .. Len(s) - i PROVE b[k] = s[i + k]
    <3>1. k \in 1 .. Len(s) - (i + 1) + 1 /\ (i + 1) + k - 1 = i + k
      BY <1>1
    <3> QED
      BY <2>3, <3>1
  <2> QED
    BY <2>3, <2>4, <2>5
<1> HIDE DEF a, b
<1>4. /\ a \o b \in Seq(S) /\ Len(a \o b) = Len(a) + Len(b)
      /\ \A k \in 1 .. Len(a) + Len(b) : (a \o b)[k] = IF k <= Len(a) THEN a[k] ELSE b[k - Len(a)]
  BY <1>2, <1>3, ConcatProperties
<1>5. RemoveAt(s, i) = a \o b
  BY DEF RemoveAt, a, b
<1>6. Len(a \o b) = Len(s) - 1 /\ \A k \in 1 .. i - 1 : (a \o b)[k] = s[k]
  BY <1>1, <1>2, <1>3, <1>4
<1>7. ASSUME NEW k \in i .. Len(s) - 1 PROVE (a \o b)[k] = s[k + 1]
  <2>1. /\ k \in 1 .. Len(a) + Len(b) /\ ~(k <= Len(a)) /\ k - Len(a) \in 1 .. Len(s) - i
        /\ i + (k - Len(a)) = k + 1
    BY <1>1, <1>2, <1>3
  <2> QED
    BY <1>3, <1>4, <2>1
<1> QED
  BY <1>4, <1>5, <1>6, <1>7

(* A function on 1 .. n is a sequence.                                     *)
LEMMA FunctionIsSeq ==
  ASSUME NEW S, NEW n \in Nat, NEW f \in [1 .. n -> S]
  PROVE  f \in Seq(S) /\ Len(f) = n
OBVIOUS

-----------------------------------------------------------------------------
(* The steps.                                                              *)

(* Before the first call there is no list.                                 *)
LEMMA InitIInv == Init => IInv
<1> SUFFICES ASSUME Init PROVE IInv
  OBVIOUS
<1>1. /\ list = <<>> /\ Len(list) = 0 /\ <<>> \in Seq(Block) /\ mapped = {} /\ live = {}
      /\ total = 0 /\ pc = "idle" /\ at = 1 /\ asked = 0 /\ size = 0
  BY EmptySeq DEF Init
<1>2. TypeOK
  BY <1>1 DEF TypeOK
<1>3. Layout(list, mapped) /\ Held(list, live)
  BY <1>1 DEF Layout, Inside, Covers, Disjoint, Chained, Eightfold, Held
<1>4. Merged /\ Searching /\ Cursor /\ Destroying /\ RetryFits
  BY <1>1 DEF Merged, Searching, Cursor, Destroying, RetryFits
<1>5. Counted
  <2>1. Cardinality({}) = 0
    BY FS_EmptySet
  <2>2. PageSize * 0 = 0
    BY SuperHeapConstants
  <2> QED
    BY <1>1, <2>1, <2>2 DEF Counted
<1> QED
  BY <1>2, <1>3, <1>4, <1>5 DEF IInv

(* my_malloc starts with its size rounded up.                              *)
LEMMA MallocIInv ==
  ASSUME IInv, NEW n \in Requests, Malloc(n)
  PROVE  IInv'
<1>1. /\ pc = "idle" /\ n # 0 /\ asked' = n /\ size' = AlignUp(n) /\ at' = 1
      /\ pc' = IF list = <<>> THEN "start" ELSE "search"
      /\ UNCHANGED <<list, mapped, total, live>>
  BY DEF Malloc
<1>2. n \in Nat /\ AlignUp(n) \in Nat /\ AlignUp(n) % Align = 0 /\ n <= AlignUp(n)
  BY SuperHeapConstants, AlignUpRounds
<1>3. TypeOK'
  <2>1. 1 \in 1 .. Len(list) + 1
    BY LenProperties DEF IInv, TypeOK
  <2> QED
    BY <1>1, <1>2, <2>1 DEF IInv, TypeOK
<1>4. Layout(list, mapped)' /\ Held(list, live)' /\ Counted'
  BY <1>1 DEF IInv, Counted
<1>5. Merged'
  BY <1>1 DEF IInv, Merged, Fusable
<1>6. Searching' /\ Cursor' /\ Destroying' /\ RetryFits'
  BY <1>1, <1>2 DEF Searching, Cursor, Destroying, RetryFits
<1> QED
  BY <1>3, <1>4, <1>5, <1>6 DEF IInv

(* The steps of a loop that only move the cursor, and those that give up.  *)
LEMMA CursorIInv ==
  ASSUME IInv, ExpandFails \/ SearchAdvance \/ SearchEnd \/ MergeAdvance \/ MergeDone
  PROVE  IInv'
<1>0. UNCHANGED <<list, mapped, total, live>> /\ Len(list) \in Nat /\ TypeOK
  BY LenProperties DEF ExpandFails, SearchAdvance, SearchEnd, MergeAdvance, MergeDone, IInv, TypeOK
<1>1. Layout(list, mapped)' /\ Held(list, live)'
  BY <1>0 DEF IInv
<1>2. CASE ExpandFails
  <2>1. pc \in {"start", "expand"} /\ pc' = "idle" /\ at' = 1 /\ asked' = 0 /\ size' = 0
    BY <1>2 DEF ExpandFails, Return
  <2>2. TypeOK'
    BY <1>0, <2>1 DEF TypeOK
  <2>3. Merged'
    BY <1>0, <2>1 DEF IInv, Merged, Fusable
  <2>4. Searching' /\ Cursor' /\ Destroying' /\ RetryFits'
    BY <2>1 DEF Searching, Cursor, Destroying, RetryFits
  <2>5. Counted'
    BY <1>0, <2>1 DEF IInv, Counted
  <2> QED
    BY <1>1, <2>2, <2>3, <2>4, <2>5 DEF IInv
<1>3. CASE SearchAdvance
  <2>1. /\ pc \in {"search", "retry"} /\ pc' = pc /\ at <= Len(list) /\ ~Fits(list[at]) /\ at' = at + 1
        /\ UNCHANGED <<asked, size>>
    BY <1>3 DEF SearchAdvance
  <2>2. TypeOK'
    BY <1>0, <2>1 DEF TypeOK
  <2>3. Merged' /\ Searching' /\ Cursor' /\ Destroying' /\ Counted'
    BY <1>0, <2>1 DEF IInv, Merged, Fusable, Searching, Cursor, Destroying, Counted
  <2>4. RetryFits'
    <3> SUFFICES ASSUME pc = "retry"
                 PROVE  \E i \in DOMAIN list : i >= at + 1 /\ list[i].free /\ list[i].size >= size
      BY <1>0, <2>1 DEF RetryFits
    <3>1. PICK i \in DOMAIN list : i >= at /\ list[i].free /\ list[i].size >= size
      BY DEF IInv, RetryFits
    <3>2. i # at
      BY <2>1, <3>1 DEF Fits
    <3>3. i \in Nat /\ at \in Nat
      BY <1>0 DEF TypeOK
    <3> QED
      BY <3>1, <3>2, <3>3
  <2> QED
    BY <1>1, <2>2, <2>3, <2>4 DEF IInv
<1>4. CASE SearchEnd
  <2>1. /\ pc \in {"search", "retry"} /\ pc' = "expand" /\ at > Len(list)
        /\ UNCHANGED <<at, asked, size>>
    BY <1>4 DEF SearchEnd
  <2>2. pc = "search"
    <3>1. ASSUME NEW i \in DOMAIN list PROVE ~(i >= at)
      BY <1>0, <2>1 DEF TypeOK
    <3> QED
      BY <2>1, <3>1 DEF IInv, RetryFits
  <2>3. TypeOK'
    BY <1>0, <2>1 DEF TypeOK
  <2>4. Merged' /\ Searching' /\ Cursor' /\ Destroying' /\ Counted' /\ RetryFits'
    BY <1>0, <2>1, <2>2 DEF IInv, Merged, Fusable, Searching, Cursor, Destroying, Counted, RetryFits
  <2> QED
    BY <1>1, <2>3, <2>4 DEF IInv
<1>5. CASE MergeAdvance
  <2>1. /\ pc = "merge" /\ pc' = pc /\ at < Len(list) /\ ~Fusable(at) /\ at' = at + 1
        /\ UNCHANGED <<asked, size>>
    BY <1>5 DEF MergeAdvance
  <2>2. TypeOK'
    BY <1>0, <2>1 DEF TypeOK
  <2>3. Merged'
    <3>1. \A i \in 1 .. Len(list) : i < at + 1 => ~Fusable(i)
      BY <1>0, <2>1 DEF IInv, Merged, TypeOK
    <3> QED
      BY <1>0, <2>1, <3>1 DEF Merged, Fusable
  <2>4. Searching' /\ Cursor' /\ Destroying' /\ Counted' /\ RetryFits'
    BY <1>0, <2>1 DEF IInv, Searching, Cursor, Destroying, Counted, RetryFits
  <2> QED
    BY <1>1, <2>2, <2>3, <2>4 DEF IInv
<1>6. CASE MergeDone
  <2>1. pc = "merge" /\ pc' = "idle" /\ at >= Len(list) /\ at' = 1 /\ asked' = 0 /\ size' = 0
    BY <1>6 DEF MergeDone, Return
  <2>2. TypeOK'
    BY <1>0, <2>1 DEF TypeOK
  <2>3. Merged'
    <3>1. \A i \in 1 .. Len(list) : ~Fusable(i)
      <4>1. ASSUME NEW i \in 1 .. Len(list), Fusable(i) PROVE i < at
        BY <1>0, <2>1, <4>1 DEF Fusable, TypeOK
      <4> QED
        BY <2>1, <4>1 DEF IInv, Merged
    <3> QED
      BY <1>0, <2>1, <3>1 DEF Merged, Fusable
  <2>4. Searching' /\ Cursor' /\ Destroying' /\ Counted' /\ RetryFits'
    BY <1>0, <2>1 DEF IInv, Searching, Cursor, Destroying, Counted, RetryFits
  <2> QED
    BY <1>1, <2>2, <2>3, <2>4 DEF IInv
<1> QED
  BY <1>2, <1>3, <1>4, <1>5, <1>6

(* A heap without held buffers has fused what it could: whole pages.       *)
LEMMA DestroyIInv == IInv /\ Destroy => IInv'
<1> SUFFICES ASSUME IInv, Destroy PROVE IInv'
  OBVIOUS
<1>1. /\ pc = "idle" /\ pc' = "destroy" /\ live = {} /\ at = 1
      /\ UNCHANGED <<list, mapped, total, at, asked, size, live>>
  BY DEF Destroy, IInv, Cursor
<1>2. list \in Seq(Block) /\ Len(list) \in Nat /\ \A i \in 1 .. Len(list) : list[i].free \in BOOLEAN
  BY ListNat, BlockNat DEF IInv, TypeOK
<1>3. \A i \in 1 .. Len(list) : list[i].free
  BY <1>1, <1>2 DEF IInv, Held
<1>4. \A i \in 1 .. Len(list) : i < Len(list) => End(list[i]) # list[i + 1].addr
  <2>1. \A i \in 1 .. Len(list) : ~Fusable(i)
    BY <1>1 DEF IInv, Merged
  <2>2. \A i \in 1 .. Len(list) : i < Len(list) => i + 1 \in 1 .. Len(list)
    BY <1>2
  <2> QED
    BY <1>3, <2>1, <2>2 DEF Fusable
<1>5. Whole(list)
  BY <1>2, <1>4, NothingToFuse DEF IInv
<1>6. TypeOK'
  BY <1>1 DEF IInv, TypeOK
<1>7. Layout(list, mapped)' /\ Held(list, live)' /\ Destroying'
  BY <1>1, <1>5 DEF IInv, Destroying, Whole
<1>8. Merged' /\ Searching' /\ Cursor' /\ RetryFits' /\ Counted'
  BY <1>1 DEF Merged, Searching, Cursor, RetryFits, Counted
<1> QED
  BY <1>6, <1>7, <1>8 DEF IInv

(* expand_heap: a region of fresh pages becomes the last block.            *)
LEMMA ExpandIInv ==
  ASSUME IInv, NEW p \in Page, Expand(p)
  PROVE  IInv'
<1> USE SuperHeapConstants
<1>0. /\ TypeOK /\ Layout(list, mapped) /\ Held(list, live)
      /\ list \in Seq(Block) /\ mapped \subseteq Page /\ Len(list) \in Nat
      /\ pc \in {"start", "expand"} /\ p \in Nat /\ HeaderSize \in Nat \ {0}
      /\ size \in Nat /\ total \in Nat
  BY LenProperties DEF IInv, TypeOK, Expand, Page
<1>1. Required \in Nat
  BY <1>0 DEF Required
<1>2. PICK n \in Nat \ {0} : /\ RegionSize(Required) = PageSize * n
                             /\ Required <= PageSize * n /\ HeaderSize < PageSize * n
  BY <1>1, RegionIsEnough
<1>3. PICK a, bytes : a = p * PageSize /\ bytes = PageSize * n
  OBVIOUS
<1>4. /\ a \in Nat /\ bytes \in Nat \ {0} /\ HeaderSize < bytes /\ Required <= bytes
      /\ Pages(a, bytes) = p .. p + n - 1
      /\ a % PageSize = 0 /\ (a + bytes) % PageSize = 0
  BY <1>0, <1>2, <1>3, RegionPages
<1>5. PICK b : b = [addr |-> a, size |-> bytes - HeaderSize, free |-> TRUE]
  OBVIOUS
<1>6. /\ Pages(a, bytes) \subseteq Page \ mapped
      /\ mapped' = mapped \cup Pages(a, bytes)
      /\ list' = Append(list, b)
      /\ total' = total + bytes /\ at' = 1
      /\ pc' = IF pc = "start" THEN "search" ELSE "retry"
      /\ UNCHANGED <<asked, size, live>>
  BY <1>2, <1>3, <1>5 DEF Expand, NewBlock
<1>7. /\ b.addr = a /\ b.size = bytes - HeaderSize /\ b.size \in Nat /\ b.free
      /\ Extent(b) = bytes /\ End(b) = a + bytes /\ Span(b) = Pages(a, bytes)
  <2>1. b.addr = a /\ b.size = bytes - HeaderSize /\ b.free
    BY <1>5
  <2>2. b.size \in Nat /\ b.size + HeaderSize = bytes /\ a + HeaderSize + b.size = a + bytes
    BY <1>0, <1>4, <2>1
  <2> QED
    BY <2>1, <2>2 DEF Extent, End, Payload, Span
<1>8. b \in Block
  <2>1. p + n - 1 \in p .. p + n - 1
    BY <1>0
  <2>2. p + n - 1 < Arena
    BY <1>4, <1>6, <2>1 DEF Page
  <2>3. p + n <= Arena /\ p + n \in Nat /\ Arena \in Nat
    BY <1>0, <2>2
  <2>4. PageSize * (p + n) = a + bytes
    BY <1>0, <1>3
  <2>5. PageSize * (p + n) <= Arena * PageSize
    <3>1. p + n < Arena => PageSize * (p + n) + PageSize <= PageSize * Arena
      BY <2>3, PageGap
    <3>2. PageSize * Arena = Arena * PageSize /\ PageSize * Arena \in Nat /\ PageSize * (p + n) \in Nat
      BY <2>3
    <3> QED
      BY <2>3, <3>1, <3>2
  <2>6. a + HeaderSize + (bytes - HeaderSize) = a + bytes /\ bytes - HeaderSize \in Nat
    BY <1>0, <1>4
  <2>7. a + HeaderSize + (bytes - HeaderSize) <= Arena * PageSize
    BY <2>4, <2>5, <2>6
  <2> QED
    BY <1>4, <1>5, <2>6, <2>7, BlockInArena
<1>9. b.addr % Align = 0 /\ b.size % Align = 0
  <2>1. a % 8 = 0 /\ bytes % 8 = 0
    <3>1. (n * PageSize) % Align = 0 /\ bytes = n * PageSize
      BY <1>3, PagesAligned
    <3> QED
      BY <1>0, <1>3, <3>1, PagesAligned DEF Align
  <2>2. HeaderSize % 8 = 0
    BY DEF Align
  <2>3. (bytes - HeaderSize) % 8 = 0
    BY <1>0, <1>4, <2>1, <2>2
  <2> QED
    BY <1>7, <2>1, <2>3 DEF Align
<1>10. list' \in Seq(Block) /\ Layout(list, mapped)'
  <2>1. Append(list, b) \in Seq(Block) /\ Layout(Append(list, b), mapped \cup Span(b))
    BY <1>0, <1>4, <1>6, <1>7, <1>8, <1>9, AppendLayout
  <2> QED
    BY <1>6, <1>7, <2>1
<1>11. /\ Len(list') = Len(list) + 1 /\ list'[Len(list) + 1] = b
       /\ \A i \in 1 .. Len(list) : list'[i] = list[i] /\ i \in 1 .. Len(list')
       /\ \A i \in 1 .. Len(list') : i \in 1 .. Len(list) \/ i = Len(list) + 1
       /\ Len(list) + 1 \in 1 .. Len(list')
  BY <1>0, <1>6, <1>8, AppendProperties
<1>12. TypeOK'
  BY <1>0, <1>4, <1>6, <1>10, <1>11 DEF TypeOK
<1>13. Held(list, live)'
  <2>1. \A i \in 1 .. Len(list) : ~list[i].free => \E d \in live : d.ptr = Payload(list[i])
    BY <1>0 DEF Held
  <2>2. \A d \in live : \E i \in 1 .. Len(list) :
          ~list[i].free /\ d.ptr = Payload(list[i]) /\ d.size <= list[i].size
    BY <1>0 DEF Held
  <2>3. \A i \in 1 .. Len(list') : ~list'[i].free => \E d \in live : d.ptr = Payload(list'[i])
    BY <1>7, <1>11, <2>1
  <2>4. \A d \in live : \E i \in 1 .. Len(list') :
          ~list'[i].free /\ d.ptr = Payload(list'[i]) /\ d.size <= list'[i].size
    BY <1>11, <2>2
  <2>5. \A d, e \in live : d.ptr = e.ptr => d = e
    BY <1>0 DEF Held
  <2> QED
    BY <1>6, <2>3, <2>4, <2>5 DEF Held, Payload
<1>14. Merged'
  <2>1. CASE pc = "start"
    <3>1. Len(list) = 0
      BY <2>1, EmptySeq DEF IInv, Cursor
    <3>2. \A i \in 1 .. Len(list') : ~(i < Len(list'))
      BY <1>11, <3>1
    <3> QED
      BY <1>6, <2>1, <3>2 DEF Merged, Fusable
  <2>2. CASE pc = "expand"
    BY <1>6, <2>2 DEF Merged
  <2> QED
    BY <1>0, <2>1, <2>2
<1>15. Searching' /\ Cursor' /\ Destroying'
  BY <1>0, <1>6 DEF IInv, Searching, Cursor, Destroying
<1>16. RetryFits'
  <2> SUFFICES ASSUME pc = "expand"
               PROVE  \E i \in DOMAIN list' : i >= 1 /\ list'[i].free /\ list'[i].size >= size
    BY <1>0, <1>6 DEF RetryFits
  <2>1. Required = size + HeaderSize
    BY DEF Required
  <2>2. b.size >= size
    BY <1>0, <1>4, <1>7, <2>1
  <2>3. DOMAIN list' = 1 .. Len(list')
    BY <1>10, LenProperties
  <2>4. Len(list) + 1 >= 1
    BY <1>0
  <2> QED
    BY <1>7, <1>11, <2>2, <2>3, <2>4
<1>17. Counted'
  <2>1. total = PageSize * Cardinality(mapped)
    BY <1>0 DEF IInv, Counted
  <2>2. IsFiniteSet(mapped) /\ Cardinality(mapped) \in Nat
    <3>1. IsFiniteSet(Page)
      BY FS_Interval DEF Page
    <3> QED
      BY <1>0, <3>1, FS_Subset, FS_CardinalityType
  <2>3. IsFiniteSet(Pages(a, bytes)) /\ Cardinality(Pages(a, bytes)) = n
    <3>1. /\ p \in Int /\ p + n - 1 \in Int /\ ~(p > p + n - 1) /\ (p + n - 1) - p + 1 = n
      BY <1>0
    <3>2. /\ IsFiniteSet(p .. p + n - 1)
          /\ Cardinality(p .. p + n - 1) =
               IF p > p + n - 1 THEN 0 ELSE (p + n - 1) - p + 1
      BY <3>1, FS_Interval
    <3> QED
      BY <1>4, <3>1, <3>2
  <2>4. Cardinality(mapped \cap Pages(a, bytes)) = 0
    <3>1. mapped \cap Pages(a, bytes) = {}
      BY <1>6
    <3> QED
      BY <3>1, FS_EmptySet
  <2>5. Cardinality(mapped') = Cardinality(mapped) + n
    <3>1. Cardinality(mapped \cup Pages(a, bytes)) =
            Cardinality(mapped) + Cardinality(Pages(a, bytes)) - Cardinality(mapped \cap Pages(a, bytes))
      BY <2>2, <2>3, FS_Union
    <3> QED
      BY <1>6, <2>2, <2>3, <2>4, <3>1
  <2>6. PICK k \in Nat : k = Cardinality(mapped)
    BY <2>2
  <2>7. PageSize * (k + n) = PageSize * k + PageSize * n
    OBVIOUS
  <2>8. total' = PageSize * (k + n)
    BY <1>3, <1>6, <2>1, <2>6, <2>7
  <2> QED
    BY <2>5, <2>6, <2>8 DEF Counted
<1> QED
  BY <1>10, <1>12, <1>13, <1>14, <1>15, <1>16, <1>17 DEF IInv

(* A place in memory belongs to one block of the list.                     *)
LEMMA OnePlace ==
  ASSUME NEW l \in Seq(Block), Disjoint(l), NEW i \in 1 .. Len(l), NEW j \in 1 .. Len(l),
         Payload(l[i]) = Payload(l[j])
  PROVE  i = j
<1>1. /\ l[i].addr \in Nat /\ End(l[i]) \in Nat /\ l[i].addr < End(l[i])
      /\ l[j].addr \in Nat /\ End(l[j]) \in Nat /\ l[j].addr < End(l[j])
  BY ListNat
<1>2. l[i].addr = l[j].addr
  BY <1>1, SuperHeapConstants, SMTT(30) DEF Payload
<1> SUFFICES ASSUME i # j PROVE FALSE
  OBVIOUS
<1>3. End(l[i]) <= l[j].addr \/ End(l[j]) <= l[i].addr
  BY DEF Disjoint
<1> QED
  BY <1>1, <1>2, <1>3

(* Block t, which was free, is handed out as the buffer g.                 *)
LEMMA TakeHeld ==
  ASSUME NEW v, NEW g, NEW l \in Seq(Block), NEW c \in Seq(Block), Disjoint(l), Held(l, v),
         NEW t \in 1 .. Len(l), l[t].free,
         t \in 1 .. Len(c), ~c[t].free, c[t].addr = l[t].addr,
         g.ptr = Payload(l[t]), g.size <= c[t].size,
         \A j \in 1 .. Len(c) : j # t => c[j].free \/ \E i \in 1 .. Len(l) : c[j] = l[i],
         \A i \in 1 .. Len(l) : i # t => \E j \in 1 .. Len(c) : c[j] = l[i]
  PROVE  Held(c, v \cup {g})
<1>1. Payload(c[t]) = Payload(l[t])
  BY DEF Payload
<1>2. ASSUME NEW j \in 1 .. Len(c), ~c[j].free
      PROVE  \E b \in v \cup {g} : b.ptr = Payload(c[j])
  <2>1. CASE j = t
    BY <1>1, <2>1
  <2>2. CASE j # t
    <3>1. PICK i \in 1 .. Len(l) : c[j] = l[i]
      BY <1>2, <2>2
    <3> QED
      BY <1>2, <3>1 DEF Held
  <2> QED
    BY <2>1, <2>2
<1>3. ASSUME NEW b \in v
      PROVE  \E i \in 1 .. Len(l) :
               i # t /\ ~l[i].free /\ b.ptr = Payload(l[i]) /\ b.size <= l[i].size
  BY DEF Held
<1>4. ASSUME NEW b \in v \cup {g}
      PROVE  \E j \in 1 .. Len(c) : ~c[j].free /\ b.ptr = Payload(c[j]) /\ b.size <= c[j].size
  <2>1. CASE b = g
    BY <1>1, <2>1
  <2>2. CASE b \in v
    <3>1. PICK i \in 1 .. Len(l) : i # t /\ ~l[i].free /\ b.ptr = Payload(l[i]) /\ b.size <= l[i].size
      BY <1>3, <2>2
    <3>2. PICK j \in 1 .. Len(c) : c[j] = l[i]
      BY <3>1
    <3> QED
      BY <3>1, <3>2
  <2> QED
    BY <2>1, <2>2
<1>5. ASSUME NEW b \in v PROVE b.ptr # g.ptr
  <2>1. PICK i \in 1 .. Len(l) : i # t /\ b.ptr = Payload(l[i])
    BY <1>3
  <2> QED
    BY <2>1, OnePlace
<1>6. \A b, d \in v \cup {g} : b.ptr = d.ptr => b = d
  BY <1>5 DEF Held
<1> QED
  BY <1>2, <1>4, <1>6 DEF Held

(* The search ends at a free block that fits.                              *)
LEMMA Taking ==
  ASSUME IInv, SearchTake
  PROVE  /\ list \in Seq(Block) /\ Len(list) \in Nat /\ at \in 1 .. Len(list)
         /\ Layout(list, mapped) /\ Held(list, live)
         /\ list[at] \in Block /\ list[at].free /\ size <= list[at].size
         /\ asked \in Requests \ {0} /\ asked \in Nat \ {0} /\ asked <= size
         /\ size \in Nat \ {0} /\ size % Align = 0
         /\ pc \in {"search", "retry"} /\ Payload(list[at]) \in Nat
<1>1. TypeOK /\ Layout(list, mapped) /\ Held(list, live) /\ Searching
  BY DEF IInv
<1>2. pc \in {"search", "retry"} /\ at <= Len(list) /\ list[at].free /\ list[at].size >= size
  BY DEF SearchTake, Fits
<1>3. list \in Seq(Block) /\ Len(list) \in Nat /\ at \in 1 .. Len(list)
  BY <1>1, <1>2, LenProperties DEF TypeOK
<1>4. list[at] \in Block /\ list[at].size \in Nat /\ Payload(list[at]) \in Nat
  BY <1>3, BlockNat, ListNat
<1>5. asked \in Requests \ {0} /\ asked <= size /\ size % Align = 0 /\ asked \in Nat \ {0} /\ size \in Nat
  BY <1>1, <1>2 DEF Searching, TypeOK
<1>6. size # 0
  BY <1>5
<1> QED
  BY <1>1, <1>2, <1>3, <1>4, <1>5, <1>6

(* What my_malloc returning a block leaves of the invariant to show.       *)
LEMMA TakeRest ==
  ASSUME IInv, SearchTake, list' \in Seq(Block), Layout(list', mapped),
         Held(list', live \cup {[ptr |-> Payload(list[at]), size |-> asked]})
  PROVE  IInv'
<1>1. /\ pc \in {"search", "retry"} /\ pc' = "idle" /\ at' = 1 /\ asked' = 0 /\ size' = 0
      /\ live' = live \cup {[ptr |-> Payload(list[at]), size |-> asked]}
      /\ UNCHANGED <<mapped, total>>
  BY DEF SearchTake, Return
<1>2. TypeOK'
  <2>1. 1 \in 1 .. Len(list') + 1
    BY LenProperties
  <2>2. [ptr |-> Payload(list[at]), size |-> asked] \in [ptr : Nat, size : Nat]
    BY Taking
  <2> QED
    BY <1>1, <2>1, <2>2 DEF IInv, TypeOK
<1>3. Layout(list, mapped)' /\ Held(list, live)'
  BY <1>1
<1>4. Merged' /\ Searching' /\ Cursor' /\ Destroying' /\ RetryFits'
  BY <1>1 DEF Merged, Searching, Cursor, Destroying, RetryFits
<1>5. Counted'
  BY <1>1 DEF IInv, Counted
<1> QED
  BY <1>2, <1>3, <1>4, <1>5 DEF IInv

(* A block is handed out whole when little would be left of it.            *)
LEMMA TakeWholeIInv ==
  ASSUME IInv, SearchTake, ~(list[at].size > size + HeaderSize + 8)
  PROVE  IInv'
<1>1. list' = [list EXCEPT ![at].free = FALSE]
  BY DEF SearchTake
<1>2. PICK b : b = [list[at] EXCEPT !.free = FALSE]
  OBVIOUS
<1>3. b \in Block /\ b.addr = list[at].addr /\ b.size = list[at].size /\ ~b.free
  BY <1>2, Taking DEF Block
<1>4. list' = [list EXCEPT ![at] = b]
  BY <1>1, <1>2
<1>5. /\ list' \in Seq(Block) /\ Len(list') = Len(list)
      /\ \A j \in 1 .. Len(list) : list'[j] = IF j = at THEN b ELSE list[j]
  BY <1>3, <1>4, Taking, ExceptSeq
<1>6. Layout(list', mapped)
  <2>1. \A j \in 1 .. Len(list) : list'[j].addr = list[j].addr /\ list'[j].size = list[j].size
    BY <1>3, <1>5
  <2> QED
    BY <1>5, <2>1, Taking, FlagsLayout
<1>7. PICK g : g = [ptr |-> Payload(list[at]), size |-> asked]
  OBVIOUS
<1>8. Held(list', live \cup {g})
  <2>1. g.ptr = Payload(list[at]) /\ g.size = asked
    BY <1>7
  <2>2. g.size <= list'[at].size
    <3>1. list'[at].size = list[at].size /\ asked \in Nat /\ size \in Nat /\ list[at].size \in Nat
      BY <1>3, <1>5, Taking, BlockNat
    <3> QED
      BY <2>1, <3>1, Taking
  <2>3. ~list'[at].free /\ list'[at].addr = list[at].addr /\ at \in 1 .. Len(list')
    BY <1>3, <1>5, Taking
  <2>4. \A j \in 1 .. Len(list') : j # at => list'[j].free \/ \E i \in 1 .. Len(list) : list'[j] = list[i]
    BY <1>5
  <2>5. \A i \in 1 .. Len(list) : i # at => \E j \in 1 .. Len(list') : list'[j] = list[i]
    BY <1>5
  <2>6. Disjoint(list) /\ Held(list, live) /\ list \in Seq(Block) /\ at \in 1 .. Len(list) /\ list[at].free
    BY Taking DEF Layout
  <2> QED
    BY <1>5, <2>1, <2>2, <2>3, <2>4, <2>5, <2>6, TakeHeld
<1> QED
  BY <1>5, <1>6, <1>7, <1>8, TakeRest

(* Otherwise it is cut, and the rest stays free.                           *)
LEMMA TakeSplitIInv ==
  ASSUME IInv, SearchTake, list[at].size > size + HeaderSize + 8
  PROVE  IInv'
<1> USE SuperHeapConstants
<1>0. PICK t, b, n : t = at /\ b = list[at] /\ n = size
  OBVIOUS
<1>1. /\ list \in Seq(Block) /\ Len(list) \in Nat /\ t \in 1 .. Len(list) /\ b = list[t]
      /\ Layout(list, mapped) /\ Held(list, live)
      /\ b \in Block /\ b.free /\ b.addr \in Nat /\ b.size \in Nat
      /\ n \in Nat \ {0} /\ n % Align = 0 /\ n + HeaderSize < b.size
      /\ HeaderSize \in Nat \ {0}
  <2>1. /\ list \in Seq(Block) /\ Len(list) \in Nat /\ t \in 1 .. Len(list) /\ b = list[t]
        /\ Layout(list, mapped) /\ Held(list, live) /\ b \in Block /\ b.free
        /\ n \in Nat \ {0} /\ n % Align = 0
    BY <1>0, Taking
  <2>2. b.addr \in Nat /\ b.size \in Nat
    BY <2>1, BlockNat
  <2>3. b.size > n + HeaderSize + 8
    BY <1>0
  <2> QED
    BY <2>1, <2>2, <2>3
<1>b. PICK x : x = [b EXCEPT !.size = n]
  OBVIOUS
<1>c. PICK u : u = [x EXCEPT !.free = FALSE]
  OBVIOUS
<1>2. PICK r : r = [addr |-> Payload(b) + n, size |-> b.size - n - HeaderSize, free |-> TRUE]
  OBVIOUS
<1>3. End(b) <= Arena * PageSize /\ Arena * PageSize \in Nat /\ End(b) = b.addr + HeaderSize + b.size
  <2>1. Span(b) \subseteq Page
    BY <1>1 DEF Layout, Inside, IInv, TypeOK
  <2> QED
    BY <1>1, <2>1, EndInArena DEF End, Payload
<1>4. /\ u \in Block /\ u.addr = b.addr /\ u.size = n /\ ~u.free
      /\ End(u) = b.addr + HeaderSize + n
  <2>1. u \in Block /\ u.addr = b.addr /\ u.size = n /\ ~u.free
    <3>1. n \in 0 .. Arena * PageSize
      BY <1>1, <1>3, SMTT(30)
    <3>2. x \in Block /\ x.addr = b.addr /\ x.size = n
      BY <1>1, <1>b, <3>1 DEF Block
    <3> QED
      BY <1>c, <3>2 DEF Block
  <2> QED
    BY <2>1 DEF End, Payload
<1>5. /\ r \in Block /\ r.addr = b.addr + HeaderSize + n /\ r.size = b.size - n - HeaderSize /\ r.free
      /\ End(r) = End(b)
  <2>1. /\ b.addr + HeaderSize + n \in Nat /\ b.size - n - HeaderSize \in Nat
        /\ (b.addr + HeaderSize + n) + HeaderSize + (b.size - n - HeaderSize) = b.addr + HeaderSize + b.size
    <3>1. PICK v \in Nat, y \in Nat, h \in Nat : v = b.addr /\ y = b.size /\ h = HeaderSize
      BY <1>1
    <3>2. n + h < y /\ n \in Nat
      BY <1>1, <3>1
    <3>3. v + h + n \in Nat /\ y - n - h \in Nat /\ (v + h + n) + h + (y - n - h) = v + h + y
      BY <3>2
    <3> QED
      BY <3>1, <3>3
  <2>2. r = [addr |-> b.addr + HeaderSize + n, size |-> b.size - n - HeaderSize, free |-> TRUE]
    BY <1>2 DEF Payload
  <2>3. r \in Block
    BY <1>3, <2>1, <2>2, BlockInArena
  <2> QED
    BY <1>3, <2>1, <2>2, <2>3 DEF End, Payload
<1>6. PICK m : m = [list EXCEPT ![t] = u]
  OBVIOUS
<1>7. list' = InsertAt(m, t + 1, r)
  <2>1. list' = SplitBlock(t, n)
    BY <1>0 DEF SearchTake
  <2>2. [list EXCEPT ![t].size = n, ![t].free = FALSE] = m
    <3>1. [[b EXCEPT !.size = n] EXCEPT !.free = FALSE] = u
      BY <1>b, <1>c
    <3>2. DOMAIN list = 1 .. Len(list)
      BY <1>1, LenProperties
    <3> QED
      BY <1>1, <1>6, <3>1, <3>2
  <2> QED
    BY <1>1, <1>2, <2>1, <2>2 DEF SplitBlock
<1>8. /\ m \in Seq(Block) /\ Len(m) = Len(list) /\ m[t] = u
      /\ \A j \in 1 .. Len(list) : j # t => m[j] = list[j]
  BY <1>1, <1>4, <1>6, ExceptSeq
<1>9. /\ list' \in Seq(Block) /\ Len(list') = Len(list) + 1
      /\ \A k \in 1 .. t - 1 : list'[k] = list[k]
      /\ list'[t] = u /\ list'[t + 1] = r
      /\ \A k \in t + 1 .. Len(list) : list'[k + 1] = list[k]
  <2>1. t + 1 \in 1 .. Len(m) + 1 /\ (t + 1) - 1 = t /\ t \in 1 .. t
    BY <1>1, <1>8
  <2>2. /\ list' \in Seq(Block) /\ Len(list') = Len(m) + 1
        /\ \A k \in 1 .. (t + 1) - 1 : list'[k] = m[k]
        /\ list'[t + 1] = r
        /\ \A k \in t + 1 .. Len(m) : list'[k + 1] = m[k]
    <3>1. PICK q \in 1 .. Len(m) + 1 : q = t + 1
      BY <2>1
    <3>2. r \in Block /\ m \in Seq(Block) /\ list' = InsertAt(m, q, r)
      BY <1>5, <1>7, <1>8, <3>1
    <3>3. /\ list' \in Seq(Block) /\ Len(list') = Len(m) + 1
          /\ \A k \in 1 .. q - 1 : list'[k] = m[k]
          /\ list'[q] = r
          /\ \A k \in q .. Len(m) : list'[k + 1] = m[k]
      BY <3>2, InsertAtProperties, SMTT(30)
    <3> QED
      BY <3>1, <3>3
  <2>3. \A k \in 1 .. t - 1 : k \in 1 .. t /\ k \in 1 .. Len(list) /\ k # t
    BY <1>1
  <2>4. \A k \in t + 1 .. Len(list) : k \in 1 .. Len(list) /\ k # t
    BY <1>1
  <2> QED
    BY <1>8, <2>1, <2>2, <2>3, <2>4
<1>10. Cut(list, t, list')
  BY <1>1, <1>4, <1>5, <1>9 DEF Cut
<1>11. Layout(list', mapped)
  <2>1. (b.size - n - HeaderSize) % 8 = 0
    <3>1. b.size % 8 = 0 /\ HeaderSize % 8 = 0 /\ n % 8 = 0
      BY <1>1 DEF Layout, Eightfold, Align
    <3> QED
      BY <1>1, <3>1, SMTT(30)
  <2>2. list'[t].size % Align = 0 /\ list'[t + 1].size % Align = 0
    BY <1>1, <1>4, <1>5, <1>9, <2>1 DEF Align
  <2> QED
    BY <1>1, <1>9, <1>10, <2>2, CutLayout
<1>12. PICK g : g = [ptr |-> Payload(list[at]), size |-> asked]
  OBVIOUS
<1>13. Held(list', live \cup {g})
  <2>1. g.ptr = Payload(list[t]) /\ g.size <= list'[t].size /\ list[t].free
    BY <1>0, <1>1, <1>4, <1>9, <1>12, Taking, SMTT(30)
  <2>2. ~list'[t].free /\ list'[t].addr = list[t].addr /\ t \in 1 .. Len(list')
    BY <1>1, <1>4, <1>9
  <2>3. ASSUME NEW j \in 1 .. Len(list'), j # t
        PROVE  list'[j].free \/ \E i \in 1 .. Len(list) : list'[j] = list[i]
    <3>1. CASE j < t
      <4>1. j \in 1 .. t - 1 /\ j \in 1 .. Len(list)
        BY <1>1, <3>1
      <4> QED
        BY <1>9, <4>1
    <3>2. CASE j = t + 1
      BY <1>5, <1>9, <3>2
    <3>3. CASE j > t + 1
      <4>1. j - 1 \in t + 1 .. Len(list) /\ (j - 1) + 1 = j /\ j - 1 \in 1 .. Len(list)
        BY <1>1, <1>9, <3>3
      <4> QED
        BY <1>9, <4>1
    <3> QED
      BY <1>1, <2>3, <3>1, <3>2, <3>3
  <2>4. ASSUME NEW i \in 1 .. Len(list), i # t
        PROVE  \E j \in 1 .. Len(list') : list'[j] = list[i]
    <3>1. CASE i < t
      <4>1. i \in 1 .. t - 1 /\ i \in 1 .. Len(list')
        BY <1>1, <1>9, <3>1
      <4> QED
        BY <1>9, <4>1
    <3>2. CASE i > t
      <4>1. i \in t + 1 .. Len(list) /\ i + 1 \in 1 .. Len(list')
        BY <1>1, <1>9, <3>2
      <4> QED
        BY <1>9, <4>1
    <3> QED
      BY <1>1, <2>4, <3>1, <3>2
  <2>5. Disjoint(list)
    BY <1>1 DEF Layout
  <2> QED
    BY <1>1, <1>9, <2>1, <2>2, <2>3, <2>4, <2>5, TakeHeld
<1> QED
  BY <1>9, <1>11, <1>12, <1>13, TakeRest

(* my_free marks the block of the buffer free.                             *)
LEMMA FreeIInv ==
  ASSUME IInv, NEW b \in live, Free(b)
  PROVE  IInv'
<1>0. /\ TypeOK /\ Layout(list, mapped) /\ Held(list, live) /\ list \in Seq(Block)
      /\ Len(list) \in Nat /\ DOMAIN list = 1 .. Len(list)
      /\ \A i \in 1 .. Len(list) : list[i] \in Block
  BY LenProperties, ListNat DEF IInv, TypeOK
<1>1. /\ pc = "idle" /\ pc' = "merge" /\ at' = 1 /\ live' = live \ {b}
      /\ list' = [i \in 1 .. Len(list) |->
                    IF Payload(list[i]) = b.ptr THEN [list[i] EXCEPT !.free = TRUE] ELSE list[i]]
      /\ UNCHANGED <<mapped, total, asked, size>>
  BY <1>0 DEF Free
<1>2. ASSUME NEW i \in 1 .. Len(list)
      PROVE  /\ list'[i] \in Block /\ list'[i].addr = list[i].addr /\ list'[i].size = list[i].size
             /\ Payload(list[i]) = b.ptr => list'[i].free
             /\ Payload(list[i]) # b.ptr => list'[i] = list[i]
  <2>1. CASE Payload(list[i]) = b.ptr
    <3>1. list'[i] = [list[i] EXCEPT !.free = TRUE]
      BY <1>1, <2>1
    <3>2. PICK c \in Block : c = list[i]
      BY <1>0
    <3>3. PICK d : d = [c EXCEPT !.free = TRUE]
      OBVIOUS
    <3>4. d \in Block /\ d.addr = c.addr /\ d.size = c.size /\ d.free
      BY <3>3 DEF Block
    <3> QED
      BY <2>1, <3>1, <3>2, <3>3, <3>4
  <2>2. CASE Payload(list[i]) # b.ptr
    BY <1>0, <1>1, <2>2
  <2> QED
    BY <2>1, <2>2
<1>3. list' \in Seq(Block) /\ Len(list') = Len(list)
  <2>1. list' \in [1 .. Len(list) -> Block]
    <3>1. DOMAIN list' = 1 .. Len(list)
      BY <1>1
    <3> QED
      BY <1>1, <1>2, <3>1
  <2> QED
    BY <1>0, <2>1, FunctionIsSeq
<1>4. TypeOK'
  BY <1>0, <1>1, <1>3 DEF TypeOK
<1>5. Layout(list', mapped)
  BY <1>0, <1>2, <1>3, FlagsLayout
<1>6. Held(list', live \ {b})
  <2>1. \A i \in 1 .. Len(list) : Payload(list'[i]) = Payload(list[i])
    BY <1>2 DEF Payload
  <2>2. ASSUME NEW i \in 1 .. Len(list'), ~list'[i].free
        PROVE  \E d \in live \ {b} : d.ptr = Payload(list'[i])
    <3>1. i \in 1 .. Len(list) /\ Payload(list[i]) # b.ptr /\ ~list[i].free
      BY <1>2, <1>3, <2>2
    <3>2. PICK d \in live : d.ptr = Payload(list[i])
      BY <1>0, <3>1 DEF Held
    <3> QED
      BY <2>1, <3>1, <3>2
  <2>3. ASSUME NEW d \in live \ {b}
        PROVE  \E i \in 1 .. Len(list') :
                 ~list'[i].free /\ d.ptr = Payload(list'[i]) /\ d.size <= list'[i].size
    <3>1. PICK i \in 1 .. Len(list) : ~list[i].free /\ d.ptr = Payload(list[i]) /\ d.size <= list[i].size
      BY <1>0 DEF Held
    <3>2. d.ptr # b.ptr
      BY <1>0 DEF Held
    <3>3. list'[i] = list[i] /\ i \in 1 .. Len(list')
      BY <1>2, <1>3, <3>1, <3>2
    <3> QED
      BY <3>1, <3>3
  <2>4. \A d, e \in live \ {b} : d.ptr = e.ptr => d = e
    BY <1>0 DEF Held
  <2> QED
    BY <2>2, <2>3, <2>4 DEF Held
<1>7. Layout(list, mapped)' /\ Held(list, live)'
  BY <1>1, <1>5, <1>6
<1>8. Merged'
  <2>1. \A i \in 1 .. Len(list') : ~(i < 1)
    OBVIOUS
  <2> QED
    BY <1>1, <2>1 DEF Merged
<1>9. Searching' /\ Cursor' /\ Destroying' /\ RetryFits' /\ Counted'
  BY <1>1 DEF IInv, Searching, Cursor, Destroying, RetryFits, Counted
<1> QED
  BY <1>4, <1>7, <1>8, <1>9 DEF IInv

(* Neighbours that are fused become one block between the same ends.       *)
LEMMA MergeFuseIInv == IInv /\ MergeFuse => IInv'
<1> SUFFICES ASSUME IInv, MergeFuse PROVE IInv'
  OBVIOUS
<1>0. PICK t, b, c : t = at /\ b = list[t] /\ c = list[t + 1]
  OBVIOUS
<1>1. /\ TypeOK /\ Layout(list, mapped) /\ Held(list, live) /\ list \in Seq(Block)
      /\ Len(list) \in Nat /\ t \in 1 .. Len(list) /\ t + 1 \in 1 .. Len(list) /\ t \in Nat
      /\ b.free /\ c.free /\ End(b) = c.addr /\ t < Len(list)
      /\ pc = "merge" /\ pc' = pc /\ at' = t
      /\ UNCHANGED <<mapped, total, asked, size, live>>
  <2>1. TypeOK /\ Layout(list, mapped) /\ Held(list, live)
    BY DEF IInv
  <2>2. list \in Seq(Block) /\ Len(list) \in Nat /\ at \in 1 .. Len(list) + 1
    BY <2>1, LenProperties DEF TypeOK
  <2>3. at < Len(list) /\ list[at].free /\ list[at + 1].free /\ End(list[at]) = list[at + 1].addr
    BY DEF MergeFuse, Fusable
  <2> QED
    BY <1>0, <2>1, <2>2, <2>3 DEF MergeFuse
<1>2. b \in Block /\ c \in Block
  BY <1>0, <1>1, ListNat
<1>3. PICK f : f = [b EXCEPT !.size = @ + HeaderSize + c.size]
  OBVIOUS
<1>4. f \in Block /\ f.addr = b.addr /\ f.size = b.size + HeaderSize + c.size /\ f.free /\ End(f) = End(c)
  <2>1. /\ b.addr \in Nat /\ b.size \in Nat /\ c.addr \in Nat /\ c.size \in Nat /\ HeaderSize \in Nat \ {0}
        /\ b.addr + HeaderSize + b.size = c.addr /\ End(c) = c.addr + HeaderSize + c.size
    BY <1>1, <1>2, BlockNat, SuperHeapConstants DEF End, Payload
  <2>2. End(c) <= Arena * PageSize /\ Arena * PageSize \in Nat
    <3>1. Span(c) \subseteq Page
      BY <1>0, <1>1 DEF Layout, Inside, TypeOK
    <3> QED
      BY <1>2, <3>1, EndInArena, SuperHeapConstants
  <2>3. PICK s \in Nat : s = b.size + HeaderSize + c.size
    BY <2>1
  <2>4. s \in 0 .. Arena * PageSize /\ b.addr + HeaderSize + s = c.addr + HeaderSize + c.size
    BY <2>1, <2>2, <2>3
  <2>5. f = [b EXCEPT !.size = s]
    BY <1>3, <2>3
  <2>6. f \in Block /\ f.addr = b.addr /\ f.size = s /\ f.free = b.free
    BY <1>2, <2>4, <2>5 DEF Block
  <2> QED
    BY <1>1, <2>1, <2>3, <2>4, <2>6 DEF End, Payload
<1>5. PICK m : m = [list EXCEPT ![t] = f]
  OBVIOUS
<1>6. /\ m \in Seq(Block) /\ Len(m) = Len(list) /\ m[t] = f
      /\ \A j \in 1 .. Len(list) : j # t => m[j] = list[j]
  BY <1>1, <1>4, <1>5, ExceptSeq
<1>7. list' = RemoveAt(m, t + 1)
  <2>1. [list EXCEPT ![t] = Fused(@, list[t + 1])] = m
    BY <1>0, <1>1, <1>3, <1>5 DEF Fused
  <2> QED
    BY <1>0, <2>1 DEF MergeFuse
<1>8. /\ list' \in Seq(Block) /\ Len(list') = Len(list) - 1
      /\ \A k \in 1 .. t - 1 : list'[k] = list[k]
      /\ list'[t] = f
      /\ \A k \in t + 1 .. Len(list) - 1 : list'[k] = list[k + 1]
  <2>1. PICK q \in 1 .. Len(m) : q = t + 1
    BY <1>1, <1>6
  <2>2. /\ list' \in Seq(Block) /\ Len(list') = Len(m) - 1
        /\ \A k \in 1 .. q - 1 : list'[k] = m[k]
        /\ \A k \in q .. Len(m) - 1 : list'[k] = m[k + 1]
    <3>1. m \in Seq(Block) /\ list' = RemoveAt(m, q)
      BY <1>6, <1>7, <2>1
    <3> QED
      BY <3>1, RemoveAtProperties
  <2>3. t \in 1 .. q - 1
    BY <1>1, <2>1
  <2>4. \A k \in 1 .. t - 1 : k \in 1 .. q - 1 /\ k \in 1 .. Len(list) /\ k # t
    BY <1>1, <2>1
  <2>5. \A k \in t + 1 .. Len(list) - 1 : k \in q .. Len(m) - 1 /\ k + 1 \in 1 .. Len(list) /\ k + 1 # t
    BY <1>1, <1>6, <2>1
  <2> QED
    BY <1>6, <2>2, <2>3, <2>4, <2>5
<1>9. t \in 1 .. Len(list') /\ Len(list') \in Nat /\ Len(list) = Len(list') + 1
  BY <1>1, <1>8
<1>10. Cut(list', t, list)
  <2>1. \A k \in t + 1 .. Len(list') : list[k + 1] = list'[k]
    BY <1>8
  <2>2. \A k \in 1 .. t - 1 : list[k] = list'[k]
    BY <1>8
  <2>3. list[t].addr = list'[t].addr /\ End(list[t]) = list[t + 1].addr /\ End(list[t + 1]) = End(list'[t])
    BY <1>0, <1>1, <1>4, <1>8
  <2> QED
    BY <1>9, <2>1, <2>2, <2>3 DEF Cut
<1>11. Layout(list', mapped)
  <2>1. f.size % 8 = 0
    <3>1. b.size % 8 = 0 /\ c.size % 8 = 0 /\ HeaderSize % 8 = 0
      BY <1>0, <1>1, SuperHeapConstants DEF Layout, Eightfold, Align
    <3>2. b.size \in Nat /\ c.size \in Nat /\ HeaderSize \in Nat
      BY <1>2, BlockNat, SuperHeapConstants
    <3>3. (b.size + HeaderSize + c.size) % 8 = 0
      BY <3>1, <3>2, EightSum
    <3> QED
      BY <1>4, <3>3
  <2> QED
    BY <1>1, <1>8, <1>9, <1>10, <2>1, FuseLayout DEF Align
<1>12. Held(list', live)
  <2>1. ASSUME NEW j \in 1 .. Len(list'), j # t
        PROVE  \E i \in 1 .. Len(list) : list'[j] = list[i]
    <3>1. CASE j < t
      <4>1. j \in 1 .. t - 1 /\ j \in 1 .. Len(list)
        BY <1>1, <1>9, <3>1
      <4> QED
        BY <1>8, <4>1
    <3>2. CASE j > t
      <4>1. j \in t + 1 .. Len(list) - 1 /\ j + 1 \in 1 .. Len(list)
        BY <1>1, <1>9, <3>2
      <4> QED
        BY <1>8, <4>1
    <3> QED
      BY <1>1, <2>1, <3>1, <3>2
  <2>2. ASSUME NEW i \in 1 .. Len(list), i # t, i # t + 1
        PROVE  \E j \in 1 .. Len(list') : list'[j] = list[i]
    <3>1. CASE i < t
      <4>1. i \in 1 .. t - 1 /\ i \in 1 .. Len(list')
        BY <1>1, <1>9, <3>1
      <4> QED
        BY <1>8, <4>1
    <3>2. CASE i > t + 1
      <4>1. i - 1 \in t + 1 .. Len(list) - 1 /\ i - 1 \in 1 .. Len(list') /\ (i - 1) + 1 = i
        BY <1>1, <1>9, <3>2
      <4> QED
        BY <1>8, <4>1
    <3> QED
      BY <1>1, <2>2, <3>1, <3>2
  <2>3. ASSUME NEW j \in 1 .. Len(list'), ~list'[j].free
        PROVE  \E d \in live : d.ptr = Payload(list'[j])
    <3>1. j # t
      BY <1>4, <1>8, <2>3
    <3>2. PICK i \in 1 .. Len(list) : list'[j] = list[i]
      BY <2>1, <3>1
    <3>3. PICK d \in live : d.ptr = Payload(list[i])
      BY <1>1, <2>3, <3>2 DEF Held
    <3> QED
      BY <3>2, <3>3
  <2>4. ASSUME NEW d \in live
        PROVE  \E j \in 1 .. Len(list') :
                 ~list'[j].free /\ d.ptr = Payload(list'[j]) /\ d.size <= list'[j].size
    <3>1. PICK i \in 1 .. Len(list) : ~list[i].free /\ d.ptr = Payload(list[i]) /\ d.size <= list[i].size
      BY <1>1 DEF Held
    <3>2. i # t /\ i # t + 1
      BY <1>0, <1>1, <3>1
    <3>3. PICK j \in 1 .. Len(list') : list'[j] = list[i]
      BY <2>2, <3>2
    <3> QED
      BY <3>1, <3>3
  <2>5. \A d, e \in live : d.ptr = e.ptr => d = e
    BY <1>1 DEF Held
  <2> QED
    BY <2>3, <2>4, <2>5 DEF Held
<1>13. TypeOK'
  BY <1>1, <1>8, <1>9 DEF TypeOK
<1>14. Layout(list, mapped)' /\ Held(list, live)'
  BY <1>1, <1>11, <1>12
<1>15. Merged'
  <2>1. ASSUME NEW i \in 1 .. Len(list'), i < t, list'[i].free, list'[i + 1].free,
               End(list'[i]) = list'[i + 1].addr
        PROVE  FALSE
    <3>1. i \in 1 .. t - 1 /\ list'[i] = list[i] /\ i \in 1 .. Len(list) /\ i < Len(list)
      BY <1>1, <1>8, <1>9, <2>1
    <3>2. ~Fusable(i)
      BY <1>0, <1>1, <2>1, <3>1 DEF IInv, Merged
    <3>3. CASE i + 1 = t
      BY <1>0, <1>1, <1>4, <1>8, <2>1, <3>1, <3>2, <3>3 DEF Fusable
    <3>4. CASE i + 1 < t
      <4>1. i + 1 \in 1 .. t - 1
        BY <1>1, <3>1, <3>4
      <4>2. list'[i + 1] = list[i + 1]
        BY <1>8, <4>1
      <4> QED
        BY <2>1, <3>1, <3>2, <4>2 DEF Fusable
    <3> QED
      BY <1>1, <2>1, <3>3, <3>4
  <2>2. ASSUME NEW i \in 1 .. Len(list'), i < t PROVE ~Fusable(i)'
    <3>1. End(list[i])' = End(list'[i])
      BY DEF End, Payload
    <3> QED
      BY <2>1, <2>2, <3>1 DEF Fusable
  <2> QED
    BY <1>1, <2>2 DEF Merged
<1>16. Searching' /\ Cursor' /\ Destroying' /\ RetryFits' /\ Counted'
  BY <1>1 DEF IInv, Searching, Cursor, Destroying, RetryFits, Counted
<1> QED
  BY <1>13, <1>14, <1>15, <1>16 DEF IInv

(* destroy_heap unmaps a block.                                            *)
LEMMA DestroyBlockIInv == IInv /\ DestroyBlock => IInv'
<1> SUFFICES ASSUME IInv, DestroyBlock PROVE IInv'
  OBVIOUS
<1>1. /\ TypeOK /\ Layout(list, mapped) /\ Whole(list) /\ live = {} /\ at = 1
      /\ list \in Seq(Block) /\ list # <<>> /\ pc = "destroy" /\ pc' = "destroy"
      /\ mapped' = mapped \ Unmapped(Head(list).addr, Extent(Head(list)))
      /\ list' = Tail(list)
      /\ UNCHANGED <<total, at, asked, size, live>>
  BY DEF DestroyBlock, IInv, Destroying, Cursor, TypeOK
<1>2. /\ Tail(list) \in Seq(Block) /\ Layout(Tail(list), mapped \ Span(Head(list)))
      /\ Whole(Tail(list)) /\ Head(list) = list[1] /\ 1 \in 1 .. Len(list)
      /\ \A j \in 1 .. Len(Tail(list)) : Tail(list)[j] = list[j + 1] /\ j + 1 \in 1 .. Len(list)
  BY <1>1, TailLayout
<1>3. mapped' = mapped \ Span(Head(list))
  BY <1>1, <1>2 DEF Whole, Unmapped, Span
<1>4. TypeOK'
  <2>1. 1 \in 1 .. Len(list') + 1
    BY <1>1, <1>2, LenProperties
  <2> QED
    BY <1>1, <1>2, <2>1 DEF TypeOK
<1>5. Layout(list, mapped)'
  BY <1>1, <1>2, <1>3
<1>6. Held(list', {})
  <2>1. ASSUME NEW j \in 1 .. Len(list') PROVE list'[j].free
    <3>1. list'[j] = list[j + 1] /\ j + 1 \in 1 .. Len(list)
      BY <1>1, <1>2
    <3>2. list[j + 1].free
      BY <1>1, <3>1 DEF IInv, Held
    <3> QED
      BY <3>1, <3>2
  <2> QED
    BY <2>1 DEF Held
<1>7. Held(list, live)'
  BY <1>1, <1>6
<1>8. Destroying'
  BY <1>1, <1>2 DEF Destroying, Whole, End, Payload
<1>9. Merged' /\ Searching' /\ Cursor' /\ RetryFits' /\ Counted'
  BY <1>1 DEF Merged, Searching, Cursor, RetryFits, Counted
<1> QED
  BY <1>4, <1>5, <1>7, <1>8, <1>9 DEF IInv

(* destroy_heap is done: no page is left mapped.                           *)
LEMMA DestroyDoneIInv == IInv /\ DestroyDone => IInv' /\ mapped' = {}
<1> SUFFICES ASSUME IInv, DestroyDone PROVE IInv' /\ mapped' = {}
  OBVIOUS
<1>1. /\ list = <<>> /\ Len(list) = 0 /\ pc = "destroy" /\ total' = 0
      /\ pc' = "idle" /\ at' = 1 /\ asked' = 0 /\ size' = 0
      /\ UNCHANGED <<list, mapped, live>>
  BY EmptySeq DEF DestroyDone, Return
<1>2. mapped = {}
  BY <1>1 DEF IInv, Layout, Covers
<1>3. TypeOK'
  BY <1>1 DEF IInv, TypeOK
<1>4. Layout(list, mapped)' /\ Held(list, live)'
  BY <1>1 DEF IInv
<1>5. Counted'
  <2>1. Cardinality({}) = 0 /\ PageSize * 0 = 0
    BY FS_EmptySet, SuperHeapConstants
  <2> QED
    BY <1>1, <1>2, <2>1 DEF Counted
<1>6. Merged' /\ Searching' /\ Cursor' /\ Destroying' /\ RetryFits'
  BY <1>1 DEF Merged, Searching, Cursor, Destroying, RetryFits
<1> QED
  BY <1>1, <1>2, <1>3, <1>4, <1>5, <1>6 DEF IInv

-----------------------------------------------------------------------------
(* The invariant is inductive.                                             *)
LEMMA StepIInv == IInv /\ [Next]_vars => IInv'
<1> SUFFICES ASSUME IInv, [Next]_vars PROVE IInv'
  OBVIOUS
<1>1. ASSUME NEW n \in Requests, Malloc(n) PROVE IInv'
  BY <1>1, MallocIInv
<1>2. ASSUME NEW b \in live, Free(b) PROVE IInv'
  BY <1>2, FreeIInv
<1>3. CASE Destroy
  BY <1>3, DestroyIInv
<1>4. ASSUME NEW p \in Page, Expand(p) PROVE IInv'
  BY <1>4, ExpandIInv
<1>5. CASE ExpandFails \/ SearchAdvance \/ SearchEnd \/ MergeAdvance \/ MergeDone
  BY <1>5, CursorIInv
<1>6. CASE SearchTake
  BY <1>6, TakeWholeIInv, TakeSplitIInv
<1>7. CASE MergeFuse
  BY <1>7, MergeFuseIInv
<1>8. CASE DestroyBlock \/ DestroyDone
  BY <1>8, DestroyBlockIInv, DestroyDoneIInv
<1>9. CASE UNCHANGED vars
  BY <1>9 DEF vars, IInv, TypeOK, Layout, Inside, Covers, Disjoint, Chained, Eightfold, Span, Pages,
     Extent, End, Payload, Held, Merged, Fusable, Searching, Cursor, Destroying, Whole, RetryFits, Counted
<1> QED
  BY <1>1, <1>2, <1>3, <1>4, <1>5, <1>6, <1>7, <1>8, <1>9 DEF Next, Step

(* It holds in every reachable state.                                      *)
LEMMA Invariance == Spec => []IInv
BY InitIInv, StepIInv, PTL DEF Spec

(* Every variable stays within its type.                                   *)
THEOREM TypeCorrect == Spec => []TypeOK
<1>1. IInv => TypeOK
  BY DEF IInv
<1> QED
  BY <1>1, Invariance, PTL

(* Blocks never overlap and never leave the pages that are mapped, whichever*)
(* regions mmap hands out next to each other and my_free fuses.            *)
THEOREM BlocksStayApart == Spec => []BlocksApart
<1>1. IInv => BlocksApart
  <2> SUFFICES ASSUME IInv PROVE BlocksApart
    OBVIOUS
  <2>1. DOMAIN list = 1 .. Len(list)
    BY LenProperties DEF IInv, TypeOK
  <2> QED
    BY <2>1 DEF IInv, Layout, Inside, Disjoint, Span, Extent, BlocksApart
<1> QED
  BY <1>1, Invariance, PTL

(* Growing the heap by a size and a header is enough for the recursive call*)
(* of my_malloc.                                                           *)
THEOREM RecursionEnds == Spec => []RetryFits
<1>1. IInv => RetryFits
  BY DEF IInv
<1> QED
  BY <1>1, Invariance, PTL

(* destroy_heap reads no header it has unmapped.                           *)
THEOREM DestroyIsSafe == Spec => []NoFault
<1>1. IInv => NoFault
  <2> SUFFICES ASSUME IInv, NEW i \in 1 .. Len(list) PROVE list[i].addr \div PageSize \in mapped
    BY LenProperties DEF NoFault, IInv, TypeOK
  <2>1. list[i] \in Block
    BY ListNat DEF IInv, TypeOK
  <2>2. list[i].addr \div PageSize \in Span(list[i])
    BY <2>1, BlockNat, PagesAreNat DEF Span
  <2> QED
    BY <2>2 DEF IInv, Layout, Inside
<1> QED
  BY <1>1, Invariance, PTL

(* Nothing is lost: every byte the kernel holds for the heap belongs to a  *)
(* block, every block marked used is held by the caller, and               *)
(* total_heap_size is what is mapped.                                      *)
THEOREM NothingIsLost == Spec => []Accounted
<1>1. IInv => Accounted
  <2> SUFFICES ASSUME IInv PROVE Accounted
    OBVIOUS
  <2>1. list \in Seq(Block) /\ DOMAIN list = 1 .. Len(list) /\ mapped \subseteq Nat
    BY LenProperties DEF IInv, TypeOK, Page
  <2>2. ASSUME NEW p \in mapped, NEW byte \in PageSize * p .. PageSize * p + PageSize - 1
        PROVE  \E i \in 1 .. Len(list) : list[i].addr <= byte /\ byte < End(list[i])
    <3>1. /\ p \in Nat /\ PageSize * p \in Nat /\ PageSize \in Nat
          /\ byte \in Nat /\ PageSize * p <= byte /\ byte < PageSize * p + PageSize
      BY <2>1, SuperHeapConstants
    <3> QED
      BY <2>1, <3>1, NoGap DEF IInv
  <2> QED
    BY <2>1, <2>2 DEF IInv, Held, Counted, Accounted
<1> QED
  BY <1>1, Invariance, PTL

(* When destroy_heap returns, every page the heap ever mapped is unmapped. *)
THEOREM NothingStaysMapped == Spec => [][DestroyDone => mapped' = {}]_vars
<1>1. IInv /\ [Next]_vars => [DestroyDone => mapped' = {}]_vars
  BY DestroyDoneIInv
<1> QED
  BY <1>1, Invariance, PTL DEF Spec

-----------------------------------------------------------------------------
(* The buffer a search ends with is one the contract allows.               *)
LEMMA TakenIsGrantable ==
  ASSUME IInv, SearchTake
  PROVE  /\ Abstract!Grantable([ptr |-> Payload(list[at]), size |-> asked])
         /\ Payload(list[at]) \in 0 .. Arena * PageSize
<1>0. PICK t, b, a, n : t = at /\ b = list[at] /\ a = Payload(list[at]) /\ n = asked
  OBVIOUS
<1>1. /\ list \in Seq(Block) /\ t \in 1 .. Len(list) /\ b = list[t] /\ b \in Block /\ b.free
      /\ Layout(list, mapped) /\ Held(list, live) /\ n \in Nat /\ n <= b.size /\ a = Payload(b)
  <2>1. asked \in Nat /\ size \in Nat /\ asked <= size /\ size <= list[at].size /\ list[at].size \in Nat
    BY Taking, BlockNat
  <2>2. asked <= list[at].size
    BY <2>1
  <2> QED
    BY <1>0, <2>1, <2>2, Taking
<1>2. PICK x \in Nat, s \in Nat, h \in Nat, e \in Nat, lim \in Nat :
        /\ x = b.addr /\ s = b.size /\ h = HeaderSize /\ e = End(b) /\ lim = Arena * PageSize
        /\ a = x + h /\ e = a + s /\ n <= s
  <2>1. Arena * PageSize \in Nat /\ HeaderSize \in Nat
    BY SuperHeapConstants
  <2>2. /\ b.addr \in Nat /\ b.size \in Nat /\ End(b) \in Nat
        /\ Payload(b) = b.addr + HeaderSize /\ End(b) = Payload(b) + b.size
    BY <1>1, BlockNat
  <2> QED
    BY <1>1, <2>1, <2>2
<1>3. a \in Nat /\ a + n <= e /\ n \in Nat
  <2>1. n \in Nat
    BY <1>1
  <2>2. a \in Nat /\ n <= s /\ e = a + s
    BY <1>2
  <2> QED
    BY <2>1, <2>2, FitsIn
<1>4. e <= lim
  <2>1. Span(b) \subseteq Page
    BY <1>1 DEF Layout, Inside, IInv, TypeOK
  <2>2. End(b) <= Arena * PageSize
    BY <1>1, <2>1, EndInArena
  <2> QED
    BY <1>2, <2>2
<1>5. a + n <= Arena * PageSize /\ a \in 0 .. Arena * PageSize
  <2>1. a + n <= lim /\ a \in 0 .. lim
    BY <1>3, <1>4
  <2> QED
    BY <1>2, <2>1
<1>6. a % Align = 0
  <2>1. x % 8 = 0 /\ h % 8 = 0
    BY <1>1, <1>2, SuperHeapConstants DEF Layout, Eightfold, Align
  <2> QED
    BY <1>2, <2>1 DEF Align
<1>7. ASSUME NEW c \in live PROVE a + n <= c.ptr \/ c.ptr + c.size <= a
  <2>1. PICK i \in 1 .. Len(list) : ~list[i].free /\ c.ptr = Payload(list[i]) /\ c.size <= list[i].size
    BY <1>1 DEF Held
  <2>2. PICK d : d = list[i]
    OBVIOUS
  <2>3. d \in Block
    BY <1>1, <2>1, <2>2, ListNat
  <2>4. PICK y \in Nat, z \in Nat, f \in Nat, q \in Nat, k \in Nat :
          /\ y = d.addr /\ z = d.size /\ f = End(d) /\ q = c.ptr /\ k = c.size
          /\ q = y + h /\ f = q + z /\ k <= z
    <3>1. /\ d.addr \in Nat /\ d.size \in Nat /\ End(d) \in Nat
          /\ Payload(d) = d.addr + HeaderSize /\ End(d) = Payload(d) + d.size
      BY <2>3, BlockNat
    <3>2. c.ptr \in Nat /\ c.size \in Nat /\ c.ptr = Payload(d) /\ c.size <= d.size
      BY <2>1, <2>2 DEF IInv, TypeOK
    <3> QED
      BY <1>2, <3>1, <3>2
  <2>5. e <= y \/ f <= x
    <3>1. i # t
      BY <1>1, <2>1
    <3>2. End(list[t]) <= list[i].addr \/ End(list[i]) <= list[t].addr
      BY <1>1, <3>1 DEF Layout, Disjoint
    <3> QED
      BY <1>1, <1>2, <2>2, <2>4, <3>2
  <2>6. e <= y => a + n <= q
    BY <1>3, <2>4
  <2>7. f <= x => q + k <= a
    <3>1. q + k <= f
      BY <2>4, FitsIn
    <3>2. x <= a
      BY <1>2
    <3> QED
      BY <1>3, <3>1, <3>2
  <2> QED
    BY <2>4, <2>5, <2>6, <2>7
<1>8. PICK g : g = [ptr |-> a, size |-> n]
  OBVIOUS
<1>9. g.ptr = a /\ g.size = n
  BY <1>8
<1>10. Abstract!Grantable(g)
  BY <1>5, <1>6, <1>7, <1>9 DEF Abstract!Grantable, Abstract!Apart
<1> QED
  BY <1>0, <1>5, <1>8, <1>10

(* The heap implements the abstract allocator: every buffer it hands out is*)
(* aligned, inside the arena and apart from those held, and no other step  *)
(* changes what the caller holds.                                          *)
THEOREM SuperHeapIsAllocator == Spec => ImplementsAllocator
<1>1. Init => Abstract!Init
  BY DEF Init, Abstract!Init
<1>2. IInv /\ [Next]_vars => [Abstract!Next]_live
  <2> SUFFICES ASSUME IInv, [Next]_vars
               PROVE  Abstract!Next \/ UNCHANGED live
    OBVIOUS
  <2>1. CASE SearchTake
    <3>1. Abstract!Grant([ptr |-> Payload(list[at]), size |-> asked])
      BY <2>1, TakenIsGrantable DEF SearchTake, Abstract!Grant
    <3>2. asked \in Requests \ {0} /\ Payload(list[at]) \in 0 .. Arena * PageSize
      BY <2>1, Taking, TakenIsGrantable
    <3> QED
      BY <3>1, <3>2 DEF Abstract!Next
  <2>2. ASSUME NEW b \in live, Free(b) PROVE Abstract!Next
    BY <2>2 DEF Free, Abstract!Next, Abstract!Release
  <2>3. CASE UNCHANGED live
    BY <2>3
  <2> QED
    BY <2>1, <2>2, <2>3 DEF Next, Step, vars, Malloc, Destroy, Expand, ExpandFails, SearchAdvance,
       SearchEnd, MergeFuse, MergeAdvance, MergeDone, DestroyBlock, DestroyDone
<1> QED
  BY <1>1, <1>2, Invariance, PTL DEF Spec, ImplementsAllocator, Abstract!Spec

(* How many steps a call still has before it, at most.  A search that finds*)
(* nothing is followed by one expansion and one search more.               *)
Distance ==
  CASE pc = "idle"    -> 0
    [] pc = "start"   -> 2 * Len(list) + 7
    [] pc = "search"  -> 2 * Len(list) + 5 - at
    [] pc = "expand"  -> Len(list) + 3
    [] pc = "retry"   -> Len(list) + 2 - at
    [] pc = "merge"   -> 2 * Len(list) + 2 - at
    [] pc = "destroy" -> Len(list) + 1

LEMMA DistanceInList ==
  ASSUME IInv
  PROVE  /\ Len(list) \in Nat /\ at \in 1 .. Len(list) + 1
         /\ pc \in {"idle", "start", "search", "expand", "retry", "merge", "destroy"}
         /\ Distance \in 0 .. 2 * Len(list) + 7
         /\ pc # "idle" => Distance > 0
<1>1. /\ Len(list) \in Nat /\ at \in 1 .. Len(list) + 1
      /\ pc \in {"idle", "start", "search", "expand", "retry", "merge", "destroy"}
  BY LenProperties DEF IInv, TypeOK
<1>2. Distance \in 0 .. 2 * Len(list) + 7 /\ (pc # "idle" => Distance > 0)
  BY <1>1 DEF Distance
<1> QED
  BY <1>1, <1>2

(* merge_blocks leaves one block less.                                     *)
LEMMA FuseShortens ==
  ASSUME IInv, MergeFuse
  PROVE  Len(list') = Len(list) - 1
<1> DEFINE f == Fused(list[at], list[at + 1])
           S == Block \cup {f}
           m == [list EXCEPT ![at] = f]
<1>1. list \in Seq(S) /\ f \in S
  BY SeqMonotonic DEF IInv, TypeOK
<1>2. at \in 1 .. Len(list) /\ at + 1 \in 1 .. Len(list)
  BY DistanceInList DEF MergeFuse, Fusable
<1>3. m \in Seq(S) /\ Len(m) = Len(list)
  BY <1>1, <1>2, ExceptSeq
<1>4. list' = RemoveAt(m, at + 1)
  BY DEF MergeFuse
<1> HIDE DEF m
<1> QED
  BY <1>2, <1>3, <1>4, RemoveAtProperties

LEMMA StepGetsNearer ==
  ASSUME IInv, IInv', Step
  PROVE  Distance' < Distance
<1>1. /\ Len(list) \in Nat /\ at \in 1 .. Len(list) + 1
      /\ pc # "idle" => Distance > 0
  BY DistanceInList
<1>2. CASE pc # "idle" /\ Return
  BY <1>1, <1>2 DEF Return, Distance
<1>3. ASSUME NEW p \in Page, Expand(p)
      PROVE  Distance' < Distance
  <2>1. /\ pc \in {"start", "expand"} /\ at' = 1
        /\ pc' = IF pc = "start" THEN "search" ELSE "retry"
    BY <1>3 DEF Expand
  <2>2. Len(list') = Len(list) + 1
    <3> DEFINE b == NewBlock(p * PageSize, RegionSize(Required))
    <3>1. list' = Append(list, b)
      BY <1>3 DEF Expand
    <3>2. list \in Seq(Block \cup {b}) /\ b \in Block \cup {b}
      BY SeqMonotonic DEF IInv, TypeOK
    <3> HIDE DEF b
    <3> QED
      BY <3>1, <3>2, AppendProperties
  <2> QED
    BY <1>1, <2>1, <2>2 DEF Distance
<1>4. CASE SearchAdvance \/ MergeAdvance
  BY <1>1, <1>4 DEF SearchAdvance, MergeAdvance, Distance
<1>5. CASE SearchEnd
  <2>1. pc # "retry"
    <3>1. DOMAIN list = 1 .. Len(list)
      BY LenProperties DEF IInv, TypeOK
    <3>2. ASSUME pc = "retry" PROVE FALSE
      BY <1>1, <1>5, <3>1, <3>2 DEF SearchEnd, IInv, RetryFits
    <3> QED
      BY <3>2
  <2> QED
    BY <1>1, <1>5, <2>1 DEF SearchEnd, Distance
<1>6. CASE MergeFuse
  <2>1. pc = "merge" /\ pc' = "merge" /\ at' = at /\ Len(list') = Len(list) - 1
    BY <1>6, FuseShortens DEF MergeFuse
  <2> QED
    BY <1>1, <2>1 DEF Distance
<1>7. CASE DestroyBlock
  <2>1. pc = "destroy" /\ pc' = "destroy"
    BY <1>7 DEF DestroyBlock
  <2>2. Len(list') = Len(list) - 1
    BY <1>7, HeadTailProperties DEF DestroyBlock, IInv, TypeOK
  <2> QED
    BY <1>1, <2>1, <2>2 DEF Distance
<1> QED
  BY <1>2, <1>3, <1>4, <1>5, <1>6, <1>7
     DEF Step, ExpandFails, SearchTake, MergeDone, DestroyDone

(* Every step of a call brings it nearer to its end, which is never more   *)
(* than twice the blocks of the list and 7 steps away: my_malloc searches  *)
(* at most twice and expands at most once, and the loops of merge_blocks   *)
(* and destroy_heap end, whatever the list looks like.                     *)
THEOREM CallsEnd ==
  Spec => /\ [](Distance \in 0 .. 2 * Len(list) + 7)
          /\ [][pc # "idle" => Distance' < Distance]_vars
<1>1. IInv => Distance \in 0 .. 2 * Len(list) + 7
  BY DistanceInList
<1>2. IInv /\ IInv' /\ [Next]_vars => [pc # "idle" => Distance' < Distance]_vars
  <2>1. ASSUME IInv, IInv', Next, pc # "idle" PROVE Distance' < Distance
    BY <2>1, StepGetsNearer DEF Next, Malloc, Free, Destroy
  <2> QED
    BY <2>1
<1> QED
  BY <1>1, <1>2, Invariance, PTL DEF Spec

=============================================================================
