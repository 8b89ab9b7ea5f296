------------------------------ MODULE Lab3Proofs ------------------------------
(***************************************************************************)
(* The programs of lab3 that change files, for every set of names, every   *)
(* content and every number of changes by others.                          *)
(***************************************************************************)
EXTENDS DirCopy, SequenceTheorems, TLAPS

USE DirCopyConstants

(* A content is a sequence of at most MaxLen bytes, and the other way      *)
(* round.                                                                  *)
LEMMA Contents ==
  ASSUME NEW s \in Content
  PROVE  /\ s \in Seq(Bytes)
         /\ Len(s) \in 0 .. MaxLen
         /\ s \in [1 .. Len(s) -> Bytes]
<1>1. PICK m \in 0 .. MaxLen : s \in [1 .. m -> Bytes]
  BY DEF Content, BoundedSeq, SeqOf
<1>2. s \in Seq(Bytes)
  BY <1>1, SeqDef
<1>3. Len(s) = m
  BY <1>1, <1>2, LenProperties
<1> QED
  BY <1>1, <1>2, <1>3

LEMMA IsContent ==
  ASSUME NEW m \in 0 .. MaxLen, NEW s \in [1 .. m -> Bytes]
  PROVE  s \in Content /\ Len(s) = m
<1>1. s \in Content
  BY DEF Content, BoundedSeq, SeqOf
<1>2. s \in Seq(Bytes)
  BY SeqDef
<1> QED
  BY <1>1, <1>2, LenProperties

LEMMA EmptyContent == <<>> \in Content
<1>1. <<>> \in Seq(Bytes) /\ Len(<<>>) = 0
  BY EmptySeq
<1>2. <<>> \in [1 .. 0 -> Bytes]
  BY <1>1, LenProperties
<1>3. 0 \in 0 .. MaxLen
  OBVIOUS
<1>4. \A s \in [1 .. 0 -> Bytes] : s \in Content
  BY <1>3, IsContent
<1> QED
  BY <1>2, <1>4

(* What read, and what write when it stops early, leave of a content.      *)
LEMMA Beginning ==
  ASSUME NEW s \in Content, NEW k \in 0 .. Len(s)
  PROVE  /\ SubSeq(s, 1, k) \in Content
         /\ Len(SubSeq(s, 1, k)) = k
         /\ \A j \in 1 .. k : SubSeq(s, 1, k)[j] = s[j]
<1>1. s \in Seq(Bytes) /\ Len(s) \in 0 .. MaxLen
  BY Contents
<1>2. \A j \in 1 .. k : s[j] \in Bytes
  BY <1>1, ElementOfSeq
<1>3. /\ SubSeq(s, 1, k) \in Seq(Bytes)
      /\ Len(SubSeq(s, 1, k)) = IF 1 <= k THEN k - 1 + 1 ELSE 0
      /\ \A j \in 1 .. k - 1 + 1 : SubSeq(s, 1, k)[j] = s[1 + j - 1]
  BY <1>1, <1>2, SubSeqProperties
<1>4. Len(SubSeq(s, 1, k)) = k /\ k \in 0 .. MaxLen
  BY <1>1, <1>3
<1>5. SubSeq(s, 1, k) \in [1 .. k -> Bytes]
  BY <1>3, <1>4, LenProperties
<1>6. SubSeq(s, 1, k) \in Content
  BY <1>4, <1>5, IsContent
<1>7. \A j \in 1 .. k : SubSeq(s, 1, k)[j] = s[j]
  BY <1>1, <1>3
<1> QED
  BY <1>4, <1>6, <1>7

-----------------------------------------------------------------------------
(* After j turns of the loop the outer j bytes of both ends of b are those *)
(* of p in reverse, and what is between them is as it was read.            *)
Turned(b, p, j) ==
  \A k \in 1 .. Len(b) :
    b[k] = IF j < k /\ k <= Len(b) - j THEN p[k] ELSE p[Len(b) + 1 - k]

LEMMA OneTurn ==
  ASSUME NEW b \in Content, NEW p \in Content, Len(b) <= Len(p),
         NEW j \in Nat, j < Turns(Len(b)), Turned(b, p, j),
         NEW new, new = [b EXCEPT ![j + 1] = b[Len(b) - j], ![Len(b) - j] = b[j + 1]]
  PROVE  new \in Content /\ Len(new) = Len(b) /\ Turned(new, p, j + 1)
<1> DEFINE n == Len(b)
           x == j + 1
           y == n - j
<1>1. n \in 0 .. MaxLen /\ b \in [1 .. n -> Bytes]
  BY Contents
<1>2. x \in 1 .. n /\ y \in 1 .. n /\ x < y
  BY <1>1 DEF Turns
<1>3. new = [b EXCEPT ![x] = b[y], ![y] = b[x]]
  OBVIOUS
<1>4. new \in [1 .. n -> Bytes]
  BY <1>1, <1>2, <1>3
<1>5. new \in Content /\ Len(new) = n
  BY <1>1, <1>4, IsContent
<1>6. ASSUME NEW k \in 1 .. n
      PROVE  new[k] = IF j + 1 < k /\ k <= n - (j + 1) THEN p[k] ELSE p[n + 1 - k]
  <2>1. b[k] = IF j < k /\ k <= n - j THEN p[k] ELSE p[n + 1 - k]
    BY DEF Turned
  <2>2. b[x] = p[x] /\ b[y] = p[y]
    BY SMTT(40), <1>1, <1>2 DEF Turned
  <2>3. CASE k = x
    <3>1. new[k] = b[y]
      BY <1>1, <1>2, <1>3, <2>3
    <3>2. n + 1 - k = y
      BY <1>1, <2>3
    <3> QED
      BY <1>1, <2>2, <2>3, <3>1, <3>2
  <2>4. CASE k = y
    <3>1. new[k] = b[x]
      BY <1>1, <1>2, <1>3, <2>4
    <3>2. n + 1 - k = x
      BY <1>1, <2>4
    <3> QED
      BY <1>1, <2>2, <2>4, <3>1, <3>2
  <2>5. CASE k # x /\ k # y
    <3>1. new[k] = b[k]
      BY <1>1, <1>3, <2>5
    <3>2. (j < k /\ k <= n - j) <=> (j + 1 < k /\ k <= n - (j + 1))
      BY <1>1, <2>5
    <3> QED
      BY <2>1, <3>1, <3>2
  <2> QED
    BY <2>3, <2>4, <2>5
<1>7. Turned(new, p, j + 1)
  BY <1>5, <1>6 DEF Turned
<1> QED
  BY <1>5, <1>7

(* Half as many turns as there are bytes reverse them all: the byte in the *)
(* middle of an odd number is its own mirror image.                        *)
LEMMA AllTurned ==
  ASSUME NEW b \in Content, NEW p, NEW j \in Nat, Turned(b, p, j), j >= Turns(Len(b))
  PROVE  \A k \in 1 .. Len(b) : b[k] = p[Len(b) + 1 - k]
<1>1. Len(b) \in 0 .. MaxLen
  BY Contents
<1>2. ASSUME NEW k \in 1 .. Len(b), j < k, k <= Len(b) - j
      PROVE  k = Len(b) + 1 - k
  BY <1>1, <1>2 DEF Turns
<1> QED
  BY <1>1, <1>2 DEF Turned

(* What MirrorImage says of one copy.                                      *)
CopyOf(c, held) ==
  \E p, q \in held : Len(q) <= Len(p) /\ IsPrefix(c, Reverse(SubSeq(p, 1, Len(q))))

LEMMA Reversed ==
  ASSUME NEW s \in Content
  PROVE  /\ Reverse(s) \in Content /\ Len(Reverse(s)) = Len(s)
         /\ \A k \in 1 .. Len(s) : Reverse(s)[k] = s[Len(s) + 1 - k]
<1>1. Len(s) \in 0 .. MaxLen /\ s \in [1 .. Len(s) -> Bytes]
  BY Contents
<1>2. \A k \in 1 .. Len(s) : (Len(s) - k) + 1 \in 1 .. Len(s) /\ (Len(s) - k) + 1 = Len(s) + 1 - k
  BY <1>1
<1>3. Reverse(s) \in [1 .. Len(s) -> Bytes]
  BY <1>1, <1>2 DEF Reverse
<1>4. \A k \in 1 .. Len(s) : Reverse(s)[k] = s[Len(s) + 1 - k]
  BY <1>2 DEF Reverse
<1> QED
  BY <1>1, <1>3, <1>4, IsContent

LEMMA NothingIsACopy ==
  ASSUME NEW held, NEW p \in Content, p \in held
  PROVE  CopyOf(<<>>, held)
<1>1. Len(p) \in 0 .. MaxLen
  BY Contents
<1> DEFINE s == SubSeq(p, 1, Len(p))
<1>2. s \in Content
  BY <1>1, Beginning
<1> HIDE DEF s
<1>3. Len(Reverse(s)) \in Nat
  BY <1>2, Reversed, Contents
<1>4. Len(<<>>) = 0 /\ SubSeq(<<>>, 1, 0) = <<>> /\ SubSeq(Reverse(s), 1, 0) = <<>>
  BY SubSeqEmpty
<1>5. IsPrefix(<<>>, Reverse(s))
  BY <1>3, <1>4 DEF IsPrefix
<1> QED
  BY <1>1, <1>5 DEF CopyOf, s

(* Whatever part of a reversed buffer write stores is such a copy.         *)
LEMMA WrittenIsACopy ==
  ASSUME NEW held \in SUBSET Content, NEW p \in held, NEW q \in held, NEW b \in Content,
         Len(b) = Len(q), Len(b) <= Len(p),
         \A k \in 1 .. Len(b) : b[k] = p[Len(b) + 1 - k],
         NEW m \in 0 .. Len(b)
  PROVE  CopyOf(SubSeq(b, 1, m), held)
<1> DEFINE n == Len(b)
           c == SubSeq(b, 1, m)
<1>1. n \in 0 .. MaxLen /\ Len(p) \in 0 .. MaxLen
  BY Contents
<1> DEFINE s == SubSeq(p, 1, n)
           r == Reverse(s)
<1>2. s \in Content /\ Len(s) = n /\ \A j \in 1 .. n : s[j] = p[j]
  BY <1>1, Beginning
<1> HIDE DEF s
<1>3. r \in Content /\ Len(r) = n /\ \A k \in 1 .. n : r[k] = s[n + 1 - k]
  BY <1>2, Reversed
<1> HIDE DEF r
<1>4. \A k \in 1 .. n : r[k] = b[k]
  BY <1>1, <1>2, <1>3
<1>5. r = b
  BY <1>3, <1>4, Contents, SeqEqual
<1>6. c \in Content /\ Len(c) = m
  BY <1>1, Beginning
<1>7. SubSeq(c, 1, m) = c
  BY <1>6, Contents, SubSeqFull
<1>8. IsPrefix(c, r)
  BY <1>1, <1>5, <1>6, <1>7 DEF IsPrefix
<1> QED
  BY <1>8 DEF CopyOf, s, r

-----------------------------------------------------------------------------
(* What is open at each line, and where there is no buffer.                *)
Handles ==
  /\ fds = CASE pc \in {"fstat", "read"} -> {"dir", "src"}
             [] pc = "write" -> {"dir", "dst"}
             [] pc \in {"readdir", "open", "reverse", "create"} -> {"dir"}
             [] OTHER -> {}
  /\ pc \in {"mkdir", "opendir", "readdir", "open", "fstat", "done", "failed"} => buffer = None

(* What a file holds belongs to what it has held.                          *)
Remembered == \A n \in Names : src[n].data \in past[n]

(* The length fstat told is that of something the file has held, and the   *)
(* buffer has it.                                                          *)
Sized ==
  /\ pc \in {"read", "reverse", "create", "write"} =>
       \E q \in past[entry] : Len(q) = size
  /\ pc \in {"reverse", "create", "write"} => buffer \in Content /\ Len(buffer) = size

(* The buffer is one thing the file has held, as far as it is reversed.    *)
Reversing ==
  /\ pc = "reverse" =>
       \E p \in past[entry] : size <= Len(p) /\ Turned(buffer, p, i)
  /\ pc \in {"create", "write"} =>
       \E p \in past[entry] :
         size <= Len(p) /\ \A k \in 1 .. size : buffer[k] = p[size + 1 - k]

Copied == \A n \in Names : dst[n] # None => CopyOf(dst[n], past[n])

Counted == pc = "reverse" => i <= Turns(size)

IInv ==
  /\ TypeOK
  /\ Counted
  /\ Handles
  /\ Remembered
  /\ Sized
  /\ Reversing
  /\ Copied

LEMMA InitInv == Init => IInv
<1> SUFFICES ASSUME Init PROVE IInv
  OBVIOUS
<1>1. TypeOK
  <2>1. src \in [Names -> [kind : {"file", "other", "none"}, data : Content]]
    <3>1. [kind : {"file", "other"}, data : Content] \subseteq [kind : {"file", "other", "none"}, data : Content]
      OBVIOUS
    <3> QED
      BY <3>1 DEF Init
  <2>2. \A n \in Names : src[n].data \in Content
    BY <2>1
  <2>3. past \in [Names -> SUBSET Content]
    BY <2>2 DEF Init
  <2> QED
    BY <2>1, <2>3 DEF Init, TypeOK
<1>2. Handles /\ Sized /\ Reversing /\ Copied /\ Counted
  BY DEF Init, Handles, Sized, Reversing, Copied, Counted
<1>3. Remembered
  BY DEF Init, Remembered
<1> QED
  BY <1>1, <1>2, <1>3 DEF IInv

(* The steps that take no part in a file: what was copied and held stays.  *)
LEMMA FilesStay ==
  ASSUME IInv, UNCHANGED <<files, dst>>
  PROVE  Remembered' /\ Copied'
BY DEF IInv, files, Remembered, Copied

(* From and to a line at which nothing of a file is in hand.               *)
LEMMA Outside ==
  ASSUME IInv, UNCHANGED <<files, dst>>,
         pc' \in {"mkdir", "opendir", "readdir", "open", "fstat", "done", "failed"}
  PROVE  Remembered' /\ Copied' /\ Sized' /\ Reversing' /\ Counted'
BY FilesStay DEF Sized, Reversing, Counted

LEMMA MkdirInv == IInv /\ Mkdir => IInv'
<1> SUFFICES ASSUME IInv, Mkdir PROVE IInv'
  OBVIOUS
<1>1. TypeOK' /\ Handles'
  BY DEF IInv, TypeOK, Handles, Mkdir, files
<1> QED
  BY <1>1, Outside DEF Mkdir, IInv

LEMMA OpendirInv == IInv /\ Opendir => IInv'
<1> SUFFICES ASSUME IInv, Opendir PROVE IInv'
  OBVIOUS
<1>1. TypeOK' /\ Handles'
  BY DEF IInv, TypeOK, Handles, Opendir, files
<1> QED
  BY <1>1, Outside DEF Opendir, IInv

LEMMA ReaddirInv == IInv /\ Readdir => IInv'
<1> SUFFICES ASSUME IInv, Readdir PROVE IInv'
  OBVIOUS
<1>1. TypeOK' /\ Handles' /\ pc' \in {"open", "readdir"}
  BY DEF IInv, TypeOK, Handles, Readdir, files
<1> QED
  BY <1>1, Outside DEF Readdir, IInv

LEMMA FinishInv == IInv /\ Finish => IInv'
<1> SUFFICES ASSUME IInv, Finish PROVE IInv'
  OBVIOUS
<1>1. TypeOK' /\ Handles'
  BY DEF IInv, TypeOK, Handles, Finish, files
<1> QED
  BY <1>1, Outside DEF Finish, IInv

LEMMA OpenSourceFailsInv == IInv /\ OpenSourceFails => IInv'
<1> SUFFICES ASSUME IInv, OpenSourceFails PROVE IInv'
  OBVIOUS
<1>1. TypeOK' /\ Handles'
  BY DEF IInv, TypeOK, Handles, OpenSourceFails, files
<1> QED
  BY <1>1, Outside DEF OpenSourceFails, IInv

LEMMA ReadFailsInv == IInv /\ ReadFails => IInv'
<1> SUFFICES ASSUME IInv, ReadFails PROVE IInv'
  OBVIOUS
<1>1. TypeOK' /\ Handles'
  BY DEF IInv, TypeOK, Handles, ReadFails, CloseSource, files
<1> QED
  BY <1>1, Outside DEF ReadFails, IInv

LEMMA CreateFailsInv == IInv /\ CreateFails => IInv'
<1> SUFFICES ASSUME IInv, CreateFails PROVE IInv'
  OBVIOUS
<1>1. TypeOK' /\ Handles'
  BY DEF IInv, TypeOK, Handles, CreateFails, files
<1> QED
  BY <1>1, Outside DEF CreateFails, IInv

LEMMA OpenSourceInv == IInv /\ OpenSource => IInv'
<1> SUFFICES ASSUME IInv, OpenSource PROVE IInv'
  OBVIOUS
<1>1. TypeOK' /\ Handles'
  BY DEF IInv, TypeOK, Handles, OpenSource, files
<1> QED
  BY <1>1, Outside DEF OpenSource, IInv

LEMMA FstatFailsInv == IInv /\ FstatFails => IInv'
<1> SUFFICES ASSUME IInv, FstatFails PROVE IInv'
  OBVIOUS
<1>1. TypeOK' /\ Handles'
  BY DEF IInv, TypeOK, Handles, FstatFails, CloseSource, files
<1> QED
  BY <1>1, Outside DEF FstatFails, IInv

LEMMA FstatInv == IInv /\ Fstat => IInv'
<1> SUFFICES ASSUME IInv, Fstat PROVE IInv'
  OBVIOUS
<1>1. src[entry].data \in Content /\ src[entry].data \in past[entry]
  BY DEF IInv, TypeOK, Remembered
<1>2. <<>> \in Content
  BY EmptyContent
<1>3. TypeOK'
  BY <1>1, <1>2, Contents DEF IInv, TypeOK, Fstat, files
<1>4. Handles'
  BY DEF IInv, Handles, Fstat
<1>5. Sized' /\ Reversing' /\ Counted'
  BY <1>1 DEF Sized, Reversing, Counted, Fstat, files
<1> QED
  BY <1>3, <1>4, <1>5, FilesStay DEF Fstat, IInv

LEMMA ReadInv == IInv /\ Read => IInv'
<1> SUFFICES ASSUME IInv, Read PROVE IInv'
  OBVIOUS
<1> DEFINE data == src[entry].data
<1>1. /\ data \in Content /\ data \in past[entry] /\ size \in 0 .. Len(data)
      /\ pc = "read" /\ pc' = "reverse" /\ i' = 0 /\ UNCHANGED <<past, entry, size>>
  BY Contents DEF IInv, TypeOK, Remembered, Read, files
<1>2. /\ buffer' = SubSeq(data, 1, size)
      /\ buffer' \in Content /\ Len(buffer') = size
      /\ \A j \in 1 .. size : buffer'[j] = data[j]
  BY <1>1, Beginning DEF Read
<1>3. TypeOK'
  BY <1>2 DEF IInv, TypeOK, Read, CloseSource, files
<1>4. Handles'
  BY DEF IInv, Handles, Read, CloseSource
<1>5. Sized'
  BY <1>1, <1>2 DEF IInv, Sized
<1>6. Reversing'
  <2>1. size <= Len(data) /\ Len(data) \in Nat
    BY <1>1, Contents
  <2>2. Turned(buffer', data, 0)
    BY <1>1, <1>2 DEF Turned
  <2> QED
    BY <1>1, <2>1, <2>2 DEF Reversing
<1>7. Counted'
  BY <1>1 DEF Counted, Turns
<1> QED
  BY <1>3, <1>4, <1>5, <1>6, <1>7, FilesStay DEF Read, IInv

LEMMA SwapInv == IInv /\ Swap => IInv'
<1> SUFFICES ASSUME IInv, Swap PROVE IInv'
  OBVIOUS
<1>1. /\ pc = "reverse" /\ UNCHANGED <<pc, past, entry, size, fds>>
      /\ size \in 0 .. MaxLen /\ i \in Nat /\ i < Turns(size) /\ i' = i + 1
      /\ past[entry] \subseteq Content
      /\ buffer \in Content /\ Len(buffer) = size
  BY DEF IInv, TypeOK, Sized, Swap, files
<1>2. PICK p \in past[entry] : size <= Len(p) /\ Turned(buffer, p, i)
  BY <1>1 DEF IInv, Reversing
<1>3. buffer' = [buffer EXCEPT ![i + 1] = buffer[Len(buffer) - i],
                               ![Len(buffer) - i] = buffer[i + 1]]
  BY <1>1 DEF Swap
<1>4. buffer' \in Content /\ Len(buffer') = size /\ Turned(buffer', p, i')
  BY <1>1, <1>2, <1>3, OneTurn
<1>5. TypeOK'
  <2>1. i' \in 0 .. MaxLen
    BY <1>1 DEF Turns
  <2> QED
    BY <1>4, <2>1 DEF IInv, TypeOK, Swap, files
<1>6. Handles'
  BY <1>1 DEF IInv, Handles
<1>7. Sized'
  BY <1>1, <1>4 DEF IInv, Sized
<1>8. Reversing'
  BY <1>1, <1>2, <1>4 DEF Reversing
<1>9. Counted'
  BY <1>1 DEF Counted, Turns
<1> QED
  BY <1>5, <1>6, <1>7, <1>8, <1>9, FilesStay DEF Swap, IInv

LEMMA SwapDoneInv == IInv /\ SwapDone => IInv'
<1> SUFFICES ASSUME IInv, SwapDone PROVE IInv'
  OBVIOUS
<1>1. /\ pc = "reverse" /\ pc' = "create" /\ UNCHANGED <<past, entry, size, buffer, fds>>
      /\ i \in Nat /\ i >= Turns(size)
      /\ buffer \in Content /\ Len(buffer) = size
  BY DEF IInv, TypeOK, Sized, SwapDone, files
<1>2. PICK p \in past[entry] : size <= Len(p) /\ Turned(buffer, p, i)
  BY <1>1 DEF IInv, Reversing
<1>3. \A k \in 1 .. size : buffer[k] = p[size + 1 - k]
  BY <1>1, <1>2, AllTurned
<1>4. TypeOK'
  BY DEF IInv, TypeOK, SwapDone, files
<1>5. Handles'
  BY <1>1 DEF IInv, Handles
<1>6. Sized'
  BY <1>1 DEF IInv, Sized
<1>7. Reversing' /\ Counted'
  BY <1>1, <1>2, <1>3 DEF Reversing, Counted
<1> QED
  BY <1>4, <1>5, <1>6, <1>7, FilesStay DEF SwapDone, IInv

LEMMA CreateInv == IInv /\ Create => IInv'
<1> SUFFICES ASSUME IInv, Create PROVE IInv'
  OBVIOUS
<1>1. dst' = [dst EXCEPT ![entry] = <<>>] /\ UNCHANGED <<src, past, entry, size, buffer>>
  BY DEF Create, files
<1>2. src[entry].data \in past[entry] /\ src[entry].data \in Content
  BY DEF IInv, TypeOK, Remembered
<1>3. TypeOK'
  BY EmptyContent DEF IInv, TypeOK, Create, files
<1>4. Handles'
  BY DEF IInv, Handles, Create
<1>5. Remembered'
  BY <1>1 DEF IInv, Remembered
<1>6. Sized' /\ Reversing' /\ Counted'
  BY <1>1 DEF IInv, Sized, Reversing, Counted, Create
<1>7. Copied'
  <2>1. CopyOf(<<>>, past[entry])
    BY <1>2, NothingIsACopy
  <2> QED
    BY <1>1, <2>1 DEF IInv, TypeOK, Copied
<1> QED
  BY <1>3, <1>4, <1>5, <1>6, <1>7 DEF IInv

LEMMA WriteInv == IInv /\ Write => IInv'
<1> SUFFICES ASSUME IInv, Write PROVE IInv'
  OBVIOUS
<1>1. /\ pc = "write" /\ pc' = "readdir" /\ buffer' = None
      /\ UNCHANGED <<src, past, edits, entry, size, todo, i>>
      /\ past[entry] \in SUBSET Content
      /\ buffer \in Content /\ Len(buffer) = size /\ size \in 0 .. MaxLen
  BY DEF IInv, TypeOK, Sized, Write, files
<1>2. PICK k \in 0 .. size : dst' = [dst EXCEPT ![entry] = SubSeq(buffer, 1, k)]
  BY DEF Write
<1>3. PICK p \in past[entry] :
        size <= Len(p) /\ \A j \in 1 .. size : buffer[j] = p[size + 1 - j]
  BY <1>1 DEF IInv, Reversing
<1>4. PICK q \in past[entry] : Len(q) = size
  BY <1>1 DEF IInv, Sized
<1>5. CopyOf(SubSeq(buffer, 1, k), past[entry])
  BY <1>1, <1>3, <1>4, WrittenIsACopy
<1>6. SubSeq(buffer, 1, k) \in Content
  BY <1>1, Beginning
<1>7. TypeOK'
  BY <1>1, <1>2, <1>6 DEF IInv, TypeOK, Write
<1>8. Handles'
  BY <1>1 DEF IInv, Handles, Write
<1>9. Remembered' /\ Sized' /\ Reversing' /\ Counted'
  BY <1>1 DEF IInv, Remembered, Sized, Reversing, Counted
<1>10. Copied'
  BY <1>1, <1>2, <1>5 DEF IInv, TypeOK, Copied
<1> QED
  BY <1>7, <1>8, <1>9, <1>10 DEF IInv

(* A change by another program takes nothing from what the files have held.*)
LEMMA EditInv == \A n \in Names : IInv /\ Edit(n) => IInv'
<1> SUFFICES ASSUME NEW n \in Names, IInv, Edit(n) PROVE IInv'
  OBVIOUS
<1>1. /\ src' \in [Names -> [kind : {"file", "other", "none"}, data : Content]]
      /\ \A m \in Names : m # n => src'[m] = src[m]
  <2>1. CASE \E data \in Content : src' = [src EXCEPT ![n].data = data]
    BY <2>1 DEF IInv, TypeOK
  <2>2. CASE src' = [src EXCEPT ![n].kind = "none"]
    BY <2>2 DEF IInv, TypeOK
  <2> QED
    BY <2>1, <2>2 DEF Edit
<1>2. /\ past' \in [Names -> SUBSET Content]
      /\ past'[n] = past[n] \cup {src'[n].data}
      /\ \A m \in Names : past[m] \subseteq past'[m]
  BY <1>1 DEF IInv, TypeOK, Edit
<1>3. UNCHANGED <<dst, pc, todo, entry, size, buffer, i, fds>> /\ entry \in Names
  BY DEF IInv, TypeOK, Edit
<1>4. TypeOK'
  BY <1>1, <1>2, <1>3 DEF IInv, TypeOK, Edit
<1>5. Handles' /\ Counted'
  BY <1>3 DEF IInv, Handles, Counted
<1>6. Remembered'
  BY <1>1, <1>2 DEF IInv, Remembered
<1>7. Sized' /\ Reversing'
  BY <1>2, <1>3 DEF IInv, Sized, Reversing
<1>8. Copied'
  BY <1>2, <1>3 DEF IInv, Copied, CopyOf
<1> QED
  BY <1>4, <1>5, <1>6, <1>7, <1>8 DEF IInv

LEMMA StutterInv == IInv /\ UNCHANGED vars => IInv'
BY DEF vars, files, IInv, TypeOK, Counted, Handles, Remembered, Sized, Reversing, Copied

LEMMA NextInv == IInv /\ [Next]_vars => IInv'
BY MkdirInv, OpendirInv, ReaddirInv, FinishInv, OpenSourceInv, OpenSourceFailsInv,
   FstatInv, FstatFailsInv, ReadInv,
   ReadFailsInv, SwapInv, SwapDoneInv, CreateInv, CreateFailsInv, WriteInv, EditInv, StutterInv
   DEF Next, Copy

LEMMA Invariance == Spec => []IInv
<1> QED
  BY InitInv, NextInv, PTL DEF Spec

(* No variable of the copying program leaves its type, whatever the names, *)
(* the bytes, the lengths and the number of changes.                       *)
THEOREM TypeCorrect == Spec => []TypeOK
<1>1. IInv => TypeOK
  BY DEF IInv
<1> QED
  BY <1>1, Invariance, PTL

(* Every copy is the mirror image of what its file held at one moment, cut *)
(* at most to the length of another, or the beginning of one, whenever and *)
(* however often others change the files and whichever calls fail.         *)
THEOREM CopiesAreMirrorImages == Spec => []MirrorImage
<1>1. IInv => MirrorImage
  BY DEF IInv, Copied, CopyOf, MirrorImage
<1> QED
  BY <1>1, Invariance, PTL

(* Whatever fails, nothing of a file is still held when the next one is    *)
(* looked for, and nothing at all at the end.                              *)
THEOREM NothingLeaks == Spec => []NoLeak
<1>1. IInv => NoLeak
  BY DEF IInv, Handles, NoLeak
<1> QED
  BY <1>1, Invariance, PTL

-----------------------------------------------------------------------------
(* The commands of FileOps, their Names and entry renamed: DirCopy has its *)
(* own.                                                                    *)
CONSTANTS FileNames, Paths, MaxNodes, Modes, MaxLinks
VARIABLES node, link, pending, shown

F == INSTANCE FileOps WITH Names <- FileNames, entry <- link

(* Every place has an entry, if only 0.                                    *)
EntriesEverywhere == link = [pl \in F!Place |-> link[pl]]

(* A step that gives one vacant place a node, or takes the node of one     *)
(* place away, disturbs no two names that are there before and after it.   *)
LEMMA OneEntry ==
  ASSUME EntriesEverywhere, NEW place, NEW n,
         link' = [link EXCEPT ![place] = n],
         n = 0 \/ link[place] = 0
  PROVE  F!Together /\ EntriesEverywhere'
<1>1. \A pl \in F!Place : link'[pl] = IF pl = place THEN n ELSE link[pl]
  BY DEF EntriesEverywhere
<1>2. F!Together
  BY <1>1 DEF F!Together
<1>3. EntriesEverywhere'
  BY DEF EntriesEverywhere
<1> QED
  BY <1>2, <1>3

(* A step that leaves the directories alone.                               *)
LEMMA NoEntry ==
  ASSUME EntriesEverywhere, UNCHANGED link
  PROVE  F!Together /\ EntriesEverywhere'
BY DEF F!Together, EntriesEverywhere

(* No step of any command puts a node in a place that has one.             *)
LEMMA StepTogether ==
  ASSUME EntriesEverywhere, [F!Next]_F!vars
  PROVE  F!Together /\ EntriesEverywhere'
<1>1. ASSUME NEW place, NEW new, F!Create(place, new), link[place] = 0
      PROVE  F!Together /\ EntriesEverywhere'
  BY <1>1, OneEntry DEF F!Create
<1>2. ASSUME NEW place, F!RemoveName(place)
      PROVE  F!Together /\ EntriesEverywhere'
  BY <1>2, OneEntry DEF F!RemoveName
<1>3. CASE UNCHANGED F!vars
  BY <1>3, NoEntry DEF F!vars
<1>4. ASSUME NEW args \in F!Arguments, F!CreateDirectory(args)
      PROVE  F!Together /\ EntriesEverywhere'
  BY <1>1, <1>4 DEF F!CreateDirectory, F!Vacant
<1>5. ASSUME NEW args \in F!Arguments, F!RemoveDirectory(args)
      PROVE  F!Together /\ EntriesEverywhere'
  BY <1>2, <1>5 DEF F!RemoveDirectory
<1>6. ASSUME NEW args \in F!Arguments, F!CreateFile(args)
      PROVE  F!Together /\ EntriesEverywhere'
  BY <1>1, <1>6, NoEntry DEF F!CreateFile, F!Truncate, F!Vacant
<1>7. ASSUME NEW args \in F!Arguments, F!Unlink(args)
      PROVE  F!Together /\ EntriesEverywhere'
  BY <1>2, <1>7 DEF F!Unlink
<1>8. ASSUME NEW args \in F!Arguments, F!CreateSymlink(args)
      PROVE  F!Together /\ EntriesEverywhere'
  BY <1>1, <1>8 DEF F!CreateSymlink, F!Vacant
<1>9. ASSUME NEW args \in F!Arguments, F!CreateHardlink(args)
      PROVE  F!Together /\ EntriesEverywhere'
  BY <1>9, OneEntry DEF F!CreateHardlink, F!Vacant
<1>10. ASSUME NEW args \in F!Arguments, NEW mode \in Modes, F!ChangePermissions(args, mode)
       PROVE  F!Together /\ EntriesEverywhere'
  BY <1>10, NoEntry DEF F!ChangePermissions
<1>11. ASSUME NEW args \in F!Arguments, F!ReadLink(args)
       PROVE  F!Together /\ EntriesEverywhere'
  BY <1>11, NoEntry DEF F!ReadLink
<1>12. ASSUME NEW args \in F!Arguments, F!OpenFile(args)
       PROVE  F!Together /\ EntriesEverywhere'
  BY <1>12, NoEntry DEF F!OpenFile, F!Opens
<1>13. CASE F!OpenTarget
  BY <1>13, NoEntry DEF F!OpenTarget, F!Opens
<1>14. ASSUME NEW n \in F!Node, F!ReadFile(n) \/ F!CloseFile(n) \/ F!Edit(n)
       PROVE  F!Together /\ EntriesEverywhere'
  BY <1>14, NoEntry DEF F!ReadFile, F!CloseFile, F!Edit
<1> QED
  BY <1>3, <1>4, <1>5, <1>6, <1>7, <1>8, <1>9, <1>10, <1>11, <1>12, <1>13, <1>14 DEF F!Next

(* No sequence of commands, however it is interleaved, makes one of two    *)
(* names of a file mean something else while both are there.               *)
THEOREM HardLinksStayTogether == F!Spec => F!LinksTogether
<1>1. F!Init => EntriesEverywhere
  BY DEF F!Init, EntriesEverywhere
<1>2. EntriesEverywhere /\ [F!Next]_F!vars => EntriesEverywhere'
  BY StepTogether
<1>3. EntriesEverywhere /\ [F!Next]_F!vars => [F!Together]_F!vars
  BY StepTogether
<1> QED
  BY <1>1, <1>2, <1>3, PTL DEF F!Spec, F!LinksTogether

(* Every node says what it is, what it holds and what may be done with it. *)
Records ==
  /\ node = [n \in F!Node |-> node[n]]
  /\ \A n \in F!Node :
       node[n] = [kind |-> node[n].kind, holds |-> node[n].holds, mode |-> node[n].mode]

AllKept == (\A n \in F!Node : F!Kept(n)) /\ Records'

(* A step that touches no node.                                            *)
LEMMA NoNode == ASSUME Records, UNCHANGED node PROVE AllKept
BY DEF Records, AllKept, F!Kept

(* A step that makes a node of one that was free.                          *)
LEMMA NewNode ==
  ASSUME Records, NEW place, NEW kind, NEW holds, NEW mode,
         F!Create(place, [kind |-> kind, holds |-> holds, mode |-> mode])
  PROVE  AllKept
<1> DEFINE new == [kind |-> kind, holds |-> holds, mode |-> mode]
<1>1. PICK n \in F!Node : node[n].kind = "free" /\ node' = [node EXCEPT ![n] = new]
  BY DEF F!Create, F!Fresh
<1>2. \A m \in F!Node : node'[m] = IF m = n THEN new ELSE node[m]
  BY <1>1 DEF Records
<1>3. Records'
  BY <1>1, <1>2 DEF Records
<1>4. \A m \in F!Node : F!Kept(m)
  BY <1>1, <1>2 DEF F!Kept
<1> QED
  BY <1>3, <1>4 DEF AllKept

(* A step that takes a name away: the node goes with its last name, unless *)
(* somebody has it open.                                                   *)
LEMMA NodeRemoved ==
  ASSUME Records, EntriesEverywhere, NEW place, F!RemoveName(place), UNCHANGED pending
  PROVE  AllKept
<1>1. CASE UNCHANGED node
  BY <1>1, NoNode
<1>2. CASE ~UNCHANGED node
  <2> DEFINE gone == link[place]
  <2>1. /\ node' = [node EXCEPT ![gone] = F!Free]
        /\ \A pl \in F!Place \ {place} : link[pl] # gone
        /\ gone \notin F!Reading
    BY <1>2 DEF F!RemoveName
  <2>2. \A n \in F!Node : node'[n] = IF n = gone THEN F!Free ELSE node[n]
    BY <2>1 DEF Records
  <2>3. Records'
    BY <2>1, <2>2 DEF Records, F!Free
  <2>4. gone \notin F!Reading'
    BY <2>1 DEF F!Reading
  <2>5. gone \in F!Node => \A pl \in F!Place : link'[pl] # gone
    <3>1. \A pl \in F!Place : link'[pl] = IF pl = place THEN 0 ELSE link[pl]
      BY DEF F!RemoveName, EntriesEverywhere
    <3>2. 0 \notin F!Node
      BY DEF F!Node
    <3> QED
      BY <2>1, <3>1, <3>2
  <2>6. \A n \in F!Node : F!Kept(n)
    BY <2>2, <2>4, <2>5 DEF F!Kept
  <2> QED
    BY <2>3, <2>6 DEF AllKept
<1> QED
  BY <1>1, <1>2

(* A step that changes what a node holds or who may use it, but no name.   *)
LEMMA NodeChanged ==
  ASSUME Records, NEW m, NEW kind, NEW holds, NEW mode, UNCHANGED link,
         node' = [node EXCEPT ![m] = [kind |-> kind, holds |-> holds, mode |-> mode]],
         m \in F!Node => F!Kept(m)
  PROVE  AllKept
<1>1. \A n \in F!Node : n # m => node'[n] = node[n]
  BY DEF Records
<1>2. m \in F!Node => node'[m] = [kind |-> kind, holds |-> holds, mode |-> mode]
  BY DEF Records
<1>3. Records'
  BY <1>1, <1>2 DEF Records
<1>4. \A n \in F!Node : F!Kept(n)
  BY <1>1 DEF F!Kept
<1> QED
  BY <1>3, <1>4 DEF AllKept

LEMMA StepKept ==
  ASSUME EntriesEverywhere, Records, [F!Next]_F!vars
  PROVE  AllKept
<1>1. CASE UNCHANGED F!vars
  BY <1>1, NoNode DEF F!vars
<1>2. ASSUME NEW args \in F!Arguments, F!CreateDirectory(args) \/ F!CreateSymlink(args) PROVE AllKept
  BY <1>2, NewNode DEF F!CreateDirectory, F!CreateSymlink
<1>3. ASSUME NEW args \in F!Arguments, F!RemoveDirectory(args) \/ F!Unlink(args) PROVE AllKept
  BY <1>3, NodeRemoved DEF F!RemoveDirectory, F!Unlink, F!NotPrinting
<1>4. ASSUME NEW args \in F!Arguments, F!CreateFile(args) PROVE AllKept
  <2> DEFINE place == F!Meant(args[2])
             m == F!At(place)
  <2>1. CASE F!Vacant(place) /\ F!Create(place, [kind |-> "file", holds |-> "empty", mode |-> {"r", "w"}])
    BY <2>1, NewNode
  <2>2. CASE F!Is(place, "file") /\ "w" \in node[m].mode /\ F!Truncate(place)
    <3>1. node' = [node EXCEPT ![m] = [@ EXCEPT !.holds = "empty"]] /\ UNCHANGED link
      BY <2>2 DEF F!Truncate
    <3>2. CASE m \in F!Node
      <4>1. [node[m] EXCEPT !.holds = "empty"] = [kind |-> node[m].kind, holds |-> "empty", mode |-> node[m].mode]
        BY <3>2 DEF Records
      <4>2. node'[m] = [node[m] EXCEPT !.holds = "empty"]
        BY <3>1, <3>2 DEF Records
      <4>3. F!Kept(m)
        BY <2>2, <3>1, <4>2 DEF F!Kept
      <4> QED
        BY <3>1, <4>1, <4>3, NodeChanged
    <3>3. CASE m \notin F!Node
      BY <3>1, <3>3, NoNode DEF Records
    <3> QED
      BY <3>2, <3>3
  <2> QED
    BY <1>4, <2>1, <2>2 DEF F!CreateFile
<1>5. ASSUME NEW args \in F!Arguments, F!CreateHardlink(args) \/ F!ReadLink(args) \/ F!OpenFile(args)
      PROVE  AllKept
  BY <1>5, NoNode DEF F!CreateHardlink, F!ReadLink, F!OpenFile, F!Opens
<1>6. ASSUME NEW args \in F!Arguments, NEW mode \in Modes, F!ChangePermissions(args, mode) PROVE AllKept
  <2> DEFINE m == F!At(F!Meant(args[2]))
  <2>1. node' = [node EXCEPT ![m] = [@ EXCEPT !.mode = mode]] /\ UNCHANGED link
    BY <1>6 DEF F!ChangePermissions
  <2>2. CASE m \in F!Node
    <3>1. [node[m] EXCEPT !.mode = mode] = [kind |-> node[m].kind, holds |-> node[m].holds, mode |-> mode]
      BY <2>2 DEF Records
    <3>2. F!Kept(m)
      BY <2>1, <2>2, <3>1 DEF F!Kept, Records
    <3> QED
      BY <2>1, <3>1, <3>2, NodeChanged
  <2>3. CASE m \notin F!Node
    BY <2>1, <2>3, NoNode DEF Records
  <2> QED
    BY <2>2, <2>3
<1>7. CASE F!OpenTarget
  BY <1>7, NoNode DEF F!OpenTarget, F!Opens
<1>8. ASSUME NEW n \in F!Node, F!ReadFile(n) PROVE AllKept
  BY <1>8, NoNode DEF F!ReadFile
<1>9. ASSUME NEW n \in F!Node, F!CloseFile(n) PROVE AllKept
  <2>1. CASE UNCHANGED node
    BY <2>1, NoNode
  <2>2. CASE ~UNCHANGED node
    <3>1. /\ node' = [node EXCEPT ![n] = F!Free] /\ UNCHANGED link
          /\ \A pl \in F!Place : link[pl] # n
          /\ pending' = F!Idle
      BY <1>9, <2>2 DEF F!CloseFile
    <3>2. n \notin F!Reading'
      BY <3>1 DEF F!Reading, F!Idle
    <3>3. F!Kept(n)
      BY <3>1, <3>2 DEF F!Kept
    <3> QED
      BY <3>1, <3>3, NodeChanged DEF F!Free
  <2> QED
    BY <2>1, <2>2
<1>10. ASSUME NEW n \in F!Node, F!Edit(n) PROVE AllKept
  <2>1. node' = [node EXCEPT ![n] = [@ EXCEPT !.holds = "text"]] /\ UNCHANGED link
    BY <1>10 DEF F!Edit
  <2>2. [node[n] EXCEPT !.holds = "text"] = [kind |-> node[n].kind, holds |-> "text", mode |-> node[n].mode]
    BY DEF Records
  <2>3. F!Kept(n)
    BY <1>10, <2>1, <2>2 DEF F!Kept, F!Edit, Records
  <2> QED
    BY <2>1, <2>2, <2>3, NodeChanged
<1> QED
  BY <1>1, <1>2, <1>3, <1>4, <1>5, <1>6, <1>7, <1>8, <1>9, <1>10 DEF F!Next

(* A text is lost with its last name and its last reader, or because one   *)
(* who may write empties the file, whatever commands run at the same time. *)
THEOREM TextsAreKept == F!Spec => F!TextKept
<1>1. F!Init => EntriesEverywhere /\ Records
  BY SMTT(40) DEF F!Init, EntriesEverywhere, Records, F!Free
<1>2. EntriesEverywhere /\ Records /\ [F!Next]_F!vars => EntriesEverywhere' /\ Records'
  BY StepTogether, StepKept DEF AllKept
<1>3. EntriesEverywhere /\ Records /\ [F!Next]_F!vars => [\A n \in F!Node : F!Kept(n)]_F!vars
  BY StepKept DEF AllKept
<1> QED
  BY <1>1, <1>2, <1>3, PTL DEF F!Spec, F!TextKept

=============================================================================
