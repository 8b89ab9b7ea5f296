--------------------------- MODULE SharedPageProofs ---------------------------
(***************************************************************************)
(* Proofs about SharedPage for every set of writers and readers, every     *)
(* page length, every width of the counter and every number of kills.      *)
(* Exclusion is inductive; what the page holds needs to be known also      *)
(* while a writer is half way through it (Filling) and what a reader       *)
(* remembers while it is (Reading).                                        *)
(***************************************************************************)
EXTENDS SharedPage, TLAPS

(* With no writer at the page and no permit lost, the page is whole.       *)
Settled ==
  lost = 0 /\ (\A w \in Writers : pc[w] # "pass") => Unwritten \/ Consecutive(N)

(* A writer at the page continues what it has written of it.               *)
Filling ==
  \A w \in Writers : pc[w] = "pass" =>
    /\ Consecutive(i[w])
    /\ i[w] > 0 => counter[w] = Succ(page[i[w] - 1])

(* A reader at the page remembers the element before its index.            *)
Reading ==
  \A r \in Readers : pc[r] = "pass" /\ i[r] > 0 => prev[r] = page[i[r] - 1]

(* The inductive invariant: what is to be proved, and what the two loops   *)
(* rely on.                                                                *)
IInv == TypeOK /\ Exclusion /\ Settled /\ Filling /\ Reading

(* A zeroed page, one permit, and no process running.                      *)
LEMMA InitIInv == Init => IInv
<1> SUFFICES ASSUME Init PROVE IInv
  OBVIOUS
<1>1. TypeOK
  BY SharedPageConstants DEF Init, TypeOK, Index, UInt
<1>2. Exclusion
  BY DEF Init, Exclusion
<1>3. Settled /\ Filling /\ Reading
  BY DEF Init, Settled, Filling, Reading, Unwritten, Proc
<1> QED
  BY <1>1, <1>2, <1>3 DEF IInv

(* Every step keeps the types; exclusion is needed for the permit to be a  *)
(* natural number of at most one.                                          *)
LEMMA TypeStep == TypeOK /\ Exclusion /\ [Next]_vars => TypeOK'
<1> USE SharedPageConstants DEF TypeOK, Index, UInt, Proc
<1> SUFFICES ASSUME TypeOK, Exclusion, [Next]_vars PROVE TypeOK'
  OBVIOUS
<1>1. ASSUME NEW p \in Proc, Start(p) PROVE TypeOK'
  <2>1. counter' \in [Writers -> 0 .. W - 1]
    BY <1>1 DEF Start
  <2>2. prev' \in [Readers -> 0 .. W - 1]
    BY <1>1 DEF Start
  <2>3. first' \in [Readers -> BOOLEAN]
    <3>1. first' = [r \in Readers |-> IF r = p THEN TRUE ELSE first[r]]
      BY <1>1 DEF Start
    <3> QED
      BY <3>1, Zenon
  <2>4. i' \in [Proc -> 0 .. N]
    BY <1>1 DEF Start
  <2> QED
    BY <1>1, <2>1, <2>2, <2>3, <2>4 DEF Start
<1>2. ASSUME NEW p \in Proc, SemWait(p) PROVE TypeOK'
  <2>1. sem' = 0 /\ i' \in [Proc -> 0 .. N]
    BY <1>2 DEF SemWait, Exclusion
  <2> QED
    BY <1>2, <2>1 DEF SemWait
<1>3. ASSUME NEW w \in Writers, WriteElement(w) PROVE TypeOK'
  <2>1. i[w] \in 0 .. N - 1 /\ i[w] + 1 \in 0 .. N
    <3>1. i[w] \in 0 .. N /\ i[w] < N
      BY <1>3 DEF WriteElement
    <3> QED
      BY <3>1
  <2>2. page' \in [0 .. N - 1 -> 0 .. W - 1]
    BY <1>3, <2>1 DEF WriteElement
  <2>3. counter' \in [Writers -> 0 .. W - 1]
    <3>1. \A v \in 0 .. W - 1 : Succ(v) \in 0 .. W - 1
      BY DEF Succ
    <3> QED
      BY <1>3, <3>1 DEF WriteElement
  <2>4. i' \in [Proc -> 0 .. N]
    BY <1>3, <2>1 DEF WriteElement
  <2> QED
    BY <1>3, <2>2, <2>3, <2>4, w \in Proc DEF WriteElement
<1>4. ASSUME NEW r \in Readers, ReadElement(r) PROVE TypeOK'
  <2>1. i[r] + 1 \in 0 .. N /\ i[r] \in 0 .. N - 1 /\ page[i[r]] \in 0 .. W - 1
    BY <1>4 DEF ReadElement
  <2> QED
    BY <1>4, <2>1 DEF ReadElement
<1>5. ASSUME NEW p \in Proc, SemPost(p) PROVE TypeOK'
  BY <1>5 DEF SemPost
<1>6. ASSUME NEW p \in Proc, Wake(p) PROVE TypeOK'
  BY <1>6 DEF Wake
<1>7. ASSUME NEW p \in Proc, Kill(p) PROVE TypeOK'
  <2>1. pc[p] = "pass" => lost = 0
    BY DEF Exclusion
  <2> QED
    BY <1>7, <2>1 DEF Kill
<1> QED
  BY <1>1, <1>2, <1>3, <1>4, <1>5, <1>6, <1>7 DEF Next, Run, vars

(* One permit, in one of three places, whatever step is taken.             *)
LEMMA ExclusionStep == TypeOK /\ Exclusion /\ [Next]_vars => Exclusion'
<1> SUFFICES ASSUME TypeOK, Exclusion, [Next]_vars PROVE Exclusion'
  OBVIOUS
<1> USE DEF TypeOK, Exclusion
<1>1. ASSUME NEW p \in Proc, Start(p) PROVE Exclusion'
  BY <1>1 DEF Start
<1>2. ASSUME NEW p \in Proc, SemWait(p) PROVE Exclusion'
  BY <1>2 DEF SemWait
<1>3. ASSUME NEW w \in Writers, WriteElement(w) PROVE Exclusion'
  BY <1>3 DEF WriteElement
<1>4. ASSUME NEW r \in Readers, ReadElement(r) PROVE Exclusion'
  BY <1>4 DEF ReadElement
<1>5. ASSUME NEW p \in Proc, SemPost(p) PROVE Exclusion'
  BY <1>5 DEF SemPost
<1>6. ASSUME NEW p \in Proc, Wake(p) PROVE Exclusion'
  BY <1>6 DEF Wake
<1>7. ASSUME NEW p \in Proc, Kill(p) PROVE Exclusion'
  BY <1>7 DEF Kill
<1> QED
  BY <1>1, <1>2, <1>3, <1>4, <1>5, <1>6, <1>7 DEF Next, Run, vars

(* A writer extends the run of numbers it has written of the page by one.  *)
LEMMA WriteIInv ==
  ASSUME IInv, NEW w \in Writers, WriteElement(w)
  PROVE  Settled' /\ Filling' /\ Reading'
<1>1. PICK k : k = i[w]
  OBVIOUS
<1>2. /\ pc[w] = "pass" /\ w \in Proc /\ k \in Nat /\ k < N /\ k \in Index
      /\ pc' = pc
      /\ \A p \in Proc : pc[p] = "pass" => p = w
      /\ N \in Nat /\ W \in Nat
  BY <1>1, SharedPageConstants DEF WriteElement, IInv, TypeOK, Exclusion, Proc, Index
<1>3. Settled' /\ Reading'
  <2>1. \A r \in Readers : pc'[r] # "pass"
    BY <1>2, SharedPageConstants DEF Proc
  <2> QED
    BY <1>2, <2>1 DEF Settled, Reading
<1>4. /\ page' = [page EXCEPT ![k] = counter[w]]
      /\ counter'[w] = Succ(counter[w]) /\ i'[w] = k + 1
  BY <1>1 DEF WriteElement, IInv, TypeOK, Proc
<1>5. page'[k] = counter[w] /\ \A m \in Index : m # k => page'[m] = page[m]
  BY <1>2, <1>4 DEF IInv, TypeOK
<1>6. ASSUME NEW m \in Index, m + 1 < k + 1 PROVE page'[m + 1] = Succ(page'[m])
  <2>1. m \in Nat /\ m # k /\ m + 1 \in Index /\ page'[m] = page[m]
    BY <1>2, <1>5, <1>6 DEF Index
  <2>2. CASE m + 1 = k
    <3>1. counter[w] = Succ(page[m])
      <4>1. k > 0 /\ k - 1 = m
        BY <2>1, <2>2, <1>2
      <4> QED
        BY <4>1, <1>1, <1>2 DEF IInv, Filling
    <3> QED
      BY <2>1, <2>2, <3>1, <1>5
  <2>3. CASE m + 1 < k
    <3>1. page[m + 1] = Succ(page[m])
      BY <2>3, <1>1, <1>2 DEF IInv, Filling, Consecutive
    <3> QED
      BY <2>1, <2>3, <3>1, <1>2, <1>5
  <2> QED
    BY <2>1, <2>2, <2>3, <1>2, <1>6
<1>7. Consecutive(i[w])'
  BY <1>4, <1>6 DEF Consecutive
<1>8. counter'[w] = Succ(page'[i'[w] - 1]) 
  <2>1. i'[w] - 1 = k
    BY <1>2, <1>4
  <2> QED
    BY <2>1, <1>4, <1>5
<1>9. Filling'
  <2> SUFFICES ASSUME NEW v \in Writers, pc'[v] = "pass"
               PROVE  Consecutive(i[v])' /\ counter'[v] = Succ(page'[i'[v] - 1])
    BY DEF Filling
  <2>1. v = w
    BY <1>2 DEF Proc
  <2> QED
    BY <2>1, <1>7, <1>8
<1> QED
  BY <1>3, <1>9

(* Every step of every process, kills included, preserves the invariant.   *)
LEMMA StepIInv == IInv /\ [Next]_vars => IInv'
<1> SUFFICES ASSUME IInv, [Next]_vars PROVE Settled' /\ Filling' /\ Reading'
  BY TypeStep, ExclusionStep DEF IInv
<1>0. /\ TypeOK /\ Exclusion /\ Settled /\ Filling /\ Reading
      /\ Writers \cap Readers = {} /\ N \in Nat /\ N > 1
  BY SharedPageConstants DEF IInv
<1>1. ASSUME NEW p \in Proc, Start(p) PROVE Settled' /\ Filling' /\ Reading'
  BY <1>0, <1>1 DEF Start, TypeOK, Settled, Filling, Reading, Unwritten, Consecutive, Proc
<1>2. ASSUME NEW p \in Proc, SemWait(p) PROVE Settled' /\ Filling' /\ Reading'
  <2>1. /\ \A q \in Proc : pc'[q] = "pass" => q = p /\ i'[q] = 0
        /\ UNCHANGED <<page, lost>>
        /\ \A q \in Proc : pc[q] # "pass"
    BY <1>0, <1>2 DEF SemWait, TypeOK, Exclusion
  <2>2. Settled'
    BY <1>0, <2>1 DEF Settled, Unwritten, Consecutive, Proc
  <2>3. Filling'
    BY <2>1 DEF Filling, Consecutive, Index, Proc
  <2>4. Reading'
    BY <2>1 DEF Reading, Proc
  <2> QED
    BY <2>2, <2>3, <2>4
<1>3. ASSUME NEW w \in Writers, WriteElement(w) PROVE Settled' /\ Filling' /\ Reading'
  BY <1>3, WriteIInv
<1>4. ASSUME NEW r \in Readers, ReadElement(r) PROVE Settled' /\ Filling' /\ Reading'
  <2>1. Settled'
    BY <1>0, <1>4 DEF ReadElement, Settled, Unwritten, Consecutive
  <2>2. Filling'
    BY <1>0, <1>4 DEF ReadElement, TypeOK, Exclusion, Filling, Consecutive, Proc
  <2>3. Reading'
    <3>1. \A q \in Readers : pc'[q] = "pass" => q = r
      BY <1>0, <1>4 DEF ReadElement, Exclusion, Proc
    <3>2. prev'[r] = page[i[r]] /\ i'[r] - 1 = i[r] /\ page' = page
      BY <1>0, <1>4 DEF ReadElement, TypeOK, Proc
    <3> QED
      BY <3>1, <3>2 DEF Reading
  <2> QED
    BY <2>1, <2>2, <2>3
<1>5. ASSUME NEW p \in Proc, SemPost(p) PROVE Settled' /\ Filling' /\ Reading'
  <2>1. /\ \A q \in Proc : pc'[q] # "pass"
        /\ UNCHANGED <<page, lost>> /\ pc[p] = "pass" /\ i[p] = N
    BY <1>0, <1>5 DEF SemPost, TypeOK, Exclusion
  <2>2. Settled'
    <3>1. CASE p \in Writers
      <4>1. Consecutive(N)
        BY <1>0, <2>1, <3>1 DEF Filling
      <4> QED
        BY <2>1, <4>1 DEF Settled, Consecutive
    <3>2. CASE p \in Readers
      <4>1. \A w \in Writers : pc[w] # "pass"
        BY <1>0, <2>1, <3>2 DEF Exclusion, Proc
      <4> QED
        BY <1>0, <2>1, <4>1 DEF Settled, Unwritten, Consecutive
    <3> QED
      BY <3>1, <3>2 DEF Proc
  <2> QED
    BY <2>1, <2>2 DEF Filling, Reading, Proc
<1>6. ASSUME NEW p \in Proc, Wake(p) PROVE Settled' /\ Filling' /\ Reading'
  BY <1>0, <1>6 DEF Wake, TypeOK, Settled, Filling, Reading, Unwritten, Consecutive, Proc
<1>7. ASSUME NEW p \in Proc, Kill(p) PROVE Settled' /\ Filling' /\ Reading'
  <2>1. /\ \A q \in Proc : pc'[q] = "pass" => pc[q] = "pass" /\ q # p
        /\ UNCHANGED <<page, i, counter, prev>>
    BY <1>0, <1>7 DEF Kill, TypeOK
  <2>2. Filling' /\ Reading'
    BY <1>0, <2>1 DEF Filling, Reading, Consecutive, Proc
  <2>3. CASE pc[p] = "pass"
    <3>1. lost' = 1
      BY <1>0, <1>7, <2>3 DEF Kill, Exclusion, TypeOK
    <3> QED
      BY <2>2, <3>1 DEF Settled
  <2>4. CASE pc[p] # "pass"
    <3>1. lost' = lost /\ \A q \in Proc : pc[q] = "pass" => pc'[q] = "pass"
      BY <1>0, <1>7, <2>4 DEF Kill, TypeOK
    <3> QED
      BY <1>0, <2>1, <2>2, <3>1 DEF Settled, Unwritten, Consecutive, Proc
  <2> QED
    BY <2>3, <2>4
<1>8. CASE UNCHANGED vars
  BY <1>0, <1>8 DEF vars, Settled, Filling, Reading, Unwritten, Consecutive
<1> QED
  BY <1>1, <1>2, <1>3, <1>4, <1>5, <1>6, <1>7, <1>8 DEF Next, Run

-----------------------------------------------------------------------------
(* The inductive invariant holds for every set of processes, page length   *)
(* and word width.                                                         *)
THEOREM Invariance == Spec => []IInv
<1>1. Init => IInv
  BY InitIInv
<1>2. IInv /\ [Next]_vars => IInv'
  BY StepIInv
<1> QED
  BY <1>1, <1>2, PTL DEF Spec

(* Every variable of the exchange keeps its type.                          *)
THEOREM TypeCorrect == Spec => []TypeOK
<1>1. IInv => TypeOK
  BY DEF IInv
<1> QED
  BY <1>1, Invariance, PTL

(* One process at a time is at the page, and the permit is never doubled.  *)
THEOREM MutualExclusion == Spec => []Exclusion
<1>1. IInv => Exclusion
  BY DEF IInv
<1> QED
  BY <1>1, Invariance, PTL

(* Whoever enters finds an unwritten page or one complete run of numbers.  *)
THEOREM PageIsWhole == Spec => []PageWhole
<1>1. IInv => PageWhole
  BY DEF IInv, Exclusion, Settled, PageWhole, Proc
<1> QED
  BY <1>1, Invariance, PTL

(* Inside a pass a reader reports errors on an unwritten page only.        *)
THEOREM ReadsAreWhole == Spec => []NoTornRead
<1>1. IInv => NoTornRead
  <2> SUFFICES ASSUME IInv, NEW r \in Readers, Reports(r), i[r] # 0, ~Unwritten
               PROVE  FALSE
    BY DEF NoTornRead
  <2>1. pc[r] = "pass" /\ i[r] < N /\ i[r] \in Nat \ {0} /\ N \in Nat
    BY SharedPageConstants DEF Reports, IInv, TypeOK, Proc
  <2>2. lost = 0 /\ \A w \in Writers : pc[w] # "pass"
    BY <2>1, SharedPageConstants DEF IInv, Exclusion, TypeOK, Proc
  <2>3. Consecutive(N)
    BY <2>2 DEF IInv, Settled
  <2>4. page[i[r] - 1 + 1] = Succ(page[i[r] - 1])
    <3>1. i[r] - 1 \in Index /\ i[r] - 1 + 1 < N
      BY <2>1 DEF Index
    <3> QED
      BY <2>3, <3>1 DEF Consecutive
  <2>5. i[r] - 1 + 1 = i[r] /\ prev[r] = page[i[r] - 1]
    BY <2>1 DEF IInv, Reading
  <2> QED
    BY <2>4, <2>5 DEF Reports
<1> QED
  BY <1>1, Invariance, PTL

=============================================================================
