------------------------------ MODULE SharedPage ------------------------------
(***************************************************************************)
(* The shared memory exchange of lab6/first.c.  Writers fill a page of     *)
(* shared memory with a running counter, readers check that the numbers    *)
(* they find follow one another; a named semaphore created with value 1 is *)
(* taken before a pass over the page and given back after it.              *)
(*                                                                         *)
(* Every access to one element of the page is a step, so that processes    *)
(* interleave between elements.  The processes run until they are killed,  *)
(* at any step; the page and the semaphore are named objects that nobody   *)
(* unlinks, and a process started again finds them as they were.           *)
(***************************************************************************)
EXTENDS Integers

CONSTANTS
  Writers, Readers, (* the processes started as "writer" and as "reader"   *)
  N,                (* num_elements: the unsigned ints of a page           *)
  W,                (* 2^w for an unsigned int of w bits                   *)
  MaxKills          (* bound: how many processes are killed in all         *)

ASSUME SharedPageConstants ==
  /\ Writers \cap Readers = {}
  /\ N \in Nat /\ N > 1
  /\ W \in Nat /\ W > N
  /\ MaxKills \in Nat

VARIABLES
  sem,     (* the value of the semaphore                                   *)
  page,    (* the shared page                                              *)
  pc,      (* where each process is: "down", "wait", "pass" or "sleep"     *)
  i,       (* each process's loop index                                    *)
  counter, (* each writer's counter                                        *)
  prev,    (* each reader's prev_value                                     *)
  first,   (* each reader's first_read                                     *)
  kills,   (* processes killed so far                                      *)
  lost     (* of these, how many died between sem_wait and sem_post        *)

vars == <<sem, page, pc, i, counter, prev, first, kills, lost>>

Proc == Writers \cup Readers
Index == 0 .. N - 1
UInt == 0 .. W - 1

(* v + 1 in unsigned int.                                                  *)
Succ(v) == IF v = W - 1 THEN 0 ELSE v + 1

-----------------------------------------------------------------------------
(* The page is zeroed by ftruncate and the semaphore created by whoever    *)
(* comes first.                                                            *)
Init ==
  /\ sem = 1
  /\ page = [k \in Index |-> 0]
  /\ pc = [p \in Proc |-> "down"]
  /\ i = [p \in Proc |-> 0]
  /\ counter = [w \in Writers |-> 0]
  /\ prev = [r \in Readers |-> 0]
  /\ first = [r \in Readers |-> TRUE]
  /\ kills = 0
  /\ lost = 0

(* A process starts, or starts again, with fresh locals.                   *)
Start(p) ==
  /\ pc[p] = "down"
  /\ pc' = [pc EXCEPT ![p] = "wait"]
  /\ i' = [i EXCEPT ![p] = 0]
  /\ counter' = [w \in Writers |-> IF w = p THEN 0 ELSE counter[w]]
  /\ prev' = [r \in Readers |-> IF r = p THEN 0 ELSE prev[r]]
  /\ first' = [r \in Readers |-> IF r = p THEN TRUE ELSE first[r]]
  /\ UNCHANGED <<sem, page, kills, lost>>

(* Mutant of SemWait: waits for the permit but does not take it.           *)
SemWaitLooks(p) ==
  /\ pc[p] = "wait"
  /\ sem > 0
  /\ pc' = [pc EXCEPT ![p] = "pass"]
  /\ i' = [i EXCEPT ![p] = 0]
  /\ UNCHANGED <<sem, page, counter, prev, first, kills, lost>>

SemWait(p) ==
  /\ pc[p] = "wait"
  /\ sem > 0
  /\ sem' = sem - 1
  /\ pc' = [pc EXCEPT ![p] = "pass"]
  /\ i' = [i EXCEPT ![p] = 0]
  /\ UNCHANGED <<page, counter, prev, first, kills, lost>>

(* ptr[i] = counter++                                                      *)
WriteElement(w) ==
  /\ pc[w] = "pass"
  /\ i[w] < N
  /\ page' = [page EXCEPT ![i[w]] = counter[w]]
  /\ counter' = [counter EXCEPT ![w] = Succ(counter[w])]
  /\ i' = [i EXCEPT ![w] = i[w] + 1]
  /\ UNCHANGED <<sem, pc, prev, first, kills, lost>>

(* current = ptr[i], its comparison with prev_value, and the update.       *)
ReadElement(r) ==
  /\ pc[r] = "pass"
  /\ i[r] < N
  /\ prev' = [prev EXCEPT ![r] = page[i[r]]]
  /\ first' = [first EXCEPT ![r] = FALSE]
  /\ i' = [i EXCEPT ![r] = i[r] + 1]
  /\ UNCHANGED <<sem, page, pc, counter, kills, lost>>

(* The next ReadElement(r) prints "Sequence error".                        *)
Reports(r) ==
  /\ pc[r] = "pass" /\ i[r] < N
  /\ ~first[r]
  /\ page[i[r]] # Succ(prev[r])

(* Mutants of SemPost: one element early; without giving the permit back.  *)
SemPostEarly(p) ==
  /\ pc[p] = "pass"
  /\ i[p] >= N - 1
  /\ sem' = sem + 1
  /\ pc' = [pc EXCEPT ![p] = "sleep"]
  /\ UNCHANGED <<page, i, counter, prev, first, kills, lost>>
SemPostForgets(p) ==
  /\ pc[p] = "pass"
  /\ i[p] = N
  /\ pc' = [pc EXCEPT ![p] = "sleep"]
  /\ UNCHANGED <<sem, page, i, counter, prev, first, kills, lost>>

SemPost(p) ==
  /\ pc[p] = "pass"
  /\ i[p] = N
  /\ sem' = sem + 1
  /\ pc' = [pc EXCEPT ![p] = "sleep"]
  /\ UNCHANGED <<page, i, counter, prev, first, kills, lost>>

(* usleep(1000) is over.                                                   *)
Wake(p) ==
  /\ pc[p] = "sleep"
  /\ pc' = [pc EXCEPT ![p] = "wait"]
  /\ UNCHANGED <<sem, page, i, counter, prev, first, kills, lost>>

(* The process dies where it is; the semaphore knows nothing of it.        *)
Kill(p) ==
  /\ pc[p] # "down"
  /\ kills < MaxKills
  /\ kills' = kills + 1
  /\ lost' = IF pc[p] = "pass" THEN lost + 1 ELSE lost
  /\ pc' = [pc EXCEPT ![p] = "down"]
  /\ UNCHANGED <<sem, page, i, counter, prev, first>>

(* What a running process does by itself.                                  *)
Run(p) ==
  \/ SemWait(p)
  \/ p \in Writers /\ WriteElement(p)
  \/ p \in Readers /\ ReadElement(p)
  \/ SemPost(p)
  \/ Wake(p)

Next == \E p \in Proc : Start(p) \/ Run(p) \/ Kill(p)

Spec == Init /\ [][Next]_vars

(* The scheduler runs every process that can run.  Nothing is said about   *)
(* who gets the semaphore: sem_post wakes some waiter, not the oldest.     *)
FairSpec == Spec /\ \A p \in Proc : WF_vars(Run(p))

-----------------------------------------------------------------------------
(* The type invariant: what each variable may hold.                        *)
TypeOK ==
  /\ sem \in Nat
  /\ page \in [Index -> UInt]
  /\ pc \in [Proc -> {"down", "wait", "pass", "sleep"}]
  /\ i \in [Proc -> 0 .. N]
  /\ counter \in [Writers -> UInt]
  /\ prev \in [Readers -> UInt]
  /\ first \in [Readers -> BOOLEAN]
  /\ kills \in 0 .. MaxKills
  /\ lost \in 0 .. MaxKills

(* The semaphore admits one process at a time to the page, whatever is     *)
(* killed, and its single permit is with the semaphore, with the process   *)
(* at the page, or lost with a process killed there; once it is lost,      *)
(* nobody enters again, those started afterwards included.                 *)
Exclusion ==
  /\ \A p, q \in Proc : pc[p] = "pass" /\ pc[q] = "pass" => p = q
  /\ sem > 0 => sem = 1 /\ lost = 0 /\ \A p \in Proc : pc[p] # "pass"
  /\ lost > 0 => lost = 1 /\ \A p \in Proc : pc[p] # "pass"

(* The first n elements of the page follow one another.                    *)
Consecutive(n) == \A k \in Index : k + 1 < n => page[k + 1] = Succ(page[k])

Unwritten == \A k \in Index : page[k] = 0

(* Whoever may enter finds a page that was never written or one that some  *)
(* writer filled from end to end, also across counter overflow.            *)
PageWhole == sem > 0 => Unwritten \/ Consecutive(N)

(* Within one pass a reader reports an error only on the page nobody has   *)
(* written yet: no interleaving and no kill shows it a half-written page.  *)
NoTornRead == \A r \in Readers : Reports(r) => i[r] = 0 \/ Unwritten

(* As long as no permit is lost, a process that waits sees somebody get to *)
(* the page again and again: killing a process elsewhere blocks nobody.    *)
Progress ==
  \A p \in Proc :
    pc[p] = "wait" ~> (\E q \in Proc : pc[q] = "pass") \/ pc[p] # "wait" \/ lost > 0

=============================================================================
