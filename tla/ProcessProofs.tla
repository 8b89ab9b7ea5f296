------------------------------ MODULE ProcessProofs ------------------------------
(***************************************************************************)
(* The programs of lab5 and the tracer of lab2.                            *)
(*                                                                         *)
(* Of the five programs: no line is written twice, the sleeps make true    *)
(* what they are there for, and what is printed of ends and page frames is *)
(* true, for every depth of third.c's recursion and any number of kills.   *)
(*                                                                         *)
(* What the scripts are made of is looked up once, call by call (Known).   *)
(* The invariant then is built in layers, each inductive given the ones    *)
(* before it: where the two processes are (Core), what each program's      *)
(* variables are at each call (FirstRuns, ParZRuns, ObserveRuns), that the *)
(* lines are sequences of true lines (Lined, AllGood), and that each line  *)
(* was said by a call of its own (Told).                                   *)
(***************************************************************************)
EXTENDS LifeCycle, SequenceTheorems, TLAPS

-----------------------------------------------------------------------------
(* The calls the scripts are made of.                                      *)
CPrintf(text, shows) == [op |-> "printf", text |-> text, shows |-> shows]
CSleep(s)  == [op |-> "sleep", seconds |-> s]
CAssign(v) == [op |-> "assign", to |-> v]
CExit(c)   == [op |-> "exit", code |-> c]
CJust(op)  == [op |-> op]

LEMMA Calling ==
  /\ \A text, shows : Printf(text, shows) = <<CPrintf(text, shows)>>
  /\ \A text : Say(text) = <<CPrintf(text, "nothing")>>
  /\ \A text : PrintPagemapInfo(text) = <<CPrintf(text, "frame")>>
  /\ \A text, s : PrintWithDelay(text, s) =
        <<CPrintf(text, "nothing")>> \o <<CJust("fflush")>> \o <<CSleep(s)>>
  /\ \A s : Sleep(s) = <<CSleep(s)>>
  /\ \A v : Assign(v) = <<CAssign(v)>>
  /\ \A c : Exit(c) = <<CExit(c)>>
  /\ Flush = <<CJust("fflush")>> /\ Fork = <<CJust("fork")>> /\ Clone = <<CJust("clone")>>
  /\ Waitpid = <<CJust("waitpid")>> /\ Munmap = <<CJust("munmap")>>
  /\ ReturnToClone = <<CJust("return")>> /\ Try = <<CJust("try")>>
BY DEF CPrintf, CSleep, CAssign, CExit, CJust, Printf, Say, PrintPagemapInfo, PrintWithDelay,
       Sleep, Assign, Exit, Flush, Fork, Clone, Waitpid, Munmap, ReturnToClone, Try

Calls(p) == Len(Script(p))
ForkAt ==
  CASE prog = "first" -> 2 [] prog = "observe" -> 9 [] prog = "third" -> 3 [] OTHER -> 1

(* What the proofs use of call c, the k-th of process p: what it does ...  *)
Does(p, k, c) ==
  /\ c.op \in {"exit", "return"} <=> k = Calls(p)
  /\ c.op \in {"fork", "clone"} <=> p = "parent" /\ k = ForkAt
  /\ c.op = "sleep" =>
       /\ c.seconds \in Nat \ {0}
       /\ prog = "ParZ" => p = "child" /\ k = 2
       /\ prog = "first" => k = IF p = "child" THEN 4 ELSE IF k < 5 THEN 3 ELSE 7
  /\ prog = "first" /\ p = "parent" /\ k = 3 => c.op = "sleep"
  /\ prog = "ParZ" /\ p = "child" /\ k = 2 => c.op = "sleep"
  /\ c.op = "assign" => p = "child" /\ c.to = 100 /\ (prog = "first" => k = 2)
  /\ prog = "first" /\ p = "child" /\ k = 2 => c.op = "assign"
  /\ prog = "observe" => (c.op = "assign" <=> p = "child" /\ k = 12)
  /\ c.op = "waitpid" => p = "parent" /\ prog # "ParZ"
  /\ prog = "first" => (c.op = "waitpid" <=> p = "parent" /\ k = 5)
  /\ prog = "observe" /\ p = "parent" => (k = 7 => c.op = "fflush") /\ (k = 8 => c.op = "sleep")

(* ... and what it prints.                                                 *)
Prints(p, k, c) ==
  c.op = "printf" =>
    /\ c.text = "child_ended" => prog = "first" /\ p = "parent" /\ k = 6 /\ c.shows = "status"
    /\ c.text = "New_PPID_init" => prog = "ParZ" /\ p = "child" /\ k = 3 /\ c.shows = "ppid"
    /\ c.text = "frame_at_start" => prog = "observe" /\ p = "parent" /\ c.shows = "frame"
    /\ c.text = "frame_before" => prog = "observe" /\ p = "child" /\ k < 12 /\ c.shows = "frame"
    /\ c.text = "frame_after" => prog = "observe" /\ p = "child" /\ k > 12 /\ c.shows = "frame"
    /\ c.text = "frame_of_parent" => prog = "observe" /\ p = "parent" /\ c.shows = "frame"
    /\ prog = "first" /\ c.text = "after_child_changes" => p = "parent" /\ k = 4

(* All of it, and that a process other than third.c's prints no text twice.*)
Known(p) ==
  /\ Calls(p) \in Nat \ {0}
  /\ \A k \in 1 .. Calls(p) : Does(p, k, Script(p)[k]) /\ Prints(p, k, Script(p)[k])
  /\ prog # "third" =>
       \A j, k \in 1 .. Calls(p) :
         /\ Script(p)[j].op = "printf" /\ Script(p)[k].op = "printf"
         /\ Script(p)[j].text = Script(p)[k].text
         => j = k

LEMMA Learnt ==
  ASSUME NEW p, NEW s, s = Script(p), NEW n \in Nat \ {0}, Calls(p) = n,
         \A k \in 1 .. n : Does(p, k, s[k]),
         \A k \in 1 .. n : Prints(p, k, s[k]),
         prog # "third" =>
           \A j, k \in 1 .. n :
             s[j].op = "printf" /\ s[k].op = "printf" /\ s[j].text = s[k].text => j = k
  PROVE  Known(p)
BY DEF Known

LEMMA KnownFirstParent == prog = "first" => Known("parent")
<1> SUFFICES ASSUME prog = "first" PROVE Known("parent")
  OBVIOUS
<1>0. PICK s : s = Script("parent")
  OBVIOUS
<1>1. s = (<<CPrintf("start", "value")>> \o <<CJust("fork")>>) \o (<<CSleep(1)>>
          \o <<CPrintf("after_child_changes", "value")>> \o <<CJust("waitpid")>>
          \o <<CPrintf("child_ended", "status")>> \o <<CSleep(300)>> \o <<CExit(0)>>)
  BY <1>0, Calling DEF Script, Program, First
<1>2. Len(s) = 8 /\ Calls("parent") = 8 /\ ForkAt = 2
  <2>1. Len(s) = 8
    BY <1>1
  <2>2. ForkAt = 2
    BY DEF ForkAt
  <2> QED
    BY <1>0, <2>1, <2>2 DEF Calls
<1>3. /\ s[1] = CPrintf("start", "value")
      /\ s[2] = CJust("fork")
      /\ s[3] = CSleep(1)
      /\ s[4] = CPrintf("after_child_changes", "value")
      /\ s[5] = CJust("waitpid")
      /\ s[6] = CPrintf("child_ended", "status")
  BY <1>1, SMTT(30)
<1>4. /\ s[7] = CSleep(300)
      /\ s[8] = CExit(0)
  BY <1>1, SMTT(30)
<1>5. ASSUME NEW k \in 1 .. 8 PROVE Does("parent", k, s[k])
  BY <1>2, <1>3, <1>4, SMTT(60) DEF Does, CPrintf, CSleep, CAssign, CExit, CJust
<1>6. ASSUME NEW k \in 1 .. 8 PROVE Prints("parent", k, s[k])
  BY <1>0, <1>2, <1>3, <1>4, SMTT(60) DEF Prints, CPrintf, CSleep, CAssign, CExit, CJust
<1> DEFINE Place(t) == CASE t = "start" -> 1
                    [] t = "after_child_changes" -> 4
                    [] t = "child_ended" -> 6
<1>7. ASSUME NEW k \in 1 .. 8, s[k].op = "printf" PROVE k = Place(s[k].text)
  BY <1>7, <1>2, <1>3, <1>4, SMTT(60) DEF CPrintf, CSleep, CAssign, CExit, CJust
<1> HIDE DEF Place
<1> QED
  <2>1. \A j, k \in 1 .. 8 :
          s[j].op = "printf" /\ s[k].op = "printf" /\ s[j].text = s[k].text => j = k
    BY <1>7
  <2>2. 8 \in Nat \ {0}
    OBVIOUS
  <2> QED
    BY <1>0, <1>2, <1>5, <1>6, <2>1, <2>2, Learnt

LEMMA KnownFirstChild == prog = "first" => Known("child")
<1> SUFFICES ASSUME prog = "first" PROVE Known("child")
  OBVIOUS
<1>0. PICK s : s = Script("child")
  OBVIOUS
<1>1. s = <<CPrintf("child_before", "value")>> \o <<CAssign(100)>>
          \o <<CPrintf("child_changed", "value")>> \o <<CSleep(300)>> \o <<CExit(5)>>
  BY <1>0, Calling DEF Script, Program, First
<1>2. Len(s) = 5 /\ Calls("child") = 5 /\ ForkAt = 2
  <2>1. Len(s) = 5
    BY <1>1
  <2>2. ForkAt = 2
    BY DEF ForkAt
  <2> QED
    BY <1>0, <2>1, <2>2 DEF Calls
<1>3. /\ s[1] = CPrintf("child_before", "value")
      /\ s[2] = CAssign(100)
      /\ s[3] = CPrintf("child_changed", "value")
      /\ s[4] = CSleep(300)
      /\ s[5] = CExit(5)
  BY <1>1, SMTT(30)
<1>4. ASSUME NEW k \in 1 .. 5 PROVE Does("child", k, s[k])
  BY <1>2, <1>3, SMTT(60) DEF Does, CPrintf, CSleep, CAssign, CExit, CJust
<1>5. ASSUME NEW k \in 1 .. 5 PROVE Prints("child", k, s[k])
  BY <1>0, <1>2, <1>3, SMTT(60) DEF Prints, CPrintf, CSleep, CAssign, CExit, CJust
<1> DEFINE Place(t) == CASE t = "child_before" -> 1
                    [] t = "child_changed" -> 3
<1>6. ASSUME NEW k \in 1 .. 5, s[k].op = "printf" PROVE k = Place(s[k].text)
  BY <1>6, <1>2, <1>3, SMTT(60) DEF CPrintf, CSleep, CAssign, CExit, CJust
<1> HIDE DEF Place
<1> QED
  <2>1. \A j, k \in 1 .. 5 :
          s[j].op = "printf" /\ s[k].op = "printf" /\ s[j].text = s[k].text => j = k
    BY <1>6
  <2>2. 5 \in Nat \ {0}
    OBVIOUS
  <2> QED
    BY <1>0, <1>2, <1>4, <1>5, <2>1, <2>2, Learnt

LEMMA KnownObserveParent == prog = "observe" => Known("parent")
<1> SUFFICES ASSUME prog = "observe" PROVE Known("parent")
  OBVIOUS
<1>0. PICK s : s = Script("parent")
  OBVIOUS
<1>1. s = (<<CPrintf("start", "value")>> \o (<<CPrintf("before_fork", "nothing")>>
          \o <<CJust("fflush")>> \o <<CSleep(1)>>) \o <<CPrintf("frame_at_start", "frame")>>
          \o (<<CPrintf("forking", "nothing")>> \o <<CJust("fflush")>> \o <<CSleep(5)>>)
          \o <<CJust("fork")>>) \o ((<<CPrintf("parent_continues", "nothing")>>
          \o <<CJust("fflush")>> \o <<CSleep(1)>>)
          \o (<<CPrintf("waiting_to_modify", "nothing")>> \o <<CJust("fflush")>>
          \o <<CSleep(5)>>) \o <<CPrintf("after_child_changes", "value")>>
          \o (<<CPrintf("in_parent_after", "nothing")>> \o <<CJust("fflush")>>
          \o <<CSleep(1)>>) \o <<CPrintf("frame_of_parent", "frame")>>
          \o (<<CPrintf("waiting_to_terminate", "nothing")>> \o <<CJust("fflush")>>
          \o <<CSleep(1)>>) \o <<CJust("waitpid")>> \o <<CExit(0)>>)
  BY <1>0, Calling DEF Script, Program, Observe
<1>2. Len(s) = 25 /\ Calls("parent") = 25 /\ ForkAt = 9
  <2>1. Len(s) = 25
    BY <1>1
  <2>2. ForkAt = 9
    BY DEF ForkAt
  <2> QED
    BY <1>0, <2>1, <2>2 DEF Calls
<1>3. /\ s[1] = CPrintf("start", "value")
      /\ s[2] = CPrintf("before_fork", "nothing")
      /\ s[3] = CJust("fflush")
      /\ s[4] = CSleep(1)
      /\ s[5] = CPrintf("frame_at_start", "frame")
      /\ s[6] = CPrintf("forking", "nothing")
  BY <1>1, SMTT(30)
<1>4. /\ s[7] = CJust("fflush")
      /\ s[8] = CSleep(5)
      /\ s[9] = CJust("fork")
      /\ s[10] = CPrintf("parent_continues", "nothing")
      /\ s[11] = CJust("fflush")
      /\ s[12] = CSleep(1)
  BY <1>1, SMTT(30)
<1>5. /\ s[13] = CPrintf("waiting_to_modify", "nothing")
      /\ s[14] = CJust("fflush")
      /\ s[15] = CSleep(5)
      /\ s[16] = CPrintf("after_child_changes", "value")
      /\ s[17] = CPrintf("in_parent_after", "nothing")
      /\ s[18] = CJust("fflush")
  BY <1>1, SMTT(30)
<1>6. /\ s[19] = CSleep(1)
      /\ s[20] = CPrintf("frame_of_parent", "frame")
      /\ s[21] = CPrintf("waiting_to_terminate", "nothing")
      /\ s[22] = CJust("fflush")
      /\ s[23] = CSleep(1)
      /\ s[24] = CJust("waitpid")
  BY <1>1, SMTT(30)
<1>7. /\ s[25] = CExit(0)
  BY <1>1, SMTT(30)
<1>8. ASSUME NEW k \in 1 .. 25 PROVE Does("parent", k, s[k])
  BY <1>2, <1>3, <1>4, <1>5, <1>6, <1>7, SMTT(60) DEF Does, CPrintf, CSleep, CAssign, CExit, CJust
<1>9. ASSUME NEW k \in 1 .. 25 PROVE Prints("parent", k, s[k])
  BY <1>0, <1>2, <1>3, <1>4, <1>5, <1>6, <1>7, SMTT(60)
  DEF Prints, CPrintf, CSleep, CAssign, CExit, CJust
<1> DEFINE Place(t) == CASE t = "start" -> 1
                    [] t = "before_fork" -> 2
                    [] t = "frame_at_start" -> 5
                    [] t = "forking" -> 6
                    [] t = "parent_continues" -> 10
                    [] t = "waiting_to_modify" -> 13
                    [] t = "after_child_changes" -> 16
                    [] t = "in_parent_after" -> 17
                    [] t = "frame_of_parent" -> 20
                    [] t = "waiting_to_terminate" -> 21
<1>10. ASSUME NEW k \in 1 .. 25, s[k].op = "printf" PROVE k = Place(s[k].text)
  BY <1>10, <1>2, <1>3, <1>4, <1>5, <1>6, <1>7, SMTT(60) DEF CPrintf, CSleep, CAssign, CExit, CJust
<1> HIDE DEF Place
<1> QED
  <2>1. \A j, k \in 1 .. 25 :
          s[j].op = "printf" /\ s[k].op = "printf" /\ s[j].text = s[k].text => j = k
    BY <1>10
  <2>2. 25 \in Nat \ {0}
    OBVIOUS
  <2> QED
    BY <1>0, <1>2, <1>8, <1>9, <2>1, <2>2, Learnt

LEMMA KnownObserveChild == prog = "observe" => Known("child")
<1> SUFFICES ASSUME prog = "observe" PROVE Known("child")
  OBVIOUS
<1>0. PICK s : s = Script("child")
  OBVIOUS
<1>1. s = (<<CPrintf("child_started", "nothing")>> \o <<CJust("fflush")>> \o <<CSleep(1)>>)
          \o <<CPrintf("child_before", "value")>>
          \o (<<CPrintf("before_modification", "nothing")>> \o <<CJust("fflush")>>
          \o <<CSleep(1)>>) \o <<CPrintf("frame_before", "frame")>>
          \o (<<CPrintf("will_modify", "nothing")>> \o <<CJust("fflush")>> \o <<CSleep(5)>>)
          \o <<CAssign(100)>> \o <<CPrintf("child_changed", "value")>>
          \o (<<CPrintf("after_modification", "nothing")>> \o <<CJust("fflush")>>
          \o <<CSleep(1)>>) \o <<CPrintf("frame_after", "frame")>>
          \o (<<CPrintf("will_sleep", "nothing")>> \o <<CJust("fflush")>> \o <<CSleep(1)>>)
          \o <<CSleep(300)>> \o <<CExit(0)>>
  BY <1>0, Calling DEF Script, Program, Observe
<1>2. Len(s) = 22 /\ Calls("child") = 22 /\ ForkAt = 9
  <2>1. Len(s) = 22
    BY <1>1
  <2>2. ForkAt = 9
    BY DEF ForkAt
  <2> QED
    BY <1>0, <2>1, <2>2 DEF Calls
<1>3. /\ s[1] = CPrintf("child_started", "nothing")
      /\ s[2] = CJust("fflush")
      /\ s[3] = CSleep(1)
      /\ s[4] = CPrintf("child_before", "value")
      /\ s[5] = CPrintf("before_modification", "nothing")
      /\ s[6] = CJust("fflush")
  BY <1>1, SMTT(30)
<1>4. /\ s[7] = CSleep(1)
      /\ s[8] = CPrintf("frame_before", "frame")
      /\ s[9] = CPrintf("will_modify", "nothing")
      /\ s[10] = CJust("fflush")
      /\ s[11] = CSleep(5)
      /\ s[12] = CAssign(100)
  BY <1>1, SMTT(30)
<1>5. /\ s[13] = CPrintf("child_changed", "value")
      /\ s[14] = CPrintf("after_modification", "nothing")
      /\ s[15] = CJust("fflush")
      /\ s[16] = CSleep(1)
      /\ s[17] = CPrintf("frame_after", "frame")
      /\ s[18] = CPrintf("will_sleep", "nothing")
  BY <1>1, SMTT(30)
<1>6. /\ s[19] = CJust("fflush")
      /\ s[20] = CSleep(1)
      /\ s[21] = CSleep(300)
      /\ s[22] = CExit(0)
  BY <1>1, SMTT(30)
<1>7. ASSUME NEW k \in 1 .. 22 PROVE Does("child", k, s[k])
  BY <1>2, <1>3, <1>4, <1>5, <1>6, SMTT(60) DEF Does, CPrintf, CSleep, CAssign, CExit, CJust
<1>8. ASSUME NEW k \in 1 .. 22 PROVE Prints("child", k, s[k])
  BY <1>0, <1>2, <1>3, <1>4, <1>5, <1>6, SMTT(60) DEF Prints, CPrintf, CSleep, CAssign, CExit, CJust
<1> DEFINE Place(t) == CASE t = "child_started" -> 1
                    [] t = "child_before" -> 4
                    [] t = "before_modification" -> 5
                    [] t = "frame_before" -> 8
                    [] t = "will_modify" -> 9
                    [] t = "child_changed" -> 13
                    [] t = "after_modification" -> 14
                    [] t = "frame_after" -> 17
                    [] t = "will_sleep" -> 18
<1>9. ASSUME NEW k \in 1 .. 22, s[k].op = "printf" PROVE k = Place(s[k].text)
  BY <1>9, <1>2, <1>3, <1>4, <1>5, <1>6, SMTT(60) DEF CPrintf, CSleep, CAssign, CExit, CJust
<1> HIDE DEF Place
<1> QED
  <2>1. \A j, k \in 1 .. 22 :
          s[j].op = "printf" /\ s[k].op = "printf" /\ s[j].text = s[k].text => j = k
    BY <1>9
  <2>2. 22 \in Nat \ {0}
    OBVIOUS
  <2> QED
    BY <1>0, <1>2, <1>7, <1>8, <2>1, <2>2, Learnt

LEMMA KnownSecondParent == prog = "second" => Known("parent")
<1> SUFFICES ASSUME prog = "second" PROVE Known("parent")
  OBVIOUS
<1>0. PICK s : s = Script("parent")
  OBVIOUS
<1>1. s = <<CJust("fork")>> \o (<<CPrintf("sleeping_for_60_seconds", "nothing")>>
          \o <<CSleep(60)>> \o <<CExit(0)>>)
  BY <1>0, Calling DEF Script, Program, Second, SecondParent
<1>2. Len(s) = 4 /\ Calls("parent") = 4 /\ ForkAt = 1
  <2>1. Len(s) = 4
    BY <1>1
  <2>2. ForkAt = 1
    BY DEF ForkAt
  <2> QED
    BY <1>0, <2>1, <2>2 DEF Calls
<1>3. /\ s[1] = CJust("fork")
      /\ s[2] = CPrintf("sleeping_for_60_seconds", "nothing")
      /\ s[3] = CSleep(60)
      /\ s[4] = CExit(0)
  BY <1>1, SMTT(30)
<1>4. ASSUME NEW k \in 1 .. 4 PROVE Does("parent", k, s[k])
  BY <1>2, <1>3, SMTT(60) DEF Does, CPrintf, CSleep, CAssign, CExit, CJust
<1>5. ASSUME NEW k \in 1 .. 4 PROVE Prints("parent", k, s[k])
  BY <1>0, <1>2, <1>3, SMTT(60) DEF Prints, CPrintf, CSleep, CAssign, CExit, CJust
<1> DEFINE Place(t) == CASE t = "sleeping_for_60_seconds" -> 2
<1>6. ASSUME NEW k \in 1 .. 4, s[k].op = "printf" PROVE k = Place(s[k].text)
  BY <1>6, <1>2, <1>3, SMTT(60) DEF CPrintf, CSleep, CAssign, CExit, CJust
<1> HIDE DEF Place
<1> QED
  <2>1. \A j, k \in 1 .. 4 :
          s[j].op = "printf" /\ s[k].op = "printf" /\ s[j].text = s[k].text => j = k
    BY <1>6
  <2>2. 4 \in Nat \ {0}
    OBVIOUS
  <2> QED
    BY <1>0, <1>2, <1>4, <1>5, <2>1, <2>2, Learnt

LEMMA KnownSecondChild == prog = "second" => Known("child")
<1> SUFFICES ASSUME prog = "second" PROVE Known("child")
  OBVIOUS
<1>0. PICK s : s = Script("child")
  OBVIOUS
<1>1. s = <<CPrintf("Im_zombie", "nothing")>> \o <<CExit(0)>>
  BY <1>0, Calling DEF Script, Program, Second, SecondParent
<1>2. Len(s) = 2 /\ Calls("child") = 2 /\ ForkAt = 1
  <2>1. Len(s) = 2
    BY <1>1
  <2>2. ForkAt = 1
    BY DEF ForkAt
  <2> QED
    BY <1>0, <2>1, <2>2 DEF Calls
<1>3. /\ s[1] = CPrintf("Im_zombie", "nothing")
      /\ s[2] = CExit(0)
  BY <1>1, SMTT(30)
<1>4. ASSUME NEW k \in 1 .. 2 PROVE Does("child", k, s[k])
  BY <1>2, <1>3, SMTT(60) DEF Does, CPrintf, CSleep, CAssign, CExit, CJust
<1>5. ASSUME NEW k \in 1 .. 2 PROVE Prints("child", k, s[k])
  BY <1>0, <1>2, <1>3, SMTT(60) DEF Prints, CPrintf, CSleep, CAssign, CExit, CJust
<1> DEFINE Place(t) == CASE t = "Im_zombie" -> 1
<1>6. ASSUME NEW k \in 1 .. 2, s[k].op = "printf" PROVE k = Place(s[k].text)
  BY <1>6, <1>2, <1>3, SMTT(60) DEF CPrintf, CSleep, CAssign, CExit, CJust
<1> HIDE DEF Place
<1> QED
  <2>1. \A j, k \in 1 .. 2 :
          s[j].op = "printf" /\ s[k].op = "printf" /\ s[j].text = s[k].text => j = k
    BY <1>6
  <2>2. 2 \in Nat \ {0}
    OBVIOUS
  <2> QED
    BY <1>0, <1>2, <1>4, <1>5, <2>1, <2>2, Learnt

LEMMA KnownParZParent == prog = "ParZ" => Known("parent")
<1> SUFFICES ASSUME prog = "ParZ" PROVE Known("parent")
  OBVIOUS
<1>0. PICK s : s = Script("parent")
  OBVIOUS
<1>1. s = <<CJust("fork")>> \o (<<CPrintf("parent", "nothing")>> \o <<CExit(0)>>)
  BY <1>0, Calling DEF Script, Program, ParZ, ParZChild
<1>2. Len(s) = 3 /\ Calls("parent") = 3 /\ ForkAt = 1
  <2>1. Len(s) = 3
    BY <1>1
  <2>2. ForkAt = 1
    BY DEF ForkAt
  <2> QED
    BY <1>0, <2>1, <2>2 DEF Calls
<1>3. /\ s[1] = CJust("fork")
      /\ s[2] = CPrintf("parent", "nothing")
      /\ s[3] = CExit(0)
  BY <1>1, SMTT(30)
<1>4. ASSUME NEW k \in 1 .. 3 PROVE Does("parent", k, s[k])
  BY <1>2, <1>3, SMTT(60) DEF Does, CPrintf, CSleep, CAssign, CExit, CJust
<1>5. ASSUME NEW k \in 1 .. 3 PROVE Prints("parent", k, s[k])
  BY <1>0, <1>2, <1>3, SMTT(60) DEF Prints, CPrintf, CSleep, CAssign, CExit, CJust
<1> DEFINE Place(t) == CASE t = "parent" -> 2
<1>6. ASSUME NEW k \in 1 .. 3, s[k].op = "printf" PROVE k = Place(s[k].text)
  BY <1>6, <1>2, <1>3, SMTT(60) DEF CPrintf, CSleep, CAssign, CExit, CJust
<1> HIDE DEF Place
<1> QED
  <2>1. \A j, k \in 1 .. 3 :
          s[j].op = "printf" /\ s[k].op = "printf" /\ s[j].text = s[k].text => j = k
    BY <1>6
  <2>2. 3 \in Nat \ {0}
    OBVIOUS
  <2> QED
    BY <1>0, <1>2, <1>4, <1>5, <2>1, <2>2, Learnt

LEMMA KnownParZChild == prog = "ParZ" => Known("child")
<1> SUFFICES ASSUME prog = "ParZ" PROVE Known("child")
  OBVIOUS
<1>0. PICK s : s = Script("child")
  OBVIOUS
<1>1. s = <<CPrintf("child", "ppid")>> \o <<CSleep(30)>>
          \o <<CPrintf("New_PPID_init", "ppid")>> \o <<CExit(0)>>
  BY <1>0, Calling DEF Script, Program, ParZ, ParZChild
<1>2. Len(s) = 4 /\ Calls("child") = 4 /\ ForkAt = 1
  <2>1. Len(s) = 4
    BY <1>1
  <2>2. ForkAt = 1
    BY DEF ForkAt
  <2> QED
    BY <1>0, <2>1, <2>2 DEF Calls
<1>3. /\ s[1] = CPrintf("child", "ppid")
      /\ s[2] = CSleep(30)
      /\ s[3] = CPrintf("New_PPID_init", "ppid")
      /\ s[4] = CExit(0)
  BY <1>1, SMTT(30)
<1>4. ASSUME NEW k \in 1 .. 4 PROVE Does("child", k, s[k])
  BY <1>2, <1>3, SMTT(60) DEF Does, CPrintf, CSleep, CAssign, CExit, CJust
<1>5. ASSUME NEW k \in 1 .. 4 PROVE Prints("child", k, s[k])
  BY <1>0, <1>2, <1>3, SMTT(60) DEF Prints, CPrintf, CSleep, CAssign, CExit, CJust
<1> DEFINE Place(t) == CASE t = "child" -> 1
                    [] t = "New_PPID_init" -> 3
<1>6. ASSUME NEW k \in 1 .. 4, s[k].op = "printf" PROVE k = Place(s[k].text)
  BY <1>6, <1>2, <1>3, SMTT(60) DEF CPrintf, CSleep, CAssign, CExit, CJust
<1> HIDE DEF Place
<1> QED
  <2>1. \A j, k \in 1 .. 4 :
          s[j].op = "printf" /\ s[k].op = "printf" /\ s[j].text = s[k].text => j = k
    BY <1>6
  <2>2. 4 \in Nat \ {0}
    OBVIOUS
  <2> QED
    BY <1>0, <1>2, <1>4, <1>5, <2>1, <2>2, Learnt

LEMMA KnownThirdParent == prog = "third" => Known("parent")
<1> SUFFICES ASSUME prog = "third" PROVE Known("parent")
  OBVIOUS
<1>0. PICK s : s = Script("parent")
  OBVIOUS
<1>1. s = (<<CJust("try")>> \o <<CPrintf("stack_mapped", "nothing")>> \o <<CJust("clone")>>)
          \o (<<CPrintf("child_created", "nothing")>> \o <<CJust("waitpid")>>
          \o <<CPrintf("analyzing_file", "nothing")>> \o <<CJust("try")>>
          \o <<CPrintf("found", "nothing")>> \o <<CJust("munmap")>> \o <<CExit(0)>>)
  BY <1>0, Calling DEF Script, Program, Third
<1>2. Len(s) = 10 /\ Calls("parent") = 10 /\ ForkAt = 3
  <2>1. Len(s) = 10
    BY <1>1
  <2>2. ForkAt = 3
    BY DEF ForkAt
  <2> QED
    BY <1>0, <2>1, <2>2 DEF Calls
<1>3. /\ s[1] = CJust("try")
      /\ s[2] = CPrintf("stack_mapped", "nothing")
      /\ s[3] = CJust("clone")
      /\ s[4] = CPrintf("child_created", "nothing")
      /\ s[5] = CJust("waitpid")
      /\ s[6] = CPrintf("analyzing_file", "nothing")
  BY <1>1, SMTT(30)
<1>4. /\ s[7] = CJust("try")
      /\ s[8] = CPrintf("found", "nothing")
      /\ s[9] = CJust("munmap")
      /\ s[10] = CExit(0)
  BY <1>1, SMTT(30)
<1>5. ASSUME NEW k \in 1 .. 10 PROVE Does("parent", k, s[k])
  BY <1>2, <1>3, <1>4, SMTT(60) DEF Does, CPrintf, CSleep, CAssign, CExit, CJust
<1>6. ASSUME NEW k \in 1 .. 10 PROVE Prints("parent", k, s[k])
  BY <1>0, <1>2, <1>3, <1>4, SMTT(60) DEF Prints, CPrintf, CSleep, CAssign, CExit, CJust
<1> QED
  BY <1>0, <1>2, <1>5, <1>6, Learnt

LEMMA KnownThirdChild == prog = "third" => Known("child")
<1> SUFFICES ASSUME prog = "third" PROVE Known("child")
  OBVIOUS
<1>0. PICK s : s = Script("child")
  OBVIOUS
<1>a. PICK started : started = CPrintf("child_started", "nothing")
  OBVIOUS
<1>b. PICK deeper : deeper = CPrintf("depth", "nothing")
  OBVIOUS
<1>c. PICK exiting : exiting = CPrintf("child_exiting", "nothing")
  OBVIOUS
<1>d. PICK return : return = CJust("return")
  OBVIOUS
<1> DEFINE C == {started, deeper, exiting, return}
           depths == [d \in 1 .. Depth |-> deeper]
           a == <<started>> \o depths
           b == a \o <<exiting>>
<1>1. Depth \in Nat
  BY LifeCycleConstants
<1>2. s = b \o <<return>>
  <2>1. Head(Say("depth")) = deeper
    BY <1>b, Calling
  <2> QED
    BY <1>0, <1>a, <1>c, <1>d, <2>1, Calling DEF Script, Program, Third
<1>3. depths \in Seq(C) /\ Len(depths) = Depth /\ \A d \in 1 .. Depth : depths[d] = deeper
  <2>1. depths \in [1 .. Depth -> C]
    OBVIOUS
  <2>2. depths \in Seq(C)
    BY <1>1, <2>1, SeqDef
  <2> QED
    BY <1>1, <2>1, <2>2, LenProperties
<1>4. <<started>> \in Seq(C) /\ <<exiting>> \in Seq(C) /\ <<return>> \in Seq(C)
  OBVIOUS
<1> HIDE DEF C, depths
<1>5. /\ a \in Seq(C) /\ Len(a) = Depth + 1
      /\ \A k \in 1 .. Depth + 1 : a[k] = IF k <= 1 THEN started ELSE depths[k - 1]
  <2>1. /\ a \in Seq(C) /\ Len(a) = 1 + Depth
        /\ \A k \in 1 .. 1 + Depth : a[k] = IF k <= 1 THEN <<started>>[k] ELSE depths[k - 1]
    BY <1>3, <1>4, ConcatProperties
  <2> QED
    BY <1>1, <2>1
<1> HIDE DEF a
<1>6. /\ b \in Seq(C) /\ Len(b) = Depth + 2
      /\ \A k \in 1 .. Depth + 2 : b[k] = IF k <= Depth + 1 THEN a[k] ELSE exiting
  <2>1. /\ b \in Seq(C) /\ Len(b) = Depth + 1 + 1
        /\ \A k \in 1 .. Depth + 1 + 1 :
             b[k] = IF k <= Depth + 1 THEN a[k] ELSE <<exiting>>[k - (Depth + 1)]
    BY <1>4, <1>5, ConcatProperties
  <2> QED
    BY <1>1, <2>1
<1> HIDE DEF b
<1>7. /\ Len(s) = Depth + 3
      /\ \A k \in 1 .. Depth + 3 : s[k] = IF k <= Depth + 2 THEN b[k] ELSE return
  <2>1. /\ Len(s) = Depth + 2 + 1
        /\ \A k \in 1 .. Depth + 2 + 1 :
             s[k] = IF k <= Depth + 2 THEN b[k] ELSE <<return>>[k - (Depth + 2)]
    BY <1>2, <1>4, <1>6, ConcatProperties
  <2> QED
    BY <1>1, <2>1
<1>8. Calls("child") = Depth + 3 /\ Depth + 3 \in Nat \ {0}
  BY <1>0, <1>1, <1>7 DEF Calls
<1>9. s[Depth + 3] = return
  BY <1>1, <1>7
<1>10. ASSUME NEW k \in 1 .. Depth + 3, k # Depth + 3 PROVE s[k] \in {started, deeper, exiting}
  <2>1. s[k] = b[k] /\ k \in 1 .. Depth + 2
    BY <1>1, <1>7, <1>10
  <2>2. k \in 2 .. Depth + 1 => depths[k - 1] = deeper
    BY <1>1, <1>3
  <2> QED
    BY <1>1, <1>5, <1>6, <2>1, <2>2
<1>11. ASSUME NEW k \in 1 .. Depth + 3 PROVE Does("child", k, s[k])
  <2>1. CASE k = Depth + 3
    BY <2>1, <1>8, <1>9, <1>d DEF Does, CJust
  <2>2. CASE k # Depth + 3
    BY <2>2, <1>8, <1>10, <1>a, <1>b, <1>c DEF Does, CPrintf
  <2> QED
    BY <2>1, <2>2
<1>12. ASSUME NEW k \in 1 .. Depth + 3 PROVE Prints("child", k, s[k])
  <2>1. CASE k = Depth + 3
    BY <2>1, <1>9, <1>d DEF Prints, CJust
  <2>2. CASE k # Depth + 3
    BY <2>2, <1>10, <1>a, <1>b, <1>c DEF Prints, CPrintf
  <2> QED
    BY <2>1, <2>2
<1> QED
  BY <1>0, <1>8, <1>11, <1>12, Learnt

(* Whatever program runs, all of this is known of both its processes.      *)
LEMMA Scripts == prog \in Programs => \A p \in Proc : Known(p)
BY LifeCycleConstants, KnownFirstParent, KnownFirstChild, KnownObserveParent, KnownObserveChild,
   KnownSecondParent, KnownSecondChild, KnownParZParent, KnownParZChild, KnownThirdParent,
   KnownThirdChild DEF Proc

-----------------------------------------------------------------------------
(* The plain variables: their types, what tells where the two processes    *)
(* are, and that how a process has ended is written when it ends.          *)
Typed ==
  /\ prog \in Programs /\ tty \in BOOLEAN /\ privileged \in BOOLEAN /\ mapped \in BOOLEAN
  /\ proc \in [Proc -> {"none", "run", "zombie", "gone"}]
  /\ pc \in [Proc -> Nat] /\ rest \in [Proc -> Nat]
  /\ ppid \in [Proc -> {"shell", "parent", "init"}]
  /\ value \in [Proc -> {10, 100}] /\ frame \in [Proc -> {1, 2}]
  /\ kills \in 0 .. MaxKills /\ untold \in 0 .. MaxUntold
  /\ DOMAIN ended = Proc

Control ==
  /\ \A p \in Proc : proc[p] = "run" => pc[p] < Calls(p)
  /\ proc["child"] = "none" => pc["child"] = 0
  /\ proc["child"] = "none" <=> pc["parent"] < ForkAt
  /\ proc["parent"] \in {"run", "gone"}
  /\ ppid["child"] = IF proc["parent"] = "gone" THEN "init" ELSE "parent"
  /\ proc["child"] = "zombie" => proc["parent"] = "run"
  /\ \A p \in Proc : proc[p] \in {"none", "run"} <=> ended[p] = <<>>
  /\ status # <<>> => status = ended["child"]
  /\ frame["parent"] = 1

Core == Typed /\ Control

(* The two processes, which SMT has to see told apart.                     *)
LEMMA TwoProcesses ==
  /\ Proc = {"parent", "child"} /\ "parent" # "child"
  /\ Other("parent") = "child" /\ Other("child") = "parent"
BY DEF Proc, Other

(* A process that makes a call has it in its script.                       *)
LEMMA Running ==
  ASSUME Core, NEW p \in Proc, CanRun(p)
  PROVE  /\ pc[p] + 1 \in 1 .. Calls(p) /\ Call(p) = Script(p)[pc[p] + 1]
         /\ Does(p, pc[p] + 1, Call(p)) /\ Prints(p, pc[p] + 1, Call(p))
         /\ proc[p] = "run" /\ rest[p] = 0
<1>1. Known(p)
  BY Scripts DEF Core, Typed
<1>2. pc[p] + 1 \in 1 .. Calls(p)
  BY <1>1 DEF Core, Typed, Control, CanRun, Known
<1> QED
  BY <1>1, <1>2 DEF Known, Call, CanRun

(* The scripts are the program's, which no step changes.                   *)
LEMMA SameScripts ==
  ASSUME prog' = prog
  PROVE  /\ ForkAt' = ForkAt /\ Program' = Program
         /\ \A p : Script(p)' = Script(p) /\ Calls(p)' = Calls(p)
<1>1. ForkAt' = ForkAt /\ Program' = Program
  BY DEF ForkAt, Program, First, Observe, Second, SecondParent, ParZ, ParZChild, Third
<1>2. \A p : Script(p)' = Script(p)
  BY <1>1 DEF Script
<1> QED
  BY <1>1, <1>2 DEF Calls

LEMMA CoreAtFirst == Init => Core
<1> SUFFICES ASSUME Init PROVE Core
  OBVIOUS
<1>1. \A p \in Proc : Calls(p) \in Nat \ {0}
  BY Scripts DEF Init, Known
<1>2. ForkAt \in Nat \ {0}
  BY DEF ForkAt
<1>3. Typed
  <2>1. privileged \in BOOLEAN
    BY ZenonT(30) DEF Init
  <2>2. untold \in 0 .. MaxUntold
    BY LifeCycleConstants DEF Init
  <2> QED
    BY <2>1, <2>2, LifeCycleConstants, TwoProcesses DEF Init, Typed
<1>4. Control
  BY <1>1, <1>2, TwoProcesses DEF Init, Control
<1> QED
  BY <1>3, <1>4 DEF Core

(* A waitpid that finds the zombie.                                        *)
Reaps(p) ==
  /\ Call(p).op = "waitpid" /\ proc["child"] = "zombie"
  /\ status' = ended["child"] /\ proc' = [proc EXCEPT !["child"] = "gone"]

(* One call done, nothing ended.                                           *)
LEMMA CoreCall ==
  ASSUME Core, NEW p \in Proc, CanRun(p), Call(p).op \notin {"exit", "return", "fork", "clone"},
         Done(p), UNCHANGED <<prog, tty, privileged, ppid, ended, kills>>,
         UNCHANGED <<proc, status>> \/ Reaps(p),
         mapped' \in BOOLEAN, untold' \in 0 .. MaxUntold,
         rest' \in [Proc -> Nat], value' \in [Proc -> {10, 100}],
         frame' \in [Proc -> {1, 2}], frame'["parent"] = 1
  PROVE  Core'
<1>1. /\ pc[p] \in Nat /\ pc[p] + 1 <= Calls(p) /\ proc[p] = "run"
      /\ Does(p, pc[p] + 1, Call(p))
  BY Running DEF Core, Typed
<1>2. Calls(p) \in Nat
  BY Scripts DEF Core, Typed, Known
<1>3. pc[p] + 1 < Calls(p) /\ (p = "parent" => pc[p] + 1 # ForkAt)
  BY <1>1, <1>2 DEF Does
<1>4. ForkAt \in Nat
  BY DEF ForkAt
<1>5. pc' = [pc EXCEPT ![p] = pc[p] + 1]
  BY DEF Done
<1>6. Call(p).op = "waitpid" => p = "parent"
  BY <1>1 DEF Does
<1>7. Typed'
  BY <1>1, <1>5, TwoProcesses DEF Core, Typed, Reaps
<1>8. Control'
  BY SMTT(40), <1>1, <1>2, <1>3, <1>4, <1>5, <1>6, SameScripts, TwoProcesses DEF Core, Typed, Control, Reaps
<1> QED
  BY <1>7, <1>8 DEF Core

LEMMA CoreStart == ASSUME Core, NEW p \in Proc, StartChild(p) PROVE Core'
<1>1. CanRun(p) /\ Call(p).op \in {"fork", "clone"}
  BY DEF StartChild, At
<1>2. /\ pc[p] \in Nat /\ pc[p] + 1 <= Calls(p) /\ proc[p] = "run"
      /\ Does(p, pc[p] + 1, Call(p))
  BY <1>1, Running DEF Core, Typed
<1>3. p = "parent" /\ pc[p] + 1 = ForkAt /\ pc[p] + 1 # Calls(p)
  BY <1>1, <1>2 DEF Does
<1>4. \A q \in Proc : Calls(q) \in Nat \ {0}
  BY Scripts DEF Core, Typed, Known
<1>5. pc' = [pc EXCEPT ![p] = pc[p] + 1]
  BY DEF StartChild, Done
<1>6. Typed'
  BY <1>3, <1>5, TwoProcesses DEF Core, Typed, StartChild
<1>7. Control'
  BY <1>2, <1>3, <1>4, <1>5, SameScripts, TwoProcesses DEF Core, Typed, Control, StartChild
<1> QED
  BY <1>6, <1>7 DEF Core

LEMMA CoreEnd ==
  ASSUME Core, NEW p \in Proc, proc[p] = "run", NEW how, how # <<>>, End(p, how),
         UNCHANGED <<prog, tty, privileged, pc, rest, value, frame, mapped, status, untold>>,
         kills' \in 0 .. MaxKills
  PROVE  Core'
<1>1. Typed'
  BY TwoProcesses DEF Core, Typed, End
<1>2. Control'
  BY SameScripts, TwoProcesses DEF Core, Typed, Control, End
<1> QED
  BY <1>1, <1>2 DEF Core

(* Time passes no faster than the shortest sleep, and wakes nobody else.   *)
LEMMA Ticking ==
  ASSUME Core, Tick
  PROVE  /\ rest' \in [Proc -> Nat]
         /\ \A p \in Proc : rest'[p] <= rest[p]
         /\ \A p \in Proc : p \notin Sleepers => rest'[p] = rest[p]
<1> DEFINE S == {rest[p] : p \in Sleepers}
           s == CHOOSE m \in S : \A p \in Sleepers : m <= rest[p]
<1>1. Sleepers \subseteq Proc /\ \A p \in Proc : rest[p] \in Nat
  BY DEF Sleepers, Core, Typed
<1>2. PICK a \in Sleepers : TRUE
  BY DEF Tick
<1>3. \E m \in S : \A p \in Sleepers : m <= rest[p]
  <2>1. CASE \A p \in Sleepers : rest[a] <= rest[p]
    BY <1>2, <2>1
  <2>2. CASE \E b \in Sleepers : ~(rest[a] <= rest[b])
    <3>1. PICK b \in Sleepers : ~(rest[a] <= rest[b])
      BY <2>2
    <3>2. \A p \in Sleepers : rest[b] <= rest[p]
      BY <1>1, <1>2, <3>1, TwoProcesses
    <3> QED
      BY <3>1, <3>2
  <2> QED
    BY <2>1, <2>2
<1>4. s \in S /\ \A p \in Sleepers : s <= rest[p]
  BY <1>3
<1>5. rest' = [p \in Proc |-> IF p \in Sleepers THEN rest[p] - s ELSE rest[p]]
  BY DEF Tick
<1> HIDE DEF s
<1>6. s \in Nat
  BY <1>1, <1>4
<1> HIDE DEF S
<1> QED
  BY <1>1, <1>4, <1>5, <1>6

(* What a process that ends does, in each of the five ways it can.         *)
Ends(p) ==
  /\ proc[p] = "run"
  /\ \E how : how # <<>> /\ End(p, how)
  /\ UNCHANGED <<prog, tty, privileged, pc, rest, value, frame, mapped, status, untold>>

Dies(p) == CallFails(p) \/ CallExit(p) \/ ReturnFromChild(p) \/ Fault(p) \/ Kill(p)

LEMMA Dying == ASSUME Core, NEW p \in Proc, Dies(p) PROVE Ends(p) /\ kills' \in 0 .. MaxKills
<1>1. \A a, b : <<a, b>> # <<>>
  OBVIOUS
<1>2. kills \in 0 .. MaxKills /\ MaxKills \in Nat
  BY LifeCycleConstants DEF Core, Typed
<1>3. CASE CallFails(p)
  BY <1>1, <1>2, <1>3 DEF CallFails, At, CanRun, Ends
<1>4. CASE CallExit(p)
  BY <1>1, <1>2, <1>4 DEF CallExit, At, CanRun, Ends
<1>5. CASE ReturnFromChild(p)
  BY <1>1, <1>2, <1>5 DEF ReturnFromChild, At, CanRun, Ends
<1>6. CASE Fault(p)
  BY <1>1, <1>2, <1>6 DEF Fault, Ends
<1>7. CASE Kill(p)
  BY <1>1, <1>2, <1>7 DEF Kill, Ends
<1> QED
  BY <1>3, <1>4, <1>5, <1>6, <1>7 DEF Dies

(* One call after another: a step of a process that goes on.               *)
Says(p) == DoPrintf(p) \/ PrintNoFrame(p)
Goes(p) ==
  Says(p) \/ Fflush(p) \/ BeginSleep(p) \/ Succeed(p) \/ Write(p) \/ Wait(p) \/ Unmap(p)

LEMMA Steps ==
  ASSUME [Next]_vars
  PROVE  \/ UNCHANGED vars
         \/ Tick
         \/ \E p \in Proc : Goes(p) \/ StartChild(p) \/ Dies(p)
BY DEF Next, Finished, Run, Goes, Says, Dies

(* What is common to the calls after which a process goes on.              *)
LEMMA Going ==
  ASSUME Core, NEW p \in Proc, Goes(p)
  PROVE  /\ CanRun(p) /\ Done(p) /\ UNCHANGED <<prog, tty, privileged, ppid, ended, kills>>
         /\ Call(p).op \in {"printf", "fflush", "sleep", "assign", "waitpid", "munmap", "try"}
         /\ UNCHANGED <<proc, status>> \/ Reaps(p)
         /\ Call(p).op # "sleep" => rest' = rest
         /\ Call(p).op # "assign" => UNCHANGED <<value, frame>>
         /\ Call(p).op \notin {"printf", "fflush"} => UNCHANGED <<out, buffer>>
<1>1. CASE Says(p)
  BY <1>1 DEF Says, DoPrintf, PrintNoFrame, At
<1>2. CASE Fflush(p)
  BY <1>2 DEF Fflush, At
<1>3. CASE BeginSleep(p)
  BY <1>3 DEF BeginSleep, At
<1>4. CASE Write(p)
  BY <1>4 DEF Write, At
<1>5. CASE Wait(p)
  BY <1>5 DEF Wait, At, Reaps
<1>6. CASE Unmap(p) \/ Succeed(p)
  BY <1>6 DEF Unmap, Succeed, At
<1> QED
  BY <1>1, <1>2, <1>3, <1>4, <1>5, <1>6 DEF Goes

(* Only the child writes to global_var, and it writes 100.                 *)
LEMMA Writing ==
  ASSUME Core, NEW p \in Proc, Write(p)
  PROVE  /\ p = "child" /\ value' = [value EXCEPT !["child"] = 100]
         /\ \/ frame' = [frame EXCEPT !["child"] = 2]
            \/ frame' = frame /\ ~SharesFrame("child")
         /\ prog = "first" => pc["child"] = 1
         /\ prog = "observe" => pc["child"] = 11
<1>1. CanRun(p) /\ Call(p).op = "assign"
  BY DEF Write, At
<1>2. Does(p, pc[p] + 1, Call(p)) /\ pc[p] \in Nat
  BY <1>1, Running DEF Core, Typed
<1>3. p = "child" /\ Call(p).to = 100 /\ (prog = "first" => pc[p] + 1 = 2)
        /\ (prog = "observe" => pc[p] + 1 = 12)
  BY <1>1, <1>2 DEF Does
<1>4. value' = [value EXCEPT ![p] = Call(p).to]
  BY DEF Write
<1>5. PICK f \in {2} \cup IF SharesFrame(p) THEN {} ELSE {frame[p]} :
        frame' = [frame EXCEPT ![p] = f]
  BY DEF Write
<1>6. f = 2 \/ (f = frame[p] /\ ~SharesFrame(p))
  BY <1>5
<1>7. f = frame[p] => frame' = frame
  BY <1>5 DEF Core, Typed
<1>8. \/ frame' = [frame EXCEPT !["child"] = 2]
      \/ frame' = frame /\ ~SharesFrame("child")
  <2>1. p = "child"
    BY <1>3
  <2> QED
    BY <1>5, <1>6, <1>7, <2>1
<1>9. /\ prog = "first" => pc["child"] = 1
      /\ prog = "observe" => pc["child"] = 11
  BY <1>2, <1>3
<1>10. p = "child" /\ value' = [value EXCEPT !["child"] = 100]
  BY <1>3, <1>4
<1> QED
  BY <1>8, <1>9, <1>10

LEMMA CoreStep == Core /\ [Next]_vars => Core'
<1> SUFFICES ASSUME Core, [Next]_vars PROVE Core'
  OBVIOUS
<1>1. CASE UNCHANGED vars
  <2>1. Typed'
    BY <1>1 DEF vars, Core, Typed
  <2>2. Control'
    BY <1>1, SameScripts DEF vars, Core, Control
  <2> QED
    BY <2>1, <2>2 DEF Core
<1>2. CASE Tick
  <2>1. Typed'
    BY <1>2, Ticking DEF Tick, Core, Typed
  <2>2. UNCHANGED <<prog, proc, pc, ppid, frame, status, ended>>
    BY <1>2 DEF Tick
  <2>3. Control'
    BY <2>2, SameScripts DEF Core, Control
  <2> QED
    BY <2>1, <2>3 DEF Core
<1>3. ASSUME NEW p \in Proc, Goes(p) PROVE Core'
  <2>1. /\ CanRun(p) /\ Done(p) /\ UNCHANGED <<prog, tty, privileged, ppid, ended, kills>>
        /\ Call(p).op \notin {"exit", "return", "fork", "clone"}
    BY <1>3, Going
  <2>2. UNCHANGED <<proc, status>> \/ Reaps(p)
    BY <1>3, Going
  <2>3. mapped' \in BOOLEAN
    BY <1>3 DEF Goes, Says, DoPrintf, PrintNoFrame, Succeed, Fflush, BeginSleep, Write, Wait,
                Unmap, Core, Typed
  <2>6. untold' \in 0 .. MaxUntold
    <3>1. CASE PrintNoFrame(p)
      BY <3>1, LifeCycleConstants DEF PrintNoFrame, Core, Typed
    <3>2. CASE ~PrintNoFrame(p)
      BY <1>3, <3>2 DEF Goes, Says, DoPrintf, Fflush, BeginSleep, Succeed, Write, Wait, Unmap,
                        Core, Typed
    <3> QED
      BY <3>1, <3>2
  <2>4. rest' \in [Proc -> Nat]
    <3>1. CASE BeginSleep(p)
      BY <2>1, <3>1, Running DEF Core, Typed, BeginSleep, At, Does
    <3>2. CASE ~BeginSleep(p)
      BY <1>3, <3>2 DEF Goes, Says, DoPrintf, PrintNoFrame, Succeed, Fflush, Write, Wait, Unmap,
                        Core, Typed
    <3> QED
      BY <3>1, <3>2
  <2>5. value' \in [Proc -> {10, 100}] /\ frame' \in [Proc -> {1, 2}] /\ frame'["parent"] = 1
    <3>1. CASE Write(p)
      BY <3>1, Writing, TwoProcesses DEF Core, Typed, Control
    <3>2. CASE ~Write(p)
      BY <1>3, <3>2 DEF Goes, Says, DoPrintf, PrintNoFrame, Succeed, Fflush, BeginSleep, Wait,
                        Unmap, Core, Typed, Control
    <3> QED
      BY <3>1, <3>2
  <2> QED
    BY <2>1, <2>2, <2>3, <2>4, <2>5, <2>6, CoreCall
<1>4. ASSUME NEW p \in Proc, Dies(p) PROVE Core'
  BY <1>4, Dying, CoreEnd DEF Ends
<1> QED
  BY <1>1, <1>2, <1>3, <1>4, CoreStart, Steps

-----------------------------------------------------------------------------
(* How far each program is tells what has become of its variables.         *)
(* first.c: until the parent's waitpid the child is not reaped, and after  *)
(* it status is the child's end; the child changes its copy by its second  *)
(* call, sleeps at its fourth, and has changed it, or ended, when the      *)
(* parent is back from its sleep.                                          *)
FirstRuns ==
  prog = "first" =>
    /\ pc["parent"] < 5 /\ proc["parent"] = "run" => proc["child"] # "gone"
    /\ pc["parent"] >= 5 => status = ended["child"] /\ status # <<>>
    /\ pc["child"] >= 2 => value["child"] = 100
    /\ rest["child"] > 0 => pc["child"] >= 4
    /\ pc["parent"] = 3 /\ rest["parent"] = 0 /\ proc["parent"] = "run" =>
         value["child"] = 100 \/ ended["child"] # <<>>

(* ParZ.c: the child wakes up when the parent, which never sleeps, is gone.*)
ParZRuns ==
  prog = "ParZ" =>
    /\ rest["parent"] = 0
    /\ pc["child"] >= 2 /\ rest["child"] = 0 /\ proc["child"] = "run" => ppid["child"] = "init"

(* observe.c: the child's page is the parent's until the child writes, and *)
(* then a new one, unless the parent has ended.                            *)
ObserveRuns ==
  prog = "observe" =>
    /\ pc["child"] < 12 => frame["child"] = 1
    /\ pc["child"] >= 12 => frame["child"] = 2 \/ ended["parent"] # <<>>

(* What a step of a process that goes on does to the variables above.      *)
LEMMA Advancing ==
  ASSUME Core, NEW p \in Proc, Goes(p)
  PROVE  /\ pc[p] \in Nat /\ pc' = [pc EXCEPT ![p] = pc[p] + 1]
         /\ Does(p, pc[p] + 1, Call(p)) /\ proc[p] = "run" /\ rest[p] = 0
         /\ Call(p).op = "sleep" =>
              \E s \in Nat \ {0} : rest' = [rest EXCEPT ![p] = s]
         /\ Call(p).op = "waitpid" => Reaps(p) \/ (NoChild /\ UNCHANGED <<proc, status>>)
         /\ Call(p).op # "waitpid" => UNCHANGED <<proc, status>>
         /\ Call(p).op = "assign" => Write(p)
<1>1. /\ CanRun(p) /\ Done(p) /\ (UNCHANGED <<proc, status>> \/ Reaps(p))
  BY Going
<1>2. /\ pc[p] \in Nat /\ Does(p, pc[p] + 1, Call(p)) /\ proc[p] = "run" /\ rest[p] = 0
  BY <1>1, Running DEF Core, Typed
<1>3. pc' = [pc EXCEPT ![p] = pc[p] + 1]
  BY <1>1 DEF Done
<1>4. Call(p).op = "sleep" => BeginSleep(p)
  BY DEF Goes, Says, DoPrintf, PrintNoFrame, Succeed, Fflush, Write, Wait, Unmap, At
<1>5. Call(p).op = "sleep" => \E s \in Nat \ {0} : rest' = [rest EXCEPT ![p] = s]
  BY <1>2, <1>4 DEF Does, BeginSleep
<1>6. Call(p).op = "waitpid" => Wait(p)
  BY DEF Goes, Says, DoPrintf, PrintNoFrame, Succeed, Fflush, BeginSleep, Write, Unmap, At
<1>7. Call(p).op = "waitpid" => Reaps(p) \/ (NoChild /\ UNCHANGED <<proc, status>>)
  BY <1>6 DEF Wait, Reaps
<1>8. Call(p).op = "assign" => Write(p)
  BY DEF Goes, Says, DoPrintf, PrintNoFrame, Succeed, Fflush, BeginSleep, Wait, Unmap, At
<1>9. Call(p).op # "waitpid" => UNCHANGED <<proc, status>>
  BY <1>1 DEF Reaps
<1> QED
  BY <1>2, <1>3, <1>5, <1>7, <1>8, <1>9

(* fork and clone come at their place in the parent.                       *)
LEMMA Starting ==
  ASSUME Core, NEW p \in Proc, StartChild(p)
  PROVE  /\ p = "parent" /\ pc["parent"] + 1 = ForkAt /\ pc["parent"] \in Nat
         /\ pc["child"] = 0 /\ proc["parent"] = "run" /\ rest["parent"] = 0
         /\ pc' = [pc EXCEPT !["parent"] = pc["parent"] + 1]
<1>1. CanRun(p) /\ Call(p).op \in {"fork", "clone"}
  BY DEF StartChild, At
<1>2. pc[p] \in Nat /\ proc[p] = "run" /\ rest[p] = 0 /\ Does(p, pc[p] + 1, Call(p))
  BY <1>1, Running DEF Core, Typed
<1>3. p = "parent" /\ pc[p] + 1 = ForkAt
  BY <1>1, <1>2 DEF Does
<1>4. ForkAt \in Nat
  BY DEF ForkAt
<1>5. pc["child"] = 0
  BY <1>2, <1>3, <1>4 DEF Core, Control
<1>6. pc' = [pc EXCEPT ![p] = pc[p] + 1]
  BY DEF StartChild, Done
<1> QED
  BY <1>2, <1>3, <1>5, <1>6

LEMMA FirstStep ==
  ASSUME Core, FirstRuns, [Next]_vars, prog = "first"
  PROVE  FirstRuns'
<1>0. /\ \A p \in Proc : pc[p] \in Nat /\ rest[p] \in Nat
      /\ "parent" \in Proc /\ "child" \in Proc /\ ForkAt = 2
  BY TwoProcesses DEF Core, Typed, ForkAt
<1>1. CASE UNCHANGED vars
  BY <1>1 DEF vars, FirstRuns
<1>2. CASE Tick
  <2>1. UNCHANGED <<prog, proc, pc, ppid, value, status, ended>>
    BY <1>2 DEF Tick
  <2>2. rest'["child"] > 0 => rest["child"] > 0
    BY <1>0, <1>2, Ticking
  <2>3. ASSUME pc["parent"] = 3, rest["parent"] > 0, proc["parent"] = "run"
        PROVE  value["child"] = 100 \/ ended["child"] # <<>>
    <3>1. proc["child"] # "none"
      BY <1>0, <2>3 DEF Core, Control
    <3>2. CASE proc["child"] = "run"
      <4>1. "child" \in Sleepers
        <5>1. SUFFICES ASSUME "child" \notin Sleepers PROVE FALSE
          OBVIOUS
        <5>2. Waits("child")
          BY <1>0, <1>2, <3>2, <5>1 DEF Tick
        <5>3. CanRun("child") /\ Call("child").op = "waitpid"
          BY <5>2 DEF Waits, At
        <5> QED
          BY <1>0, <5>3, Running, TwoProcesses DEF Does
      <4> QED
        BY <1>0, <4>1 DEF Sleepers, FirstRuns
    <3> QED
      BY <1>0, <3>1, <3>2 DEF Core, Typed, Control
  <2>4. rest'["parent"] = 0 => rest["parent"] = 0 \/ rest["parent"] > 0
    BY <1>0
  <2> QED
    BY <1>0, <2>1, <2>2, <2>3, <2>4 DEF FirstRuns
<1>3. ASSUME NEW p \in Proc, Goes(p) PROVE FirstRuns'
  <2>1. /\ CanRun(p) /\ UNCHANGED <<prog, ppid, ended>>
        /\ Call(p).op # "sleep" => rest' = rest
        /\ Call(p).op # "assign" => UNCHANGED value
    BY <1>3, Going
  <2>2. /\ pc' = [pc EXCEPT ![p] = pc[p] + 1] /\ Does(p, pc[p] + 1, Call(p))
        /\ proc[p] = "run" /\ rest[p] = 0
        /\ Call(p).op = "sleep" => \E s \in Nat \ {0} : rest' = [rest EXCEPT ![p] = s]
        /\ Call(p).op # "waitpid" => UNCHANGED <<proc, status>>
    BY <1>3, Advancing
  <2>3. CASE p = "child"
    <3>1. UNCHANGED <<proc, status>>
      BY <2>2, <2>3, TwoProcesses DEF Does
    <3>2. pc'["child"] >= 2 => value'["child"] = 100
      <4>1. CASE Call(p).op = "assign"
        <5>1. Write(p)
          BY <1>3, <4>1, Advancing
        <5> QED
          BY <1>0, <5>1, Writing DEF Core, Typed
      <4>2. CASE Call(p).op # "assign"
        BY <1>0, <2>1, <2>2, <2>3, <4>2 DEF Does, FirstRuns, Core, Typed
      <4> QED
        BY <4>1, <4>2
    <3>3. rest'["child"] > 0 => pc'["child"] >= 4
      BY <1>0, <2>1, <2>2, <2>3 DEF Does, FirstRuns, Core, Typed
    <3>4. value["child"] = 100 => value'["child"] = 100
      <4>1. CASE Call(p).op = "assign"
        <5>1. Write(p)
          BY <1>3, <4>1, Advancing
        <5> QED
          BY <1>0, <5>1, Writing DEF Core, Typed
      <4> QED
        BY <2>1, <4>1
    <3>5. pc'["parent"] = pc["parent"] /\ rest'["parent"] = rest["parent"]
      BY <1>0, <2>1, <2>2, <2>3, TwoProcesses DEF Core, Typed
    <3> QED
      BY <1>0, <2>1, <3>1, <3>2, <3>3, <3>4, <3>5 DEF FirstRuns
  <2>4. CASE p = "parent"
    <3>1. UNCHANGED value
      BY <2>1, <2>2, <2>4, TwoProcesses DEF Does
    <3>2. /\ pc'["child"] = pc["child"] /\ rest'["child"] = rest["child"]
          /\ pc'["parent"] = pc["parent"] + 1
      BY <1>0, <2>1, <2>2, <2>4, TwoProcesses DEF Core, Typed
    <3>3. CASE pc["parent"] = 4
      <4>1. Call(p).op = "waitpid"
        BY <2>2, <2>4, <3>3 DEF Does
      <4>2. Reaps(p) \/ (NoChild /\ UNCHANGED <<proc, status>>)
        BY <1>3, <4>1, Advancing
      <4>3. Reaps(p)
        BY <2>2, <2>4, <3>3, <4>2 DEF NoChild, FirstRuns
      <4>4. status' = ended["child"] /\ ended["child"] # <<>>
        BY <1>0, <4>3 DEF Reaps, Core, Control
      <4> QED
        BY <1>0, <2>1, <3>1, <3>2, <3>3, <4>4 DEF FirstRuns
    <3>4. CASE pc["parent"] # 4
      <4>1. UNCHANGED <<proc, status>>
        BY <1>0, <2>2, <2>4, <3>4 DEF Does
      <4>2. pc'["parent"] = 3 => rest'["parent"] # 0
        <5>1. pc["parent"] = 2 => Call(p).op = "sleep"
          BY <2>2, <2>4 DEF Does
        <5> QED
          BY <1>0, <2>2, <2>4, <3>2, <5>1 DEF Core, Typed
      <4> QED
        BY <1>0, <2>1, <3>1, <3>2, <3>4, <4>1, <4>2 DEF FirstRuns
    <3> QED
      BY <3>3, <3>4
  <2> QED
    BY <2>3, <2>4, TwoProcesses
<1>4. ASSUME NEW p \in Proc, StartChild(p) PROVE FirstRuns'
  <2>1. /\ p = "parent" /\ pc["parent"] = 1 /\ pc["child"] = 0
        /\ pc' = [pc EXCEPT !["parent"] = 2]
    BY <1>0, <1>4, Starting
  <2>2. pc'["parent"] = 2 /\ pc'["child"] = 0
    BY <1>0, <2>1, TwoProcesses DEF Core, Typed
  <2>3. rest' = rest /\ proc'["child"] = "run" /\ rest["child"] = rest'["child"]
    BY <1>0, <1>4 DEF StartChild, Core, Typed
  <2> QED
    BY <1>0, <1>4, <2>1, <2>2, <2>3 DEF FirstRuns
<1>5. ASSUME NEW p \in Proc, Dies(p) PROVE FirstRuns'
  <2>1. Ends(p)
    BY <1>5, Dying
  <2>2. PICK how : how # <<>> /\ End(p, how)
    BY <2>1 DEF Ends
  <2>3. proc[p] = "run" /\ UNCHANGED <<prog, pc, rest, value, status>>
    BY <2>1 DEF Ends
  <2>4. ended' = [ended EXCEPT ![p] = how] /\ ended[p] = <<>>
    BY <2>2, <2>3 DEF End, Core, Control
  <2>5. CASE p = "parent"
    <3>1. proc'["parent"] = "gone" /\ ended'["child"] = ended["child"]
      BY <1>0, <2>2, <2>4, <2>5, TwoProcesses DEF End, Core, Typed
    <3> QED
      BY <2>3, <3>1 DEF FirstRuns
  <2>6. CASE p = "child"
    <3>1. /\ ended'["child"] # <<>> /\ proc'["parent"] = proc["parent"]
          /\ proc["parent"] = "run" => proc'["child"] # "gone"
      BY <1>0, <2>2, <2>4, <2>6, TwoProcesses DEF End, Core, Typed, Control
    <3>2. ~(pc["parent"] >= 5)
      BY <2>4, <2>6 DEF FirstRuns
    <3> QED
      BY <2>3, <3>1, <3>2 DEF FirstRuns
  <2> QED
    BY <2>5, <2>6, TwoProcesses
<1> QED
  BY <1>1, <1>2, <1>3, <1>4, <1>5, Steps

LEMMA ParZStep ==
  ASSUME Core, ParZRuns, [Next]_vars, prog = "ParZ"
  PROVE  ParZRuns'
<1>0. /\ \A p \in Proc : pc[p] \in Nat /\ rest[p] \in Nat
      /\ "parent" \in Proc /\ "child" \in Proc /\ ForkAt = 1
  BY TwoProcesses DEF Core, Typed, ForkAt
<1>1. CASE UNCHANGED vars
  BY <1>1 DEF vars, ParZRuns
<1>2. CASE Tick
  <2>1. UNCHANGED <<prog, proc, pc, ppid>>
    BY <1>2 DEF Tick
  <2>2. "parent" \notin Sleepers /\ rest'["parent"] = 0
    BY <1>0, <1>2, Ticking DEF Sleepers, ParZRuns
  <2>3. proc["parent"] # "run"
    <3>1. SUFFICES ASSUME proc["parent"] = "run" PROVE FALSE
      OBVIOUS
    <3>2. Waits("parent")
      BY <1>0, <1>2, <2>2, <3>1 DEF Tick
    <3>3. CanRun("parent") /\ Call("parent").op = "waitpid"
      BY <3>2 DEF Waits, At
    <3> QED
      BY <1>0, <3>3, Running DEF Does
  <2>4. ppid["child"] = "init"
    BY <2>3 DEF Core, Control
  <2> QED
    BY <2>1, <2>2, <2>4 DEF ParZRuns
<1>3. ASSUME NEW p \in Proc, Goes(p) PROVE ParZRuns'
  <2>1. /\ UNCHANGED <<prog, ppid>>
        /\ Call(p).op # "sleep" => rest' = rest
    BY <1>3, Going
  <2>2. /\ pc' = [pc EXCEPT ![p] = pc[p] + 1] /\ Does(p, pc[p] + 1, Call(p))
        /\ proc[p] = "run" /\ rest[p] = 0
        /\ Call(p).op = "sleep" => \E s \in Nat \ {0} : rest' = [rest EXCEPT ![p] = s]
        /\ UNCHANGED proc
    BY <1>3, Advancing DEF Does
  <2>3. CASE p = "parent"
    <3>1. rest' = rest /\ pc'["child"] = pc["child"]
      BY <1>0, <2>1, <2>2, <2>3, TwoProcesses DEF Does
    <3> QED
      BY <2>1, <2>2, <3>1 DEF ParZRuns
  <2>4. CASE p = "child"
    <3>1. rest'["parent"] = 0 /\ pc'["child"] = pc["child"] + 1
      BY <1>0, <2>1, <2>2, <2>4, TwoProcesses DEF ParZRuns, Core, Typed
    <3>2. CASE pc["child"] = 1
      <4>1. rest'["child"] # 0
        BY <1>0, <2>2, <2>4, <3>2 DEF Does, Core, Typed
      <4> QED
        BY <2>1, <2>2, <3>1, <4>1 DEF ParZRuns
    <3>3. CASE pc["child"] # 1
      <4>1. rest' = rest /\ (pc'["child"] >= 2 => pc["child"] >= 2)
        BY <1>0, <2>1, <2>2, <2>4, <3>1, <3>3 DEF Does
      <4> QED
        BY <2>1, <2>2, <3>1, <4>1 DEF ParZRuns
    <3> QED
      BY <3>2, <3>3
  <2> QED
    BY <2>3, <2>4, TwoProcesses
<1>4. ASSUME NEW p \in Proc, StartChild(p) PROVE ParZRuns'
  <2>1. p = "parent" /\ pc'["child"] = 0
    BY <1>0, <1>4, Starting, TwoProcesses DEF Core, Typed
  <2>2. rest' = rest /\ prog' = prog
    BY <1>4 DEF StartChild
  <2> QED
    BY <2>1, <2>2 DEF ParZRuns
<1>5. ASSUME NEW p \in Proc, Dies(p) PROVE ParZRuns'
  <2>1. Ends(p)
    BY <1>5, Dying
  <2>2. PICK how : End(p, how)
    BY <2>1 DEF Ends
  <2>3. proc[p] = "run" /\ UNCHANGED <<prog, pc, rest>>
    BY <2>1 DEF Ends
  <2>4. /\ proc'["child"] = "run" => proc["child"] = "run"
        /\ ppid["child"] = "init" => ppid'["child"] = "init"
    BY <1>0, <2>2, <2>3, TwoProcesses DEF End, Core, Typed
  <2> QED
    BY <2>3, <2>4 DEF ParZRuns
<1> QED
  BY <1>1, <1>2, <1>3, <1>4, <1>5, Steps

LEMMA ObserveStep ==
  ASSUME Core, ObserveRuns, [Next]_vars, prog = "observe"
  PROVE  ObserveRuns'
<1>0. /\ \A p \in Proc : pc[p] \in Nat
      /\ "parent" \in Proc /\ "child" \in Proc /\ ForkAt = 9
  BY TwoProcesses DEF Core, Typed, ForkAt
<1>1. CASE UNCHANGED vars
  BY <1>1 DEF vars, ObserveRuns
<1>2. CASE Tick
  <2>1. UNCHANGED <<prog, pc, frame, ended>>
    BY <1>2 DEF Tick
  <2> QED
    BY <2>1 DEF ObserveRuns
<1>3. ASSUME NEW p \in Proc, Goes(p) PROVE ObserveRuns'
  <2>1. /\ UNCHANGED <<prog, ended>>
        /\ Call(p).op # "assign" => UNCHANGED frame
    BY <1>3, Going
  <2>2. /\ pc' = [pc EXCEPT ![p] = pc[p] + 1] /\ Does(p, pc[p] + 1, Call(p))
        /\ proc[p] = "run"
    BY <1>3, Advancing
  <2>3. CASE p = "parent"
    <3>1. frame' = frame /\ pc'["child"] = pc["child"]
      BY <1>0, <2>1, <2>2, <2>3, TwoProcesses DEF Does
    <3> QED
      BY <2>1, <3>1 DEF ObserveRuns
  <2>4. CASE p = "child"
    <3>1. pc'["child"] = pc["child"] + 1
      BY <1>0, <2>2, <2>4 DEF Core, Typed
    <3>2. CASE pc["child"] = 11
      <4>1. Call(p).op = "assign"
        BY <2>2, <2>4, <3>2 DEF Does
      <4>2. \/ frame' = [frame EXCEPT !["child"] = 2]
            \/ frame' = frame /\ ~SharesFrame("child")
        BY <1>3, <4>1, Advancing, Writing
      <4>3. CASE frame' = [frame EXCEPT !["child"] = 2]
        BY <1>0, <2>1, <3>1, <3>2, <4>3 DEF ObserveRuns, Core, Typed
      <4>4. CASE frame' = frame /\ ~SharesFrame("child")
        <5>1. frame["child"] = frame["parent"]
          BY <3>2 DEF ObserveRuns, Core, Control
        <5>2. proc["parent"] # "run"
          BY <4>4, <5>1, TwoProcesses DEF SharesFrame
        <5>3. ended["parent"] # <<>>
          BY <1>0, <5>2 DEF Core, Control
        <5> QED
          BY <2>1, <3>1, <3>2, <5>3 DEF ObserveRuns
      <4> QED
        BY <4>2, <4>3, <4>4
    <3>3. CASE pc["child"] # 11
      <4>1. UNCHANGED frame
        BY <1>0, <2>1, <2>2, <2>4, <3>3 DEF Does
      <4> QED
        BY <1>0, <2>1, <3>1, <3>3, <4>1 DEF ObserveRuns
    <3> QED
      BY <3>2, <3>3
  <2> QED
    BY <2>3, <2>4, TwoProcesses
<1>4. ASSUME NEW p \in Proc, StartChild(p) PROVE ObserveRuns'
  <2>1. p = "parent" /\ pc'["child"] = 0
    BY <1>0, <1>4, Starting, TwoProcesses DEF Core, Typed
  <2>2. frame'["child"] = 1 /\ prog' = prog
    BY <1>0, <1>4, <2>1 DEF StartChild, Core, Typed, Control
  <2> QED
    BY <2>1, <2>2 DEF ObserveRuns
<1>5. ASSUME NEW p \in Proc, Dies(p) PROVE ObserveRuns'
  <2>1. Ends(p)
    BY <1>5, Dying
  <2>2. PICK how : how # <<>> /\ End(p, how)
    BY <2>1 DEF Ends
  <2>3. UNCHANGED <<prog, pc, frame>> /\ (ended["parent"] # <<>> => ended'["parent"] # <<>>)
    BY <2>1, <2>2 DEF Ends, End, Core, Typed
  <2> QED
    BY <2>3 DEF ObserveRuns
<1> QED
  BY <1>1, <1>2, <1>3, <1>4, <1>5, Steps

Runs == Core /\ FirstRuns /\ ParZRuns /\ ObserveRuns

LEMMA RunsAtFirst == Init => Runs
<1> SUFFICES ASSUME Init PROVE Runs
  OBVIOUS
<1>1. FirstRuns
  BY TwoProcesses DEF Init, FirstRuns
<1>2. ParZRuns
  BY TwoProcesses DEF Init, ParZRuns
<1>3. ObserveRuns
  BY TwoProcesses DEF Init, ObserveRuns
<1> QED
  BY <1>1, <1>2, <1>3, CoreAtFirst DEF Runs

LEMMA RunsStep == Runs /\ [Next]_vars => Runs'
<1> SUFFICES ASSUME Runs, [Next]_vars PROVE Runs'
  OBVIOUS
<1>1. prog' = prog
  <2>1. ASSUME NEW p \in Proc, Dies(p) PROVE prog' = prog
    BY <2>1, Dying DEF Ends, Runs
  <2>2. ASSUME NEW p \in Proc, Goes(p) PROVE prog' = prog
    BY <2>2, Going DEF Runs
  <2> QED
    BY <2>1, <2>2, Steps DEF Tick, StartChild, vars
<1>2. FirstRuns'
  BY <1>1, FirstStep DEF Runs, FirstRuns
<1>3. ParZRuns'
  BY <1>1, ParZStep DEF Runs, ParZRuns
<1>4. ObserveRuns'
  BY <1>1, ObserveStep DEF Runs, ObserveRuns
<1> QED
  BY <1>2, <1>3, <1>4, CoreStep DEF Runs

-----------------------------------------------------------------------------
(* The lines.  What is printed is a sequence, of whatever.                 *)
IsSeq(s) == s \in Seq(Range(s))

LEMMA Joined ==
  ASSUME NEW s, NEW t, IsSeq(s), IsSeq(t)
  PROVE  /\ IsSeq(s \o t) /\ Range(s \o t) = Range(s) \cup Range(t)
         /\ Len(s) \in Nat /\ Len(t) \in Nat /\ Len(s \o t) = Len(s) + Len(t)
         /\ DOMAIN s = 1 .. Len(s) /\ DOMAIN t = 1 .. Len(t)
         /\ DOMAIN (s \o t) = 1 .. Len(s) + Len(t)
         /\ \A k \in 1 .. Len(s) + Len(t) :
              (s \o t)[k] = IF k <= Len(s) THEN s[k] ELSE t[k - Len(s)]
<1> DEFINE S == Range(s) \cup Range(t)
<1>1. s \in Seq(S) /\ t \in Seq(S)
  <2>1. Range(s) \subseteq S /\ Range(t) \subseteq S
    OBVIOUS
  <2> HIDE DEF S
  <2> QED
    BY <2>1, SeqMonotonic DEF IsSeq
<1>2. /\ Len(s) \in Nat /\ Len(t) \in Nat
      /\ DOMAIN s = 1 .. Len(s) /\ DOMAIN t = 1 .. Len(t)
  <2> HIDE DEF S
  <2> QED
    BY <1>1, LenProperties
<1>3. /\ s \o t \in Seq(S) /\ Len(s \o t) = Len(s) + Len(t)
      /\ \A k \in 1 .. Len(s) + Len(t) :
           (s \o t)[k] = IF k <= Len(s) THEN s[k] ELSE t[k - Len(s)]
  <2> HIDE DEF S
  <2> QED
    BY <1>1, ConcatProperties
<1>4. DOMAIN (s \o t) = 1 .. Len(s) + Len(t)
  <2> HIDE DEF S
  <2> QED
    BY <1>3, LenProperties
<1>5. Range(s \o t) = S
  BY <1>1, RangeConcatenation
<1> QED
  BY <1>2, <1>3, <1>4, <1>5 DEF IsSeq

LEMMA FewLines ==
  ASSUME NEW l
  PROVE  /\ IsSeq(<<>>) /\ Range(<<>>) = {}
         /\ IsSeq(<<l>>) /\ Range(<<l>>) = {l} /\ DOMAIN <<l>> = {1}
         /\ IsSeq(<<l, l>>) /\ Range(<<l, l>>) = {l}
<1>1. Range(<<>>) = {} /\ Range(<<l>>) = {l} /\ Range(<<l, l>>) = {l} /\ DOMAIN <<l>> = {1}
  BY DEF Range
<1>2. <<>> \in Seq({}) /\ <<l>> \in Seq({l}) /\ <<l, l>> \in Seq({l})
  OBVIOUS
<1> QED
  BY <1>1, <1>2 DEF IsSeq

(* Sequences of lines, by a process; a terminal leaves nothing in a buffer.*)
Lined ==
  /\ IsSeq(out) /\ DOMAIN buffer = Proc
  /\ \A p \in Proc : IsSeq(buffer[p])
  /\ tty => \A p \in Proc : buffer[p] = <<>>

(* The lines p may print.                                                  *)
MayPrint(p) ==
  {Line(p, Shows(p))} \cup IF Call(p).shows = "frame" THEN {Line(p, NoFrame)} ELSE {}

(* A printf adds its line to one sequence: at most once, where no other    *)
(* thread uses the buffer.                                                 *)
LEMMA Printing ==
  ASSUME Core, Lined, NEW p \in Proc, Says(p)
  PROVE  \E line \in MayPrint(p) : \E lines :
           /\ IsSeq(lines) /\ Range(lines) \subseteq {line}
           /\ prog # "third" => lines \in {<<>>, <<line>>}
           /\ IF tty THEN out' = out \o lines /\ UNCHANGED buffer
                     ELSE /\ buffer' = [buffer EXCEPT ![Stdio(p)] = buffer[Stdio(p)] \o lines]
                          /\ UNCHANGED out
<1>1. \E line \in MayPrint(p) : \E lines \in {<<>>, <<line>>, <<line, line>>} :
        (prog # "third" => lines \in {<<>>, <<line>>}) /\ Put(p, lines)
  <2>1. CASE DoPrintf(p)
    <3> DEFINE line == Line(p, Shows(p))
               race == prog = "third" /\ \A q \in Proc : CanRun(q)
    <3>1. PICK lines \in {<<line>>} \cup IF race THEN {<<>>, <<line, line>>} ELSE {} : Put(p, lines)
      BY <2>1 DEF DoPrintf
    <3>2. line \in MayPrint(p)
      BY DEF MayPrint
    <3> QED
      BY <3>1, <3>2
  <2>2. CASE PrintNoFrame(p)
    <3> DEFINE line == Line(p, NoFrame)
    <3>1. PICK lines \in {<<>>, <<line>>} : Put(p, lines)
      BY <2>2 DEF PrintNoFrame
    <3>2. line \in MayPrint(p)
      BY <2>2 DEF PrintNoFrame, MayPrint
    <3> QED
      BY <3>1, <3>2
  <2> QED
    BY <2>1, <2>2 DEF Says
<1>2. PICK line \in MayPrint(p) : \E lines \in {<<>>, <<line>>, <<line, line>>} :
        (prog # "third" => lines \in {<<>>, <<line>>}) /\ Put(p, lines)
  BY <1>1
<1>3. PICK lines \in {<<>>, <<line>>, <<line, line>>} :
        (prog # "third" => lines \in {<<>>, <<line>>}) /\ Put(p, lines)
  BY <1>2
<1>4. IsSeq(lines) /\ Range(lines) \subseteq {line}
  BY FewLines
<1> QED
  BY <1>3, <1>4 DEF Put

LEMMA StdioIs == /\ \A p \in Proc : Stdio(p) \in Proc
                 /\ prog # "third" => \A p \in Proc : Stdio(p) = p
BY TwoProcesses DEF Stdio

(* The four things a step does to the lines.                               *)
LEMMA Writes ==
  ASSUME Core, [Next]_vars
  PROVE  \/ UNCHANGED <<out, buffer>>
         \/ \E p \in Proc : Says(p)
         \/ \E p \in Proc : FlushBuffer(p)
         \/ \E p \in Proc : StartChild(p)
<1>1. CASE UNCHANGED vars
  BY <1>1 DEF vars
<1>2. CASE Tick
  BY <1>2 DEF Tick
<1>3. ASSUME NEW p \in Proc, Goes(p)
      PROVE  UNCHANGED <<out, buffer>> \/ Says(p) \/ FlushBuffer(p)
  BY <1>3 DEF Goes, Succeed, BeginSleep, Write, Wait, Unmap, Fflush
<1>4. ASSUME NEW p \in Proc, Dies(p) PROVE UNCHANGED <<out, buffer>> \/ FlushBuffer(p)
  BY <1>4 DEF Dies, CallFails, CallExit, ReturnFromChild, Fault, Kill
<1> QED
  BY <1>1, <1>2, <1>3, <1>4, Steps

(* Every line in the output after a step was there before, or printed now. *)
LEMMA LinedStep ==
  ASSUME Core, Lined, [Next]_vars, UNCHANGED tty
  PROVE  /\ Lined'
         /\ \/ Printed' \subseteq Printed
            \/ \E p \in Proc : /\ Says(p)
                               /\ \E line \in MayPrint(p) : Printed' \subseteq Printed \cup {line}
<1>1. CASE UNCHANGED <<out, buffer>>
  BY <1>1 DEF Lined, Printed
<1>2. ASSUME NEW p \in Proc, Says(p)
      PROVE  Lined' /\ \E line \in MayPrint(p) : Printed' \subseteq Printed \cup {line}
  <2>0. PICK line \in MayPrint(p) : \E lines :
          /\ IsSeq(lines) /\ Range(lines) \subseteq {line}
          /\ IF tty THEN out' = out \o lines /\ UNCHANGED buffer
                    ELSE /\ buffer' = [buffer EXCEPT ![Stdio(p)] = buffer[Stdio(p)] \o lines]
                         /\ UNCHANGED out
    BY <1>2, Printing
  <2>1. PICK lines :
          /\ IsSeq(lines) /\ Range(lines) \subseteq {line}
          /\ IF tty THEN out' = out \o lines /\ UNCHANGED buffer
                    ELSE /\ buffer' = [buffer EXCEPT ![Stdio(p)] = buffer[Stdio(p)] \o lines]
                         /\ UNCHANGED out
    BY <2>0
  <2>2. CASE tty
    <3>1. out' = out \o lines /\ buffer' = buffer
      BY <2>1, <2>2
    <3>2. IsSeq(out \o lines) /\ Range(out \o lines) = Range(out) \cup Range(lines)
      BY <2>1, Joined DEF Lined
    <3> QED
      BY <2>1, <3>1, <3>2 DEF Lined, Printed
  <2>3. CASE ~tty
    <3> DEFINE b == buffer[Stdio(p)]
    <3>1. out' = out /\ buffer' = [buffer EXCEPT ![Stdio(p)] = b \o lines]
      BY <2>1, <2>3
    <3>2. IsSeq(b \o lines) /\ Range(b \o lines) = Range(b) \cup Range(lines)
      BY <2>1, Joined, StdioIs DEF Lined
    <3>3. DOMAIN buffer' = Proc
      BY <3>1 DEF Lined
    <3>4. \A q \in Proc : buffer'[q] = IF q = Stdio(p) THEN b \o lines ELSE buffer[q]
      BY <3>1 DEF Lined
    <3>5. Lined'
      BY <2>3, <3>1, <3>2, <3>3, <3>4 DEF Lined
    <3>6. \A q \in Proc : Range(buffer'[q]) \subseteq Range(buffer[q]) \cup {line}
      BY <2>1, <3>2, <3>4
    <3>7. Printed' \subseteq Printed \cup {line}
      BY <3>1, <3>6 DEF Printed
    <3> QED
      BY <3>5, <3>7
  <2> QED
    BY <2>2, <2>3
<1>3. ASSUME NEW p \in Proc, FlushBuffer(p) PROVE Lined' /\ Printed' \subseteq Printed
  <2> DEFINE b == buffer[Stdio(p)]
  <2>1. out' = out \o b /\ buffer' = [buffer EXCEPT ![Stdio(p)] = <<>>]
    BY <1>3 DEF FlushBuffer
  <2>2. IsSeq(out \o b) /\ Range(out \o b) = Range(out) \cup Range(b)
    BY Joined, StdioIs DEF Lined
  <2>3. /\ DOMAIN buffer' = Proc
        /\ \A q \in Proc : buffer'[q] = IF q = Stdio(p) THEN <<>> ELSE buffer[q]
    BY <2>1 DEF Lined
  <2>4. Lined'
    BY <2>1, <2>2, <2>3, FewLines DEF Lined
  <2>5. \A q \in Proc : Range(buffer'[q]) \subseteq Range(buffer[q])
    BY <2>3, FewLines
  <2>6. Range(out') \subseteq Printed
    BY <2>1, <2>2, StdioIs DEF Printed
  <2> QED
    BY <2>4, <2>5, <2>6 DEF Printed
<1>4. ASSUME NEW p \in Proc, StartChild(p) PROVE Lined' /\ Printed' \subseteq Printed
  <2>1. /\ out' = out /\ DOMAIN buffer' = Proc
        /\ \A q \in Proc : buffer'[q] \in {buffer[q], buffer[p], <<>>}
    BY <1>4 DEF StartChild, Lined
  <2>2. Lined'
    BY <2>1, FewLines DEF Lined
  <2>3. \A q \in Proc : Range(buffer'[q]) \subseteq Printed
    <3>1. \A q \in Proc : Range(buffer[q]) \subseteq Printed
      BY DEF Printed
    <3> QED
      BY <2>1, <3>1, FewLines
  <2> QED
    BY <2>1, <2>2, <2>3 DEF Printed
<1> QED
  BY <1>1, <1>2, <1>3, <1>4, Writes

(* What pagemap tells of the frame f.                                      *)
FrameSays(f) == <<"PFN", IF privileged THEN f ELSE 0>>

(* What the lines say is true: of how the child has ended, of who the      *)
(* orphan's parent is, and of the page frames.                             *)
Good(l) ==
  /\ l.by \in Proc
  /\ l.text = "child_ended" => l.shown = ended["child"] /\ ended["child"] # <<>>
  /\ l.text = "New_PPID_init" => l.shown = "init"
  /\ l.text \in {"frame_at_start", "frame_before", "frame_of_parent"} =>
       l.shown \in {FrameSays(1), NoFrame}
  /\ l.text = "frame_after" =>
       \/ l.shown \in {FrameSays(2), NoFrame}
       \/ l.shown = FrameSays(1) /\ ended["parent"] # <<>>

AllGood == \A l \in Printed : Good(l)

(* The line that p prints says what is true.                               *)
LEMMA GoodLine ==
  ASSUME Runs, NEW p \in Proc, Says(p), NEW l \in MayPrint(p)
  PROVE  Good(l)
<1>0. Core
  BY DEF Runs
<1>1. CanRun(p) /\ Call(p).op = "printf"
  BY DEF Says, DoPrintf, PrintNoFrame, At
<1>2. /\ pc[p] \in Nat /\ Prints(p, pc[p] + 1, Call(p)) /\ proc[p] = "run" /\ rest[p] = 0
      /\ "parent" \in Proc /\ "child" \in Proc
  BY <1>0, <1>1, Running, TwoProcesses DEF Core, Typed
<1>3. /\ l.by = p /\ l.text = Call(p).text
      /\ l.shown = Shows(p) \/ (l.shown = NoFrame /\ Call(p).shows = "frame")
  BY DEF Line, MayPrint
<1>4. ASSUME Call(p).text = "child_ended"
      PROVE  l.shown = ended["child"] /\ ended["child"] # <<>>
  <2>1. prog = "first" /\ p = "parent" /\ pc["parent"] = 5 /\ Call(p).shows = "status"
    BY <1>1, <1>2, <1>4 DEF Prints
  <2>2. l.shown = status
    BY <1>3, <2>1 DEF Shows
  <2> QED
    BY <2>1, <2>2 DEF Runs, FirstRuns
<1>5. ASSUME Call(p).text = "New_PPID_init" PROVE l.shown = "init"
  <2>1. prog = "ParZ" /\ p = "child" /\ pc["child"] = 2 /\ Call(p).shows = "ppid"
    BY <1>1, <1>2, <1>5 DEF Prints
  <2>2. l.shown = ppid["child"]
    BY <1>3, <2>1 DEF Shows
  <2> QED
    BY <1>2, <2>1, <2>2 DEF Runs, ParZRuns
<1>6. Call(p).shows = "frame" => l.shown \in {FrameSays(frame[p]), NoFrame}
  BY <1>3 DEF Shows, FrameTold, FrameSays
<1>7. ASSUME Call(p).text \in {"frame_at_start", "frame_before", "frame_of_parent"}
      PROVE  l.shown \in {FrameSays(1), NoFrame}
  <2>1. prog = "observe" /\ (p = "child" => pc["child"] < 12) /\ Call(p).shows = "frame"
    BY <1>1, <1>2, <1>7 DEF Prints
  <2>2. frame[p] = 1
    BY <2>1, TwoProcesses DEF Runs, ObserveRuns, Core, Control
  <2> QED
    BY <1>6, <2>1, <2>2
<1>8. ASSUME Call(p).text = "frame_after"
      PROVE  \/ l.shown \in {FrameSays(2), NoFrame}
             \/ l.shown = FrameSays(1) /\ ended["parent"] # <<>>
  <2>1. prog = "observe" /\ p = "child" /\ pc["child"] >= 12 /\ Call(p).shows = "frame"
    BY <1>1, <1>2, <1>8 DEF Prints
  <2>2. frame[p] \in {1, 2} /\ (frame[p] = 2 \/ ended["parent"] # <<>>)
    BY <1>2, <2>1 DEF Runs, ObserveRuns, Core, Typed
  <2> QED
    BY <1>6, <2>1, <2>2
<1> QED
  BY <1>3, <1>4, <1>5, <1>7, <1>8 DEF Good

(* How a process has ended is written once.                                *)
LEMMA EndedOnce ==
  ASSUME Core, [Next]_vars
  PROVE  \A p \in Proc : ended[p] # <<>> => ended'[p] = ended[p]
<1>1. ASSUME NEW p \in Proc, Dies(p) PROVE \A q \in Proc : ended[q] # <<>> => ended'[q] = ended[q]
  <2>1. proc[p] = "run" /\ \E how : End(p, how)
    BY <1>1, Dying DEF Ends
  <2> QED
    BY <2>1 DEF End, Core, Typed, Control
<1>2. ASSUME NEW p \in Proc, Goes(p) PROVE ended' = ended
  BY <1>2, Going
<1> QED
  BY <1>1, <1>2, Steps DEF vars, Tick, StartChild

LEMMA GoodStep ==
  ASSUME Runs, Lined, AllGood, [Next]_vars, UNCHANGED <<tty, privileged>>
  PROVE  AllGood'
<1>0. Core /\ "parent" \in Proc /\ "child" \in Proc
  BY TwoProcesses DEF Runs
<1>1. ASSUME NEW l, Good(l) PROVE Good(l)'
  <2>1. /\ ended["child"] # <<>> => ended'["child"] = ended["child"]
        /\ ended["parent"] # <<>> => ended'["parent"] = ended["parent"]
    BY <1>0, EndedOnce
  <2> QED
    BY <1>1, <2>1 DEF Good, FrameSays
<1>2. \/ Printed' \subseteq Printed
      \/ \E p \in Proc : Says(p) /\ \E line \in MayPrint(p) : Printed' \subseteq Printed \cup {line}
  BY <1>0, LinedStep
<1>3. \A l \in Printed' : Good(l)
  BY <1>2, GoodLine DEF AllGood
<1> QED
  BY <1>1, <1>3 DEF AllGood

-----------------------------------------------------------------------------
(* No line is written twice: what each process has printed are texts of    *)
(* calls it has made, each once over the output and its buffer, and the    *)
(* buffer that fork copies is empty.                                       *)
Same(l, m) == l.by = m.by /\ l.text = m.text
Once(s) == \A j, k \in DOMAIN s : Same(s[j], s[k]) => j = k
Apart(s, t) == \A l \in Range(s), m \in Range(t) : ~Same(l, m)
Said(l) == \E k \in 1 .. pc[l.by] :
             Script(l.by)[k].op = "printf" /\ Script(l.by)[k].text = l.text

(* The programs, and the stdout, that LinesOnce is about.                  *)
Orderly == prog # "third" /\ (prog = "first" => tty)

Tidy ==
  /\ Once(out)
  /\ \A p \in Proc : Once(buffer[p]) /\ Apart(out, buffer[p])
  /\ \A p \in Proc : \A l \in Range(buffer[p]) : l.by = p

(* Where the parent forks, its buffer is empty: it has printed nothing, or *)
(* flushed since.                                                          *)
Empties ==
  /\ prog \in {"second", "ParZ"} /\ pc["parent"] = 0 => buffer["parent"] = <<>>
  /\ prog = "observe" /\ pc["parent"] \in {7, 8} => buffer["parent"] = <<>>

Told ==
  Orderly =>
    /\ Tidy
    /\ \A l \in Printed : l.by \in Proc /\ Said(l)
    /\ Empties

LEMMA JoinedOnce ==
  ASSUME NEW s, NEW t, IsSeq(s), IsSeq(t), Once(s), Once(t), Apart(s, t)
  PROVE  Once(s \o t)
<1>1. /\ Len(s) \in Nat /\ Len(t) \in Nat
      /\ DOMAIN s = 1 .. Len(s) /\ DOMAIN t = 1 .. Len(t)
      /\ DOMAIN (s \o t) = 1 .. Len(s) + Len(t)
      /\ \A k \in 1 .. Len(s) + Len(t) :
           (s \o t)[k] = IF k <= Len(s) THEN s[k] ELSE t[k - Len(s)]
  BY Joined
<1>2. \A j \in DOMAIN s, k \in DOMAIN t : ~Same(s[j], t[k]) /\ ~Same(t[k], s[j])
  BY DEF Apart, Range, Same
<1> SUFFICES ASSUME NEW j \in 1 .. Len(s) + Len(t), NEW k \in 1 .. Len(s) + Len(t),
                    Same((s \o t)[j], (s \o t)[k])
             PROVE  j = k
  BY <1>1 DEF Once
<1>3. CASE j <= Len(s) /\ k <= Len(s)
  BY <1>1, <1>3 DEF Once
<1>4. CASE ~(j <= Len(s)) /\ ~(k <= Len(s))
  <2>1. j - Len(s) \in DOMAIN t /\ k - Len(s) \in DOMAIN t
    BY <1>1, <1>4
  <2>2. Same(t[j - Len(s)], t[k - Len(s)])
    BY <1>1, <1>4
  <2>3. j - Len(s) = k - Len(s)
    BY <2>1, <2>2 DEF Once
  <2> QED
    BY <1>1, <2>3
<1>5. CASE j <= Len(s) /\ ~(k <= Len(s))
  <2>1. j \in DOMAIN s /\ k - Len(s) \in DOMAIN t /\ Same(s[j], t[k - Len(s)])
    BY <1>1, <1>5
  <2> QED
    BY <1>2, <2>1
<1>6. CASE ~(j <= Len(s)) /\ k <= Len(s)
  <2>1. k \in DOMAIN s /\ j - Len(s) \in DOMAIN t /\ Same(t[j - Len(s)], s[k])
    BY <1>1, <1>6
  <2> QED
    BY <1>2, <2>1
<1> QED
  BY <1>3, <1>4, <1>5, <1>6

LEMMA FewOnce == ASSUME NEW l PROVE Once(<<>>) /\ Once(<<l>>)
<1>1. DOMAIN <<>> = {} /\ DOMAIN <<l>> = {1}
  OBVIOUS
<1> QED
  BY <1>1 DEF Once

(* A call that is done stays done.                                         *)
LEMMA SaidStays ==
  ASSUME Core, prog' = prog, NEW l, l.by \in Proc, Said(l), pc'[l.by] \in Nat,
         pc'[l.by] >= pc[l.by]
  PROVE  Said(l)'
<1>1. pc[l.by] \in Nat
  BY DEF Core, Typed
<1>2. 1 .. pc[l.by] \subseteq 1 .. pc'[l.by]
  BY <1>1
<1>3. \A q : Script(q)' = Script(q)
  BY SameScripts
<1> QED
  BY <1>2, <1>3 DEF Said

(* The line p prints is none of those before.                              *)
LEMMA NewLine ==
  ASSUME Core, Told, Orderly, NEW p \in Proc, Says(p), NEW line \in MayPrint(p)
  PROVE  /\ \A l \in Printed : ~Same(l, line) /\ ~Same(line, l)
         /\ Said(line)' /\ line.by = p
<1>1. CanRun(p) /\ Call(p).op = "printf" /\ pc' = [pc EXCEPT ![p] = @ + 1] /\ prog' = prog
  BY DEF Says, DoPrintf, PrintNoFrame, At, Done
<1>2. /\ pc[p] \in Nat /\ pc[p] + 1 \in 1 .. Calls(p) /\ Call(p) = Script(p)[pc[p] + 1]
      /\ Calls(p) \in Nat
  BY <1>1, Running, Scripts DEF Core, Typed, Known
<1>3. line.by = p /\ line.text = Call(p).text
  BY DEF Line, MayPrint
<1>4. ASSUME NEW l \in Printed, l.by = p, l.text = Call(p).text PROVE FALSE
  <2>1. PICK k \in 1 .. pc[p] : Script(p)[k].op = "printf" /\ Script(p)[k].text = l.text
    BY <1>4 DEF Told, Said
  <2>2. k \in 1 .. Calls(p) /\ k # pc[p] + 1
    BY <1>2
  <2> QED
    BY <1>1, <1>2, <1>4, <2>1, <2>2, Scripts DEF Core, Typed, Known, Orderly
<1>5. Said(line)'
  <2>1. pc'[p] = pc[p] + 1
    BY <1>1 DEF Core, Typed
  <2>2. pc[p] + 1 \in 1 .. pc'[p]
    BY <1>2, <2>1
  <2>3. Script(p)' = Script(p)
    BY <1>1, SameScripts
  <2>5. ASSUME NEW l, l.by = p, l.text = Call(p).text PROVE Said(l)'
    BY <1>1, <1>2, <2>2, <2>3, <2>5 DEF Said
  <2> QED
    BY <1>3, <2>5
<1> QED
  BY <1>3, <1>4, <1>5 DEF Same

LEMMA TidyPrinted ==
  ASSUME Core, Lined, Told, Orderly, NEW p \in Proc, Says(p)
  PROVE  Tidy' /\ \A q \in Proc \ {p} : buffer'[q] = buffer[q]
<1>0. PICK line \in MayPrint(p) : \E lines \in {<<>>, <<line>>} :
        IF tty THEN out' = out \o lines /\ UNCHANGED buffer
               ELSE buffer' = [buffer EXCEPT ![p] = buffer[p] \o lines] /\ UNCHANGED out
  <2>1. prog # "third" /\ Stdio(p) = p
    BY StdioIs DEF Orderly
  <2> QED
    BY <2>1, Printing
<1>1. PICK lines \in {<<>>, <<line>>} :
        IF tty THEN out' = out \o lines /\ UNCHANGED buffer
               ELSE buffer' = [buffer EXCEPT ![p] = buffer[p] \o lines] /\ UNCHANGED out
  BY <1>0
<1>2. /\ \A l \in Printed : ~Same(l, line) /\ ~Same(line, l)
      /\ line.by = p
  BY NewLine
<1>3. /\ IsSeq(lines) /\ Range(lines) \subseteq {line} /\ Once(lines)
      /\ Range(<<>>) = {} /\ Once(<<>>)
  <2>1. CASE lines = <<>>
    BY <2>1, FewLines, FewOnce
  <2>2. CASE lines = <<line>>
    BY <2>2, FewLines, FewOnce
  <2> QED
    BY <2>1, <2>2
<1>4. /\ Range(out) \subseteq Printed
      /\ \A q \in Proc : Range(buffer[q]) \subseteq Printed
  BY DEF Printed
<1>5. IsSeq(out) /\ DOMAIN buffer = Proc /\ \A q \in Proc : IsSeq(buffer[q])
  BY DEF Lined
<1>6. Tidy
  BY DEF Told
<1>7. CASE tty
  <2>1. out' = out \o lines /\ buffer' = buffer /\ \A q \in Proc : buffer[q] = <<>>
    BY <1>1, <1>7 DEF Lined
  <2>2. Apart(out, lines)
    BY <1>2, <1>3, <1>4 DEF Apart
  <2>3. Once(out \o lines)
    BY <1>3, <1>5, <1>6, <2>2, JoinedOnce DEF Tidy
  <2> QED
    BY <1>3, <2>1, <2>3 DEF Tidy, Apart
<1>8. CASE ~tty
  <2> DEFINE b == buffer[p]
  <2>1. /\ out' = out /\ buffer'[p] = b \o lines
        /\ \A q \in Proc \ {p} : buffer'[q] = buffer[q]
    BY <1>1, <1>5, <1>8
  <2>2. Apart(b, lines)
    BY <1>2, <1>3, <1>4 DEF Apart
  <2>3. Once(b \o lines)
    BY <1>3, <1>5, <1>6, <2>2, JoinedOnce DEF Tidy
  <2>4. Range(b \o lines) = Range(b) \cup Range(lines)
    BY <1>3, <1>5, Joined
  <2>5. Apart(out, b \o lines)
    BY <1>2, <1>3, <1>4, <1>6, <2>4 DEF Tidy, Apart
  <2>6. \A l \in Range(b \o lines) : l.by = p
    BY <1>2, <1>3, <1>6, <2>4 DEF Tidy
  <2> HIDE DEF b
  <2> QED
    BY <1>6, <2>1, <2>3, <2>5, <2>6 DEF Tidy
<1> QED
  BY <1>7, <1>8

LEMMA TidyFlushed ==
  ASSUME Lined, Tidy, Orderly, NEW p \in Proc, FlushBuffer(p)
  PROVE  Tidy' /\ buffer'[p] = <<>> /\ \A q \in Proc \ {p} : buffer'[q] = buffer[q]
<1> DEFINE b == buffer[p]
<1>1. out' = out \o b /\ buffer' = [buffer EXCEPT ![p] = <<>>]
  <2>1. Stdio(p) = p
    BY StdioIs DEF Orderly
  <2> QED
    BY <2>1 DEF FlushBuffer
<1>2. IsSeq(out) /\ DOMAIN buffer = Proc /\ \A q \in Proc : IsSeq(buffer[q])
  BY DEF Lined
<1>3. buffer'[p] = <<>> /\ \A q \in Proc \ {p} : buffer'[q] = buffer[q]
  BY <1>1, <1>2
<1>4. Range(<<>>) = {} /\ Once(<<>>)
  BY FewLines, FewOnce
<1>5. Once(out \o b) /\ Range(out \o b) = Range(out) \cup Range(b)
  BY <1>2, Joined, JoinedOnce DEF Tidy
<1>6. ASSUME NEW q \in Proc \ {p} PROVE Apart(out \o b, buffer[q])
  <2>1. Apart(out, buffer[q])
    BY DEF Tidy
  <2>2. Apart(b, buffer[q])
    BY <1>6 DEF Tidy, Apart, Same
  <2> QED
    BY <1>5, <2>1, <2>2 DEF Apart
<1>7. Apart(out \o b, <<>>)
  BY <1>4 DEF Apart
<1> HIDE DEF b
<1>8. ASSUME NEW q \in Proc
      PROVE  Once(buffer'[q]) /\ Apart(out', buffer'[q]) /\ \A l \in Range(buffer'[q]) : l.by = q
  <2>1. CASE q = p
    BY <1>1, <1>3, <1>4, <1>7, <2>1
  <2>2. CASE q # p
    BY <1>1, <1>3, <1>6, <2>2 DEF Tidy
  <2> QED
    BY <2>1, <2>2
<1> QED
  BY <1>1, <1>3, <1>5, <1>8 DEF Tidy

(* fork finds nothing in the buffer that it copies.                        *)
LEMMA NothingToCopy ==
  ASSUME Core, Lined, Told, Orderly, NEW p \in Proc, StartChild(p)
  PROVE  /\ out' = out /\ p = "parent" /\ buffer'["child"] = <<>>
         /\ buffer'["parent"] = <<>> /\ buffer["parent"] = <<>>
<1>1. p = "parent" /\ pc["parent"] + 1 = ForkAt /\ pc["parent"] \in Nat
  BY Starting
<1>2. buffer["parent"] = <<>>
  <2>1. CASE tty
    BY <2>1, TwoProcesses DEF Lined
  <2>2. CASE prog \in {"second", "ParZ"}
    BY <1>1, <2>2 DEF ForkAt, Told, Empties
  <2>3. CASE prog = "observe"
    BY <1>1, <2>3 DEF ForkAt, Told, Empties
  <2> QED
    BY <2>1, <2>2, <2>3, LifeCycleConstants DEF Core, Typed, Orderly
<1> QED
  BY <1>1, <1>2, TwoProcesses DEF StartChild, Lined

LEMMA TidyStarted ==
  ASSUME Core, Lined, Told, Orderly, NEW p \in Proc, StartChild(p)
  PROVE  Tidy'
<1>1. out' = out /\ \A q \in Proc : buffer'[q] = <<>>
  BY NothingToCopy, TwoProcesses
<1>2. Range(<<>>) = {} /\ Once(<<>>)
  BY FewLines, FewOnce
<1> QED
  BY <1>1, <1>2 DEF Told, Tidy, Apart

(* No step takes a call back.                                              *)
LEMMA Onward ==
  ASSUME Core, [Next]_vars
  PROVE  \A p \in Proc : pc'[p] \in Nat /\ pc'[p] >= pc[p]
<1>0. \A p \in Proc : pc[p] \in Nat
  BY DEF Core, Typed
<1>1. ASSUME NEW p \in Proc, Goes(p) PROVE pc' = [pc EXCEPT ![p] = pc[p] + 1]
  BY <1>1, Advancing
<1>2. ASSUME NEW p \in Proc, StartChild(p) PROVE pc' = [pc EXCEPT ![p] = pc[p] + 1]
  BY <1>2, Starting
<1>3. ASSUME NEW p \in Proc, Dies(p) PROVE pc' = pc
  BY <1>3, Dying DEF Ends
<1>4. \/ pc' = pc
      \/ \E p \in Proc : pc' = [pc EXCEPT ![p] = pc[p] + 1]
  BY <1>1, <1>2, <1>3, Steps DEF vars, Tick
<1> QED
  BY <1>0, <1>4 DEF Core, Typed

LEMMA TidyStep ==
  ASSUME Core, Lined, Told, Orderly, [Next]_vars
  PROVE  Tidy'
<1>1. Tidy
  BY DEF Told
<1>2. CASE UNCHANGED <<out, buffer>>
  BY <1>1, <1>2 DEF Tidy
<1> QED
  BY <1>1, <1>2, TidyPrinted, TidyFlushed, TidyStarted, Writes

LEMMA EmptiesStep ==
  ASSUME Core, Lined, Told, Orderly, [Next]_vars, prog' = prog
  PROVE  Empties'
<1>0. pc["parent"] \in Nat /\ "parent" \in Proc /\ Empties
  BY TwoProcesses DEF Core, Typed, Told, Empties
<1>1. CASE UNCHANGED vars
  BY <1>0, <1>1 DEF vars, Empties
<1>2. CASE Tick
  <2>1. UNCHANGED <<pc, buffer>>
    BY <1>2 DEF Tick
  <2> QED
    BY <1>0, <2>1 DEF Empties
<1>3. ASSUME NEW p \in Proc, Goes(p) PROVE Empties'
  <2>1. /\ pc' = [pc EXCEPT ![p] = pc[p] + 1] /\ Does(p, pc[p] + 1, Call(p))
        /\ Call(p).op \notin {"printf", "fflush"} => UNCHANGED <<out, buffer>>
    BY <1>3, Going, Advancing
  <2>2. CASE p = "child"
    <3>1. pc'["parent"] = pc["parent"] /\ (Fflush(p) => FlushBuffer(p))
      BY <2>1, <2>2, TwoProcesses DEF Core, Typed, Fflush
    <3>2. Says(p) \/ Fflush(p) => buffer'["parent"] = buffer["parent"]
      BY <1>0, <2>2, <3>1, TidyPrinted, TidyFlushed, TwoProcesses DEF Told
    <3>3. ~Says(p) /\ ~Fflush(p) => buffer' = buffer
      BY <1>3 DEF Goes, Succeed, BeginSleep, Write, Wait, Unmap
    <3> QED
      BY <1>0, <3>1, <3>2, <3>3 DEF Empties
  <2>3. CASE p = "parent"
    <3>1. pc'["parent"] = pc["parent"] + 1 /\ pc'["parent"] # 0
      BY <1>0, <2>1, <2>3 DEF Core, Typed
    <3>2. ASSUME prog = "observe", pc["parent"] = 6 PROVE buffer'["parent"] = <<>>
      <4>1. Call(p).op = "fflush"
        BY <2>1, <2>3, <3>2 DEF Does
      <4>2. Fflush(p)
        BY <1>3, <4>1 DEF Goes, Says, DoPrintf, PrintNoFrame, Succeed, BeginSleep, Write, Wait,
                          Unmap, At
      <4>3. FlushBuffer(p)
        BY <4>2 DEF Fflush
      <4> QED
        BY <2>3, <4>3, TidyFlushed DEF Told
    <3>3. ASSUME prog = "observe", pc["parent"] = 7 PROVE buffer'["parent"] = <<>>
      <4>1. Call(p).op = "sleep"
        BY <2>1, <2>3, <3>3 DEF Does
      <4> QED
        BY <1>0, <2>1, <3>3, <4>1 DEF Empties
    <3>4. pc'["parent"] \in {7, 8} => pc["parent"] \in {6, 7}
      BY <1>0, <3>1
    <3> QED
      BY <3>1, <3>2, <3>3, <3>4 DEF Empties
  <2> QED
    BY <2>2, <2>3, TwoProcesses
<1>4. ASSUME NEW p \in Proc, StartChild(p) PROVE Empties'
  BY <1>4, NothingToCopy DEF Empties
<1>5. ASSUME NEW p \in Proc, Dies(p) PROVE Empties'
  <2>1. pc' = pc
    BY <1>5, Dying DEF Ends
  <2>2. buffer' = buffer \/ FlushBuffer(p)
    BY <1>5 DEF Dies, CallFails, CallExit, ReturnFromChild, Fault, Kill
  <2>3. buffer'["parent"] \in {buffer["parent"], <<>>}
    BY <1>0, <2>2, TidyFlushed DEF Told
  <2> QED
    BY <1>0, <2>1, <2>3 DEF Empties
<1> QED
  BY <1>1, <1>2, <1>3, <1>4, <1>5, Steps

LEMMA ToldStep ==
  ASSUME Core, Lined, Told, [Next]_vars, UNCHANGED <<prog, tty>>
  PROVE  Told'
<1> SUFFICES ASSUME Orderly PROVE Told'
  BY DEF Told, Orderly
<1>1. Tidy'
  BY TidyStep
<1>2. ASSUME NEW l, l.by \in Proc, Said(l) PROVE Said(l)'
  BY <1>2, Onward, SaidStays
<1>3. \A l \in Printed' : l.by \in Proc /\ Said(l)'
  <2>1. CASE Printed' \subseteq Printed
    BY <1>2, <2>1 DEF Told
  <2>2. ASSUME NEW p \in Proc, Says(p), NEW line \in MayPrint(p),
               Printed' \subseteq Printed \cup {line}
        PROVE  \A l \in Printed' : l.by \in Proc /\ Said(l)'
    <3>1. Said(line)' /\ line.by = p
      BY <2>2, NewLine
    <3> QED
      BY <1>2, <2>2, <3>1 DEF Told
  <2> QED
    BY <2>1, <2>2, LinedStep
<1>4. Empties'
  BY EmptiesStep
<1> QED
  BY <1>1, <1>3, <1>4 DEF Told

-----------------------------------------------------------------------------
(* The invariant.                                                          *)
IInv == Runs /\ Lined /\ AllGood /\ Told

LEMMA Initially == Init => IInv
<1> SUFFICES ASSUME Init PROVE IInv
  OBVIOUS
<1>1. /\ out = <<>> /\ DOMAIN buffer = Proc /\ (\A p \in Proc : buffer[p] = <<>>)
  BY DEF Init
<1>2. IsSeq(<<>>) /\ Range(<<>>) = {} /\ Once(<<>>)
  BY FewLines, FewOnce
<1>3. Lined
  BY <1>1, <1>2 DEF Lined
<1>4. Printed = {}
  BY <1>1, <1>2 DEF Printed
<1>5. Tidy
  BY <1>1, <1>2 DEF Tidy, Apart
<1>6. Told
  BY <1>1, <1>4, <1>5, TwoProcesses DEF Told, Empties
<1> QED
  BY <1>3, <1>4, <1>6, RunsAtFirst DEF IInv, AllGood

LEMMA Inductive == IInv /\ [Next]_vars => IInv'
<1> SUFFICES ASSUME IInv, [Next]_vars PROVE IInv'
  OBVIOUS
<1>0. Core
  BY DEF IInv, Runs
<1>1. UNCHANGED <<prog, tty, privileged>>
  <2>1. ASSUME NEW p \in Proc, Dies(p) PROVE UNCHANGED <<prog, tty, privileged>>
    BY <1>0, <2>1, Dying DEF Ends
  <2>2. ASSUME NEW p \in Proc, Goes(p) PROVE UNCHANGED <<prog, tty, privileged>>
    BY <1>0, <2>2, Going
  <2> QED
    BY <2>1, <2>2, Steps DEF Tick, StartChild, vars
<1> QED
  BY <1>0, <1>1, RunsStep, LinedStep, GoodStep, ToldStep DEF IInv

LEMMA Always == Spec => []IInv
BY Initially, Inductive, PTL DEF Spec

(* Type correctness, with how the ends are written down.                   *)
THEOREM TypeCorrect == Spec => []TypeOK
<1>1. IInv => TypeOK
  <2> SUFFICES ASSUME IInv PROVE TypeOK
    OBVIOUS
  <2>1. Core /\ Lined
    BY DEF IInv, Runs
  <2>2. ASSUME NEW p \in Proc, NEW line \in Range(out \o buffer[p]) PROVE line.by \in Proc
    <3>1. Range(out \o buffer[p]) = Range(out) \cup Range(buffer[p])
      BY <2>1, Joined DEF Lined
    <3>2. line \in Printed
      BY <3>1 DEF Printed
    <3> QED
      BY <3>2 DEF IInv, AllGood, Good
  <2> QED
    BY <2>1, <2>2 DEF TypeOK, Core, Typed, Control
<1> QED
  BY <1>1, Always, PTL

(* No line is written twice, however the processes of second.c, ParZ.c and *)
(* observe.c, and of first.c on a terminal, interleave and end.            *)
THEOREM NoLineTwice == Spec => []LinesOnce
<1>1. IInv => LinesOnce
  BY DEF IInv, Told, Tidy, Orderly, Once, Same, LinesOnce
<1> QED
  BY <1>1, Always, PTL

(* What the sleeps of first.c and ParZ.c are there to make true is true,   *)
(* as long as a process that can run does so within the second.            *)
THEOREM SleepsSuffice == Spec => []SleepsOrder
<1>1. IInv => SleepsOrder
  <2> SUFFICES ASSUME IInv PROVE SleepsOrder
    OBVIOUS
  <2>1. Core /\ FirstRuns /\ "parent" \in Proc
    BY TwoProcesses DEF IInv, Runs
  <2>2. ASSUME prog = "first", AboutToSay("parent", "after_child_changes")
        PROVE  value["child"] = 100 \/ ended["child"] # <<>>
    <3>1. CanRun("parent") /\ Call("parent").op = "printf"
            /\ Call("parent").text = "after_child_changes"
      BY <2>2 DEF AboutToSay, At
    <3>2. /\ proc["parent"] = "run" /\ rest["parent"] = 0 /\ pc["parent"] \in Nat
          /\ Prints("parent", pc["parent"] + 1, Call("parent"))
      BY <2>1, <3>1, Running DEF Core, Typed
    <3>3. pc["parent"] + 1 = 4
      BY <2>2, <3>1, <3>2 DEF Prints
    <3> QED
      BY <2>1, <2>2, <3>2, <3>3 DEF FirstRuns
  <2>3. Shown("New_PPID_init") \subseteq {"init"}
    BY DEF IInv, AllGood, Good, Shown
  <2> QED
    BY <2>2, <2>3 DEF SleepsOrder
<1> QED
  BY <1>1, Always, PTL

(* The end of the child that first.c's parent prints is the child's end.   *)
THEOREM ReportsAreTrue == Spec => []ReportIsTrue
<1>1. IInv => ReportIsTrue
  BY DEF IInv, AllGood, Good, Shown, ReportIsTrue
<1> QED
  BY <1>1, Always, PTL

(* observe.c's page frames tell the copy that the child's write makes, to  *)
(* those whom the kernel tells page frames; the others see 0.              *)
THEOREM PagesTellTheTruth == Spec => []PagesTellTheCopy
<1>1. IInv => PagesTellTheCopy
  <2> SUFFICES ASSUME IInv PROVE PagesTellTheCopy
    OBVIOUS
  <2>1. \A f : <<"PFN", f>> # NoFrame
    BY DEF NoFrame
  <2>2. \A text, f : f \in Frames(text) =>
          f \in 0 .. 2 /\ \E l \in Printed : l.text = text /\ l.shown = <<"PFN", f>> /\ Good(l)
    BY DEF IInv, AllGood, Frames, Shown
  <2>3. /\ privileged => FrameSays(1) = <<"PFN", 1>> /\ FrameSays(2) = <<"PFN", 2>>
        /\ ~privileged => FrameSays(1) = <<"PFN", 0>> /\ FrameSays(2) = <<"PFN", 0>>
    BY DEF FrameSays
  <2>4. ASSUME NEW text \in {"frame_at_start", "frame_before", "frame_of_parent"},
               NEW f \in Frames(text)
        PROVE  (privileged => f = 1) /\ (~privileged => f = 0)
    <3>1. PICK l \in Printed : l.text = text /\ l.shown = <<"PFN", f>> /\ Good(l)
      BY <2>2
    <3>2. l.shown \in {FrameSays(1), NoFrame}
      BY <3>1 DEF Good
    <3>3. <<"PFN", f>> = FrameSays(1)
      BY <2>1, <3>1, <3>2
    <3> QED
      BY <2>3, <3>3
  <2>5. ASSUME NEW f \in Frames("frame_after")
        PROVE  /\ privileged => f = 2 \/ (f = 1 /\ ended["parent"] # <<>>)
               /\ ~privileged => f = 0
    <3>1. \/ <<"PFN", f>> = FrameSays(2)
          \/ <<"PFN", f>> = FrameSays(1) /\ ended["parent"] # <<>>
      <4>1. PICK l \in Printed : l.text = "frame_after" /\ l.shown = <<"PFN", f>> /\ Good(l)
        BY <2>2
      <4>2. \/ l.shown \in {FrameSays(2), NoFrame}
            \/ l.shown = FrameSays(1) /\ ended["parent"] # <<>>
        BY <4>1 DEF Good
      <4> QED
        BY <2>1, <4>1, <4>2
    <3> QED
      BY <2>3, <3>1
  <2> QED
    BY <2>4, <2>5 DEF PagesTellTheCopy
<1> QED
  BY <1>1, Always, PTL

-----------------------------------------------------------------------------
(* The tracer of lab2 next: the trace is complete, for every number of     *)
(* system calls and of signals.  Depth and MaxKills stand for those, being *)
(* any two numbers, and pc, status and out are any variables.              *)
VARIABLES tracee, insys, traced, calls, rax, signals, regs

T == INSTANCE Tracer WITH MaxCalls <- Depth, MaxSignals <- MaxKills

(* Where the tracer can be, by what the child does.                        *)
InTurn ==
  /\ tracee \in {"running", "exited"} => pc = "wait" /\ traced
  /\ tracee = "young" => pc = "attach"
  /\ pc = "attach" => calls = 0 /\ ~insys
  /\ pc = "done" => ~T!Stopped

(* What orig_rax holds at the stops of a call.                             *)
Numbered ==
  /\ tracee = "entry" => insys
  /\ tracee \in {"exit", "signal"} => ~insys
  /\ insys \/ tracee = "exit" => rax = calls

(* Everything but the stop the tracer is about to report has been printed. *)
InTrace ==
  tracee \in T!Stops \cup {"running", "exited"} =>
    \A n \in 1 .. calls :
      /\ n < calls \/ tracee # "entry" \/ pc = "resume" => <<n, "entry">> \in out
      /\ n < calls \/ (~insys /\ (tracee # "exit" \/ pc = "resume")) => <<n, "exit">> \in out

(* The inductive invariant: TraceComplete says nothing of a stopped child. *)
TraceInv == T!TypeOK /\ InTurn /\ Numbered /\ InTrace

(* Nothing has been called yet.                                            *)
LEMMA TraceInvAtFirst == T!Init => TraceInv
<1> SUFFICES ASSUME T!Init PROVE TraceInv
  OBVIOUS
<1>1. T!TypeOK
  <2>1. regs \in T!Line
    BY LifeCycleConstants DEF T!Init, T!Line
  <2>2. insys \in BOOLEAN /\ traced \in BOOLEAN
    BY Zenon DEF T!Init
  <2>3. calls \in 0 .. Depth /\ rax \in 0 .. Depth /\ signals \in 0 .. MaxKills
    BY LifeCycleConstants DEF T!Init
  <2>4. /\ tracee \in T!Stops \cup {"young", "running", "exited", "killed", "gone"}
        /\ pc \in {"attach", "wait", "report", "resume", "done"}
        /\ status \in {"none", "stopped", "exited", "killed"}
        /\ out \subseteq T!Line
    BY DEF T!Init
  <2> QED
    BY <2>1, <2>2, <2>3, <2>4 DEF T!TypeOK
<1>2. InTurn
  BY DEF T!Init, InTurn, T!Stopped, T!Stops
<1>3. Numbered
  BY DEF T!Init, Numbered
<1>4. InTrace
  BY DEF T!Init, InTrace, T!Stops
<1> QED
  BY <1>1, <1>2, <1>3, <1>4 DEF TraceInv

(* What the child does.                                                    *)
LEMMA TracedByChild == TraceInv /\ T!Tracee => TraceInv'
<1> USE LifeCycleConstants DEF T!Stops, T!Stopped, T!Line
<1> SUFFICES ASSUME TraceInv, T!Tracee PROVE TraceInv'
  OBVIOUS
<1>1. CASE T!TraceMe
  BY <1>1 DEF T!TraceMe, TraceInv, T!TypeOK, InTurn, Numbered, InTrace
<1>2. CASE T!Enter
  BY <1>2 DEF T!Enter, TraceInv, T!TypeOK, InTurn, Numbered, InTrace
<1>3. CASE T!Return
  BY <1>3 DEF T!Return, TraceInv, T!TypeOK, InTurn, Numbered, InTrace
<1>4. CASE T!Exit
  BY <1>4 DEF T!Exit, TraceInv, T!TypeOK, InTurn, Numbered, InTrace
<1>5. CASE T!Signal
  BY <1>5 DEF T!Signal, TraceInv, T!TypeOK, InTurn, Numbered, InTrace
<1>6. CASE T!Kill
  BY <1>6 DEF T!Kill, TraceInv, T!TypeOK, InTurn, Numbered, InTrace
<1> QED
  BY <1>1, <1>2, <1>3, <1>4, <1>5, <1>6 DEF T!Tracee

(* What the tracer does.                                                   *)
LEMMA TracedByTracer == TraceInv /\ T!TraceLoop => TraceInv'
<1> USE LifeCycleConstants DEF T!Stops, T!Stopped, T!Line
<1> SUFFICES ASSUME TraceInv, T!TraceLoop PROVE TraceInv'
  OBVIOUS
<1>1. CASE T!Attach
  BY <1>1 DEF T!Attach, T!LetGo, TraceInv, T!TypeOK, InTurn, Numbered, InTrace
<1>2. CASE T!AttachFails
  BY <1>2 DEF T!AttachFails, TraceInv, T!TypeOK, InTurn, Numbered, InTrace
<1>3. CASE T!WaitStop
  BY <1>3 DEF T!WaitStop, T!child, TraceInv, T!TypeOK, InTurn, Numbered, InTrace
<1>4. CASE T!WaitEnd
  BY <1>4 DEF T!WaitEnd, T!Last, TraceInv, T!TypeOK, InTurn, Numbered, InTrace
<1>5. CASE T!WaitFails
  BY <1>5 DEF T!WaitFails, T!child, TraceInv, T!TypeOK, InTurn, Numbered, InTrace
<1>6. CASE T!Report
  <2>1. T!TypeOK'
    BY <1>6 DEF T!Report, T!child, TraceInv, T!TypeOK
  <2>2. InTurn' /\ Numbered'
    BY <1>6 DEF T!Report, T!child, TraceInv, InTurn, Numbered
  <2>3. InTrace'
    <3>1. tracee \notin {"running", "exited"} /\ calls' = calls /\ tracee' = tracee
      BY <1>6 DEF T!Report, T!child, TraceInv, InTurn
    <3>2. T!Stopped => out' = out \cup {<<rax, tracee>>}
      BY <1>6 DEF T!Report
    <3>3. tracee = "entry" => rax = calls /\ insys
      BY DEF TraceInv, Numbered
    <3>4. tracee = "exit" => rax = calls
      BY DEF TraceInv, Numbered
    <3>5. calls \in Nat /\ insys' = insys
      BY <1>6 DEF T!Report, T!child, TraceInv, T!TypeOK
    <3>6. SUFFICES ASSUME T!Stopped, NEW n \in 1 .. calls
                   PROVE  /\ <<n, "entry">> \in out'
                          /\ n < calls \/ ~insys => <<n, "exit">> \in out'
      BY <3>1, <3>5 DEF InTrace
    <3>7. CASE n < calls
      BY <3>2, <3>6, <3>7 DEF TraceInv, InTrace
    <3>8. CASE n = calls
      <4>1. CASE tracee = "entry"
        BY <3>2, <3>3, <3>6, <3>8, <4>1
      <4>2. CASE tracee = "exit"
        BY <3>2, <3>4, <3>6, <3>8, <4>2 DEF TraceInv, InTrace
      <4>3. CASE tracee = "signal"
        BY <3>2, <3>6, <3>8, <4>3 DEF TraceInv, Numbered, InTrace
      <4> QED
        BY <3>6, <4>1, <4>2, <4>3
    <3> QED
      BY <3>5, <3>7, <3>8
  <2> QED
    BY <2>1, <2>2, <2>3 DEF TraceInv
<1>7. CASE T!Resume
  BY <1>7 DEF T!Resume, T!LetGo, TraceInv, T!TypeOK, InTurn, Numbered, InTrace
<1> QED
  BY <1>1, <1>2, <1>3, <1>4, <1>5, <1>6, <1>7 DEF T!TraceLoop

(* The invariant holds from the start and is kept.                         *)
LEMMA AlwaysTraced == T!Spec => []TraceInv
<1>1. TraceInv /\ UNCHANGED T!vars => TraceInv'
  BY DEF T!vars, T!child, TraceInv, T!TypeOK, InTurn, Numbered, InTrace, T!Stopped
<1>2. TraceInv /\ [T!Next]_(T!vars) => TraceInv'
  BY <1>1, TracedByChild, TracedByTracer DEF T!Next
<1> QED
  BY TraceInvAtFirst, <1>2, PTL DEF T!Spec

(* Every number the tracer keeps or prints is that of a call the child has *)
(* made, or what the stack held before.                                    *)
THEOREM TracerTypeCorrect == T!Spec => []T!TypeOK
<1>1. TraceInv => T!TypeOK
  BY DEF TraceInv
<1> QED
  BY <1>1, AlwaysTraced, PTL

(* Whatever calls, signals and kills come in whatever order, the child     *)
(* never runs ahead of its trace.                                          *)
THEOREM TraceIsComplete == T!Spec => []T!TraceComplete
<1>1. TraceInv => T!TraceComplete
  BY DEF TraceInv, InTurn, InTrace, T!TraceComplete
<1> QED
  BY <1>1, AlwaysTraced, PTL

=============================================================================
