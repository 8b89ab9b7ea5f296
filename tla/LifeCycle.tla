------------------------------- MODULE LifeCycle -------------------------------
(***************************************************************************)
(* The programs of lab5, each a parent and at most one child: first.c and  *)
(* observe.c (what fork copies), second.c (a zombie), ParZ.c (an orphan)   *)
(* and third.c (clone on a stack that is mapped from a file).              *)
(*                                                                         *)
(* A program is three sequences of calls: what runs before the fork, what  *)
(* the child runs and what the parent runs after it; printf calls with     *)
(* nothing between them are one.  The actions below execute the calls, and *)
(* are what the kernel and the C library do for all five programs.         *)
(*                                                                         *)
(* No program orders its two processes by anything but sleep and waitpid.  *)
(* The model lets time pass only when nobody can run: a process that can   *)
(* run does so within the second.                                          *)
(***************************************************************************)
EXTENDS Integers, SequencesExt

CONSTANTS
  Programs, (* which of the five programs Init chooses from                *)
  Depth,    (* RECURSION_DEPTH of third.c                                  *)
  MaxKills, (* bound: kill -9 calls of the user                            *)
  MaxUntold (* bound: looks into pagemap that do not tell a frame          *)

ASSUME LifeCycleConstants ==
  /\ Programs \subseteq {"first", "observe", "second", "ParZ", "third"}
  /\ Depth \in Nat /\ MaxKills \in Nat /\ MaxUntold \in Nat

VARIABLES
  prog,    (* the program                                                  *)
  tty,     (* whether stdout is a terminal: line-buffered, else block      *)
  privileged, (* whether the kernel tells it page frame numbers            *)
  proc,    (* "none", "run", "zombie" (ended, not waited for) or "gone"    *)
  pc,      (* how many calls of its sequence a process has done            *)
  rest,    (* the seconds it still sleeps                                  *)
  ppid,    (* its parent                                                   *)
  value,   (* global_var (and local_var, which goes with it)               *)
  frame,   (* which copy of its page global_var is in: 1 that of before    *)
           (* the fork, 2 one of its own (the kernel may move either)      *)
  mapped,  (* third.c: the region of the child's stack                     *)
  status,  (* what waitpid has stored                                      *)
  ended,   (* how a process has ended: <<"exit", code>>, <<"signal", ..>>  *)
  buffer,  (* the lines in its stdio buffer                                *)
  out,     (* the lines that have been written to stdout                   *)
  kills,   (* kill -9 calls so far                                         *)
  untold   (* looks into pagemap so far that told no frame                 *)

vars == <<prog, tty, privileged, proc, pc, rest, ppid, value, frame, mapped, status,
          ended, buffer, out, kills, untold>>

Proc == {"parent", "child"}
Other(p) == CHOOSE q \in Proc : q # p

-----------------------------------------------------------------------------
(* The calls.  A printf names what it shows besides its text.              *)
Printf(text, shows) == <<[op |-> "printf", text |-> text, shows |-> shows]>>
Say(text)      == Printf(text, "nothing")
Flush          == <<[op |-> "fflush"]>>
Sleep(s)       == <<[op |-> "sleep", seconds |-> s]>>
Fork           == <<[op |-> "fork"]>>
Clone          == <<[op |-> "clone"]>>
Try            == <<[op |-> "try"]>>  (* calls whose failure ends the program *)
Assign(v)      == <<[op |-> "assign", to |-> v]>>
Waitpid        == <<[op |-> "waitpid"]>>
Munmap         == <<[op |-> "munmap"]>>
Exit(code)     == <<[op |-> "exit", code |-> code]>>
ReturnToClone  == <<[op |-> "return"]>>

(* Mutant of PrintWithDelay: the fflush is left out.                       *)
PrintWithoutFlush(text, s) == Say(text) \o Sleep(s)

PrintWithDelay(text, s) == Say(text) \o Flush \o Sleep(s)
PrintPagemapInfo(text) == Printf(text, "frame")

First ==
  [before |-> Printf("start", "value") \o Fork,
   child  |-> Printf("child_before", "value") \o Assign(100) \o Printf("child_changed", "value")
              \o Sleep(300) \o Exit(5),
   parent |-> Sleep(1) \o Printf("after_child_changes", "value") \o Waitpid
              \o Printf("child_ended", "status") \o Sleep(300) \o Exit(0)]

Observe ==
  [before |-> Printf("start", "value")
              \o PrintWithDelay("before_fork", 1) \o PrintPagemapInfo("frame_at_start")
              \o PrintWithDelay("forking", 5) \o Fork,
   child  |-> PrintWithDelay("child_started", 1) \o Printf("child_before", "value")
              \o PrintWithDelay("before_modification", 1) \o PrintPagemapInfo("frame_before")
              \o PrintWithDelay("will_modify", 5) \o Assign(100)
              \o Printf("child_changed", "value")
              \o PrintWithDelay("after_modification", 1) \o PrintPagemapInfo("frame_after")
              \o PrintWithDelay("will_sleep", 1) \o Sleep(300) \o Exit(0),
   parent |-> PrintWithDelay("parent_continues", 1) \o PrintWithDelay("waiting_to_modify", 5)
              \o Printf("after_child_changes", "value")
              \o PrintWithDelay("in_parent_after", 1) \o PrintPagemapInfo("frame_of_parent")
              \o PrintWithDelay("waiting_to_terminate", 1) \o Waitpid \o Exit(0)]

(* Mutant of SecondParent: the parent sleeps in an endless loop.           *)
SecondParentEndless == Say("sleeping") \o <<[op |-> "pause"]>>

(* The parent of second.c sleeps and never waits for its zombie.           *)
SecondParent == Say("sleeping_for_60_seconds") \o Sleep(60) \o Exit(0)
Second == [before |-> Fork, child |-> Say("Im_zombie") \o Exit(0), parent |-> SecondParent]

(* Mutant of ParZChild: the child does not sleep.                          *)
ParZChildAwake == Printf("child", "ppid") \o Printf("New_PPID_init", "ppid") \o Exit(0)

ParZChild == Printf("child", "ppid") \o Sleep(30) \o Printf("New_PPID_init", "ppid") \o Exit(0)
ParZ == [before |-> Fork, child |-> ParZChild, parent |-> Say("parent") \o Exit(0)]

(* Returning from child_func ends the child without flushing stdio.  What  *)
(* is tried is open, ftruncate and mmap, and fopen of the same file.       *)
Third ==
  [before |-> Try \o Say("stack_mapped") \o Clone,
   child  |-> Say("child_started")
              \o [d \in 1 .. Depth |-> Head(Say("depth"))]
              \o Say("child_exiting") \o ReturnToClone,
   parent |-> Say("child_created") \o Waitpid \o Say("analyzing_file")
              \o Try \o Say("found") \o Munmap \o Exit(0)]

Program ==
  CASE prog = "first"   -> First
    [] prog = "observe" -> Observe
    [] prog = "second"  -> Second
    [] prog = "ParZ"    -> ParZ
    [] prog = "third"   -> Third

Script(p) == IF p = "child" THEN Program.child ELSE Program.before \o Program.parent

-----------------------------------------------------------------------------
Init ==
  /\ prog \in Programs /\ tty \in BOOLEAN
  /\ privileged \in IF prog = "observe" THEN BOOLEAN ELSE {FALSE}
  /\ proc = [p \in Proc |-> IF p = "parent" THEN "run" ELSE "none"]
  /\ pc = [p \in Proc |-> 0]
  /\ rest = [p \in Proc |-> 0]
  /\ ppid = [p \in Proc |-> IF p = "parent" THEN "shell" ELSE "parent"]
  /\ value = [p \in Proc |-> 10]
  /\ frame = [p \in Proc |-> 1]
  /\ mapped = TRUE
  /\ status = <<>>
  /\ ended = [p \in Proc |-> <<>>]
  /\ buffer = [p \in Proc |-> <<>>]
  /\ out = <<>>
  /\ kills = 0
  /\ untold = 0

Faulting(p) == p = "child" /\ ~mapped
CanRun(p) == proc[p] = "run" /\ rest[p] = 0 /\ ~Faulting(p)
Call(p) == Script(p)[pc[p] + 1]
At(p, op) == CanRun(p) /\ Call(p).op = op
Done(p) == pc' = [pc EXCEPT ![p] = @ + 1]

(* With CLONE_VM the child uses its parent's stdio buffer.                 *)
Stdio(p) == IF prog = "third" THEN "parent" ELSE p

(* The frame pagemap tells: 0 to those who may not know.                   *)
FrameTold(p) == <<"PFN", IF privileged THEN frame[p] ELSE 0>>
NoFrame == <<"swapped out or not present">>

Shows(p) ==
  CASE Call(p).shows = "nothing" -> "nothing"
    [] Call(p).shows = "value"   -> value[p]
    [] Call(p).shows = "frame"   -> FrameTold(p)
    [] Call(p).shows = "ppid"    -> ppid[p]
    [] Call(p).shows = "status"  -> status

Line(p, shown) == [by |-> p, text |-> Call(p).text, shown |-> shown]

Put(p, lines) ==
  IF tty
  THEN out' = out \o lines /\ UNCHANGED buffer
  ELSE buffer' = [buffer EXCEPT ![Stdio(p)] = @ \o lines] /\ UNCHANGED out

(* Two processes in one address space without locks that tell them apart   *)
(* race for the buffer: a line may be lost or doubled.                     *)
DoPrintf(p) ==
  /\ At(p, "printf")
  /\ LET line == Line(p, Shows(p))
         race == prog = "third" /\ \A q \in Proc : CanRun(q)
     IN \E lines \in {<<line>>} \cup IF race THEN {<<>>, <<line, line>>} ELSE {} : Put(p, lines)
  /\ Done(p)
  /\ UNCHANGED <<prog, tty, privileged, proc, rest, ppid, value, frame, mapped, status, ended,
                 kills, untold>>

(* print_pagemap_info finds no frame: the entry says so, or one of open,   *)
(* lseek and read fails and it returns.                                    *)
PrintNoFrame(p) ==
  /\ At(p, "printf") /\ Call(p).shows = "frame"
  /\ untold < MaxUntold
  /\ untold' = untold + 1
  /\ \E lines \in {<<>>, <<Line(p, NoFrame)>>} : Put(p, lines)
  /\ Done(p)
  /\ UNCHANGED <<prog, tty, privileged, proc, rest, ppid, value, frame, mapped, status, ended,
                 kills>>

FlushBuffer(p) ==
  /\ out' = out \o buffer[Stdio(p)]
  /\ buffer' = [buffer EXCEPT ![Stdio(p)] = <<>>]

Fflush(p) ==
  /\ At(p, "fflush")
  /\ FlushBuffer(p)
  /\ Done(p)
  /\ UNCHANGED <<prog, tty, privileged, proc, rest, ppid, value, frame, mapped, status, ended,
                 kills, untold>>

BeginSleep(p) ==
  /\ At(p, "sleep")
  /\ rest' = [rest EXCEPT ![p] = Call(p).seconds]
  /\ Done(p)
  /\ UNCHANGED <<prog, tty, privileged, proc, ppid, value, frame, mapped, status, ended,
                 buffer, out, kills, untold>>

(* fork copies the address space, stdio buffer included; clone shares it.  *)
StartChild(p) ==
  /\ At(p, "fork") \/ At(p, "clone")
  /\ proc' = [proc EXCEPT !["child"] = "run"]
  /\ value' = [value EXCEPT !["child"] = value[p]]
  /\ frame' = [frame EXCEPT !["child"] = frame[p]]
  /\ buffer' = [buffer EXCEPT !["child"] = IF Stdio("child") = "child" THEN buffer[p] ELSE <<>>]
  /\ Done(p)
  /\ UNCHANGED <<prog, tty, privileged, rest, ppid, mapped, status, ended, out, kills, untold>>

(* A process ends.  The shell waits for the parent at once; init does so   *)
(* for a child whose parent is gone; otherwise it becomes a zombie.        *)
End(p, how) ==
  /\ ended' = [ended EXCEPT ![p] = how]
  /\ IF p = "parent"
     THEN /\ ppid' = [ppid EXCEPT !["child"] = "init"]
          /\ proc' = [q \in Proc |-> IF q = p \/ proc[q] = "zombie" THEN "gone" ELSE proc[q]]
     ELSE /\ proc' = [proc EXCEPT ![p] = IF ppid[p] = "init" THEN "gone" ELSE "zombie"]
          /\ UNCHANGED ppid

(* A call that fails ends the program: what it has mapped stays mapped for *)
(* a child that shares it.                                                 *)
CallFails(p) ==
  /\ At(p, "fork") \/ At(p, "clone") \/ At(p, "try")
  /\ End(p, <<"exit", 1>>)
  /\ FlushBuffer(p)
  /\ UNCHANGED <<prog, tty, privileged, pc, rest, value, frame, mapped, status, kills, untold>>

Succeed(p) ==
  /\ At(p, "try")
  /\ Done(p)
  /\ UNCHANGED <<prog, tty, privileged, proc, rest, ppid, value, frame, mapped, status, ended,
                 buffer, out, kills, untold>>

CallExit(p) ==
  /\ At(p, "exit")
  /\ End(p, <<"exit", Call(p).code>>)
  /\ FlushBuffer(p)
  /\ UNCHANGED <<prog, tty, privileged, pc, rest, value, frame, mapped, status, kills, untold>>

ReturnFromChild(p) ==
  /\ At(p, "return")
  /\ End(p, <<"exit", 0>>)
  /\ UNCHANGED <<prog, tty, privileged, pc, rest, value, frame, mapped, status, buffer, out,
                 kills, untold>>

(* The stack the child runs on has been unmapped.                          *)
Fault(p) ==
  /\ proc[p] = "run" /\ Faulting(p)
  /\ End(p, <<"signal", "SEGV">>)
  /\ UNCHANGED <<prog, tty, privileged, pc, rest, value, frame, mapped, status, buffer, out,
                 kills, untold>>

Kill(p) ==
  /\ kills < MaxKills
  /\ proc[p] = "run"
  /\ End(p, <<"signal", "KILL">>)
  /\ kills' = kills + 1
  /\ UNCHANGED <<prog, tty, privileged, pc, rest, value, frame, mapped, status, buffer, out,
                 untold>>

(* Mutant of SharesFrame: as after vfork, no page is copied.               *)
SharesNoFrame(p) == FALSE

SharesFrame(p) == proc[Other(p)] = "run" /\ frame[Other(p)] = frame[p]

(* Copy on write: a frame in use by both is copied; one that no one else   *)
(* uses is copied if it still is the page of the program's file.           *)
Write(p) ==
  /\ At(p, "assign")
  /\ value' = [value EXCEPT ![p] = Call(p).to]
  /\ \E f \in {2} \cup IF SharesFrame(p) THEN {} ELSE {frame[p]} : frame' = [frame EXCEPT ![p] = f]
  /\ Done(p)
  /\ UNCHANGED <<prog, tty, privileged, proc, rest, ppid, mapped, status, ended, buffer, out,
                 kills, untold>>

(* Mutant of NoChild: waitpid is called with WNOHANG.                      *)
NoChildYet == prog = "third" \/ proc["child"] # "zombie"

(* waitpid fails when no child sends SIGCHLD when it ends, as a clone      *)
(* without that flag does not.                                             *)
NoChild == prog = "third" \/ proc["child"] = "gone"

Wait(p) ==
  /\ At(p, "waitpid")
  /\ \/ /\ proc["child"] = "zombie" /\ ~NoChild
        /\ proc' = [proc EXCEPT !["child"] = "gone"]
        /\ status' = ended["child"]
     \/ /\ NoChild
        /\ UNCHANGED <<proc, status>>
  /\ Done(p)
  /\ UNCHANGED <<prog, tty, privileged, rest, ppid, value, frame, mapped, ended, buffer, out,
                 kills, untold>>

Unmap(p) ==
  /\ At(p, "munmap")
  /\ mapped' = FALSE
  /\ Done(p)
  /\ UNCHANGED <<prog, tty, privileged, proc, rest, ppid, value, frame, status, ended, buffer,
                 out, kills, untold>>

Run(p) ==
  \/ DoPrintf(p) \/ PrintNoFrame(p) \/ Fflush(p) \/ BeginSleep(p) \/ StartChild(p) \/ CallFails(p)
  \/ Succeed(p) \/ CallExit(p) \/ ReturnFromChild(p) \/ Fault(p) \/ Write(p) \/ Wait(p) \/ Unmap(p)

(* p waits for its child, which has not ended.                             *)
Waits(p) == At(p, "waitpid") /\ ~NoChild /\ proc["child"] # "zombie"
Sleepers == {p \in Proc : proc[p] = "run" /\ rest[p] > 0}

(* Time passes to the next moment a sleep is over.                         *)
Tick ==
  /\ Sleepers # {}
  /\ \A p \in Proc \ Sleepers : proc[p] = "run" => Waits(p)
  /\ LET s == CHOOSE m \in {rest[p] : p \in Sleepers} : \A p \in Sleepers : m <= rest[p]
     IN rest' = [p \in Proc |-> IF p \in Sleepers THEN rest[p] - s ELSE rest[p]]
  /\ UNCHANGED <<prog, tty, privileged, proc, pc, ppid, value, frame, mapped, status, ended,
                 buffer, out, kills, untold>>

(* Nobody is left.                                                         *)
Finished == (\A p \in Proc : proc[p] \in {"gone", "none"}) /\ UNCHANGED vars

Next == Tick \/ Finished \/ \E p \in Proc : Run(p) \/ Kill(p)

Spec == Init /\ [][Next]_vars

(* The scheduler lets every process run, and time goes on.                 *)
FairSpec == Spec /\ WF_vars(Tick) /\ \A p \in Proc : WF_vars(Run(p))

-----------------------------------------------------------------------------
(* The type invariant: what each variable may hold.                        *)
TypeOK ==
  /\ prog \in Programs /\ tty \in BOOLEAN /\ privileged \in BOOLEAN /\ mapped \in BOOLEAN
  /\ proc \in [Proc -> {"none", "run", "zombie", "gone"}]
  /\ pc \in [Proc -> Nat] /\ rest \in [Proc -> Nat]
  /\ ppid \in [Proc -> {"shell", "parent", "init"}]
  /\ value \in [Proc -> {10, 100}] /\ frame \in [Proc -> {1, 2}]
  /\ kills \in 0 .. MaxKills /\ untold \in 0 .. MaxUntold
  /\ \A p \in Proc : \A line \in Range(out \o buffer[p]) : line.by \in Proc
  /\ \A p \in Proc : proc[p] \in {"none", "run"} <=> ended[p] = <<>>
  /\ status # <<>> => status = ended["child"]

(* Every line printed so far.                                              *)
Printed == Range(out) \cup UNION {Range(buffer[p]) : p \in Proc}
Shown(text) == {line.shown : line \in {l \in Printed : l.text = text}}

(* A line is written once, although fork copies what stdio has buffered:   *)
(* second.c and ParZ.c fork before they print, observe.c right after an    *)
(* fflush.  first.c relies on the terminal's line buffering, and the two   *)
(* processes of third.c race for one buffer.                               *)
LinesOnce ==
  prog # "third" /\ (prog = "first" => tty) =>
    \A j, k \in DOMAIN out : out[j].by = out[k].by /\ out[j].text = out[k].text => j = k

(* p is about to print the text.                                           *)
AboutToSay(p, text) == At(p, "printf") /\ Call(p).text = text

(* What a sleep is there to make true is true: when first.c's parent       *)
(* prints "after child changes", the child has changed its copy or has     *)
(* ended; the parent that ParZ.c's orphan calls init is init.              *)
SleepsOrder ==
  /\ prog = "first" /\ AboutToSay("parent", "after_child_changes") =>
       value["child"] = 100 \/ ended["child"] # <<>>
  /\ Shown("New_PPID_init") \subseteq {"init"}

(* The same of observe.c, whose parent prints "after child changes" too.   *)
AfterModification ==
  prog = "observe" /\ AboutToSay("parent", "after_child_changes") =>
    value["child"] = 100 \/ ended["child"] # <<>>

(* The end that first.c's parent reports is how the child has ended, exit  *)
(* or signal, whenever either is killed.                                   *)
ReportIsTrue == Shown("child_ended") \subseteq {ended["child"]} \ {<<>>}

(* What observe.c sets out to show, where the kernel tells it: no process  *)
(* reports another frame than the first before the child writes, and the   *)
(* child another one after it, unless the parent is gone.  Without the     *)
(* privilege all it ever reports is 0, before the copy and after it.       *)
Frames(text) == {f \in 0 .. 2 : <<"PFN", f>> \in Shown(text)}
PagesTellTheCopy ==
  LET shared == Frames("frame_at_start") \cup Frames("frame_before") \cup Frames("frame_of_parent")
      copied == Frames("frame_after")
  IN IF privileged
     THEN /\ shared \subseteq {1}
          /\ copied \subseteq IF ended["parent"] = <<>> THEN {2} ELSE {1, 2}
     ELSE shared \cup copied \subseteq {0}

(* However the processes end, in the end none of them, zombie or orphan,   *)
(* is left in the process table.                                           *)
AllReaped == <>[](\A p \in Proc : proc[p] \in {"gone", "none"})

=============================================================================
