-------------------------------- MODULE Tracer --------------------------------
(***************************************************************************)
(* lab2/tracer3.c: a parent follows the system calls of its child with     *)
(* ptrace.                                                                 *)
(*                                                                         *)
(* The child is any program: it makes system calls, receives signals,      *)
(* exits or is killed.  Its calls are numbered in the order they are made, *)
(* and a number stands for the orig_rax the tracer reads during the call.  *)
(* What the tracer has printed is kept as a set of pairs of that number    *)
(* and the kind of stop it was read at, which the program does not print.  *)
(***************************************************************************)
EXTENDS Integers

CONSTANTS
  MaxCalls,  (* bound: system calls the child makes                        *)
  MaxSignals (* bound: signals that stop the child                         *)

ASSUME TracerConstants == MaxCalls \in Nat /\ MaxSignals \in Nat

VARIABLES
  tracee,  (* "young" until its SIGSTOP; "running"; stopped at "entry",    *)
           (* "exit" or "signal"; the zombies "exited" and "killed"; "gone"*)
  insys,   (* the child is inside a system call                            *)
  traced,  (* it was last resumed with PTRACE_SYSCALL                      *)
  calls,   (* system calls the child has made since it was attached        *)
  rax,     (* the orig_rax of the child: a call, or 0 when outside of one  *)
  signals, (* signals that have stopped the child                          *)
  pc,      (* "attach", "wait", "report", "resume" or "done"               *)
  status,  (* the last status wait stored: "none" before the first         *)
  regs,    (* what was last read into regs, and at which kind of stop      *)
  out      (* the lines printed                                            *)

child == <<tracee, insys, calls, rax, signals>>
vars == <<tracee, insys, traced, calls, rax, signals, pc, status, regs, out>>

Stops == {"entry", "exit", "signal"}
Stopped == tracee \in Stops

(* regs is on the stack and is not cleared.                                *)
Init ==
  /\ tracee \in {"young", "gone"}  \* fork may fail, and nobody looks
  /\ insys = FALSE
  /\ traced = FALSE
  /\ calls = 0
  /\ rax = 0
  /\ signals = 0
  /\ pc = "attach"
  /\ status = "none"
  /\ regs = <<0, "garbage">>
  /\ out = {}

-----------------------------------------------------------------------------
(* PTRACE_TRACEME and raise(SIGSTOP).                                      *)
TraceMe ==
  /\ tracee = "young"
  /\ tracee' = "signal"
  /\ UNCHANGED <<insys, traced, calls, rax, signals, pc, status, regs, out>>

(* The child enters a system call, and stops there when it is traced.      *)
Enter ==
  /\ tracee = "running" /\ ~insys
  /\ calls < MaxCalls
  /\ calls' = calls + 1
  /\ rax' = calls + 1
  /\ insys' = TRUE
  /\ tracee' = IF traced THEN "entry" ELSE "running"
  /\ UNCHANGED <<traced, signals, pc, status, regs, out>>

(* The call returns.                                                       *)
Return ==
  /\ tracee = "running" /\ insys
  /\ insys' = FALSE
  /\ tracee' = IF traced THEN "exit" ELSE "running"
  /\ UNCHANGED <<traced, calls, rax, signals, pc, status, regs, out>>

(* The call was exit_group: it does not return.                            *)
Exit ==
  /\ tracee = "running" /\ insys
  /\ tracee' = "exited"
  /\ UNCHANGED <<insys, traced, calls, rax, signals, pc, status, regs, out>>

(* A signal stops the child: the SIGTRAP of execve or any other, on the way*)
(* out of the last call or later.                                          *)
Signal ==
  /\ tracee = "running" /\ ~insys
  /\ signals < MaxSignals
  /\ signals' = signals + 1
  /\ rax' \in {0, calls}
  /\ tracee' = "signal"
  /\ UNCHANGED <<insys, traced, calls, pc, status, regs, out>>

(* SIGKILL does not stop the child, and ends it in any state.              *)
Kill ==
  /\ tracee \in Stops \cup {"young", "running"}
  /\ tracee' = "killed"
  /\ UNCHANGED <<insys, traced, calls, rax, signals, pc, status, regs, out>>

-----------------------------------------------------------------------------
(* Mutant of LetGo: PTRACE_CONT, which runs to the next signal.            *)
LetGoUntraced ==
  /\ tracee' = IF Stopped THEN "running" ELSE tracee
  /\ traced' = FALSE

(* PTRACE_SYSCALL: a stopped child runs to its next entry or return.       *)
LetGo ==
  /\ tracee' = IF Stopped THEN "running" ELSE tracee
  /\ traced' = TRUE

(* main: waitpid, PTRACE_SETOPTIONS and the first PTRACE_SYSCALL.          *)
Attach ==
  /\ pc = "attach" /\ Stopped
  /\ LetGo
  /\ pc' = "wait"
  /\ UNCHANGED <<insys, calls, rax, signals, status, regs, out>>

(* There is no child to wait for, or it was killed: the three calls fail   *)
(* unnoticed, and status is not the one waitpid could have stored.         *)
AttachFails ==
  /\ pc = "attach" /\ tracee \in {"killed", "gone"}
  /\ tracee' = "gone"
  /\ pc' = "wait"
  /\ UNCHANGED <<insys, traced, calls, rax, signals, status, regs, out>>

(* wait reports a stop.                                                    *)
WaitStop ==
  /\ pc = "wait" /\ Stopped
  /\ status' = "stopped"
  /\ pc' = "report"
  /\ UNCHANGED <<child, traced, regs, out>>

(* Mutant of Last: the status is not looked at.                            *)
LastNever(end) == FALSE

(* WIFEXITED(status)                                                       *)
Last(end) == end = "exited"

(* wait reaps the child.  Only WIFEXITED ends the loop.                    *)
WaitEnd ==
  /\ pc = "wait" /\ tracee \in {"exited", "killed"}
  /\ status' = tracee
  /\ pc' = IF Last(tracee) THEN "done" ELSE "report"
  /\ tracee' = "gone"
  /\ UNCHANGED <<insys, traced, calls, rax, signals, regs, out>>

(* wait fails, and the loop goes by the status it finds: the old one, or   *)
(* whatever the stack held.                                                *)
WaitFails ==
  /\ pc = "wait" /\ tracee = "gone"
  /\ pc' \in IF status = "none" THEN {"report", "done"} ELSE {"report"}
  /\ UNCHANGED <<child, traced, status, regs, out>>

(* PTRACE_GETREGS, and the line "System call: ..."; when the child has been*)
(* killed, the registers are the old ones.                                 *)
Report ==
  /\ pc = "report"
  /\ regs' = IF Stopped THEN <<rax, tracee>> ELSE regs
  /\ out' = out \cup {regs'}
  /\ pc' = "resume"
  /\ UNCHANGED <<child, traced, status>>

(* PTRACE_SYSCALL with signal 0: a signal that stopped the child is lost.  *)
Resume ==
  /\ pc = "resume"
  /\ LetGo
  /\ pc' = "wait"
  /\ UNCHANGED <<insys, calls, rax, signals, status, regs, out>>

Tracee == TraceMe \/ Enter \/ Return \/ Exit \/ Signal \/ Kill
TraceLoop == Attach \/ AttachFails \/ WaitStop \/ WaitEnd \/ WaitFails \/ Report \/ Resume

Next == Tracee \/ TraceLoop

Spec == Init /\ [][Next]_vars

(* The tracer runs when it can.  The child may compute for ever.           *)
FairSpec == Spec /\ WF_vars(TraceLoop)

-----------------------------------------------------------------------------
Line == (0 .. MaxCalls) \X (Stops \cup {"garbage"})

(* The type invariant: what each variable may hold.                        *)
TypeOK ==
  /\ tracee \in Stops \cup {"young", "running", "exited", "killed", "gone"}
  /\ insys \in BOOLEAN /\ traced \in BOOLEAN
  /\ calls \in 0 .. MaxCalls /\ rax \in 0 .. MaxCalls /\ signals \in 0 .. MaxSignals
  /\ pc \in {"attach", "wait", "report", "resume", "done"}
  /\ status \in {"none", "stopped", "exited", "killed"}
  /\ regs \in Line
  /\ out \subseteq Line

(* The child never gets ahead of its trace: whenever it runs, or has       *)
(* exited, every call it has made has been printed at its entry, and every *)
(* call that has returned a second time.                                   *)
TraceComplete ==
  tracee \in {"running", "exited"} =>
    \A n \in 1 .. calls :
      /\ <<n, "entry">> \in out
      /\ n < calls \/ ~insys => <<n, "exit">> \in out

(* The trace of a child that exits ends.                                   *)
ExitEndsTrace == tracee = "exited" ~> pc = "done"

=============================================================================
