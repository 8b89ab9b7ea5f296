------------------------------ MODULE ForkServer ------------------------------
(***************************************************************************)
(* The echo server of lab7/second/tcp_echo_server.c, which forks a process *)
(* per connection, and the clients of lab7/second/tcp_echo_client.c.       *)
(*                                                                         *)
(* What the module is about is who holds which descriptor: a connection is *)
(* open as long as one process holds it, and the port is taken as long as  *)
(* one process holds the listening socket.  A connection and the process   *)
(* forked for it are named by the client.  Messages travel whole here: how *)
(* TCP cuts them is the subject of PollServer.                             *)
(***************************************************************************)
EXTENDS Integers, FiniteSets, SequencesExt

CONSTANTS
  Clients,  (* the client processes; each connects once                    *)
  Parent,   (* the process that runs main                                  *)
  Listener, (* server_socket                                               *)
  Backlog,  (* connections the kernel queues for accept: listen(.., 5)     *)
  MaxProcs, (* processes the system lets the parent have at a time         *)
  MaxFds    (* descriptors the system lets a process have                  *)

ASSUME ForkServerConstants ==
  /\ Parent \notin Clients /\ Listener \notin Clients
  /\ Backlog \in Nat \ {0} /\ MaxProcs \in Nat
  /\ MaxFds \in Nat /\ MaxFds >= 2
  /\ IsFiniteSet(Clients)

VARIABLES
  parent,  (* "accept", "fork" or "close", the call main is at, or "dead"  *)
  cur,     (* client_socket of main                                        *)
  child,   (* "none", the call it is at: "start", "serve" (recv), "leave"  *)
           (* (close) or "exit", and "done" once reaped                    *)
  holds,   (* process -> the sockets in its descriptor table               *)
  backlog, (* connections waiting for accept                               *)
  client,  (* "new", "typing", "waiting" (in recv) or "gone"               *)
  inbox,   (* the message on its way to the server: "none", "text", "quit" *)
  reply    (* echoes on their way to the client                            *)

vars == <<parent, cur, child, holds, backlog, client, inbox, reply>>

Process == Clients \cup {Parent}
Socket == Clients \cup {Listener}

Held(s) == \E p \in Process : s \in holds[p]
Running(c) == child[c] \in {"start", "serve", "leave", "exit"}

-----------------------------------------------------------------------------
Init ==
  /\ parent = "accept"
  /\ cur \in Clients
  /\ child = [c \in Clients |-> "none"]
  /\ holds = [p \in Process |-> IF p = Parent THEN {Listener} ELSE {}]
  /\ backlog = <<>>
  /\ client = [c \in Clients |-> "new"]
  /\ inbox = [c \in Clients |-> "none"]
  /\ reply = [c \in Clients |-> 0]

(* Process p closes the sockets S.  When nobody holds the listening socket *)
(* any more, the kernel resets the connections still queued on it.         *)
Close(p, S) ==
  /\ holds' = [holds EXCEPT ![p] = @ \ S]
  /\ backlog' = IF \E q \in Process : Listener \in holds'[q] THEN backlog ELSE <<>>

(* accept returns a connection.  It fails when the descriptor table is     *)
(* full, and main tries again, which changes nothing.                      *)
Accept ==
  /\ parent = "accept"
  /\ backlog # <<>>
  /\ Cardinality(holds[Parent]) < MaxFds
  /\ cur' = Head(backlog)
  /\ backlog' = Tail(backlog)
  /\ holds' = [holds EXCEPT ![Parent] = @ \cup {Head(backlog)}]
  /\ parent' = "fork"
  /\ UNCHANGED <<child, client, inbox, reply>>

(* fork copies the parent's descriptor table.                              *)
Fork ==
  /\ parent = "fork"
  /\ Cardinality({c \in Clients : child[c] \notin {"none", "done"}}) < MaxProcs
  /\ child' = [child EXCEPT ![cur] = "start"]
  /\ holds' = [holds EXCEPT ![cur] = holds[Parent]]
  /\ parent' = "close"
  /\ UNCHANGED <<cur, backlog, client, inbox, reply>>

(* Mutant of CloseConnection: it is forgotten.                             *)
KeepConnection == UNCHANGED <<holds, backlog>>

(* main closes its copy of the connection.                                 *)
CloseConnection == Close(Parent, {cur})

(* fork fails, at the limit or for want of memory: the connection is closed*)
(* and the loop goes on.                                                   *)
ForkFails ==
  /\ parent = "fork"
  /\ CloseConnection
  /\ parent' = "accept"
  /\ UNCHANGED <<cur, child, client, inbox, reply>>

ParentClose ==
  /\ parent = "close"
  /\ CloseConnection
  /\ parent' = "accept"
  /\ UNCHANGED <<cur, child, client, inbox, reply>>

Main == Accept \/ Fork \/ ForkFails \/ ParentClose

-----------------------------------------------------------------------------
(* Mutant of Unused: the child keeps the listening socket.                 *)
UnusedNone == {}

(* What the child has no use for.                                          *)
Unused == {Listener}

ChildStart(c) ==
  /\ child[c] = "start"
  /\ Close(c, Unused)
  /\ child' = [child EXCEPT ![c] = "serve"]
  /\ UNCHANGED <<parent, cur, client, inbox, reply>>

(* recv returns a message, which is sent back; "quit" ends the loop.       *)
Echo(c) ==
  /\ child[c] = "serve"
  /\ inbox[c] # "none"
  /\ inbox' = [inbox EXCEPT ![c] = "none"]
  /\ reply' = [reply EXCEPT ![c] = @ + 1]
  /\ child' = [child EXCEPT ![c] = IF inbox[c] = "quit" THEN "leave" ELSE @]
  /\ UNCHANGED <<parent, cur, holds, backlog, client>>

(* recv returns 0 or -1.                                                   *)
RecvEnd(c) ==
  /\ child[c] = "serve"
  /\ inbox[c] = "none" /\ client[c] = "gone"
  /\ child' = [child EXCEPT ![c] = "leave"]
  /\ UNCHANGED <<parent, cur, holds, backlog, client, inbox, reply>>

(* Mutant of Exited: nobody has asked for SIGCHLD to be ignored.           *)
ExitedZombie == "zombie"

(* What a child is when it has ended: reaped by the kernel at once, since  *)
(* the parent ignores SIGCHLD.                                             *)
Exited == "done"

ChildClose(c) ==
  /\ child[c] = "leave"
  /\ Close(c, {c})
  /\ child' = [child EXCEPT ![c] = "exit"]
  /\ UNCHANGED <<parent, cur, client, inbox, reply>>

ChildExit(c) ==
  /\ child[c] = "exit"
  /\ Close(c, Socket)
  /\ child' = [child EXCEPT ![c] = Exited]
  /\ UNCHANGED <<parent, cur, client, inbox, reply>>

Session(c) == ChildStart(c) \/ Echo(c) \/ RecvEnd(c) \/ ChildClose(c) \/ ChildExit(c)

(* Any process of the server is killed, the child also by the SIGPIPE of a *)
(* send to a client that is gone; the kernel closes what it held.          *)
KillChild(c) ==
  /\ Running(c)
  /\ Close(c, Socket)
  /\ child' = [child EXCEPT ![c] = Exited]
  /\ UNCHANGED <<parent, cur, client, inbox, reply>>

KillParent ==
  /\ parent # "dead"
  /\ Close(Parent, Socket)
  /\ parent' = "dead"
  /\ UNCHANGED <<cur, child, client, inbox, reply>>

-----------------------------------------------------------------------------
(* The kernel completes a connection while somebody holds the listener.    *)
Connect(c) ==
  /\ client[c] = "new"
  /\ Held(Listener)
  /\ Len(backlog) < Backlog
  /\ backlog' = Append(backlog, c)
  /\ client' = [client EXCEPT ![c] = "typing"]
  /\ UNCHANGED <<parent, cur, child, holds, inbox, reply>>

ConnectFails(c) ==
  /\ client[c] = "new"
  /\ ~Held(Listener)
  /\ client' = [client EXCEPT ![c] = "gone"]
  /\ UNCHANGED <<parent, cur, child, holds, backlog, inbox, reply>>

(* The server's end of the connection exists: queued or in some process.   *)
Linked(c) == Held(c) \/ Contains(backlog, c)

(* The user types a line and the client sends it; after "quit" it leaves.  *)
Type(c, m) ==
  /\ client[c] = "typing"
  /\ inbox' = IF Linked(c) THEN [inbox EXCEPT ![c] = m] ELSE inbox
  /\ client' = [client EXCEPT ![c] = IF m = "quit" THEN "gone" ELSE "waiting"]
  /\ UNCHANGED <<parent, cur, child, holds, backlog, reply>>

Receive(c) ==
  /\ client[c] = "waiting"
  /\ reply[c] > 0
  /\ reply' = [reply EXCEPT ![c] = @ - 1]
  /\ client' = [client EXCEPT ![c] = "typing"]
  /\ UNCHANGED <<parent, cur, child, holds, backlog, inbox>>

(* recv returns 0 or -1.                                                   *)
ReceiveEnd(c) ==
  /\ client[c] = "waiting"
  /\ reply[c] = 0 /\ ~Linked(c)
  /\ client' = [client EXCEPT ![c] = "gone"]
  /\ UNCHANGED <<parent, cur, child, holds, backlog, inbox, reply>>

(* The client is killed.                                                   *)
Interrupt(c) ==
  /\ client[c] \in {"typing", "waiting"}
  /\ client' = [client EXCEPT ![c] = "gone"]
  /\ UNCHANGED <<parent, cur, child, holds, backlog, inbox, reply>>

Client(c) ==
  \/ Connect(c) \/ ConnectFails(c)
  \/ \E m \in {"text", "quit"} : Type(c, m)
  \/ Receive(c) \/ ReceiveEnd(c) \/ Interrupt(c)

Next ==
  \/ Main \/ KillParent
  \/ \E c \in Clients : Session(c) \/ KillChild(c) \/ Client(c)

Spec == Init /\ [][Next]_vars

(* Every process runs when it can; a client in recv is one of them.  Users *)
(* owe nothing, and nobody has to be killed.                               *)
FairSpec ==
  /\ Spec
  /\ WF_vars(Main)
  /\ \A c \in Clients : WF_vars(Session(c)) /\ WF_vars(Receive(c) \/ ReceiveEnd(c))

-----------------------------------------------------------------------------
(* The type invariant: what each variable may hold.                        *)
TypeOK ==
  /\ parent \in {"accept", "fork", "close", "dead"}
  /\ cur \in Clients
  /\ child \in [Clients -> {"none", "start", "serve", "leave", "exit", "done"}]
  /\ holds \in [Process -> SUBSET Socket]
  /\ backlog \in Seq(Clients)
  /\ client \in [Clients -> {"new", "typing", "waiting", "gone"}]
  /\ inbox \in [Clients -> {"none", "text", "quit"}]
  /\ reply \in [Clients -> {0, 1}]

(* No process holds a socket it does not use: a child only its own         *)
(* connection, the parent only the one between accept and close.  So a     *)
(* client's end of file never depends on another client's session.         *)
NoStrayDescriptor ==
  /\ \A c \in Clients : holds[c] \subseteq
       CASE child[c] = "start" -> {c, Listener}
         [] child[c] \in {"serve", "leave"} -> {c}
         [] OTHER -> {}
  /\ holds[Parent] \subseteq
       {Listener} \cup IF parent \in {"fork", "close"} THEN {cur} ELSE {}

(* The process table holds exactly the sessions in progress, besides       *)
(* children whose next step is exit: none ends as a zombie and counts      *)
(* against the limit for ever.                                             *)
ProcessesAreSessions ==
  \A c \in Clients : child[c] \notin {"none", "exit", "done"} <=> c \in holds[c]

(* A client that waits for an echo is answered or sees the connection end, *)
(* whatever the other clients do, whoever is killed and however fork fails.*)
Answered == \A c \in Clients : client[c] = "waiting" ~> client[c] # "waiting"

(* When a client is gone every process lets go of its connection.          *)
HangUp == \A c \in Clients : client[c] = "gone" ~> ~Linked(c)

(* When the parent is dead its children do not keep the port taken, though *)
(* their sessions may last for ever.                                       *)
PortFreed == parent = "dead" ~> ~Held(Listener)

=============================================================================
