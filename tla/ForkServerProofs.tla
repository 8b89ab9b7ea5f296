--------------------------- MODULE ForkServerProofs ---------------------------
(***************************************************************************)
(* Who holds which descriptor of the forking echo server, for every set of *)
(* clients, every length of the queue and all limits on processes and      *)
(* descriptors.                                                            *)
(***************************************************************************)
EXTENDS ForkServer, TLAPS

(* From accept to close main holds the connection it has accepted, so that *)
(* the child forked in between inherits it.                                *)
Accepted == parent \in {"fork", "close"} => cur \in holds[Parent]

(* A client has at most one message on its way, in one direction, and none *)
(* while its user types: what bounds the echoes it may be sent.            *)
OneMessage ==
  \A c \in Clients :
    /\ client[c] \in {"new", "typing"} => inbox[c] = "none" /\ reply[c] = 0
    /\ inbox[c] # "none" => reply[c] = 0

(* The inductive invariant: what is to be proved, and what fork relies on. *)
IInv == TypeOK /\ NoStrayDescriptor /\ ProcessesAreSessions /\ Accepted /\ OneMessage

(* The descriptor tables after Close.                                      *)
LEMMA CloseHolds ==
  ASSUME TypeOK, NEW p \in Process, NEW S, Close(p, S)
  PROVE  /\ holds' \in [Process -> SUBSET Socket]
         /\ backlog' \in Seq(Clients)
         /\ \A q \in Process : holds'[q] = IF q = p THEN holds[q] \ S ELSE holds[q]
<1>1. holds' = [holds EXCEPT ![p] = @ \ S] /\ holds \in [Process -> SUBSET Socket]
  BY DEF Close, TypeOK
<1>2. backlog' \in Seq(Clients)
  BY DEF Close, TypeOK
<1> QED
  BY <1>1, <1>2

(* The server starts with its listening socket.                            *)
LEMMA InitIInv == Init => IInv
BY ForkServerConstants DEF Init, IInv, TypeOK, NoStrayDescriptor, ProcessesAreSessions, Accepted,
   OneMessage, Process, Socket

(* What main does.                                                         *)
LEMMA MainIInv == IInv /\ (Main \/ KillParent) => IInv'
<1> SUFFICES ASSUME IInv, Main \/ KillParent PROVE IInv'
  OBVIOUS
<1> USE ForkServerConstants
<1>0. /\ TypeOK /\ NoStrayDescriptor /\ ProcessesAreSessions /\ Accepted /\ OneMessage
      /\ Parent \in Process /\ Clients \subseteq Process /\ \A c \in Clients : c # Parent
  BY DEF IInv, Process
<1>1. CASE Accept
  <2>1. Head(backlog) \in Clients /\ Tail(backlog) \in Seq(Clients)
    BY <1>0, <1>1 DEF Accept, TypeOK
  <2>2. TypeOK'
    BY <1>0, <1>1, <2>1 DEF Accept, TypeOK, Socket
  <2>3. /\ \A c \in Clients : holds'[c] = holds[c]
        /\ holds'[Parent] = holds[Parent] \cup {cur'}
        /\ parent' = "fork" /\ child' = child /\ parent = "accept"
    BY <1>0, <1>1 DEF Accept, TypeOK
  <2>4. NoStrayDescriptor' /\ ProcessesAreSessions' /\ Accepted'
    BY <1>0, <2>3 DEF NoStrayDescriptor, ProcessesAreSessions, Accepted
  <2>5. OneMessage'
    BY <1>0, <1>1 DEF Accept, OneMessage
  <2> QED
    BY <2>2, <2>4, <2>5 DEF IInv
<1>2. CASE Fork
  <2>1. TypeOK'
    BY <1>0, <1>2 DEF Fork, TypeOK
  <2>2. /\ \A c \in Clients : holds'[c] = IF c = cur THEN holds[Parent] ELSE holds[c]
        /\ \A c \in Clients : child'[c] = IF c = cur THEN "start" ELSE child[c]
        /\ holds'[Parent] = holds[Parent] /\ cur' = cur /\ cur \in Clients
        /\ parent = "fork" /\ parent' = "close"
    BY <1>0, <1>2 DEF Fork, TypeOK
  <2>3. holds[Parent] \subseteq {cur, Listener} /\ cur \in holds[Parent]
    BY <1>0, <2>2 DEF NoStrayDescriptor, Accepted
  <2>4. NoStrayDescriptor' /\ ProcessesAreSessions' /\ Accepted'
    BY <1>0, <2>2, <2>3 DEF NoStrayDescriptor, ProcessesAreSessions, Accepted
  <2>5. OneMessage'
    BY <1>0, <1>2 DEF Fork, OneMessage
  <2> QED
    BY <2>1, <2>4, <2>5 DEF IInv
<1>3. CASE ForkFails \/ ParentClose
  <2>1. /\ Close(Parent, {cur})
        /\ parent' = "accept" /\ parent \in {"fork", "close"}
        /\ UNCHANGED <<cur, child, client, inbox, reply>>
    BY <1>3 DEF ForkFails, ParentClose, CloseConnection
  <2>2. TypeOK'
    BY <1>0, <2>1, CloseHolds DEF TypeOK
  <2>3. /\ \A c \in Clients : holds'[c] = holds[c]
        /\ holds'[Parent] = holds[Parent] \ {cur}
    BY <1>0, <2>1, CloseHolds
  <2>4. NoStrayDescriptor' /\ ProcessesAreSessions' /\ Accepted'
    BY <1>0, <2>1, <2>3 DEF NoStrayDescriptor, ProcessesAreSessions, Accepted
  <2>5. OneMessage'
    BY <1>0, <2>1 DEF OneMessage
  <2> QED
    BY <2>2, <2>4, <2>5 DEF IInv
<1>4. CASE KillParent
  <2>1. /\ Close(Parent, Socket)
        /\ parent' = "dead"
        /\ UNCHANGED <<cur, child, client, inbox, reply>>
    BY <1>4 DEF KillParent
  <2>2. TypeOK'
    BY <1>0, <2>1, CloseHolds DEF TypeOK
  <2>3. /\ \A c \in Clients : holds'[c] = holds[c]
        /\ holds'[Parent] = {}
    <3>1. \A q \in Process : holds'[q] = IF q = Parent THEN holds[q] \ Socket ELSE holds[q]
      BY <1>0, <2>1, CloseHolds
    <3>2. holds[Parent] \subseteq Socket
      BY <1>0 DEF TypeOK
    <3> QED
      BY <1>0, <3>1, <3>2
  <2>4. NoStrayDescriptor' /\ ProcessesAreSessions' /\ Accepted'
    BY <1>0, <2>1, <2>3 DEF NoStrayDescriptor, ProcessesAreSessions, Accepted
  <2>5. OneMessage'
    BY <1>0, <2>1 DEF OneMessage
  <2> QED
    BY <2>2, <2>4, <2>5 DEF IInv
<1> QED
  BY <1>1, <1>2, <1>3, <1>4 DEF Main

(* A step of a child that closes S and goes on to be e.                    *)
LEMMA ChildCloses ==
  ASSUME IInv, NEW c \in Clients, NEW S, NEW e, Close(c, S),
         child' = [child EXCEPT ![c] = e],
         UNCHANGED <<parent, cur, client, inbox, reply>>,
         \/ child[c] = "start" /\ S = {Listener} /\ e = "serve"
         \/ child[c] = "leave" /\ S = {c} /\ e = "exit"
         \/ S = Socket /\ e = "done"
  PROVE  IInv'
<1> USE ForkServerConstants
<1>0. /\ TypeOK /\ NoStrayDescriptor /\ ProcessesAreSessions /\ Accepted /\ OneMessage
      /\ Parent \in Process /\ Clients \subseteq Process /\ \A d \in Clients : d # Parent
  BY DEF IInv, Process
<1>1. TypeOK'
  <2>1. holds' \in [Process -> SUBSET Socket] /\ backlog' \in Seq(Clients)
    BY <1>0, CloseHolds
  <2>2. child' \in [Clients -> {"none", "start", "serve", "leave", "exit", "done"}]
    BY <1>0 DEF TypeOK
  <2> QED
    BY <1>0, <2>1, <2>2 DEF TypeOK
<1>2. /\ \A d \in Clients : holds'[d] = IF d = c THEN holds[d] \ S ELSE holds[d]
      /\ \A d \in Clients : child'[d] = IF d = c THEN e ELSE child[d]
      /\ holds'[Parent] = holds[Parent]
      /\ holds[c] \subseteq Socket /\ c # Listener
  <2>1. \A q \in Process : holds'[q] = IF q = c THEN holds[q] \ S ELSE holds[q]
    BY <1>0, CloseHolds
  <2>2. \A d \in Clients : child'[d] = IF d = c THEN e ELSE child[d]
    BY <1>0 DEF TypeOK
  <2>3. holds[c] \subseteq Socket /\ c # Listener
    BY <1>0 DEF TypeOK
  <2> QED
    BY <1>0, <2>1, <2>2, <2>3
<1>3. NoStrayDescriptor' /\ Accepted'
  <2>1. holds'[c] \subseteq IF e = "serve" THEN {c} ELSE {}
    <3>1. CASE child[c] = "start" /\ S = {Listener} /\ e = "serve"
      <4>1. holds[c] \subseteq {c, Listener}
        BY <1>0, <3>1 DEF NoStrayDescriptor
      <4>2. holds'[c] = holds[c] \ {Listener}
        BY <1>2, <3>1
      <4> QED
        BY <3>1, <4>1, <4>2
    <3>2. CASE child[c] = "leave" /\ S = {c} /\ e = "exit"
      <4>1. holds[c] \subseteq {c}
        BY <1>0, <3>2 DEF NoStrayDescriptor
      <4> QED
        BY <1>2, <3>2, <4>1
    <3>3. CASE S = Socket /\ e = "done"
      BY <1>2, <3>3
    <3> QED
      BY <3>1, <3>2, <3>3
  <2>2. \A d \in Clients : d # c => holds'[d] = holds[d] /\ child'[d] = child[d]
    BY <1>2
  <2>3. child'[c] = e /\ e \in {"serve", "exit", "done"}
    BY <1>2
  <2> QED
    BY <1>0, <1>2, <2>1, <2>2, <2>3 DEF NoStrayDescriptor, Accepted
<1>4. ProcessesAreSessions'
  BY <1>0, <1>2 DEF ProcessesAreSessions
<1>5. OneMessage'
  BY DEF IInv, OneMessage
<1> QED
  BY <1>1, <1>3, <1>4, <1>5 DEF IInv

(* What the child that serves c does, and its end by a signal.             *)
LEMMA SessionIInv ==
  ASSUME IInv, NEW c \in Clients, Session(c) \/ KillChild(c)
  PROVE  IInv'
<1>1. CASE ChildStart(c)
  BY <1>1, ChildCloses DEF ChildStart, Unused
<1>2. CASE Echo(c)
  <2>1. /\ reply[c] = 0 /\ child[c] = "serve"
        /\ \A d \in Clients : child'[d] = child[d] \/ (d = c /\ child'[d] = "leave")
        /\ reply' = [reply EXCEPT ![c] = 1]
    <3>1. reply[c] = 0 /\ child[c] = "serve"
      BY <1>2 DEF Echo, IInv, OneMessage
    <3>2. \A d \in Clients : child'[d] = child[d] \/ (d = c /\ child'[d] = "leave")
      BY <1>2 DEF Echo, IInv, TypeOK
    <3> QED
      BY <1>2, <3>1, <3>2 DEF Echo
  <2>2. TypeOK'
    BY <1>2, <2>1 DEF Echo, IInv, TypeOK
  <2>3. NoStrayDescriptor' /\ Accepted'
    BY <1>2, <2>1 DEF Echo, IInv, NoStrayDescriptor, Accepted
  <2>4. ProcessesAreSessions'
    BY <1>2, <2>1 DEF Echo, IInv, ProcessesAreSessions
  <2>5. OneMessage'
    BY <1>2, <2>1 DEF Echo, IInv, TypeOK, OneMessage
  <2> QED
    BY <2>2, <2>3, <2>4, <2>5 DEF IInv
<1>3. CASE RecvEnd(c)
  <2>1. TypeOK'
    BY <1>3 DEF RecvEnd, IInv, TypeOK
  <2>2. \A d \in Clients : child'[d] = IF d = c THEN "leave" ELSE child[d]
    BY <1>3 DEF RecvEnd, IInv, TypeOK
  <2>3. NoStrayDescriptor' /\ Accepted'
    BY <1>3, <2>2 DEF RecvEnd, IInv, NoStrayDescriptor, Accepted
  <2>4. ProcessesAreSessions'
    BY <1>3, <2>2 DEF RecvEnd, IInv, ProcessesAreSessions
  <2>5. OneMessage'
    BY <1>3 DEF RecvEnd, IInv, OneMessage
  <2> QED
    BY <2>1, <2>3, <2>4, <2>5 DEF IInv
<1>4. CASE ChildClose(c)
  BY <1>4, ChildCloses DEF ChildClose
<1>5. CASE ChildExit(c)
  BY <1>5, ChildCloses DEF ChildExit, Exited
<1>6. CASE KillChild(c)
  BY <1>6, ChildCloses DEF KillChild, Exited
<1> QED
  BY <1>1, <1>2, <1>3, <1>4, <1>5, <1>6 DEF Session

(* What a client does changes no descriptor of the server.                 *)
LEMMA ClientIInv ==
  ASSUME IInv, NEW c \in Clients, Client(c)
  PROVE  IInv'
<1>1. UNCHANGED <<parent, cur, child, holds>>
  BY DEF Client, Connect, ConnectFails, Type, Receive, ReceiveEnd, Interrupt
<1>2. NoStrayDescriptor' /\ ProcessesAreSessions' /\ Accepted'
  BY <1>1 DEF IInv, NoStrayDescriptor, ProcessesAreSessions, Accepted
<1>3. TypeOK'
  <2>1. CASE Connect(c)
    BY <2>1 DEF Connect, IInv, TypeOK
  <2>2. CASE ConnectFails(c) \/ ReceiveEnd(c) \/ Interrupt(c)
    BY <2>2 DEF ConnectFails, ReceiveEnd, Interrupt, IInv, TypeOK
  <2>3. ASSUME NEW m \in {"text", "quit"}, Type(c, m) PROVE TypeOK'
    BY <2>3 DEF Type, IInv, TypeOK
  <2>4. CASE Receive(c)
    BY <2>4 DEF Receive, IInv, TypeOK
  <2> QED
    BY <2>1, <2>2, <2>3, <2>4 DEF Client
<1>4. OneMessage'
  <2>1. CASE Connect(c) \/ ConnectFails(c) \/ ReceiveEnd(c) \/ Interrupt(c)
    BY <2>1 DEF Connect, ConnectFails, ReceiveEnd, Interrupt, IInv, TypeOK, OneMessage
  <2>2. ASSUME NEW m \in {"text", "quit"}, Type(c, m) PROVE OneMessage'
    BY <2>2 DEF Type, IInv, TypeOK, OneMessage
  <2>3. CASE Receive(c)
    BY <2>3 DEF Receive, IInv, TypeOK, OneMessage
  <2> QED
    BY <2>1, <2>2, <2>3 DEF Client
<1> QED
  BY <1>2, <1>3, <1>4 DEF IInv

(* The invariant holds from the start and is kept.                         *)
LEMMA Invariance == Spec => []IInv
<1>1. IInv /\ UNCHANGED vars => IInv'
  BY DEF vars, IInv, TypeOK, NoStrayDescriptor, ProcessesAreSessions, Accepted, OneMessage
<1>2. IInv /\ [Next]_vars => IInv'
  BY <1>1, MainIInv, SessionIInv, ClientIInv DEF Next
<1> QED
  BY InitIInv, <1>2, PTL DEF Spec

(* Every process has a table of sockets it may hold, and no client is ever *)
(* owed more than one echo.                                                *)
THEOREM TypeCorrect == Spec => []TypeOK
<1>1. IInv => TypeOK
  BY DEF IInv
<1> QED
  BY <1>1, Invariance, PTL

(* No process of the server keeps a socket of another session open, so     *)
(* that a client's end of file depends on its own session only.            *)
THEOREM NoDescriptorStrays == Spec => []NoStrayDescriptor
<1>1. IInv => NoStrayDescriptor
  BY DEF IInv
<1> QED
  BY <1>1, Invariance, PTL

(* Whatever fails and whoever is killed, the process table holds the       *)
(* sessions in progress and, besides, only children about to exit.         *)
THEOREM NoZombies == Spec => []ProcessesAreSessions
<1>1. IInv => ProcessesAreSessions
  BY DEF IInv
<1> QED
  BY <1>1, Invariance, PTL

=============================================================================
