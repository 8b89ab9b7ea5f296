------------------------------- MODULE UdpEcho -------------------------------
(***************************************************************************)
(* The UDP echo server of lab7/first/udp_server.c and the clients of       *)
(* lab7/first/udp_client.c, over a network that loses, duplicates and      *)
(* reorders datagrams.                                                     *)
(*                                                                         *)
(* The content of a datagram is the line it was made from: <<c, n>> is the *)
(* n-th line typed at client c, and <<c, 0>> what its buffer holds before  *)
(* any is typed.  The client blocks in recvfrom without a timeout, and     *)
(* takes whatever arrives for the reply to what it sent last.              *)
(*                                                                         *)
(* A datagram that fills the buffer has its terminating zero written       *)
(* behind it, which in C is undefined; the model lets the program go on.   *)
(***************************************************************************)
EXTENDS Integers, Bags

CONSTANTS
  Clients,    (* the client processes                                      *)
  BufferSize, (* BUFFER_SIZE                                               *)
  MaxSent,    (* bound: datagrams a client sends                           *)
  MaxLost,    (* bound: datagrams the network loses                        *)
  MaxDup,     (* bound: datagrams the network duplicates                   *)
  MaxErrors   (* bound: calls of sendto and recvfrom that fail             *)

ASSUME UdpEchoConstants ==
  /\ BufferSize \in Nat \ {0} /\ MaxSent \in Nat
  /\ MaxLost \in Nat /\ MaxDup \in Nat /\ MaxErrors \in Nat

VARIABLES
  toServer, (* datagrams on their way to the server, or in its socket      *)
  toClient, (* datagrams on their way to the clients, or in their sockets  *)
  pc,       (* the server: "recv" or "send"                                *)
  request,  (* its buffer and client_addr, not used before they are stored *)
  client,   (* "typing" or "waiting" (in recvfrom)                         *)
  typed,    (* lines typed so far                                          *)
  sent,     (* datagrams sent so far                                       *)
  buffer,   (* the client's buffer                                         *)
  last,     (* the line of the last datagram sent                          *)
  shown,    (* the line of the last reply printed                          *)
  faults    (* how often the network and the calls have failed             *)

net == <<toServer, toClient>>
server == <<pc, request>>
clients == <<client, typed, sent, buffer, last, shown>>
vars == <<net, server, clients, faults>>

(* Of what does not fit the model keeps only that it is too long.          *)
TooLong == BufferSize + 1
Length == 0 .. TooLong
Line == Clients \X (0 .. MaxSent + MaxErrors)
Text == [line : Line, len : Length]
Datagram == [client : Clients, text : Text]

(* An uninitialised buffer is a string of any length, also one that ends   *)
(* only in what lies behind the buffer.                                    *)
Uninitialised(c) == [line : {<<c, 0>>}, len : Length]

Sent(bag, d) == bag (+) SetToBag({d})
Taken(bag, d) == bag (-) SetToBag({d})

(* What recvfrom stores: at most the BUFFER_SIZE bytes it is given.        *)
Cut(text) == [text EXCEPT !.len = IF @ > BufferSize THEN BufferSize ELSE @]

Fault(kind, max) ==
  /\ faults[kind] < max
  /\ faults' = [faults EXCEPT ![kind] = @ + 1]

-----------------------------------------------------------------------------
Init ==
  /\ toServer = EmptyBag
  /\ toClient = EmptyBag
  /\ pc = "recv"
  /\ request \in {[client |-> c, text |-> [line |-> <<c, 0>>, len |-> 0]] : c \in Clients}
  /\ client = [c \in Clients |-> "typing"]
  /\ typed = [c \in Clients |-> 0]
  /\ sent = [c \in Clients |-> 0]
  /\ buffer \in [Clients -> UNION {Uninitialised(c) : c \in Clients}]
  /\ \A c \in Clients : buffer[c].line[1] = c
  /\ last = [c \in Clients |-> <<c, 0>>]
  /\ shown = [c \in Clients |-> <<c, 0>>]
  /\ faults = [lost |-> 0, dup |-> 0, error |-> 0]

(* fgets stores at most BUFFER_SIZE - 1 characters, and the newline goes.  *)
TypedLine(c) == [line : {<<c, typed[c] + 1>>}, len : 0 .. BufferSize - 1]

(* Mutant of Outgoing: the terminating zero is sent along.                 *)
OutgoingWithZero(c, text) == [client |-> c, text |-> [text EXCEPT !.len = @ + 1]]

(* strlen(buffer) bytes are sent.                                          *)
Outgoing(c, text) == [client |-> c, text |-> text]

SendText(c, text) ==
  /\ toServer' = Sent(toServer, Outgoing(c, text))
  /\ buffer' = [buffer EXCEPT ![c] = text]
  /\ last' = [last EXCEPT ![c] = text.line]
  /\ sent' = [sent EXCEPT ![c] = @ + 1]
  /\ client' = [client EXCEPT ![c] = "waiting"]

(* The user types a line.                                                  *)
Type(c) ==
  /\ client[c] = "typing"
  /\ sent[c] < MaxSent
  /\ \E text \in TypedLine(c) : SendText(c, text)
  /\ typed' = [typed EXCEPT ![c] = @ + 1]
  /\ UNCHANGED <<toClient, server, shown, faults>>

(* The input has ended, which nobody looks at: what the buffer holds is    *)
(* sent, the last reply or what was there at the start.                    *)
TypeEnd(c) ==
  /\ client[c] = "typing"
  /\ sent[c] < MaxSent
  /\ SendText(c, buffer[c])
  /\ UNCHANGED <<toClient, server, typed, shown, faults>>

(* sendto fails, after a line was typed or the input has ended: the loop   *)
(* goes on.                                                                *)
SendFails(c) ==
  /\ client[c] = "typing"
  /\ Fault("error", MaxErrors)
  /\ \/ /\ typed' = [typed EXCEPT ![c] = @ + 1]
        /\ \E text \in TypedLine(c) : buffer' = [buffer EXCEPT ![c] = text]
     \/ UNCHANGED <<typed, buffer>>
  /\ UNCHANGED <<net, server, client, sent, last, shown>>

Receive(c, d) ==
  /\ client[c] = "waiting"
  /\ BagIn(d, toClient) /\ d.client = c
  /\ toClient' = Taken(toClient, d)
  /\ buffer' = [buffer EXCEPT ![c] = Cut(d.text)]
  /\ shown' = [shown EXCEPT ![c] = d.text.line]
  /\ client' = [client EXCEPT ![c] = "typing"]
  /\ UNCHANGED <<toServer, server, typed, sent, last, faults>>

(* recvfrom fails: the loop goes on, and a reply may still come.           *)
ReceiveFails(c) ==
  /\ client[c] = "waiting"
  /\ Fault("error", MaxErrors)
  /\ client' = [client EXCEPT ![c] = "typing"]
  /\ UNCHANGED <<net, server, typed, sent, buffer, last, shown>>

-----------------------------------------------------------------------------
(* Mutant of Stored: the sender's address is kept from before.             *)
StoredOldAddress(d) == [client |-> request.client, text |-> Cut(d.text)]

(* recvfrom stores a datagram and its sender's address.                    *)
Stored(d) == [client |-> d.client, text |-> Cut(d.text)]

ServerRecv(d) ==
  /\ pc = "recv"
  /\ BagIn(d, toServer)
  /\ toServer' = Taken(toServer, d)
  /\ request' = Stored(d)
  /\ pc' = "send"
  /\ UNCHANGED <<toClient, clients, faults>>

(* Mutant of ServerSend: the reply is sent, and sent again.                *)
ServerSendStays ==
  /\ pc = "send"
  /\ pc' \in {"recv", "send"}
  /\ toClient' = Sent(toClient, request)
  /\ BagCardinality(toClient) <= MaxSent
  /\ UNCHANGED <<toServer, request, clients, faults>>

ServerSend ==
  /\ pc = "send"
  /\ pc' = "recv"
  /\ toClient' = Sent(toClient, request)
  /\ UNCHANGED <<toServer, request, clients, faults>>

(* sendto fails: the reply is never sent, and the loop goes on.            *)
ServerSendFails ==
  /\ pc = "send"
  /\ Fault("error", MaxErrors)
  /\ pc' = "recv"
  /\ UNCHANGED <<net, request, clients>>

Lose(d) ==
  /\ Fault("lost", MaxLost)
  /\ \/ BagIn(d, toServer) /\ toServer' = Taken(toServer, d) /\ UNCHANGED toClient
     \/ BagIn(d, toClient) /\ toClient' = Taken(toClient, d) /\ UNCHANGED toServer
  /\ UNCHANGED <<server, clients>>

Duplicate(d) ==
  /\ Fault("dup", MaxDup)
  /\ \/ BagIn(d, toServer) /\ toServer' = Sent(toServer, d) /\ UNCHANGED toClient
     \/ BagIn(d, toClient) /\ toClient' = Sent(toClient, d) /\ UNCHANGED toServer
  /\ UNCHANGED <<server, clients>>

InFlight == BagToSet(toServer) \cup BagToSet(toClient)

Client(c) ==
  \/ Type(c) \/ TypeEnd(c) \/ SendFails(c) \/ ReceiveFails(c)
  \/ \E d \in BagToSet(toClient) : Receive(c, d)

Server == ServerSend \/ \E d \in BagToSet(toServer) : ServerRecv(d)

Next ==
  \/ \E c \in Clients : Client(c)
  \/ Server \/ ServerSendFails
  \/ \E d \in InFlight : Lose(d) \/ Duplicate(d)

Spec == Init /\ [][Next]_vars

(* The server runs when it can, a client's datagram is received in the end *)
(* also among ever more of the others', and a client in recvfrom wakes up. *)
FairSpec ==
  /\ Spec
  /\ WF_vars(Server)
  /\ \A c \in Clients : SF_vars(\E d \in BagToSet(toServer) : d.client = c /\ ServerRecv(d))
  /\ \A c \in Clients : WF_vars(\E d \in BagToSet(toClient) : Receive(c, d))

-----------------------------------------------------------------------------
(* The type invariant: what each variable may hold.                        *)
TypeOK ==
  /\ InFlight \subseteq Datagram
  /\ pc \in {"recv", "send"}
  /\ request \in Datagram
  /\ client \in [Clients -> {"typing", "waiting"}]
  /\ typed \in [Clients -> 0 .. MaxSent + MaxErrors] /\ sent \in [Clients -> 0 .. MaxSent]
  /\ buffer \in [Clients -> Text]
  /\ last \in [Clients -> Line] /\ shown \in [Clients -> Line]
  /\ faults \in [lost : 0 .. MaxLost, dup : 0 .. MaxDup, error : 0 .. MaxErrors]

(* buffer[recv_len] = '\0' stays inside the buffer on both sides whenever  *)
(* the datagram holds a line somebody has typed, because fgets leaves room *)
(* for the zero the client does not send.  Of a buffer nobody has typed    *)
(* into nothing of the kind can be said: it may be sent as it is.          *)
Fits(text) == text.line[2] > 0 => text.len < BufferSize
TerminatorFits ==
  /\ Fits(request.text)
  /\ \A c \in Clients : Fits(buffer[c])

(* A client is only ever shown lines of its own, however the datagrams of  *)
(* several clients meet at the one buffer of the server.                   *)
OwnReplies == \A c \in Clients : shown[c][1] = c

(* Without duplicates and failing calls the replies stay in step: a client *)
(* that types again has been shown the line it sent last, though datagrams *)
(* may be lost and overtake each other.                                    *)
InStep ==
  faults.dup = 0 /\ faults.error = 0 =>
    \A c \in Clients : client[c] = "typing" => shown[c] = last[c]

(* A client is answered, whatever the others do, unless a datagram is lost *)
(* or a call fails.                                                        *)
Answered ==
  \A c \in Clients :
    client[c] = "waiting" ~> client[c] = "typing" \/ faults.lost + faults.error > 0

=============================================================================
