------------------------------ MODULE PollServer ------------------------------
(***************************************************************************)
(* The echo server of lab7/third/server.c, which serves all its clients    *)
(* from one poll loop, and the clients of lab7/third/client.c.             *)
(*                                                                         *)
(* A client's messages are cut into two pieces, so that TCP may deliver a  *)
(* message in one chunk, in two, or together with part of the next.  A     *)
(* connection is named by its client.  The server's descriptor array, its  *)
(* loop index and the in-place removal of entries are kept as in the code; *)
(* poll() sets revents for the first nfds entries only, so that an entry   *)
(* accept has just added holds whatever its slot held before: stack        *)
(* garbage, or the revents of a client long gone.                          *)
(***************************************************************************)
EXTENDS Integers, SequencesExt

CONSTANTS
  N,          (* number of clients; each connects once                     *)
  MaxClients, (* MAX_CLIENTS                                               *)
  Backlog,    (* connections the kernel queues for accept: listen(.., 5)   *)
  MaxChunk,   (* pieces that fit in the BUFFER_SIZE - 1 bytes of a recv    *)
  MaxSent,    (* bound: messages the clients send, all together            *)
  Listener    (* server_socket                                             *)

(* The client processes, numbered in the order in which they connect.      *)
Clients == 1 .. N

ASSUME PollServerConstants ==
  /\ N \in Nat
  /\ MaxClients \in Nat \ {0} /\ Backlog \in Nat \ {0}
  /\ MaxChunk \in Nat \ {0} /\ MaxSent \in Nat
  /\ Listener \notin Clients

VARIABLES
  fds,     (* the pollfd array: slot -> fd and whether revents is set      *)
  nfds,    (* its length in use                                            *)
  pc,      (* "poll", "scan", or "dead" once the server has ended          *)
  i,       (* the index of the scan                                        *)
  backlog, (* connections waiting for accept                               *)
  side,    (* the server's end: "none", "queued", "open" or "closed"       *)
  inbox,   (* pieces on their way to the server, or in its socket          *)
  echoed,  (* every piece the server has sent back                         *)
  reset,   (* the client's RST: "no", "coming", "here", or "spent" once a  *)
           (* call has returned its error                                  *)
  client,  (* "new", "typing", "waiting" (in recv) or "gone"               *)
  sent,    (* every piece the client has sent                              *)
  got      (* how many echoed pieces the client has received               *)

server == <<fds, nfds, pc, i>>
vars == <<fds, nfds, pc, i, backlog, side, inbox, echoed, reset, client, sent, got>>

Slot == 0 .. MaxClients
Message == {"text", "quit"}
Piece == Message \X {1, 2}
Pieces(m) == <<<<m, 1>>, <<m, 2>>>>

(* poll() reports POLLIN: a connection to accept, data, end of file, error.*)
Readable(fd) ==
  IF fd = Listener
  THEN backlog # <<>>
  ELSE inbox[fd] # <<>> \/ client[fd] = "gone" \/ reset[fd] = "here"

-----------------------------------------------------------------------------
(* The array is on the stack and is not cleared: any slot but the first    *)
(* may hold any revents.                                                   *)
Init ==
  /\ fds \in {f \in [Slot -> [fd : {Listener}, revents : BOOLEAN]] : ~f[0].revents}
  /\ nfds = 1
  /\ pc = "poll"
  /\ i = 0
  /\ backlog = <<>>
  /\ side = [c \in Clients |-> "none"]
  /\ inbox = [c \in Clients |-> <<>>]
  /\ echoed = [c \in Clients |-> <<>>]
  /\ reset = [c \in Clients |-> "no"]
  /\ client = [c \in Clients |-> "new"]
  /\ sent = [c \in Clients |-> <<>>]
  /\ got = [c \in Clients |-> 0]


(* The entries passed to poll.                                             *)
Polled == 0 .. nfds - 1

(* poll() returns when some entry is readable.                             *)
Poll ==
  /\ pc = "poll"
  /\ \E k \in Polled : Readable(fds[k].fd)
  /\ fds' = [k \in Slot |->
               IF k \in Polled THEN [fds[k] EXCEPT !.revents = Readable(fds[k].fd)] ELSE fds[k]]
  /\ i' = 0
  /\ pc' = "scan"
  /\ UNCHANGED <<nfds, backlog, side, inbox, echoed, reset, client, sent, got>>

(* The server ends: its sockets are closed, those it has not accepted too. *)
ServerEnds ==
  /\ pc' = "dead"
  /\ backlog' = <<>>
  /\ side' = [d \in Clients |-> IF side[d] = "none" THEN "none" ELSE "closed"]
  /\ UNCHANGED <<fds, nfds, i, inbox, echoed, reset, client, sent, got>>

(* poll() fails: the loop ends, and with it the server.                    *)
PollFails == pc = "poll" /\ ServerEnds

Skip ==
  /\ pc = "scan" /\ i < nfds
  /\ ~fds[i].revents
  /\ i' = i + 1
  /\ UNCHANGED <<fds, nfds, pc, backlog, side, inbox, echoed, reset, client, sent, got>>

ScanEnd ==
  /\ pc = "scan" /\ i >= nfds
  /\ pc' = "poll"
  /\ UNCHANGED <<fds, nfds, i, backlog, side, inbox, echoed, reset, client, sent, got>>

(* The entry at i is the listening socket: the oldest queued connection    *)
(* gets the next slot, or is closed when there is none.                    *)
Accept ==
  LET c == Head(backlog) IN
  /\ pc = "scan" /\ i < nfds
  /\ fds[i].revents /\ fds[i].fd = Listener
  /\ backlog # <<>>
  /\ backlog' = Tail(backlog)
  /\ IF nfds < MaxClients + 1
     THEN /\ fds' = [fds EXCEPT ![nfds].fd = c]
          /\ nfds' = nfds + 1
          /\ side' = [side EXCEPT ![c] = "open"]
     ELSE /\ side' = [side EXCEPT ![c] = "closed"]
          /\ UNCHANGED <<fds, nfds>>
  /\ i' = i + 1
  /\ UNCHANGED <<pc, inbox, echoed, reset, client, sent, got>>

AcceptFails ==
  /\ pc = "scan" /\ i < nfds
  /\ fds[i].revents /\ fds[i].fd = Listener
  /\ i' = i + 1
  /\ UNCHANGED <<fds, nfds, pc, backlog, side, inbox, echoed, reset, client, sent, got>>

(* Mutant of Removed: the entries above move down from one too high.       *)
RemovedOffByOne == [k \in Slot |-> IF k > i /\ k < nfds - 1 THEN fds[k + 1] ELSE fds[k]]

(* The array without entry i.                                              *)
Removed == [k \in Slot |-> IF k >= i /\ k < nfds - 1 THEN fds[k + 1] ELSE fds[k]]

(* close(fds[i].fd) and the removal of entry i; i-- and the loop's i++     *)
(* leave i where it was, at the entry that has moved there.                *)
CloseEntry ==
  /\ side' = [side EXCEPT ![fds[i].fd] = "closed"]
  /\ fds' = Removed
  /\ nfds' = nfds - 1
  /\ i' = i

AtClient == pc = "scan" /\ i < nfds /\ fds[i].revents /\ fds[i].fd # Listener

(* Mutant of Ended: only an error ends a connection, end of file does not. *)
EndedByError(fd) == reset[fd] = "here"

(* recv has end of file or an error to return.                             *)
Ended(fd) == client[fd] = "gone" \/ reset[fd] = "here"

(* recv returns 0 or -1: end of file or a reset, once the data is read.    *)
RecvEnd ==
  /\ AtClient
  /\ inbox[fds[i].fd] = <<>> /\ Ended(fds[i].fd)
  /\ CloseEntry
  /\ UNCHANGED <<pc, backlog, inbox, echoed, reset, client, sent, got>>

(* strncmp(buffer, "quit", 4) == 0                                         *)
IsQuit(chunk) == Len(chunk) >= 2 /\ SubSeq(chunk, 1, 2) = Pieces("quit")

(* recv returns the first n pieces of the connection at i, and what        *)
(* follows is done: a "quit" ends the connection.                          *)
Received(n) == SubSeq(inbox[fds[i].fd], 1, n)
Recv(n) ==
  /\ AtClient
  /\ n \in 1 .. Len(inbox[fds[i].fd])
  /\ inbox' = [inbox EXCEPT ![fds[i].fd] = SubSeq(@, n + 1, Len(@))]
  /\ IF IsQuit(Received(n))
     THEN CloseEntry
     ELSE /\ i' = i + 1
          /\ UNCHANGED <<fds, nfds, side>>
  /\ UNCHANGED <<pc, backlog, client, sent, got>>

(* Mutant of SentBack: a fixed amount is sent, whatever was received.      *)
SentBackFixed(n) == SubSeq(Received(n), 1, 1)
SentBack(n) == Received(n)

(* What was received is sent back.  To a client that is gone the first send*)
(* is answered with an RST.                                                *)
Echo(n) ==
  LET c == fds[i].fd IN
  /\ Recv(n)
  /\ reset[c] \in {"no", "coming"}
  /\ echoed' = [echoed EXCEPT ![c] = @ \o SentBack(n)]
  /\ reset' = [reset EXCEPT ![c] = IF client[c] = "gone" THEN "coming" ELSE @]

(* When the RST is already here, send fails, which nobody looks at and     *)
(* which leaves the chunk without an echo.                                 *)
EchoFails(n) ==
  LET c == fds[i].fd IN
  /\ Recv(n)
  /\ reset[c] = "here"
  /\ reset' = [reset EXCEPT ![c] = "spent"]
  /\ UNCHANGED echoed

(* Or it raises SIGPIPE, which the server does not handle: always once the *)
(* connection's error has been returned, or when it is EPIPE itself.       *)
EchoDies ==
  /\ AtClient
  /\ inbox[fds[i].fd] # <<>>
  /\ reset[fds[i].fd] \in {"here", "spent"}
  /\ ServerEnds

Serve ==
  \/ Poll \/ PollFails \/ Skip \/ ScanEnd \/ Accept \/ AcceptFails \/ RecvEnd \/ EchoDies
  \/ \E n \in 1 .. MaxChunk : Echo(n) \/ EchoFails(n)

-----------------------------------------------------------------------------
(* Clients are alike, so that only one order of their connects is explored:*)
(* a reduction by symmetry, and no condition of the code.                  *)
IsNext(c) == client[c] = "new" /\ \A d \in 1 .. c - 1 : client[d] # "new"

Connect(c) ==
  /\ IsNext(c)
  /\ pc # "dead"
  /\ Len(backlog) < Backlog
  /\ backlog' = Append(backlog, c)
  /\ side' = [side EXCEPT ![c] = "queued"]
  /\ client' = [client EXCEPT ![c] = "typing"]
  /\ UNCHANGED <<server, inbox, echoed, reset, sent, got>>

ConnectFails(c) ==
  /\ IsNext(c)
  /\ pc = "dead"
  /\ client' = [client EXCEPT ![c] = "gone"]
  /\ UNCHANGED <<server, backlog, side, inbox, echoed, reset, sent, got>>

(* The client closes its socket; with echoes unread that sends an RST.     *)
Leave(c) ==
  /\ client' = [client EXCEPT ![c] = "gone"]
  /\ reset' = [reset EXCEPT ![c] = IF got[c] < Len(echoed[c]) THEN "coming" ELSE @]

(* The user types a line and the client sends it; after "quit" it leaves.  *)
Type(c, m) ==
  /\ client[c] = "typing"
  /\ Len(FlattenSeq(sent)) < 2 * MaxSent
  /\ sent' = [sent EXCEPT ![c] = @ \o Pieces(m)]
  /\ inbox' = IF side[c] = "closed" THEN inbox ELSE [inbox EXCEPT ![c] = @ \o Pieces(m)]
  /\ IF m = "quit"
     THEN Leave(c)
     ELSE /\ client' = [client EXCEPT ![c] = "waiting"]
          /\ UNCHANGED reset
  /\ UNCHANGED <<server, backlog, side, echoed, got>>

(* recv returns some of what has been echoed, and the client goes on.      *)
Receive(c, n) ==
  /\ client[c] = "waiting"
  /\ n \in 1 .. Len(echoed[c]) - got[c]
  /\ got' = [got EXCEPT ![c] = @ + n]
  /\ client' = [client EXCEPT ![c] = "typing"]
  /\ UNCHANGED <<server, backlog, side, inbox, echoed, reset, sent>>

(* recv returns 0 or -1.                                                   *)
ReceiveEnd(c) ==
  /\ client[c] = "waiting"
  /\ got[c] = Len(echoed[c]) /\ side[c] = "closed"
  /\ Leave(c)
  /\ UNCHANGED <<server, backlog, side, inbox, echoed, sent, got>>

(* The client is killed.                                                   *)
Interrupt(c) ==
  /\ client[c] \in {"typing", "waiting"}
  /\ Leave(c)
  /\ UNCHANGED <<server, backlog, side, inbox, echoed, sent, got>>

(* The RST reaches the server.                                             *)
ResetArrives(c) ==
  /\ reset[c] = "coming"
  /\ reset' = [reset EXCEPT ![c] = "here"]
  /\ UNCHANGED <<server, backlog, side, inbox, echoed, client, sent, got>>

Client(c) ==
  \/ Connect(c) \/ ConnectFails(c)
  \/ \E m \in Message : Type(c, m)
  \/ \E n \in 1 .. MaxChunk : Receive(c, n)
  \/ ReceiveEnd(c) \/ Interrupt(c)

Next == Serve \/ \E c \in Clients : Client(c) \/ ResetArrives(c)

Spec == Init /\ [][Next]_vars

(* The server runs when it can.  Clients owe it nothing: a user may never  *)
(* type, and a connection may stay silent for ever.                        *)
FairSpec == Spec /\ WF_vars(Serve)

-----------------------------------------------------------------------------
(* The type invariant: what each variable may hold.                        *)
TypeOK ==
  /\ fds \in [Slot -> [fd : Clients \cup {Listener}, revents : BOOLEAN]]
  /\ nfds \in 1 .. MaxClients + 1
  /\ pc \in {"poll", "scan", "dead"}
  /\ i \in 0 .. MaxClients + 1
  /\ backlog \in Seq(Clients)
  /\ side \in [Clients -> {"none", "queued", "open", "closed"}]
  /\ inbox \in [Clients -> Seq(Piece)]
  /\ echoed \in [Clients -> Seq(Piece)]
  /\ reset \in [Clients -> {"no", "coming", "here", "spent"}]
  /\ client \in [Clients -> {"new", "typing", "waiting", "gone"}]
  /\ sent \in [Clients -> Seq(Piece)]
  /\ got \in [Clients -> Nat]

(* The array is exactly the set of descriptors the server has open: no     *)
(* removal loses another client's entry, leaves one behind or repeats one, *)
(* and accept never writes past its end.                                   *)
ArrayIsOpen ==
  pc # "dead" =>
    /\ nfds <= MaxClients + 1
    /\ fds[0].fd = Listener
    /\ {fds[k].fd : k \in 1 .. nfds - 1} = {c \in Clients : side[c] = "open"}
    /\ \A j, k \in 0 .. nfds - 1 : fds[j].fd = fds[k].fd => j = k

(* What comes back to a client is what that client sent, in order, nothing *)
(* lost, repeated or taken from another, however TCP cuts it; only where an*)
(* RST has come is there nobody left to hear an echo.                      *)
EchoExact ==
  \A c \in Clients :
    side[c] \in {"queued", "open"} /\ reset[c] \in {"no", "coming"} =>
      sent[c] = echoed[c] \o inbox[c]

(* The server sits in recv on a connection with nothing to read.           *)
Stuck == AtClient /\ ~Readable(fds[i].fd)

(* A client that has left gives its slot back, unless the server waits in  *)
(* recv for a silent client or is dead.                                    *)
SlotFreed ==
  \A c \in Clients :
    client[c] = "gone" /\ side[c] = "open" ~> side[c] = "closed" \/ Stuck

(* What a client has sent is echoed, under the same exceptions.            *)
Answered ==
  \A c \in Clients :
    client[c] = "waiting" /\ side[c] = "open" ~>
      got[c] < Len(echoed[c]) \/ client[c] # "waiting" \/ side[c] = "closed" \/ Stuck

(* The poll loop serves several clients: it never blocks in a recv on a    *)
(* connection that has nothing to read.                                    *)
NeverBlocksInRecv == ~Stuck

=============================================================================
