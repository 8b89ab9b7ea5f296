--------------------------- MODULE PollServerProofs ---------------------------
(***************************************************************************)
(* The descriptor array of the poll server and what it echoes, for every   *)
(* number of clients, every length of the array and of the queue, every    *)
(* size of a recv and every garbage the array starts with.                 *)
(***************************************************************************)
EXTENDS PollServer, SequenceTheorems, TLAPS

(* accept takes each connection once: the queue repeats none, and none in  *)
(* it has a place in the array already.                                    *)
Queue ==
  /\ \A k \in 1 .. Len(backlog) : side[backlog[k]] = "queued"
  /\ \A j, k \in 1 .. Len(backlog) : backlog[j] = backlog[k] => j = k

(* Nothing belongs to a client that has not called connect.                *)
Fresh ==
  \A c \in Clients : client[c] = "new" =>
    side[c] = "none" /\ sent[c] = <<>> /\ echoed[c] = <<>> /\ inbox[c] = <<>>

(* An RST comes from a client that is gone, and is never taken back.       *)
ResetIsLast == \A c \in Clients : reset[c] # "no" => client[c] = "gone"

(* The inductive invariant.                                                *)
IInv == TypeOK /\ ArrayIsOpen /\ EchoExact /\ Queue /\ Fresh /\ ResetIsLast

-----------------------------------------------------------------------------
(* The two loops over the array.                                           *)

(* The removal of entry i keeps every other entry, once, in its order.     *)
LEMMA CloseKeepsArray ==
  ASSUME TypeOK, ArrayIsOpen, pc # "dead", pc' # "dead", i \in 1 .. nfds - 1, CloseEntry
  PROVE  /\ fds' \in [Slot -> [fd : Clients \cup {Listener}, revents : BOOLEAN]]
         /\ nfds' \in 1 .. MaxClients + 1 /\ i' \in 0 .. MaxClients + 1
         /\ side' \in [Clients -> {"none", "queued", "open", "closed"}]
         /\ fds[i].fd \in Clients
         /\ \A c \in Clients : side'[c] = IF c = fds[i].fd THEN "closed" ELSE side[c]
         /\ ArrayIsOpen'
<1> USE PollServerConstants
<1>0. /\ nfds \in 2 .. MaxClients + 1 /\ i \in Nat /\ nfds' = nfds - 1 /\ MaxClients \in Nat
      /\ fds \in [Slot -> [fd : Clients \cup {Listener}, revents : BOOLEAN]]
      /\ fds' = Removed /\ i' = i
      /\ side \in [Clients -> {"none", "queued", "open", "closed"}]
      /\ 0 .. nfds - 1 \subseteq Slot
  BY DEF CloseEntry, TypeOK, Slot
<1>1. \A k \in Slot : fds'[k] = IF k >= i /\ k < nfds - 1 THEN fds[k + 1] ELSE fds[k]
  BY <1>0 DEF Removed
<1>2. fds' \in [Slot -> [fd : Clients \cup {Listener}, revents : BOOLEAN]]
  <2>1. \A k \in Slot : k < nfds - 1 => k + 1 \in Slot
    BY <1>0 DEF Slot
  <2> QED
    BY <1>0, <1>1, <2>1 DEF Removed
<1>3. fds[0].fd = Listener /\ fds[i].fd # Listener /\ fds[i].fd \in Clients
  <2>1. fds[0].fd = Listener /\ (fds[i].fd = fds[0].fd => i = 0) /\ i \in Slot
    BY <1>0 DEF ArrayIsOpen
  <2> QED
    BY <1>0, <2>1
<1>4. \A c \in Clients : side'[c] = IF c = fds[i].fd THEN "closed" ELSE side[c]
  BY <1>0, <1>3 DEF CloseEntry
<1>5. \A k \in 0 .. nfds - 2 : fds'[k] = fds[IF k >= i THEN k + 1 ELSE k]
  BY <1>0, <1>1
<1>6. \A j, k \in 0 .. nfds - 1 : fds[j].fd = fds[k].fd => j = k
  BY DEF ArrayIsOpen
<1>7. fds'[0].fd = Listener
  BY <1>0, <1>3, <1>5
<1>8. ASSUME NEW j \in 0 .. nfds - 2, NEW k \in 0 .. nfds - 2, fds'[j].fd = fds'[k].fd
      PROVE  j = k
  <2> DEFINE J == IF j >= i THEN j + 1 ELSE j
  <2> DEFINE K == IF k >= i THEN k + 1 ELSE k
  <2>1. J \in 0 .. nfds - 1 /\ K \in 0 .. nfds - 1
    BY <1>0
  <2>2. fds[J].fd = fds[K].fd
    BY <1>5, <1>8
  <2>3. J = K
    BY <1>6, <2>1, <2>2
  <2> QED
    BY <1>0, <2>3
<1>9. {fds'[k].fd : k \in 1 .. nfds - 2} = {fds[k].fd : k \in 1 .. nfds - 1} \ {fds[i].fd}
  <2>1. ASSUME NEW k \in 1 .. nfds - 2
        PROVE  \E m \in 1 .. nfds - 1 : m # i /\ fds'[k].fd = fds[m].fd
    <3> DEFINE m == IF k >= i THEN k + 1 ELSE k
    <3>1. m \in 1 .. nfds - 1 /\ m # i
      BY <1>0
    <3>2. fds'[k].fd = fds[m].fd
      BY <1>0, <1>5
    <3> QED
      BY <3>1, <3>2
  <2>2. ASSUME NEW m \in 1 .. nfds - 1, m # i
        PROVE  \E k \in 1 .. nfds - 2 : fds'[k].fd = fds[m].fd
    <3> DEFINE k == IF m > i THEN m - 1 ELSE m
    <3>1. k \in 1 .. nfds - 2 /\ m = IF k >= i THEN k + 1 ELSE k
      BY <1>0, <2>2
    <3>2. fds'[k].fd = fds[m].fd
      BY <1>0, <1>5, <3>1
    <3> QED
      BY <3>1, <3>2
  <2>3. \A m \in 1 .. nfds - 1 : m # i => fds[m].fd # fds[i].fd
    BY <1>0, <1>6
  <2> QED
    BY <2>1, <2>2, <2>3
<1>10. {c \in Clients : side'[c] = "open"} = {c \in Clients : side[c] = "open"} \ {fds[i].fd}
  BY <1>4
<1>11. {fds'[k].fd : k \in 1 .. nfds' - 1} = {c \in Clients : side'[c] = "open"}
  <2>1. {fds[k].fd : k \in 1 .. nfds - 1} = {c \in Clients : side[c] = "open"}
    BY DEF ArrayIsOpen
  <2>2. 1 .. nfds' - 1 = 1 .. nfds - 2
    BY <1>0
  <2> QED
    BY <1>9, <1>10, <2>1, <2>2
<1>12. ArrayIsOpen'
  <2>1. nfds' <= MaxClients + 1 /\ 0 .. nfds' - 1 = 0 .. nfds - 2
    BY <1>0
  <2> QED
    BY <1>7, <1>8, <1>11, <2>1 DEF ArrayIsOpen
<1> QED
  BY <1>0, <1>2, <1>3, <1>4, <1>12 DEF CloseEntry

(* accept fills the entry behind the last one.                             *)
LEMMA AcceptIInv == IInv /\ Accept => IInv'
<1> SUFFICES ASSUME IInv, Accept PROVE IInv'
  OBVIOUS
<1> DEFINE c == Head(backlog)
<1> USE PollServerConstants
<1>0. /\ TypeOK /\ ArrayIsOpen /\ EchoExact /\ Queue /\ Fresh /\ ResetIsLast
      /\ pc = "scan" /\ pc' = "scan" /\ i < nfds /\ i' = i + 1
      /\ nfds \in 1 .. MaxClients + 1 /\ i \in Nat /\ MaxClients \in Nat
      /\ backlog \in Seq(Clients) /\ backlog # <<>> /\ backlog' = Tail(backlog)
      /\ UNCHANGED <<inbox, echoed, reset, client, sent, got>>
  <2>1. /\ pc = "scan" /\ pc' = pc /\ i < nfds /\ i' = i + 1
        /\ backlog # <<>> /\ backlog' = Tail(backlog)
        /\ UNCHANGED <<inbox, echoed, reset, client, sent, got>>
    BY DEF Accept
  <2>2. /\ TypeOK /\ ArrayIsOpen /\ EchoExact /\ Queue /\ Fresh /\ ResetIsLast
        /\ nfds \in 1 .. MaxClients + 1 /\ i \in Nat /\ MaxClients \in Nat
        /\ backlog \in Seq(Clients)
    BY DEF IInv, TypeOK
  <2> QED
    BY <2>1, <2>2
<1>1. /\ c \in Clients /\ Len(backlog) \in Nat /\ 1 \in 1 .. Len(backlog) /\ c = backlog[1]
      /\ backlog' \in Seq(Clients) /\ Len(backlog') = Len(backlog) - 1
      /\ \A k \in 1 .. Len(backlog') : backlog'[k] = backlog[k + 1] /\ backlog[k + 1] \in Clients
  <2>1. Len(backlog) \in Nat /\ Len(backlog) # 0
    BY <1>0, EmptySeq
  <2>2. /\ backlog' \in Seq(Clients) /\ Len(backlog') = Len(backlog) - 1
        /\ \A k \in 1 .. Len(backlog') : backlog'[k] = backlog[k + 1]
    BY <1>0, HeadTailProperties
  <2>3. \A k \in 1 .. Len(backlog) : backlog[k] \in Clients
    BY <1>0
  <2> QED
    BY <1>0, <2>1, <2>2, <2>3
<1> HIDE DEF c
<1>2. side[c] = "queued" /\ c # Listener
  BY <1>0, <1>1 DEF Queue
<1>3. \A k \in 1 .. Len(backlog') : backlog'[k] # c /\ side[backlog'[k]] = "queued"
  <2> SUFFICES ASSUME NEW k \in 1 .. Len(backlog')
               PROVE  backlog'[k] # c /\ side[backlog'[k]] = "queued"
    OBVIOUS
  <2>1. k + 1 \in 1 .. Len(backlog) /\ k + 1 # 1 /\ backlog'[k] = backlog[k + 1]
    BY <1>1
  <2> QED
    BY <1>0, <1>1, <2>1 DEF Queue
<1>4. PICK s \in {"open", "closed"} : side' = [side EXCEPT ![c] = s]
  BY DEF Accept, c
<1>5. \A d \in Clients : side'[d] = IF d = c THEN s ELSE side[d]
  BY <1>0, <1>4 DEF TypeOK
<1>6. side' \in [Clients -> {"none", "queued", "open", "closed"}]
  BY <1>0, <1>4 DEF TypeOK
<1>7. Queue'
  <2>1. \A k \in 1 .. Len(backlog') : side'[backlog'[k]] = "queued"
    BY <1>1, <1>3, <1>5
  <2>2. ASSUME NEW j \in 1 .. Len(backlog'), NEW k \in 1 .. Len(backlog'), backlog'[j] = backlog'[k]
        PROVE  j = k
    <3>1. j + 1 \in 1 .. Len(backlog) /\ k + 1 \in 1 .. Len(backlog) /\ backlog[j + 1] = backlog[k + 1]
      BY <1>1, <2>2
    <3>2. j + 1 = k + 1
      BY <1>0, <3>1 DEF Queue
    <3> QED
      BY <3>2
  <2> QED
    BY <2>1, <2>2 DEF Queue
<1>8. EchoExact'
  BY <1>0, <1>2, <1>5 DEF EchoExact
<1>9. Fresh' /\ ResetIsLast'
  BY <1>0, <1>2, <1>5 DEF Fresh, ResetIsLast
<1>10. TypeOK' /\ ArrayIsOpen'
  <2>1. CASE nfds < MaxClients + 1
    <3>1. fds' = [fds EXCEPT ![nfds].fd = c] /\ nfds' = nfds + 1 /\ side' = [side EXCEPT ![c] = "open"]
      BY <2>1 DEF Accept, c
    <3>2. nfds \in Slot /\ fds \in [Slot -> [fd : Clients \cup {Listener}, revents : BOOLEAN]]
      BY <1>0, <2>1 DEF TypeOK, Slot
    <3>3. fds' \in [Slot -> [fd : Clients \cup {Listener}, revents : BOOLEAN]]
      <4>1. fds[nfds] \in [fd : Clients \cup {Listener}, revents : BOOLEAN]
        BY <3>2
      <4>2. [fds[nfds] EXCEPT !.fd = c] \in [fd : Clients \cup {Listener}, revents : BOOLEAN]
        BY <1>1, <4>1
      <4>3. fds' = [fds EXCEPT ![nfds] = [fds[nfds] EXCEPT !.fd = c]]
        BY <3>1
      <4> QED
        BY <3>2, <4>2, <4>3
    <3>4. TypeOK'
      <4>1. nfds' \in 1 .. MaxClients + 1 /\ i' \in 0 .. MaxClients + 1
        BY <1>0, <2>1, <3>1
      <4> QED
        BY <1>0, <1>1, <1>6, <3>3, <4>1 DEF TypeOK
    <3>5. /\ \A k \in 0 .. nfds - 1 : fds'[k] = fds[k]
          /\ fds'[nfds].fd = c
      BY <1>0, <3>1, <3>2 DEF Slot
    <3>6. /\ \A k \in 0 .. nfds - 1 : fds[k].fd # c
          /\ fds[0].fd = Listener
          /\ {fds[k].fd : k \in 1 .. nfds - 1} = {d \in Clients : side[d] = "open"}
          /\ \A j, k \in 0 .. nfds - 1 : fds[j].fd = fds[k].fd => j = k
      <4>1. /\ fds[0].fd = Listener
            /\ {fds[k].fd : k \in 1 .. nfds - 1} = {d \in Clients : side[d] = "open"}
            /\ \A j, k \in 0 .. nfds - 1 : fds[j].fd = fds[k].fd => j = k
        BY <1>0 DEF ArrayIsOpen
      <4>2. \A k \in 1 .. nfds - 1 : side[fds[k].fd] = "open"
        BY <4>1
      <4> QED
        BY <1>0, <1>2, <4>1, <4>2
    <3>7. \A d \in Clients : side'[d] = IF d = c THEN "open" ELSE side[d]
      BY <1>0, <3>1 DEF TypeOK
    <3>8. {fds'[k].fd : k \in 1 .. nfds' - 1} = {fds[k].fd : k \in 1 .. nfds - 1} \cup {c}
      BY <1>0, <3>1, <3>5, SMTT(30)
    <3>9. {d \in Clients : side'[d] = "open"} = {d \in Clients : side[d] = "open"} \cup {c}
      BY <1>1, <3>7
    <3>10. \A j, k \in 0 .. nfds' - 1 : fds'[j].fd = fds'[k].fd => j = k
      <4>1. \A k \in 0 .. nfds' - 1 : k # nfds => k \in 0 .. nfds - 1 /\ fds'[k].fd = fds[k].fd
        BY <1>0, <3>1, <3>5
      <4>2. \A k \in 0 .. nfds' - 1 : k # nfds => fds'[k].fd # fds'[nfds].fd
        BY <3>5, <3>6, <4>1
      <4> QED
        BY <3>6, <4>1, <4>2
    <3>11. nfds' <= MaxClients + 1 /\ fds'[0].fd = Listener
      BY <1>0, <2>1, <3>1, <3>5, <3>6
    <3> QED
      BY <3>4, <3>6, <3>8, <3>9, <3>10, <3>11 DEF ArrayIsOpen
  <2>2. CASE ~(nfds < MaxClients + 1)
    <3>1. fds' = fds /\ nfds' = nfds /\ side' = [side EXCEPT ![c] = "closed"]
      BY <2>2 DEF Accept, c
    <3>2. TypeOK'
      BY <1>0, <1>1, <1>6, <3>1, SMTT(30) DEF TypeOK
    <3>3. \A d \in Clients : side'[d] = "open" <=> side[d] = "open"
      BY <1>0, <1>2, <3>1 DEF TypeOK
    <3> QED
      BY <1>0, <3>1, <3>2, <3>3 DEF ArrayIsOpen
  <2> QED
    BY <2>1, <2>2
<1> QED
  BY <1>7, <1>8, <1>9, <1>10 DEF IInv

(* What is appended behind the unread part is appended to the whole.       *)
LEMMA StreamsConcat ==
  ASSUME NEW e \in Seq(Piece), NEW a \in Seq(Piece), NEW b \in Seq(Piece)
  PROVE  (e \o a) \o b = e \o (a \o b)
<1>1. e \in Seq(Piece) /\ a \in Seq(Piece) /\ b \in Seq(Piece)
  OBVIOUS
<1> QED
  BY <1>1, ConcatAssociative, SMTT(30)

(* Reading n pieces off a stream and sending them back leaves what is sent *)
(* and what is still to be read together what the client has sent.         *)
LEMMA EchoKeepsStream ==
  ASSUME NEW s \in Seq(Piece), NEW e \in Seq(Piece), NEW n \in 1 .. Len(s)
  PROVE  /\ SubSeq(s, 1, n) \in Seq(Piece) /\ SubSeq(s, n + 1, Len(s)) \in Seq(Piece)
         /\ (e \o SubSeq(s, 1, n)) \o SubSeq(s, n + 1, Len(s)) = e \o s
<1>1. Len(s) \in Nat /\ \A k \in 1 .. Len(s) : s[k] \in Piece
  BY LenProperties
<1>2. SubSeq(s, 1, n) \in Seq(Piece) /\ SubSeq(s, n + 1, Len(s)) \in Seq(Piece)
  BY <1>1, SubSeqProperties
<1>3. SubSeq(s, 1, n) \o SubSeq(s, n + 1, Len(s)) = SubSeq(s, 1, Len(s))
  BY <1>1, ConcatAdjacentSubSeq
<1>4. SubSeq(s, 1, Len(s)) = s
  BY SubSeqFull
<1>5. ASSUME NEW a \in Seq(Piece), NEW b \in Seq(Piece), a \o b = s
      PROVE  (e \o a) \o b = e \o s
  <2>1. (e \o a) \o b = e \o (a \o b)
    BY StreamsConcat
  <2> QED
    BY <1>5, <2>1
<1>6. PICK a, b : a = SubSeq(s, 1, n) /\ b = SubSeq(s, n + 1, Len(s))
  OBVIOUS
<1>7. a \in Seq(Piece) /\ b \in Seq(Piece)
  BY <1>2, <1>6
<1>8. a \o b = s
  BY <1>3, <1>4, <1>6
<1>9. (e \o a) \o b = e \o s
  BY <1>5, <1>7, <1>8
<1> QED
  BY <1>2, <1>6, <1>9

-----------------------------------------------------------------------------
(* The server.                                                             *)

(* Steps that leave every descriptor and every connection as they are.     *)
LEMMA ScanIInv == IInv /\ (Poll \/ Skip \/ ScanEnd \/ AcceptFails) => IInv'
<1> SUFFICES ASSUME IInv, Poll \/ Skip \/ ScanEnd \/ AcceptFails PROVE IInv'
  OBVIOUS
<1>0. /\ TypeOK /\ ArrayIsOpen /\ EchoExact /\ Queue /\ Fresh /\ ResetIsLast
      /\ MaxClients \in Nat
  BY PollServerConstants DEF IInv
<1>1. /\ pc # "dead" /\ pc' \in {"poll", "scan"}
      /\ i' \in 0 .. MaxClients + 1
      /\ UNCHANGED <<nfds, backlog, side, inbox, echoed, reset, client, sent, got>>
  BY <1>0 DEF Poll, Skip, ScanEnd, AcceptFails, TypeOK
<1>2. /\ fds' \in [Slot -> [fd : Clients \cup {Listener}, revents : BOOLEAN]]
      /\ \A k \in Slot : fds'[k].fd = fds[k].fd
  <2>1. CASE Poll
    <3>1. \A k \in Slot : /\ fds[k] \in [fd : Clients \cup {Listener}, revents : BOOLEAN]
                          /\ Readable(fds[k].fd) \in BOOLEAN
      BY <1>0 DEF TypeOK, Readable
    <3>2. \A k \in Slot : [fds[k] EXCEPT !.revents = Readable(fds[k].fd)]
                            \in [fd : Clients \cup {Listener}, revents : BOOLEAN]
      BY <3>1
    <3>3. fds' = [k \in Slot |->
                    IF k \in Polled THEN [fds[k] EXCEPT !.revents = Readable(fds[k].fd)] ELSE fds[k]]
      BY <2>1 DEF Poll
    <3>4. \A k \in Slot : [fds[k] EXCEPT !.revents = Readable(fds[k].fd)].fd = fds[k].fd
      BY <3>1
    <3> QED
      BY <3>1, <3>2, <3>3, <3>4
  <2>2. CASE fds' = fds
    BY <1>0, <2>2 DEF TypeOK
  <2> QED
    BY <2>1, <2>2 DEF Skip, ScanEnd, AcceptFails
<1>3. TypeOK'
  BY <1>0, <1>1, <1>2 DEF TypeOK
<1>4. ArrayIsOpen'
  <2>1. nfds \in 1 .. MaxClients + 1 /\ 0 .. nfds - 1 \subseteq Slot /\ 1 .. nfds - 1 \subseteq Slot /\ 0 \in Slot
    BY <1>0 DEF TypeOK, Slot
  <2>2. {fds'[k].fd : k \in 1 .. nfds - 1} = {fds[k].fd : k \in 1 .. nfds - 1}
    BY <1>2, <2>1
  <2>3. \A j, k \in 0 .. nfds - 1 : fds'[j].fd = fds'[k].fd => j = k
    BY <1>0, <1>1, <1>2, <2>1 DEF ArrayIsOpen
  <2> QED
    BY <1>0, <1>1, <1>2, <2>1, <2>2, <2>3 DEF ArrayIsOpen
<1>5. EchoExact' /\ Queue' /\ Fresh' /\ ResetIsLast'
  BY <1>0, <1>1, ZenonT(30) DEF EchoExact, Queue, Fresh, ResetIsLast
<1> QED
  BY <1>3, <1>4, <1>5 DEF IInv

(* The server ends and takes every connection with it.                     *)
LEMMA EndsIInv == IInv /\ ServerEnds => IInv'
<1> SUFFICES ASSUME IInv, ServerEnds PROVE IInv'
  OBVIOUS
<1>0. TypeOK /\ Fresh /\ ResetIsLast
  BY DEF IInv
<1>1. \A c \in Clients : side'[c] = IF side[c] = "none" THEN "none" ELSE "closed"
  BY DEF ServerEnds
<1>2. TypeOK'
  <2>1. side' \in [Clients -> {"none", "queued", "open", "closed"}]
    BY DEF ServerEnds
  <2> QED
    BY <1>0, <2>1 DEF ServerEnds, TypeOK
<1>3. ArrayIsOpen'
  BY DEF ServerEnds, ArrayIsOpen
<1>4. EchoExact'
  BY <1>1 DEF EchoExact
<1>5. Queue'
  BY EmptySeq DEF ServerEnds, Queue
<1>6. Fresh' /\ ResetIsLast'
  BY <1>0, <1>1 DEF ServerEnds, Fresh, ResetIsLast
<1> QED
  BY <1>2, <1>3, <1>4, <1>5, <1>6 DEF IInv

(* The entry the server reads from is that of an accepted connection.      *)
LEMMA AtClientEntry ==
  ASSUME TypeOK, ArrayIsOpen, AtClient
  PROVE  /\ pc = "scan" /\ i \in 1 .. nfds - 1
         /\ fds[i].fd \in Clients /\ side[fds[i].fd] = "open"
<1>1. pc = "scan" /\ i < nfds /\ fds[i].fd # Listener /\ i \in Nat /\ nfds \in Nat
  BY PollServerConstants DEF AtClient, TypeOK
<1>2. fds[0].fd = Listener
  BY <1>1 DEF ArrayIsOpen
<1>3. i \in 1 .. nfds - 1
  BY <1>1, <1>2
<1>4. fds[i].fd \in {c \in Clients : side[c] = "open"}
  BY <1>1, <1>3 DEF ArrayIsOpen
<1> QED
  BY <1>1, <1>3, <1>4

(* What has been accepted is not in the queue any more.                    *)
LEMMA OpenIsNotQueued ==
  ASSUME TypeOK, Queue, NEW c \in Clients, side[c] = "open"
  PROVE  \A k \in 1 .. Len(backlog) : backlog[k] \in Clients /\ backlog[k] # c
<1>1. backlog \in Seq(Clients)
  BY DEF TypeOK
<1>2. \A k \in 1 .. Len(backlog) : backlog[k] \in Clients
  BY <1>1, ElementOfSeq
<1> QED
  BY <1>2 DEF Queue

(* recv returns the end of a connection, which is closed.                  *)
LEMMA RecvEndIInv == IInv /\ RecvEnd => IInv'
<1> SUFFICES ASSUME IInv, RecvEnd PROVE IInv'
  OBVIOUS
<1>0. /\ TypeOK /\ ArrayIsOpen /\ EchoExact /\ Queue /\ Fresh /\ ResetIsLast
      /\ AtClient /\ CloseEntry /\ pc' = pc
      /\ UNCHANGED <<backlog, inbox, echoed, reset, client, sent, got>>
  BY DEF IInv, RecvEnd
<1>1. /\ pc = "scan" /\ i \in 1 .. nfds - 1 /\ fds[i].fd \in Clients
      /\ side[fds[i].fd] = "open"
  BY <1>0, AtClientEntry
<1>2. PICK c \in Clients : c = fds[i].fd
  BY <1>1
<1>3. /\ fds' \in [Slot -> [fd : Clients \cup {Listener}, revents : BOOLEAN]]
      /\ nfds' \in 1 .. MaxClients + 1 /\ i' \in 0 .. MaxClients + 1
      /\ side' \in [Clients -> {"none", "queued", "open", "closed"}]
      /\ \A d \in Clients : side'[d] = IF d = c THEN "closed" ELSE side[d]
      /\ ArrayIsOpen'
  BY <1>0, <1>1, <1>2, CloseKeepsArray
<1>4. TypeOK'
  BY <1>0, <1>3 DEF TypeOK
<1>5. EchoExact' /\ Fresh' /\ ResetIsLast'
  BY <1>0, <1>1, <1>2, <1>3 DEF EchoExact, Fresh, ResetIsLast
<1>6. Queue'
  <2>1. \A k \in 1 .. Len(backlog) : backlog[k] \in Clients /\ backlog[k] # c
    BY <1>0, <1>1, <1>2, OpenIsNotQueued
  <2> QED
    BY <1>0, <1>3, <2>1 DEF Queue
<1> QED
  BY <1>3, <1>4, <1>5, <1>6 DEF IInv

(* recv returns n pieces, and the server sends them back or fails to.      *)
LEMMA EchoIInv ==
  ASSUME IInv, NEW n \in 1 .. MaxChunk, Echo(n) \/ EchoFails(n)
  PROVE  IInv'
<1>0. /\ TypeOK /\ ArrayIsOpen /\ EchoExact /\ Queue /\ Fresh /\ ResetIsLast
      /\ AtClient /\ n \in 1 .. Len(inbox[fds[i].fd]) /\ pc' = pc
      /\ UNCHANGED <<backlog, client, sent, got>>
  BY DEF IInv, Echo, EchoFails, Recv
<1>1. /\ pc = "scan" /\ i \in 1 .. nfds - 1 /\ fds[i].fd \in Clients
      /\ side[fds[i].fd] = "open" /\ nfds \in 1 .. MaxClients + 1 /\ MaxClients \in Nat
  BY <1>0, AtClientEntry, PollServerConstants DEF TypeOK
<1>2. PICK c \in Clients : c = fds[i].fd
  BY <1>1
<1>3. inbox[c] \in Seq(Piece) /\ echoed[c] \in Seq(Piece) /\ n \in 1 .. Len(inbox[c])
  BY <1>0, <1>2 DEF TypeOK
<1>4. /\ Received(n) \in Seq(Piece) /\ SubSeq(inbox[c], n + 1, Len(inbox[c])) \in Seq(Piece)
      /\ (echoed[c] \o Received(n)) \o SubSeq(inbox[c], n + 1, Len(inbox[c])) = echoed[c] \o inbox[c]
  BY <1>2, <1>3, EchoKeepsStream DEF Received
<1>5. /\ inbox' = [inbox EXCEPT ![c] = SubSeq(@, n + 1, Len(@))]
      /\ inbox' \in [Clients -> Seq(Piece)]
      /\ inbox'[c] = SubSeq(inbox[c], n + 1, Len(inbox[c]))
      /\ \A d \in Clients : d # c => inbox'[d] = inbox[d]
  <2>1. inbox' = [inbox EXCEPT ![c] = SubSeq(@, n + 1, Len(@))]
    BY <1>2 DEF Echo, EchoFails, Recv
  <2>2. inbox \in [Clients -> Seq(Piece)]
    BY <1>0 DEF TypeOK
  <2> QED
    BY <1>4, <2>1, <2>2
<1>6. /\ fds' \in [Slot -> [fd : Clients \cup {Listener}, revents : BOOLEAN]]
      /\ nfds' \in 1 .. MaxClients + 1 /\ i' \in 0 .. MaxClients + 1
      /\ side' \in [Clients -> {"none", "queued", "open", "closed"}]
      /\ side'[c] \in {"open", "closed"}
      /\ \A d \in Clients : d # c => side'[d] = side[d]
      /\ ArrayIsOpen'
  <2>1. CASE CloseEntry
    BY <1>0, <1>1, <1>2, <2>1, CloseKeepsArray
  <2>2. CASE i' = i + 1 /\ UNCHANGED <<fds, nfds, side>>
    <3>1. ArrayIsOpen'
      BY <1>0, <2>2 DEF ArrayIsOpen
    <3>2. i' \in 0 .. MaxClients + 1
      BY <1>1, <2>2
    <3> QED
      BY <1>0, <1>1, <1>2, <2>2, <3>1, <3>2 DEF TypeOK
  <2> QED
    BY <2>1, <2>2 DEF Echo, EchoFails, Recv
<1>7. Queue'
  <2>1. \A k \in 1 .. Len(backlog) : backlog[k] \in Clients /\ backlog[k] # c
    BY <1>0, <1>1, <1>2, OpenIsNotQueued
  <2> QED
    BY <1>0, <1>6, <2>1 DEF Queue
<1>8. client[c] # "new"
  BY <1>0, <1>1, <1>2 DEF Fresh
<1>9. CASE Echo(n)
  <2>1. /\ reset[c] \in {"no", "coming"}
        /\ echoed' = [echoed EXCEPT ![c] = @ \o Received(n)]
        /\ reset' = [reset EXCEPT ![c] = IF client[c] = "gone" THEN "coming" ELSE @]
    BY <1>2, <1>9 DEF Echo, SentBack
  <2>2. echoed \in [Clients -> Seq(Piece)] /\ reset \in [Clients -> {"no", "coming", "here", "spent"}]
    BY <1>0 DEF TypeOK
  <2>3. echoed[c] \o Received(n) \in Seq(Piece)
    BY <1>3, <1>4, ConcatProperties
  <2>4. /\ echoed' \in [Clients -> Seq(Piece)] /\ reset' \in [Clients -> {"no", "coming", "here", "spent"}]
        /\ echoed'[c] = echoed[c] \o Received(n)
        /\ \A d \in Clients : d # c => echoed'[d] = echoed[d] /\ reset'[d] = reset[d]
        /\ reset'[c] = IF client[c] = "gone" THEN "coming" ELSE reset[c]
    BY <2>1, <2>2, <2>3
  <2>5. TypeOK'
    BY <1>0, <1>5, <1>6, <2>4 DEF TypeOK
  <2>6. EchoExact'
    <3>1. sent[c] = echoed[c] \o inbox[c]
      BY <1>0, <1>1, <1>2, <2>1 DEF EchoExact
    <3>2. sent'[c] = echoed'[c] \o inbox'[c]
      BY <1>0, <1>4, <1>5, <2>4, <3>1
    <3> QED
      BY <1>0, <1>5, <1>6, <2>4, <3>2 DEF EchoExact
  <2>7. Fresh' /\ ResetIsLast'
    BY <1>0, <1>5, <1>6, <1>8, <2>4, ZenonT(30) DEF Fresh, ResetIsLast
  <2> QED
    BY <1>6, <1>7, <2>5, <2>6, <2>7 DEF IInv
<1>10. CASE EchoFails(n)
  <2>1. /\ reset[c] = "here" /\ reset' = [reset EXCEPT ![c] = "spent"] /\ echoed' = echoed
    BY <1>2, <1>10 DEF EchoFails
  <2>2. /\ reset' \in [Clients -> {"no", "coming", "here", "spent"}]
        /\ \A d \in Clients : reset'[d] = IF d = c THEN "spent" ELSE reset[d]
    BY <1>0, <2>1 DEF TypeOK
  <2>3. TypeOK'
    BY <1>0, <1>5, <1>6, <2>1, <2>2 DEF TypeOK
  <2>4. EchoExact'
    BY <1>0, <1>5, <1>6, <2>1, <2>2 DEF EchoExact
  <2>5. Fresh' /\ ResetIsLast'
    BY <1>0, <1>5, <1>6, <1>8, <2>1, <2>2 DEF Fresh, ResetIsLast
  <2> QED
    BY <1>6, <1>7, <2>3, <2>4, <2>5 DEF IInv
<1> QED
  BY <1>9, <1>10

-----------------------------------------------------------------------------
(* The clients.                                                            *)

(* A client connects, and is queued.                                       *)
LEMMA ConnectIInv ==
  ASSUME IInv, NEW c \in Clients, Connect(c)
  PROVE  IInv'
<1>0. /\ TypeOK /\ ArrayIsOpen /\ EchoExact /\ Queue /\ Fresh /\ ResetIsLast
      /\ client[c] = "new" /\ backlog \in Seq(Clients)
      /\ UNCHANGED <<fds, nfds, pc, i, inbox, echoed, reset, sent, got>>
  BY DEF IInv, TypeOK, Connect, IsNext, server
<1>1. /\ backlog' \in Seq(Clients) /\ Len(backlog') = Len(backlog) + 1 /\ Len(backlog) \in Nat
      /\ \A k \in 1 .. Len(backlog) : backlog'[k] = backlog[k] /\ backlog[k] \in Clients
      /\ backlog'[Len(backlog) + 1] = c
  <2>1. backlog' = Append(backlog, c)
    BY DEF Connect
  <2> QED
    BY <1>0, <2>1, AppendProperties, LenProperties, ElementOfSeq
<1>2. /\ \A d \in Clients : side'[d] = IF d = c THEN "queued" ELSE side[d]
      /\ \A d \in Clients : client'[d] = IF d = c THEN "typing" ELSE client[d]
      /\ side' \in [Clients -> {"none", "queued", "open", "closed"}]
      /\ client' \in [Clients -> {"new", "typing", "waiting", "gone"}]
  BY <1>0 DEF Connect, TypeOK
<1>3. side[c] = "none" /\ sent[c] = <<>> /\ echoed[c] = <<>> /\ inbox[c] = <<>>
  BY <1>0 DEF Fresh
<1>4. TypeOK'
  BY <1>0, <1>1, <1>2 DEF TypeOK
<1>5. ArrayIsOpen'
  BY <1>0, <1>2, <1>3 DEF ArrayIsOpen
<1>6. EchoExact'
  <2>1. sent[c] = echoed[c] \o inbox[c]
    BY <1>0, <1>3, ConcatEmptySeq DEF TypeOK
  <2> QED
    BY <1>0, <1>2, <2>1 DEF EchoExact
<1>7. Queue'
  <2>1. \A k \in 1 .. Len(backlog) : backlog[k] # c /\ side[backlog[k]] = "queued"
    BY <1>0, <1>3 DEF Queue
  <2>2. \A k \in 1 .. Len(backlog') : side'[backlog'[k]] = "queued"
    BY <1>1, <1>2, <2>1
  <2>3. \A j, k \in 1 .. Len(backlog') : backlog'[j] = backlog'[k] => j = k
    BY <1>0, <1>1, <2>1 DEF Queue
  <2> QED
    BY <2>2, <2>3 DEF Queue
<1>8. Fresh' /\ ResetIsLast'
  BY <1>0, <1>2 DEF Fresh, ResetIsLast
<1> QED
  BY <1>4, <1>5, <1>6, <1>7, <1>8 DEF IInv

(* The user types a line, which joins what the client has sent and, while  *)
(* the connection is there, what the server has still to read.             *)
LEMMA TypeIInv ==
  ASSUME IInv, NEW c \in Clients, NEW m \in Message, Type(c, m)
  PROVE  IInv'
<1>0. /\ TypeOK /\ ArrayIsOpen /\ EchoExact /\ Queue /\ Fresh /\ ResetIsLast
      /\ client[c] = "typing" /\ reset[c] = "no"
      /\ UNCHANGED <<fds, nfds, pc, i, backlog, side, echoed, got>>
  BY DEF IInv, TypeOK, ResetIsLast, Type, server
<1>1. Pieces(m) \in Seq(Piece)
  BY DEF Pieces, Piece
<1>2. /\ sent \in [Clients -> Seq(Piece)] /\ inbox \in [Clients -> Seq(Piece)]
      /\ echoed \in [Clients -> Seq(Piece)]
  BY <1>0 DEF TypeOK
<1>3. sent[c] \o Pieces(m) \in Seq(Piece) /\ inbox[c] \o Pieces(m) \in Seq(Piece)
  BY <1>1, <1>2, ConcatProperties
<1>4. /\ sent' \in [Clients -> Seq(Piece)] /\ inbox' \in [Clients -> Seq(Piece)]
      /\ sent'[c] = sent[c] \o Pieces(m)
      /\ side[c] # "closed" => inbox'[c] = inbox[c] \o Pieces(m)
      /\ \A d \in Clients : d # c => sent'[d] = sent[d] /\ inbox'[d] = inbox[d]
  BY <1>2, <1>3 DEF Type
<1>5. /\ client' \in [Clients -> {"new", "typing", "waiting", "gone"}]
      /\ reset' \in [Clients -> {"no", "coming", "here", "spent"}]
      /\ client'[c] \in {"waiting", "gone"} /\ reset'[c] \in {"no", "coming"}
      /\ reset'[c] # "no" => client'[c] = "gone"
      /\ \A d \in Clients : d # c => client'[d] = client[d] /\ reset'[d] = reset[d]
  BY <1>0 DEF Type, Leave, TypeOK
<1>6. TypeOK'
  BY <1>0, <1>4, <1>5 DEF TypeOK
<1>7. ArrayIsOpen' /\ Queue' /\ Fresh' /\ ResetIsLast'
  <2>1. ArrayIsOpen' /\ Queue'
    BY <1>0 DEF ArrayIsOpen, Queue
  <2>2. Fresh'
    BY <1>0, <1>4, <1>5 DEF Fresh
  <2>3. ResetIsLast'
    BY <1>0, <1>5 DEF ResetIsLast
  <2> QED
    BY <2>1, <2>2, <2>3
<1>8. EchoExact'
  <2>1. (echoed[c] \o inbox[c]) \o Pieces(m) = echoed[c] \o (inbox[c] \o Pieces(m))
    BY <1>1, <1>2, StreamsConcat, SMTT(30)
  <2>2. side[c] \in {"queued", "open"} => sent[c] = echoed[c] \o inbox[c]
    BY <1>0 DEF EchoExact
  <2>3. side[c] \in {"queued", "open"} => sent'[c] = echoed[c] \o inbox'[c]
    BY <1>4, <2>1, <2>2
  <2> QED
    BY <1>0, <1>4, <1>5, <2>3 DEF EchoExact
<1> QED
  BY <1>6, <1>7, <1>8 DEF IInv

(* The other steps of a client and of its RST.                             *)
LEMMA ClientIInv ==
  ASSUME IInv, NEW c \in Clients,
         \/ ConnectFails(c) \/ ReceiveEnd(c) \/ Interrupt(c) \/ ResetArrives(c)
         \/ \E n \in 1 .. MaxChunk : Receive(c, n)
  PROVE  IInv'
<1>0. /\ TypeOK /\ ArrayIsOpen /\ EchoExact /\ Queue /\ Fresh /\ ResetIsLast
      /\ UNCHANGED <<fds, nfds, pc, i, backlog, side, inbox, echoed, sent>>
  BY DEF IInv, ConnectFails, ReceiveEnd, Interrupt, ResetArrives, Receive, server
<1>1. /\ client' \in [Clients -> {"new", "typing", "waiting", "gone"}]
      /\ reset' \in [Clients -> {"no", "coming", "here", "spent"}]
      /\ client'[c] = "new" => client[c] = "new"
      /\ reset'[c] \in {"no", "coming"} => reset[c] \in {"no", "coming"}
      /\ reset'[c] # "no" => client'[c] = "gone"
      /\ \A d \in Clients : d # c => client'[d] = client[d] /\ reset'[d] = reset[d]
  <2>1. CASE ConnectFails(c)
    BY <1>0, <2>1 DEF ConnectFails, TypeOK, ResetIsLast
  <2>2. CASE ReceiveEnd(c) \/ Interrupt(c)
    BY <1>0, <2>2 DEF ReceiveEnd, Interrupt, Leave, TypeOK, ResetIsLast
  <2>3. CASE ResetArrives(c)
    BY <1>0, <2>3 DEF ResetArrives, TypeOK, ResetIsLast
  <2>4. CASE \E n \in 1 .. MaxChunk : Receive(c, n)
    BY <1>0, <2>4 DEF Receive, TypeOK, ResetIsLast
  <2> QED
    BY <2>1, <2>2, <2>3, <2>4
<1>2. got' \in [Clients -> Nat]
  <2>1. ASSUME NEW n \in 1 .. MaxChunk, Receive(c, n)
        PROVE  got' \in [Clients -> Nat]
    BY <1>0, <2>1, PollServerConstants DEF Receive, TypeOK
  <2> QED
    BY <1>0, <2>1 DEF ConnectFails, ReceiveEnd, Interrupt, ResetArrives, TypeOK
<1>3. TypeOK'
  BY <1>0, <1>1, <1>2 DEF TypeOK
<1>4. ArrayIsOpen' /\ Queue' /\ Fresh' /\ ResetIsLast'
  BY <1>0, <1>1 DEF ArrayIsOpen, Queue, Fresh, ResetIsLast
<1>5. EchoExact'
  BY <1>0, <1>1 DEF EchoExact
<1> QED
  BY <1>3, <1>4, <1>5 DEF IInv

-----------------------------------------------------------------------------
(* No client has connected; the array's first entry is the listening       *)
(* socket, and the others may hold any revents.                            *)
LEMMA InitIInv == Init => IInv
<1> SUFFICES ASSUME Init PROVE IInv
  OBVIOUS
<1> USE PollServerConstants
<1>1. /\ fds \in [Slot -> [fd : {Listener}, revents : BOOLEAN]] /\ 0 \in Slot
      /\ nfds = 1 /\ MaxClients \in Nat /\ pc = "poll" /\ i = 0 /\ backlog = <<>>
      /\ side = [c \in Clients |-> "none"]
  BY DEF Init, Slot
<1>2. fds \in [Slot -> [fd : Clients \cup {Listener}, revents : BOOLEAN]] /\ fds[0].fd = Listener
  <2>1. \A k \in Slot : /\ fds[k] \in [fd : {Listener}, revents : BOOLEAN]
                        /\ fds[k] \in [fd : Clients \cup {Listener}, revents : BOOLEAN]
    BY <1>1
  <2> QED
    BY <1>1, <2>1
<1>3. TypeOK
  BY <1>1, <1>2, EmptySeq DEF Init, TypeOK
<1>4. ArrayIsOpen
  <2>1. {fds[k].fd : k \in 1 .. nfds - 1} = {} /\ {c \in Clients : side[c] = "open"} = {}
    BY <1>1
  <2> QED
    BY <1>1, <1>2, <2>1 DEF ArrayIsOpen
<1>5. EchoExact /\ Queue /\ Fresh /\ ResetIsLast
  BY EmptySeq DEF Init, EchoExact, Queue, Fresh, ResetIsLast
<1> QED
  BY <1>3, <1>4, <1>5 DEF IInv

(* Every step keeps the invariant.                                         *)
LEMMA StepIInv == IInv /\ [Next]_vars => IInv'
<1> SUFFICES ASSUME IInv, [Next]_vars PROVE IInv'
  OBVIOUS
<1>1. CASE Serve
  BY <1>1, ScanIInv, EndsIInv, AcceptIInv, RecvEndIInv, EchoIInv DEF Serve, PollFails, EchoDies
<1>2. ASSUME NEW c \in Clients, Client(c) \/ ResetArrives(c) PROVE IInv'
  BY <1>2, ConnectIInv, TypeIInv, ClientIInv DEF Client
<1>3. CASE UNCHANGED vars
  BY <1>3 DEF vars, IInv, TypeOK, ArrayIsOpen, EchoExact, Queue, Fresh, ResetIsLast
<1> QED
  BY <1>1, <1>2, <1>3 DEF Next

(* The invariant holds from the start and is kept.                         *)
LEMMA Invariance == Spec => []IInv
BY InitIInv, StepIInv, PTL DEF Spec

(* No index leaves the array, for every MAX_CLIENTS.                       *)
THEOREM TypeCorrect == Spec => []TypeOK
<1>1. IInv => TypeOK
  BY DEF IInv
<1> QED
  BY <1>1, Invariance, PTL

(* The array and the set of open connections are the same after every      *)
(* accept and every removal, in whatever order they come.                  *)
THEOREM ArrayIsExact == Spec => []ArrayIsOpen
<1>1. IInv => ArrayIsOpen
  BY DEF IInv
<1> QED
  BY <1>1, Invariance, PTL

(* Every byte comes back once and in order, however TCP cuts the stream    *)
(* and however much recv returns at a time.                                *)
THEOREM EchoIsExact == Spec => []EchoExact
<1>1. IInv => EchoExact
  BY DEF IInv
<1> QED
  BY <1>1, Invariance, PTL

=============================================================================
