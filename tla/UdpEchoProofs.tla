----------------------------- MODULE UdpEchoProofs -----------------------------
(***************************************************************************)
(* What the UDP echo server and its clients keep true whatever the network *)
(* does, for every set of clients, buffer size and number of datagrams,    *)
(* losses, duplicates and failing calls.                                   *)
(***************************************************************************)
EXTENDS UdpEcho, TLAPS

(* The two parts of the network are bags of finitely many copies.          *)
NetIsBags == IsABag(toServer) /\ IsABag(toClient)

(* A line typed was sent, or a call failed.                                *)
Counted == \A c \in Clients : typed[c] <= sent[c] + faults.error

(* Every typed line leaves room for the terminating zero of who receives it*)
(* when it is on its way.                                                  *)
Short == \A d \in InFlight : Fits(d.text)

(* Every datagram, on its way or at the server, and every buffer holds a   *)
(* line of the client it belongs to.                                       *)
OwnLines ==
  /\ \A d \in InFlight \cup {request} : d.text.line[1] = d.client
  /\ \A c \in Clients : buffer[c].line[1] = c /\ last[c][1] = c

(* d is part of an exchange its client waits for the end of.               *)
Current(d) == client[d.client] = "waiting" /\ d.text.line = last[d.client]

(* One copy of one datagram per client.                                    *)
OneEach(B) ==
  /\ \A d \in BagToSet(B) : B[d] = 1
  /\ \A d, e \in BagToSet(B) : d.client = e.client => d = e

(* Without duplicates and failing calls a client's line is in one place at *)
(* most: on its way to the server, at the server or on its way back, and   *)
(* nowhere when the client types.                                          *)
OneExchange ==
  faults.dup = 0 /\ faults.error = 0 =>
    /\ \A d \in InFlight : Current(d)
    /\ OneEach(toServer) /\ OneEach(toClient)
    /\ \A d \in BagToSet(toServer), e \in BagToSet(toClient) : d.client # e.client
    /\ pc = "send" => Current(request) /\ \A d \in InFlight : d.client # request.client

(* The inductive invariant.                                                *)
IInv ==
  /\ TypeOK /\ NetIsBags /\ Counted
  /\ TerminatorFits /\ Short
  /\ OwnReplies /\ OwnLines
  /\ InStep /\ OneExchange

-----------------------------------------------------------------------------
(* One datagram more on its way.                                           *)
LEMMA SentBag ==
  ASSUME NEW B, IsABag(B), NEW d
  PROVE  /\ IsABag(Sent(B, d))
         /\ BagToSet(Sent(B, d)) = BagToSet(B) \cup {d}
         /\ \A e \in BagToSet(B) : e # d => Sent(B, d)[e] = B[e]
         /\ d \notin BagToSet(B) => Sent(B, d)[d] = 1
<1>1. \A e \in DOMAIN B : B[e] \in Nat /\ B[e] > 0
  BY DEF IsABag
<1>2. Sent(B, d) = [e \in DOMAIN B \cup {d} |->
                      (IF e \in DOMAIN B THEN B[e] ELSE 0) + (IF e \in {d} THEN 1 ELSE 0)]
  BY DEF Sent, SetToBag, (+)
<1>3. BagToSet(Sent(B, d)) = BagToSet(B) \cup {d}
  BY <1>2 DEF BagToSet
<1>4. \A e \in DOMAIN B \cup {d} : Sent(B, d)[e] \in {n \in Nat : n > 0}
  BY <1>1, <1>2
<1>5. IsABag(Sent(B, d))
  BY <1>2, <1>4 DEF IsABag
<1>6. \A e \in BagToSet(B) : e # d => Sent(B, d)[e] = B[e]
  BY <1>1, <1>2 DEF BagToSet
<1>7. d \notin BagToSet(B) => Sent(B, d)[d] = 1
  BY <1>2 DEF BagToSet
<1> QED
  BY <1>3, <1>5, <1>6, <1>7

(* One datagram less, and none of its kind if there was one.               *)
LEMMA TakenBag ==
  ASSUME NEW B, IsABag(B), NEW d, BagIn(d, B)
  PROVE  /\ IsABag(Taken(B, d))
         /\ BagToSet(Taken(B, d)) \subseteq BagToSet(B)
         /\ \A e \in BagToSet(Taken(B, d)) : e # d => Taken(B, d)[e] = B[e]
         /\ B[d] = 1 => BagToSet(Taken(B, d)) = BagToSet(B) \ {d}
<1>1. \A e \in DOMAIN B : B[e] \in Nat /\ B[e] > 0
  BY DEF IsABag
<1> DEFINE Less == [e \in DOMAIN B |-> IF e \in {d} THEN B[e] - 1 ELSE B[e]]
<1>2. Taken(B, d) = [e \in {f \in DOMAIN B : Less[f] > 0} |-> Less[e]]
  BY DEF Taken, SetToBag, (-)
<1>3. \A e \in DOMAIN B : Less[e] = IF e = d THEN B[e] - 1 ELSE B[e]
  OBVIOUS
<1> HIDE DEF Less
<1>4. \A e \in DOMAIN B : Less[e] \in Nat
  BY <1>1, <1>3
<1>5. IsABag(Taken(B, d))
  BY <1>2, <1>4 DEF IsABag
<1>6. BagToSet(Taken(B, d)) = {f \in DOMAIN B : Less[f] > 0}
  BY <1>2 DEF BagToSet
<1>7. \A e \in BagToSet(Taken(B, d)) : e # d => Taken(B, d)[e] = B[e]
  BY <1>2, <1>3, <1>6
<1>8. B[d] = 1 => BagToSet(Taken(B, d)) = BagToSet(B) \ {d}
  BY <1>1, <1>3, <1>6 DEF BagToSet
<1> QED
  BY <1>5, <1>6, <1>7, <1>8 DEF BagToSet

-----------------------------------------------------------------------------
(* Each kind of fault has its counter.                                     *)
LEMMA FaultCounts ==
  ASSUME TypeOK
  PROVE  /\ Fault("error", MaxErrors) =>
              /\ faults.error < MaxErrors /\ faults'.error = faults.error + 1
              /\ faults'.dup = faults.dup /\ faults'.lost = faults.lost
         /\ Fault("dup", MaxDup) =>
              /\ faults.dup < MaxDup /\ faults'.dup = faults.dup + 1
              /\ faults'.error = faults.error /\ faults'.lost = faults.lost
         /\ Fault("lost", MaxLost) =>
              /\ faults.lost < MaxLost /\ faults'.lost = faults.lost + 1
              /\ faults'.error = faults.error /\ faults'.dup = faults.dup
         /\ Fault("error", MaxErrors) \/ Fault("dup", MaxDup) \/ Fault("lost", MaxLost) =>
              faults' \in [lost : 0 .. MaxLost, dup : 0 .. MaxDup, error : 0 .. MaxErrors]
BY UdpEchoConstants DEF Fault, TypeOK

(* recvfrom keeps the line, and a length that fits.                        *)
LEMMA CutText ==
  ASSUME NEW text \in Text
  PROVE  /\ Cut(text) \in Text /\ Cut(text).line = text.line
         /\ Fits(text) => Fits(Cut(text))
<1>1. BufferSize \in Length
  BY UdpEchoConstants DEF Length, TooLong
<1>2. Cut(text) = [line |-> text.line, len |-> IF text.len > BufferSize THEN BufferSize ELSE text.len]
  BY DEF Cut, Text
<1> QED
  BY <1>1, <1>2, UdpEchoConstants DEF Text, Fits, Length, TooLong

(* What a step of the network or of a receiver takes away was there.       *)
LEMMA LessInFlight ==
  ASSUME NetIsBags, NEW d
  PROVE  /\ BagIn(d, toServer) /\ toServer' = Taken(toServer, d) /\ UNCHANGED toClient =>
              NetIsBags' /\ InFlight' \subseteq InFlight /\ d \in InFlight
         /\ BagIn(d, toClient) /\ toClient' = Taken(toClient, d) /\ UNCHANGED toServer =>
              NetIsBags' /\ InFlight' \subseteq InFlight /\ d \in InFlight
BY TakenBag DEF NetIsBags, InFlight, BagIn

(* What is sent is on its way.                                             *)
LEMMA MoreInFlight ==
  ASSUME NetIsBags, NEW d
  PROVE  /\ toServer' = Sent(toServer, d) /\ UNCHANGED toClient =>
              NetIsBags' /\ InFlight' = InFlight \cup {d}
         /\ toClient' = Sent(toClient, d) /\ UNCHANGED toServer =>
              NetIsBags' /\ InFlight' = InFlight \cup {d}
BY SentBag DEF NetIsBags, InFlight

(* Nothing is on its way, and what the buffers hold is nobody else's.      *)
LEMMA InitIInv == Init => IInv
<1> SUFFICES ASSUME Init PROVE IInv
  OBVIOUS
<1> USE UdpEchoConstants
<1>1. \A c \in Clients : buffer[c] \in Text /\ buffer[c].line = <<c, 0>> /\ <<c, 0>> \in Line
  BY DEF Init, Uninitialised, Text, Line
<1>2. PICK c \in Clients : request = [client |-> c, text |-> [line |-> <<c, 0>>, len |-> 0]]
  BY DEF Init
<1>2a. request \in Datagram /\ request.client = c /\ request.text.line = <<c, 0>>
  BY <1>1, <1>2 DEF Datagram, Text, Length, TooLong
<1>3. BagToSet(toServer) = {} /\ BagToSet(toClient) = {} /\ InFlight = {}
  BY DEF Init, EmptyBag, SetToBag, BagToSet, InFlight
<1>4. TypeOK
  <2>1. buffer \in [Clients -> Text]
    BY <1>1 DEF Init
  <2> QED
    BY <1>1, <1>2a, <1>3, <2>1 DEF Init, TypeOK
<1>5. NetIsBags
  BY DEF Init, NetIsBags, EmptyBag, SetToBag, IsABag
<1>6. Counted /\ TerminatorFits /\ Short
  BY <1>1, <1>2a, <1>3 DEF Init, Counted, TerminatorFits, Short, Fits
<1>7. OwnReplies /\ OwnLines
  BY <1>1, <1>2a, <1>3 DEF Init, OwnReplies, OwnLines
<1>8. InStep /\ OneExchange
  BY <1>3 DEF Init, InStep, OneExchange, OneEach
<1> QED
  BY <1>4, <1>5, <1>6, <1>7, <1>8 DEF IInv

(* A client sends a line of its own that leaves room for the zero, or what *)
(* is in its buffer although nothing was typed.                            *)
LEMMA SendTextIInv ==
  ASSUME IInv, NEW c \in Clients, client[c] = "typing", sent[c] < MaxSent,
         NEW text \in Text, text.line[1] = c, Fits(text), SendText(c, text),
         \/ typed' = [typed EXCEPT ![c] = @ + 1]
         \/ typed' = typed,
         UNCHANGED <<toClient, server, shown, faults>>
  PROVE  IInv'
<1> DEFINE d == [client |-> c, text |-> text]
<1> USE UdpEchoConstants
<1>0. /\ TypeOK /\ NetIsBags /\ Counted /\ TerminatorFits /\ Short
      /\ OwnReplies /\ OwnLines /\ InStep /\ OneExchange
  BY DEF IInv
<1>1. /\ toServer' = Sent(toServer, d) /\ toClient' = toClient
      /\ pc' = pc /\ request' = request
      /\ \A e \in Clients : /\ buffer'[e] = IF e = c THEN text ELSE buffer[e]
                            /\ last'[e] = IF e = c THEN text.line ELSE last[e]
                            /\ sent'[e] = IF e = c THEN sent[e] + 1 ELSE sent[e]
                            /\ client'[e] = IF e = c THEN "waiting" ELSE client[e]
  BY <1>0 DEF SendText, Outgoing, TypeOK, server
<1>2. NetIsBags' /\ InFlight' = InFlight \cup {d}
  BY <1>0, <1>1, MoreInFlight
<1>3. d \in Datagram /\ d.client = c /\ d.text = text
  BY DEF Datagram
<1> HIDE DEF d
<1>4. Counted'
  BY <1>0, <1>1 DEF Counted, TypeOK
<1>5. TypeOK'
  <2>1. typed[c] + 1 \in 0 .. MaxSent + MaxErrors /\ sent[c] + 1 \in 0 .. MaxSent
    BY <1>0 DEF TypeOK, Counted
  <2>2. typed' \in [Clients -> 0 .. MaxSent + MaxErrors] /\ sent' \in [Clients -> 0 .. MaxSent]
    BY <1>0, <2>1 DEF TypeOK, SendText
  <2>3. text.line \in Line
    BY DEF Text
  <2>4. /\ buffer' \in [Clients -> Text] /\ last' \in [Clients -> Line]
        /\ client' \in [Clients -> {"typing", "waiting"}]
    BY <1>0, <2>3 DEF TypeOK, SendText
  <2> QED
    BY <1>0, <1>1, <1>2, <1>3, <2>2, <2>4 DEF TypeOK
<1>6. TerminatorFits' /\ Short'
  BY <1>0, <1>1, <1>2, <1>3 DEF TerminatorFits, Short
<1>7. OwnReplies' /\ OwnLines'
  BY <1>0, <1>1, <1>2, <1>3 DEF OwnReplies, OwnLines
<1>8. InStep'
  BY <1>0, <1>1 DEF InStep
<1>9. OneExchange'
  <2> SUFFICES ASSUME faults.dup = 0, faults.error = 0
               PROVE  /\ \A e \in InFlight' : Current(e)'
                      /\ OneEach(toServer') /\ OneEach(toClient')
                      /\ \A e \in BagToSet(toServer'), f \in BagToSet(toClient') : e.client # f.client
                      /\ pc' = "send" => Current(request)' /\ \A e \in InFlight' : e.client # request'.client
    BY DEF OneExchange
  <2>1. /\ \A e \in InFlight : Current(e) /\ e.client # c /\ e.client \in Clients
        /\ pc = "send" => Current(request) /\ request.client # c
        /\ request.client \in Clients
        /\ OneEach(toServer) /\ OneEach(toClient)
    BY <1>0 DEF OneExchange, Current, TypeOK, Datagram
  <2>2. /\ \A e : e.client \in Clients /\ e.client # c => (Current(e)' <=> Current(e))
        /\ Current(d)'
    BY <1>1, <1>3 DEF Current
  <2>3. /\ BagToSet(toServer') = BagToSet(toServer) \cup {d} /\ d \notin BagToSet(toServer)
        /\ \A e \in BagToSet(toServer) : toServer'[e] = toServer[e]
        /\ toServer'[d] = 1
    <3>1. d \notin BagToSet(toServer)
      BY <2>1, <1>3 DEF InFlight
    <3> QED
      BY <3>1, <1>0, <1>1, SentBag DEF NetIsBags
  <2>4. OneEach(toServer') /\ OneEach(toClient')
    BY <2>1, <2>3, <1>1, <1>3 DEF OneEach, InFlight
  <2>5. \A e \in BagToSet(toServer'), f \in BagToSet(toClient') : e.client # f.client
    BY <2>1, <2>3, <1>0, <1>1, <1>3 DEF OneExchange, InFlight
  <2> QED
    BY <2>1, <2>2, <2>4, <2>5, <1>0, <1>1, <1>2, <1>3 DEF OneExchange
<1> QED
  BY <1>2, <1>4, <1>5, <1>6, <1>7, <1>8, <1>9 DEF IInv

(* A failing call of a client or of the server, or a duplicate: from then  *)
(* on nothing is said of exchanges.                                        *)
LEMMA Excused ==
  ASSUME TypeOK, Fault("error", MaxErrors) \/ Fault("dup", MaxDup)
  PROVE  InStep' /\ OneExchange'
<1>1. faults'.error # 0 \/ faults'.dup # 0
  BY FaultCounts, UdpEchoConstants DEF TypeOK
<1> QED
  BY <1>1 DEF InStep, OneExchange

(* The calls of a client that fail.                                        *)
LEMMA ClientFailsIInv ==
  ASSUME IInv, NEW c \in Clients, SendFails(c) \/ ReceiveFails(c)
  PROVE  IInv'
<1> USE UdpEchoConstants
<1>0. /\ TypeOK /\ NetIsBags /\ Counted /\ TerminatorFits /\ Short
      /\ OwnReplies /\ OwnLines
      /\ Fault("error", MaxErrors)
  BY DEF IInv, SendFails, ReceiveFails
<1>1. /\ faults.error < MaxErrors /\ faults'.error = faults.error + 1
      /\ faults' \in [lost : 0 .. MaxLost, dup : 0 .. MaxDup, error : 0 .. MaxErrors]
  BY <1>0, FaultCounts
<1>2. InStep' /\ OneExchange'
  BY <1>0, Excused
<1>3. /\ toServer' = toServer /\ toClient' = toClient /\ InFlight' = InFlight /\ NetIsBags'
      /\ pc' = pc /\ request' = request /\ sent' = sent /\ last' = last /\ shown' = shown
  BY <1>0 DEF SendFails, ReceiveFails, net, server, InFlight, NetIsBags
<1>4. CASE SendFails(c)
  <2>0. client' = client
    BY <1>4 DEF SendFails
  <2>1. CASE UNCHANGED <<typed, buffer>>
    BY <1>0, <1>1, <1>2, <1>3, <2>0, <2>1 DEF IInv, TypeOK, Counted, TerminatorFits, Short, OwnReplies, OwnLines
  <2>2. CASE ~UNCHANGED <<typed, buffer>>
    <3>1. PICK text \in TypedLine(c) :
            /\ typed' = [typed EXCEPT ![c] = @ + 1]
            /\ buffer' = [buffer EXCEPT ![c] = text]
      BY <1>4, <2>2 DEF SendFails
    <3>2. typed[c] + 1 \in 0 .. MaxSent + MaxErrors
      BY <1>0, <1>1 DEF TypeOK, Counted
    <3>3. text \in Text /\ Fits(text) /\ text.line[1] = c
      BY <3>2 DEF TypedLine, Text, Line, Length, TooLong, Fits
    <3>4. \A e \in Clients : /\ buffer'[e] = IF e = c THEN text ELSE buffer[e]
                             /\ typed'[e] = IF e = c THEN typed[e] + 1 ELSE typed[e]
      BY <1>0, <3>1 DEF TypeOK
    <3>5. TypeOK'
      BY <1>0, <1>1, <1>3, <2>0, <3>1, <3>2, <3>3 DEF TypeOK
    <3>6. Counted'
      BY <1>0, <1>1, <1>3, <3>4 DEF Counted, TypeOK
    <3>7. TerminatorFits' /\ Short' /\ OwnReplies' /\ OwnLines'
      BY <1>0, <1>3, <3>3, <3>4 DEF TerminatorFits, Short, OwnReplies, OwnLines
    <3> QED
      BY <1>2, <1>3, <3>5, <3>6, <3>7 DEF IInv
  <2> QED
    BY <2>1, <2>2
<1>5. CASE ReceiveFails(c)
  <2>1. typed' = typed /\ buffer' = buffer /\ client' = [client EXCEPT ![c] = "typing"]
    BY <1>5 DEF ReceiveFails
  <2>2. TypeOK' /\ Counted'
    BY <1>0, <1>1, <1>3, <2>1 DEF TypeOK, Counted
  <2>3. TerminatorFits' /\ Short' /\ OwnReplies' /\ OwnLines'
    BY <1>0, <1>3, <2>1 DEF TerminatorFits, Short, OwnReplies, OwnLines
  <2> QED
    BY <1>2, <1>3, <2>2, <2>3 DEF IInv
<1> QED
  BY <1>4, <1>5

(* A client takes what arrives for the reply to what it sent last.         *)
LEMMA ReceiveIInv ==
  ASSUME IInv, NEW c \in Clients, NEW d \in BagToSet(toClient), Receive(c, d)
  PROVE  IInv'
<1> USE UdpEchoConstants
<1>0. /\ TypeOK /\ NetIsBags /\ Counted /\ TerminatorFits /\ Short
      /\ OwnReplies /\ OwnLines /\ InStep /\ OneExchange
      /\ d \in InFlight /\ d \in Datagram /\ d.client = c /\ BagIn(d, toClient)
  BY DEF IInv, InFlight, TypeOK, BagIn, Receive
<1> DEFINE text == Cut(d.text)
<1>1. text \in Text /\ text.line = d.text.line /\ Fits(text) /\ d.text.line \in Line
  BY <1>0, CutText DEF Datagram, Text, Short
<1>2. /\ toClient' = Taken(toClient, d) /\ toServer' = toServer
      /\ pc' = pc /\ request' = request /\ typed' = typed /\ sent' = sent
      /\ last' = last /\ faults' = faults
      /\ buffer' = [buffer EXCEPT ![c] = text]
      /\ shown' = [shown EXCEPT ![c] = d.text.line]
      /\ client' = [client EXCEPT ![c] = "typing"]
  BY DEF Receive, server
<1> HIDE DEF text
<1>3. NetIsBags' /\ InFlight' \subseteq InFlight
  BY <1>0, <1>2, LessInFlight
<1>4. \A e \in Clients : /\ buffer'[e] = IF e = c THEN text ELSE buffer[e]
                         /\ shown'[e] = IF e = c THEN d.text.line ELSE shown[e]
                         /\ client'[e] = IF e = c THEN "typing" ELSE client[e]
  BY <1>0, <1>2 DEF TypeOK
<1>5. TypeOK' /\ Counted'
  BY <1>0, <1>1, <1>2, <1>3 DEF TypeOK, Counted
<1>6. TerminatorFits' /\ Short' /\ OwnReplies' /\ OwnLines'
  BY <1>0, <1>1, <1>2, <1>3, <1>4 DEF TerminatorFits, Short, OwnReplies, OwnLines
<1>7. InStep'
  BY <1>0, <1>2, <1>4 DEF InStep, OneExchange, Current
<1>8. OneExchange'
  <2> SUFFICES ASSUME faults.dup = 0, faults.error = 0
               PROVE  /\ \A e \in InFlight' : Current(e)'
                      /\ OneEach(toServer') /\ OneEach(toClient')
                      /\ \A e \in BagToSet(toServer'), f \in BagToSet(toClient') : e.client # f.client
                      /\ pc' = "send" => Current(request)' /\ \A e \in InFlight' : e.client # request'.client
    BY <1>2 DEF OneExchange
  <2>1. /\ \A e \in InFlight : Current(e) /\ e.client \in Clients
        /\ OneEach(toServer) /\ OneEach(toClient)
        /\ pc = "send" => Current(request) /\ request.client # c
        /\ request.client \in Clients
        /\ \A e \in BagToSet(toServer) : e.client # c
    BY <1>0 DEF OneExchange, TypeOK, Datagram
  <2>2. /\ BagToSet(toClient') = BagToSet(toClient) \ {d}
        /\ \A e \in BagToSet(toClient') : toClient'[e] = toClient[e]
    BY <1>0, <1>2, <2>1, TakenBag DEF NetIsBags, OneEach
  <2>3. \A e \in InFlight' : e.client # c
    BY <1>0, <1>2, <2>1, <2>2 DEF InFlight, OneEach
  <2>4. \A e : e.client \in Clients /\ e.client # c => (Current(e)' <=> Current(e))
    BY <1>2, <1>4 DEF Current
  <2>5. OneEach(toServer') /\ OneEach(toClient')
    BY <1>2, <2>1, <2>2 DEF OneEach
  <2> QED
    BY <1>0, <1>2, <1>3, <2>1, <2>2, <2>3, <2>4, <2>5 DEF OneExchange
<1> QED
  BY <1>3, <1>5, <1>6, <1>7, <1>8 DEF IInv

(* The server stores a datagram and whom it came from.                     *)
LEMMA ServerRecvIInv ==
  ASSUME IInv, NEW d \in BagToSet(toServer), ServerRecv(d)
  PROVE  IInv'
<1> USE UdpEchoConstants
<1>0. /\ TypeOK /\ NetIsBags /\ Counted /\ TerminatorFits /\ Short
      /\ OwnReplies /\ OwnLines /\ InStep /\ OneExchange
      /\ d \in InFlight /\ d \in Datagram /\ BagIn(d, toServer)
  BY DEF IInv, InFlight, TypeOK, BagIn
<1>1. /\ Stored(d) \in Datagram /\ Stored(d).client = d.client
      /\ Stored(d).text.line = d.text.line /\ Fits(Stored(d).text)
  BY <1>0, CutText DEF Datagram, Stored, Short
<1>2. /\ toServer' = Taken(toServer, d) /\ toClient' = toClient
      /\ request' = Stored(d) /\ pc' = "send"
      /\ UNCHANGED <<clients, faults>>
  BY DEF ServerRecv
<1>3. NetIsBags' /\ InFlight' \subseteq InFlight
  BY <1>0, <1>2, LessInFlight
<1>4. TypeOK' /\ Counted'
  BY <1>0, <1>1, <1>2, <1>3 DEF TypeOK, Counted, clients
<1>5. TerminatorFits' /\ Short' /\ OwnReplies' /\ OwnLines'
  BY <1>0, <1>1, <1>2, <1>3 DEF TerminatorFits, Short, OwnReplies, OwnLines, clients
<1>6. InStep'
  BY <1>0, <1>2 DEF InStep, clients
<1>7. OneExchange'
  <2> SUFFICES ASSUME faults.dup = 0, faults.error = 0
               PROVE  /\ \A e \in InFlight' : Current(e)'
                      /\ OneEach(toServer') /\ OneEach(toClient')
                      /\ \A e \in BagToSet(toServer'), f \in BagToSet(toClient') : e.client # f.client
                      /\ Current(request)' /\ \A e \in InFlight' : e.client # request'.client
    BY <1>2 DEF OneExchange
  <2>1. /\ \A e \in InFlight : Current(e)
        /\ OneEach(toServer) /\ OneEach(toClient)
        /\ \A e \in BagToSet(toServer), f \in BagToSet(toClient) : e.client # f.client
    BY <1>0 DEF OneExchange
  <2>2. /\ BagToSet(toServer') = BagToSet(toServer) \ {d}
        /\ \A e \in BagToSet(toServer') : toServer'[e] = toServer[e]
    BY <1>0, <1>2, <2>1, TakenBag DEF NetIsBags, OneEach
  <2>3. \A e \in InFlight' : e.client # d.client
    BY <1>2, <2>1, <2>2 DEF InFlight, OneEach
  <2>4. /\ \A e : Current(e)' <=> Current(e)
        /\ Current(request)' <=> Current(d)
    BY <1>1, <1>2 DEF Current, clients
  <2>5. OneEach(toServer') /\ OneEach(toClient')
    BY <1>2, <2>1, <2>2 DEF OneEach
  <2> QED
    BY <1>0, <1>1, <1>2, <1>3, <2>1, <2>2, <2>3, <2>4, <2>5
<1> QED
  BY <1>3, <1>4, <1>5, <1>6, <1>7 DEF IInv

(* The server sends back what it holds, or its call fails.                 *)
LEMMA ServerSendIInv ==
  ASSUME IInv, ServerSend \/ ServerSendFails
  PROVE  IInv'
<1> USE UdpEchoConstants
<1>0. /\ TypeOK /\ NetIsBags /\ Counted /\ TerminatorFits /\ Short
      /\ OwnReplies /\ OwnLines /\ InStep /\ OneExchange
      /\ request \in Datagram
  BY DEF IInv, TypeOK
<1>1. CASE ServerSend
  <2>1. /\ toClient' = Sent(toClient, request) /\ toServer' = toServer
        /\ pc = "send" /\ pc' = "recv" /\ request' = request
        /\ UNCHANGED <<clients, faults>>
    BY <1>1 DEF ServerSend
  <2>2. NetIsBags' /\ InFlight' = InFlight \cup {request}
    BY <1>0, <2>1, MoreInFlight
  <2>3. TypeOK' /\ Counted'
    BY <1>0, <2>1, <2>2 DEF TypeOK, Counted, clients
  <2>4. TerminatorFits' /\ Short' /\ OwnReplies' /\ OwnLines'
    BY <1>0, <2>1, <2>2 DEF TerminatorFits, Short, OwnReplies, OwnLines, clients
  <2>5. InStep'
    BY <1>0, <2>1 DEF InStep, clients
  <2>6. OneExchange'
    <3> SUFFICES ASSUME faults.dup = 0, faults.error = 0
                 PROVE  /\ \A e \in InFlight' : Current(e)'
                        /\ OneEach(toServer') /\ OneEach(toClient')
                        /\ \A e \in BagToSet(toServer'), f \in BagToSet(toClient') : e.client # f.client
      BY <2>1 DEF OneExchange
    <3>1. /\ \A e \in InFlight : Current(e) /\ e.client # request.client
          /\ Current(request)
          /\ OneEach(toServer) /\ OneEach(toClient)
          /\ \A e \in BagToSet(toServer), f \in BagToSet(toClient) : e.client # f.client
      BY <1>0, <2>1 DEF OneExchange
    <3>2. \A e : Current(e)' <=> Current(e)
      BY <2>1 DEF Current, clients
    <3>3. request \notin BagToSet(toClient)
      BY <3>1 DEF InFlight
    <3>4. /\ BagToSet(toClient') = BagToSet(toClient) \cup {request}
          /\ \A e \in BagToSet(toClient) : toClient'[e] = toClient[e]
          /\ toClient'[request] = 1
      BY <3>3, <1>0, <2>1, SentBag DEF NetIsBags
    <3>5. OneEach(toServer') /\ OneEach(toClient')
      BY <2>1, <3>1, <3>4 DEF OneEach, InFlight
    <3> QED
      BY <2>1, <2>2, <3>1, <3>2, <3>4, <3>5 DEF InFlight
  <2> QED
    BY <2>2, <2>3, <2>4, <2>5, <2>6 DEF IInv
<1>2. CASE ServerSendFails
  <2>1. /\ Fault("error", MaxErrors)
        /\ pc' = "recv" /\ UNCHANGED <<toServer, toClient, request, clients>>
    BY <1>2 DEF ServerSendFails, net
  <2>2. /\ faults.error < MaxErrors /\ faults'.error = faults.error + 1
        /\ faults' \in [lost : 0 .. MaxLost, dup : 0 .. MaxDup, error : 0 .. MaxErrors]
    BY <1>0, <2>1, FaultCounts
  <2>3. InStep' /\ OneExchange'
    BY <1>0, <2>1, Excused
  <2>4. InFlight' = InFlight /\ NetIsBags'
    BY <1>0, <2>1 DEF InFlight, NetIsBags
  <2>5. TypeOK'
    BY <1>0, <2>1, <2>2, <2>4 DEF TypeOK, clients
  <2>6. Counted'
    BY <1>0, <2>1, <2>2 DEF Counted, TypeOK, clients
  <2>7. TerminatorFits' /\ Short' /\ OwnReplies' /\ OwnLines'
    BY <1>0, <2>1, <2>4 DEF TerminatorFits, Short, OwnReplies, OwnLines, clients
  <2> QED
    BY <2>3, <2>4, <2>5, <2>6, <2>7 DEF IInv
<1> QED
  BY <1>1, <1>2

(* The network loses a datagram.  Which other copies of it there are does  *)
(* not matter: with no duplicates there are none.                          *)
LEMMA LoseIInv ==
  ASSUME IInv, NEW d \in InFlight, Lose(d)
  PROVE  IInv'
<1> USE UdpEchoConstants
<1>0. /\ TypeOK /\ NetIsBags /\ Counted /\ TerminatorFits /\ Short
      /\ OwnReplies /\ OwnLines /\ InStep /\ OneExchange
      /\ Fault("lost", MaxLost) /\ UNCHANGED <<server, clients>>
  BY DEF IInv, Lose
<1>1. /\ faults'.error = faults.error /\ faults'.dup = faults.dup
      /\ faults' \in [lost : 0 .. MaxLost, dup : 0 .. MaxDup, error : 0 .. MaxErrors]
  BY <1>0, FaultCounts
<1>2. /\ NetIsBags' /\ InFlight' \subseteq InFlight
  BY <1>0, LessInFlight DEF Lose
<1>3. /\ BagToSet(toServer') \subseteq BagToSet(toServer)
      /\ BagToSet(toClient') \subseteq BagToSet(toClient)
  BY <1>0, TakenBag DEF Lose, NetIsBags
<1>4. OneEach(toServer) /\ OneEach(toClient) => OneEach(toServer') /\ OneEach(toClient')
  <2>1. ASSUME NEW B, IsABag(B), BagIn(d, B), OneEach(B)
        PROVE  OneEach(Taken(B, d))
    <3>1. /\ BagToSet(Taken(B, d)) = BagToSet(B) \ {d}
          /\ \A e \in BagToSet(Taken(B, d)) : Taken(B, d)[e] = B[e]
      BY <2>1, TakenBag DEF OneEach, BagIn
    <3> QED
      BY <2>1, <3>1 DEF OneEach
  <2> QED
    BY <1>0, <2>1 DEF Lose, NetIsBags
<1>5. TypeOK' /\ Counted'
  BY <1>0, <1>1, <1>2 DEF TypeOK, Counted, server, clients
<1>6. TerminatorFits' /\ Short' /\ OwnReplies' /\ OwnLines'
  BY <1>0, <1>2 DEF TerminatorFits, Short, OwnReplies, OwnLines, server, clients
<1>7. InStep'
  BY <1>0, <1>1 DEF InStep, clients
<1>8. OneExchange'
  <2>1. \A e : Current(e)' <=> Current(e)
    BY <1>0 DEF Current, clients
  <2> QED
    BY <1>0, <1>1, <1>2, <1>3, <1>4, <2>1 DEF OneExchange, server
<1> QED
  BY <1>2, <1>5, <1>6, <1>7, <1>8 DEF IInv

(* The network delivers a datagram a second time.                          *)
LEMMA DuplicateIInv ==
  ASSUME IInv, NEW d \in InFlight, Duplicate(d)
  PROVE  IInv'
<1> USE UdpEchoConstants
<1>0. /\ TypeOK /\ NetIsBags /\ Counted /\ TerminatorFits /\ Short
      /\ OwnReplies /\ OwnLines
      /\ Fault("dup", MaxDup) /\ UNCHANGED <<server, clients>>
  BY DEF IInv, Duplicate
<1>1. /\ faults'.error = faults.error
      /\ faults' \in [lost : 0 .. MaxLost, dup : 0 .. MaxDup, error : 0 .. MaxErrors]
  BY <1>0, FaultCounts
<1>2. InStep' /\ OneExchange'
  BY <1>0, Excused
<1>3. NetIsBags' /\ InFlight' = InFlight
  BY <1>0, MoreInFlight DEF Duplicate
<1>4. TypeOK' /\ Counted'
  BY <1>0, <1>1, <1>3 DEF TypeOK, Counted, server, clients
<1>5. TerminatorFits' /\ Short' /\ OwnReplies' /\ OwnLines'
  BY <1>0, <1>3 DEF TerminatorFits, Short, OwnReplies, OwnLines, server, clients
<1> QED
  BY <1>2, <1>3, <1>4, <1>5 DEF IInv

-----------------------------------------------------------------------------
(* Every step keeps the invariant.                                         *)
LEMMA StepIInv == IInv /\ [Next]_vars => IInv'
<1> SUFFICES ASSUME IInv, [Next]_vars PROVE IInv'
  OBVIOUS
<1>1. ASSUME NEW c \in Clients, Type(c) PROVE IInv'
  <2>1. PICK text \in TypedLine(c) : SendText(c, text)
    BY <1>1 DEF Type
  <2>2. typed[c] + 1 \in 0 .. MaxSent + MaxErrors
    BY <1>1, UdpEchoConstants DEF Type, IInv, TypeOK, Counted
  <2>3. text \in Text /\ text.line[1] = c /\ Fits(text)
    BY <2>2, UdpEchoConstants DEF TypedLine, Text, Line, Length, TooLong, Fits
  <2> QED
    BY <1>1, <2>1, <2>3, SendTextIInv DEF Type
<1>2. ASSUME NEW c \in Clients, TypeEnd(c) PROVE IInv'
  <2>1. buffer[c] \in Text /\ buffer[c].line[1] = c /\ Fits(buffer[c])
    BY DEF IInv, TypeOK, OwnLines, TerminatorFits
  <2> QED
    BY <1>2, <2>1, SendTextIInv DEF TypeEnd
<1>3. ASSUME NEW c \in Clients, Client(c) PROVE IInv'
  BY <1>1, <1>2, <1>3, ClientFailsIInv, ReceiveIInv DEF Client
<1>4. CASE Server \/ ServerSendFails
  BY <1>4, ServerRecvIInv, ServerSendIInv DEF Server
<1>5. ASSUME NEW d \in InFlight, Lose(d) \/ Duplicate(d) PROVE IInv'
  BY <1>5, LoseIInv, DuplicateIInv
<1>6. CASE UNCHANGED vars
  BY <1>6 DEF vars, net, server, clients, IInv, TypeOK, NetIsBags, Counted, TerminatorFits, Short,
     OwnReplies, OwnLines, InStep, OneExchange, InFlight, Current, OneEach
<1> QED
  BY <1>3, <1>4, <1>5, <1>6 DEF Next

(* The invariant holds from the start and is kept.                         *)
LEMMA Invariance == Spec => []IInv
BY InitIInv, StepIInv, PTL DEF Spec

(* The buffers hold lengths, the counters stay within their bounds.        *)
THEOREM TypeCorrect == Spec => []TypeOK
<1>1. IInv => TypeOK
  BY DEF IInv
<1> QED
  BY <1>1, Invariance, PTL

(* For every size of the buffers, the zero written behind a line somebody  *)
(* has typed is inside the buffer, at the server and back at the client,   *)
(* whatever else is sent: buffers not initialised, replies sent again.     *)
THEOREM TypedLinesLeaveRoom == Spec => []TerminatorFits
<1>1. IInv => TerminatorFits
  BY DEF IInv
<1> QED
  BY <1>1, Invariance, PTL

(* However many clients share the server's one buffer, none is shown a line*)
(* of another.                                                             *)
THEOREM RepliesAreOwn == Spec => []OwnReplies
<1>1. IInv => OwnReplies
  BY DEF IInv
<1> QED
  BY <1>1, Invariance, PTL

(* Losses and overtaking alone never put a client out of step with its     *)
(* replies.                                                                *)
THEOREM RepliesStayInStep == Spec => []InStep
<1>1. IInv => InStep
  BY DEF IInv
<1> QED
  BY <1>1, Invariance, PTL

=============================================================================
