------------------------------ MODULE MCUdpEcho ------------------------------
(***************************************************************************)
(* UdpEcho with two clients and buffers of one byte: a typed line leaves   *)
(* room for the zero only, and what is not initialised fills the buffer or *)
(* does not fit.                                                           *)
(***************************************************************************)
EXTENDS UdpEcho

CONSTANTS c1, c2

TwoClients == {c1, c2}

=============================================================================
