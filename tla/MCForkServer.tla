----------------------------- MODULE MCForkServer -----------------------------
(***************************************************************************)
(* ForkServer with two clients, one of which fills the queue of accept.    *)
(***************************************************************************)
EXTENDS ForkServer

CONSTANTS c1, c2

TwoClients == {c1, c2}

=============================================================================
