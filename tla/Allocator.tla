------------------------------ MODULE Allocator ------------------------------
(***************************************************************************)
(* What a heap promises the program that calls it, whatever its lists look *)
(* like: the contract of my_malloc()/my_free() in lab4/third.  The state   *)
(* is the set of buffers the caller holds.  Handing out a buffer is        *)
(* allowed only if it is aligned, lies inside the arena and overlaps no    *)
(* buffer the caller already holds; taking one back forgets it.  A call    *)
(* that returns NULL, and every internal step of an implementation, leaves *)
(* the state as it is.                                                     *)
(***************************************************************************)
EXTENDS Naturals

CONSTANTS
  Limit,     (* addresses are 0 .. Limit - 1                               *)
  Alignment, (* every returned address is a multiple of Alignment          *)
  Requests   (* the sizes callers ask for                                  *)

VARIABLE live (* the buffers returned to the caller and not freed yet      *)

Buffer == [ptr : Nat, size : Nat]

Apart(b, c) == b.ptr + b.size <= c.ptr \/ c.ptr + c.size <= b.ptr

Grantable(b) ==
  /\ b.ptr % Alignment = 0
  /\ b.ptr + b.size <= Limit
  /\ \A c \in live : Apart(b, c)

-----------------------------------------------------------------------------
Init == live = {}

Grant(b) == /\ Grantable(b)
            /\ live' = live \cup {b}

Release(b) == live' = live \ {b}

Next == \/ \E p \in 0 .. Limit, n \in Requests \ {0} : Grant([ptr |-> p, size |-> n])
        \/ \E b \in live : Release(b)

Spec == Init /\ [][Next]_live

=============================================================================
