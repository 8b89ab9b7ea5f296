----------------------------- MODULE MCSharedPage -----------------------------
(***************************************************************************)
(* SharedPage with a page of a few elements and numbers of two bits, so    *)
(* that the numbers wrap in the middle of a page.                          *)
(***************************************************************************)
EXTENDS SharedPage

CONSTANTS w1, r1, r2

OneWriter == {w1}
TwoReaders == {r1, r2}

=============================================================================
