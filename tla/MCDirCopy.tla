------------------------------ MODULE MCDirCopy ------------------------------
(***************************************************************************)
(* DirCopy with two entries of up to three bytes.                          *)
(***************************************************************************)
EXTENDS DirCopy

CONSTANTS f1, f2, b1, b2

TwoNames == {f1, f2}
TwoBytes == {b1, b2}

=============================================================================
