------------------------------- MODULE MCFileOps -------------------------------
(***************************************************************************)
(* FileOps with three names, one of which may be that of a directory.      *)
(***************************************************************************)
EXTENDS FileOps

CONSTANTS a, b, d

ThreeNames == {a, b, d}
FourPaths == {<<a>>, <<b>>, <<d>>, <<d, a>>}

=============================================================================
