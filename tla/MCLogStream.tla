------------------------------ MODULE MCLogStream ------------------------------
(***************************************************************************)
(* Small instances of LogStream for TLC.                                   *)
(***************************************************************************)
EXTENDS LogStream, TLC

CONSTANTS v1, v2

MCViewer == {v1, v2}
MCSymmetry == Permutations(MCViewer)

===============================================================================
