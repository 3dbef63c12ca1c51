------------------------------ MODULE MCLogViewer ------------------------------
(***************************************************************************)
(* Small instances of LogViewer for TLC.                                   *)
(***************************************************************************)
EXTENDS LogViewer, TLC

CONSTANTS e1, e2, w1, w2, w3

MCExecution == {e1, e2}
MCSocket == {w1, w2, w3}
MCSymmetry == Permutations(MCExecution) \cup Permutations(MCSocket)

===============================================================================
