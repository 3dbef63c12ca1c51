------------------------------ MODULE MCSchedules ------------------------------
(***************************************************************************)
(* Small instances of Schedules for TLC.                                   *)
(***************************************************************************)
EXTENDS Schedules, TLC

CONSTANTS i1, i2, r1, r2, j1, j2, x1, x2

MCInstance == {i1, i2}
MCRequest == {r1, r2}
MCJob == {j1, j2}
MCExpr == {x1, x2}
MCSymmetry == Permutations(MCInstance) \cup Permutations(MCRequest)
                \cup Permutations(MCJob) \cup Permutations(MCExpr)

===============================================================================
