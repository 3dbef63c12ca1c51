------------------------------ MODULE MCStepRunner ------------------------------
(***************************************************************************)
(* Small instances of StepRunner for TLC.                                  *)
(***************************************************************************)
EXTENDS StepRunner, TLC

CONSTANTS r1, r2, s1, s2, p1, p2, p3

MCRunner == {r1, r2}
MCStep == {s1, s2}
MCPid == {p1, p2}
ThreePids == {p1, p2, p3}
MCSymmetry == Permutations(MCRunner) \cup Permutations(MCStep)
                \cup Permutations(MCPid)
ThreePidSymmetry == Permutations(MCRunner) \cup Permutations(MCStep)
                      \cup Permutations(ThreePids)

\* Words of one or two characters, special or not.
MCChar == {"a"} \cup Quote \cup Space
MCWords == UNION {[1..n -> {"a", "blank", "single", "double"}] : n \in 1..2}

===============================================================================
