------------------------------- MODULE MCSessions -------------------------------
(***************************************************************************)
(* Small instances of Sessions for TLC.                                    *)
(***************************************************************************)
EXTENDS Sessions, TLC

CONSTANTS u1, u2, p1, alice

\* An ID, and the one its username is given after the user was deleted.
MCNameOf == [u \in User |-> alice]

MCPatch == [active : BOOLEAN] \cup [password : {p1}]

MCSymmetry == Permutations(Request) \cup Permutations(Token)
===============================================================================
