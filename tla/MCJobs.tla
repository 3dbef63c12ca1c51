--------------------------------- MODULE MCJobs ---------------------------------
(***************************************************************************)
(* Small instances of Projects, and with it of Jobs, for TLC.              *)
(***************************************************************************)
EXTENDS Projects, TLC

CONSTANTS j1, d1, p1, x1

MCHome == (j1 :> p1) @@ (d1 :> p1)
MCJobOf == x1 :> j1

\* A node above another, with an edge down and one from a node that is gone; no
\* node at all.
Down == [nodes |-> {"a", "b"}, y |-> [a |-> 0, b |-> 1], def |-> [a |-> d1, b |-> d1],
         edges |-> {<<"a", "b">>, <<"c", "b">>}]
Empty == [nodes |-> {}, y |-> <<>>, def |-> <<>>, edges |-> {}]

MCWorkflow == {Down, Empty}
===============================================================================
