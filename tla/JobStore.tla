-------------------------------- MODULE JobStore --------------------------------
(***************************************************************************)
(* What the tables of jobs promise, without statements, locks and          *)
(* transactions: a job is what one save made it, its steps included.  A    *)
(* save takes effect at one moment while it is served, or never; what is   *)
(* deleted stays deleted; a reader sees all steps of one save.             *)
(***************************************************************************)
CONSTANTS
  Job, Request, Workflow, Reader,
  Fits(_, _),  \* whether rows of steps are those of a workflow
  Absent,      \* no such job
  Unread       \* nothing read yet

VARIABLES
  store,       \* a job: the save that made it and its rows of steps, or Absent
  deleted,     \* jobs that were deleted
  save,        \* a save: how far it is, its job and the workflow it asks for
  seen         \* the rows a reader has got, or Unread

vars == <<store, deleted, save, seen>>

Init ==
  /\ store = [j \in Job |-> Absent]
  /\ deleted = {}
  /\ save = [r \in Request |-> [st |-> "unsent"]]
  /\ seen = [e \in Reader |-> Unread]

Send(r, j, w) ==
  /\ save[r].st = "unsent"
  /\ save' = [save EXCEPT ![r] = [st |-> "open", job |-> j, spec |-> w]]
  /\ UNCHANGED <<store, deleted, seen>>

\* The client learns how its save ended, or not.
Ends(r, answers) ==
  /\ save[r].st = "open"
  /\ \E a \in answers : save' = [save EXCEPT ![r].st = a]

\* The job is new, or is replaced with all its steps.
Put(r) ==
  LET j == save[r].job IN
  /\ Ends(r, {"ok", "unanswered"})
  /\ j \notin deleted
  /\ store[j] = Absent =>
       \A q \in Request : save[q].st \in {"ok", "unanswered"} => save[q].job # j
  /\ store' = [store EXCEPT ![j] = store'[j]]
  /\ store'[j].by = r /\ Fits(store'[j].rows, save[r].spec)
  /\ UNCHANGED <<deleted, seen>>

\* The job was deleted while the save was served.
Miss(r) ==
  /\ Ends(r, {"ok", "unanswered"})
  /\ save[r].job \in deleted
  /\ UNCHANGED <<store, deleted, seen>>

Refuse(r) == Ends(r, {"refused"}) /\ UNCHANGED <<store, deleted, seen>>

Delete(J) ==
  /\ \A j \in J : store[j] # Absent
  /\ store' = [j \in Job |-> IF j \in J THEN Absent ELSE store[j]]
  /\ deleted' = deleted \cup J
  /\ UNCHANGED <<save, seen>>

Read(e, j) ==
  /\ seen[e] = Unread
  /\ seen' = [seen EXCEPT ![e] = IF store[j] = Absent THEN {} ELSE store[j].rows]
  /\ UNCHANGED <<store, deleted, save>>

Next == \/ \E r \in Request : Put(r) \/ Miss(r) \/ Refuse(r)
        \/ \E r \in Request, j \in Job, w \in Workflow : Send(r, j, w)
        \/ \E J \in SUBSET Job : Delete(J)
        \/ \E e \in Reader, j \in Job : Read(e, j)

Spec == Init /\ [][Next]_vars

===============================================================================
