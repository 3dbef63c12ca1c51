------------------------------- MODULE WorkQueue -------------------------------
(***************************************************************************)
(* What the dispatch queue promises, without streams, pending lists or     *)
(* processes: a queue with leases.  Whoever takes an item gets a lease on  *)
(* it that is never renewed; when it has run out the item may be given to  *)
(* another worker, although the first may still have it in hand.  An item  *)
(* that is done is never given out again, so it is worked on at least once *)
(* and, if every worker is faster than its lease, by one at a time.        *)
(***************************************************************************)
CONSTANTS Item, Worker

VARIABLES
  added,     \* the items handed to the queue
  leased,    \* the items there is a lease on
  expired,   \* those whose lease has run out
  holders,   \* the workers an item is in the hands of
  done       \* the items that are finished with

vars == <<added, leased, expired, holders, done>>

Init ==
  /\ added = {}
  /\ leased = {}
  /\ expired = {}
  /\ holders = [i \in Item |-> {}]
  /\ done = {}

Add(i) ==
  /\ i \notin added
  /\ added' = added \cup {i}
  /\ UNCHANGED <<leased, expired, holders, done>>

\* An item can be given out if nobody has a lease on it that still runs.
Free(i) == i \in added \ done /\ (i \in leased => i \in expired)

\* The items get a new lease, for the workers ws or, when they never hear of
\* it, for nobody.
Lease(ws, items) ==
  /\ UNCHANGED <<added, done>>
  /\ \A i \in items : Free(i)
  /\ leased' = leased \cup items
  /\ expired' = expired \ items
  /\ holders' = [i \in Item |-> IF i \in items THEN holders[i] \cup ws ELSE holders[i]]

Take(w, items) == Lease({w}, items)
Mislay(items) == Lease({}, items)

Expire(i) ==
  /\ i \in leased \ expired
  /\ expired' = expired \cup {i}
  /\ UNCHANGED <<added, leased, holders, done>>

\* A worker is finished with an item it has, for itself and for all others.
Finish(w, i) ==
  /\ w \in holders[i]
  /\ holders' = [holders EXCEPT ![i] = @ \ {w}]
  /\ leased' = leased \ {i}
  /\ expired' = expired \ {i}
  /\ done' = done \cup {i}
  /\ UNCHANGED added

\* Workers drop items without finishing them; the leases go on.
Drop(ws, items) ==
  /\ UNCHANGED <<added, leased, expired, done>>
  /\ holders' = [i \in Item |-> IF i \in items THEN holders[i] \ ws ELSE holders[i]]

Next == \/ \E items \in SUBSET Item, ws \in SUBSET Worker : Drop(ws, items)
        \/ \E i \in Item : Add(i) \/ Expire(i)
        \/ \E w \in Worker, i \in Item : Finish(w, i)
        \/ \E items \in SUBSET Item : \/ Mislay(items)
                                      \/ \E w \in Worker : Take(w, items)

Spec == Init /\ [][Next]_vars

===============================================================================
