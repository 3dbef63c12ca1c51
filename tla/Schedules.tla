------------------------------- MODULE Schedules -------------------------------
(***************************************************************************)
(* The schedules table and the cron entries that API instances keep in     *)
(* memory: UpsertSchedule and DeleteSchedule change the table first and    *)
(* then the entries of the instance that serves the request; Start builds  *)
(* an instance's entries from the table; fireJob records a run in it.      *)
(*                                                                         *)
(* A statement is one step.  RegisterJob and UnregisterJob hold the        *)
(* scheduler's mutex, and entryIDs leads from a schedule ID to its only    *)
(* cron entry, so an instance's entries are a set.  Which instance may     *)
(* fire is the subject of SchedulerLock: here any may.  Times of runs are  *)
(* numbers; next_run_at and the timezone are left out.                     *)
(***************************************************************************)
EXTENDS Integers, Sequences

CONSTANTS
  Instance,   \* API server instances
  Request,    \* requests served at the same time
  Job,        \* the jobs
  Expr,       \* valid cron expressions
  Outcomes,   \* of a statement: "ok", "lost" or "unknown" (done, yet an error)
  JobOps,     \* what users do to jobs: "delete", "deactivate"
  MaxId,      \* bound on the schedule IDs made
  MaxRuns,    \* bound on the runs fired
  NoRow       \* not a schedule

Id == 1..MaxId
Row == [id : Id, job : Job, on : BOOLEAN, expr : Expr, last : 0..MaxRuns]
Entry == [id : Id, job : Job, expr : Expr]
Idle == [pc |-> "idle"]
Busy == [pc : {"upsert", "register", "delete", "unregister"}, at : Instance,
         sc : Row]

ASSUME OutcomesAssumption ==
         "ok" \in Outcomes /\ Outcomes \subseteq {"ok", "lost", "unknown"}
ASSUME BoundsAssumption == MaxId \in Nat /\ MaxRuns \in Nat
ASSUME OpsAssumption == JobOps \subseteq {"delete", "deactivate"}
ASSUME NoRowAssumption == NoRow \notin Row

VARIABLES
  job,      \* a job is "active", "inactive" or "deleted"
  row,      \* the row of schedules for a job, or NoRow
  ids,      \* schedule IDs made so far
  up,       \* instances that run
  entries,  \* the cron entries of an instance
  req,      \* what a request does next, and the Schedule it has in memory
  runs,     \* the jobs fired so far, run by run
  firing,   \* <<id, run>>: dispatched by an instance, last_run_at yet to write
  stale     \* history: jobs whose schedules an instance does not follow any more

tableVars == <<job, row, ids>>
memoryVars == <<up, entries, firing>>
vars == <<tableVars, memoryVars, req, runs, stale>>

\* Types; the row of a job is the job's own and goes with it (the foreign key),
\* and a schedule ID has one cron entry in an instance (entryIDs).
TypeOK ==
  /\ job \in [Job -> {"active", "inactive", "deleted"}]
  /\ row \in [Job -> Row \cup {NoRow}]
  /\ ids \in 0..MaxId
  /\ up \subseteq Instance
  /\ entries \in [Instance -> SUBSET Entry]
  /\ req \in [Request -> Busy \cup {Idle}]
  /\ runs \in Seq(Job) /\ Len(runs) =< MaxRuns
  /\ firing \in [Instance -> SUBSET (Id \X (1..MaxRuns))]
  /\ stale \in [Instance -> SUBSET Job]
  /\ \A j \in Job : row[j] # NoRow => row[j].job = j /\ job[j] # "deleted"
  /\ \A i \in Instance : \A x, y \in entries[i] : x.id = y.id => x = y

Init ==
  /\ job = [j \in Job |-> "active"]
  /\ row = [j \in Job |-> NoRow]
  /\ ids = 0
  /\ up = {}
  /\ entries = [i \in Instance |-> {}]
  /\ req = [r \in Request |-> Idle]
  /\ runs = <<>>
  /\ firing = [i \in Instance |-> {}]
  /\ stale = [i \in Instance |-> {}]

Applied(outcome) == outcome \in {"ok", "unknown"}

EntryOf(sc) == [id |-> sc.id, job |-> sc.job, expr |-> sc.expr]

Goes(r, pc, i, sc) == req' = [req EXCEPT ![r] = [pc |-> pc, at |-> i, sc |-> sc]]

Answer(r) == req' = [req EXCEPT ![r] = Idle]

\* The jobs that requests are about which are under way.
InHand == {req[r].sc.job : r \in {q \in Request : req[q] # Idle}}

\* History: the instances of S do not follow what happens to the job's schedule.
Loses(S, j) == stale' = [i \in Instance |-> IF i \in S THEN stale[i] \cup {j} ELSE stale[i]]

\* A request has begun: other instances are not told of it; no instance is sure of the
\* outcome when two overlap, or when the job is not active (Start would not register
\* what the request does).
Begins(i, j) ==
  Loses(IF j \in InHand \/ job[j] # "active" THEN Instance ELSE Instance \ {i}, j)

-------------------------------------------------------------------------------
(* An API instance starts and stops.                                       *)

\* ListEnabled: the enabled schedules of active jobs.
Enabled == {row[j] : j \in {k \in Job : /\ job[k] = "active"
                                        /\ row[k] # NoRow /\ row[k].on}}

\* Start registers what ListEnabled returns before any request is served.
Start(i) ==
  /\ i \notin up
  /\ up' = up \cup {i}
  /\ entries' = [entries EXCEPT ![i] = {EntryOf(sc) : sc \in Enabled}]
  /\ stale' = [stale EXCEPT ![i] = InHand]
  /\ UNCHANGED <<tableVars, req, runs, firing>>

\* The instance stops or dies with its entries, its requests and its cron jobs.
Stop(i) ==
  /\ i \in up
  /\ up' = up \ {i}
  /\ entries' = [entries EXCEPT ![i] = {}]
  /\ firing' = [firing EXCEPT ![i] = {}]
  /\ req' = [r \in Request |-> IF req[r] # Idle /\ req[r].at = i
                               THEN Idle ELSE req[r]]
  /\ UNCHANGED <<tableVars, runs, stale>>

-------------------------------------------------------------------------------
(* UpsertSchedule.                                                         *)

\* FindByJobID, and the request's values put over what it found, or over a
\* Schedule with a new ID.
UpsertFind(r, i, j) ==
  /\ req[r] = Idle /\ i \in up
  /\ \E expr \in Expr, on \in BOOLEAN :
       IF row[j] # NoRow
       THEN /\ Goes(r, "upsert", i, [row[j] EXCEPT !.expr = expr, !.on = on])
            /\ UNCHANGED ids
       ELSE /\ ids < MaxId
            /\ ids' = ids + 1
            /\ Goes(r, "upsert", i, [id |-> ids + 1, job |-> j, on |-> on,
                                      expr |-> expr, last |-> 0])
  /\ Begins(i, j)
  /\ UNCHANGED <<job, row, runs, memoryVars>>

\* INSERT ... ON CONFLICT (job_id) DO UPDATE: a row that is there keeps its ID
\* and takes everything else.
Upserted(sc) ==
  IF row[sc.job] = NoRow THEN sc ELSE [sc EXCEPT !.id = row[sc.job].id]

\* The statement; it fails when the job is gone (a foreign key).
UpsertWrite(r) ==
  LET sc == req[r].sc IN
  /\ req[r].pc = "upsert"
  /\ \E o \in Outcomes :
       /\ job[sc.job] = "deleted" => o = "lost"
       /\ row' = IF Applied(o) THEN [row EXCEPT ![sc.job] = Upserted(sc)] ELSE row
       /\ IF o = "ok" THEN Goes(r, "register", req[r].at, sc) ELSE Answer(r)
       /\ Loses(IF o = "unknown" THEN Instance ELSE {}, sc.job)
  /\ UNCHANGED <<job, ids, runs, memoryVars>>

\* Mutant of Registered: the old entry is not removed.
RegisteredTwice(i, sc) == entries[i] \cup {EntryOf(sc)}

\* RegisterJob replaces the entry with the schedule's ID, UnregisterJob removes
\* it.
Unregistered(i, sc) == {x \in entries[i] : x.id # sc.id}
Registered(i, sc) == Unregistered(i, sc) \cup {EntryOf(sc)}

\* The instance's scheduler gets the Schedule as the request has it in memory.
UpsertRegister(r) ==
  LET i == req[r].at  sc == req[r].sc IN
  /\ req[r].pc = "register"
  /\ entries' = [entries EXCEPT ![i] = IF sc.on THEN Registered(i, sc)
                                                ELSE Unregistered(i, sc)]
  /\ Answer(r)
  /\ UNCHANGED <<tableVars, up, runs, firing, stale>>

-------------------------------------------------------------------------------
(* DeleteSchedule.                                                         *)

DeleteFind(r, i, j) ==
  /\ req[r] = Idle /\ i \in up
  /\ row[j] # NoRow
  /\ Goes(r, "delete", i, row[j])
  /\ Begins(i, j)
  /\ UNCHANGED <<tableVars, runs, memoryVars>>

\* DELETE ... WHERE id.
DeleteWrite(r) ==
  LET sc == req[r].sc IN
  /\ req[r].pc = "delete"
  /\ \E o \in Outcomes :
       /\ row' = IF Applied(o) /\ row[sc.job] # NoRow /\ row[sc.job].id = sc.id
                 THEN [row EXCEPT ![sc.job] = NoRow] ELSE row
       /\ IF o = "ok" THEN Goes(r, "unregister", req[r].at, sc) ELSE Answer(r)
       /\ Loses(IF o = "unknown" THEN Instance ELSE {}, sc.job)
  /\ UNCHANGED <<job, ids, runs, memoryVars>>

DeleteUnregister(r) ==
  LET i == req[r].at IN
  /\ req[r].pc = "unregister"
  /\ entries' = [entries EXCEPT ![i] = Unregistered(i, req[r].sc)]
  /\ Answer(r)
  /\ UNCHANGED <<tableVars, up, runs, firing, stale>>

-------------------------------------------------------------------------------
(* fireJob, on the instance that is let to, in a goroutine per run.        *)

Fire(i) ==
  /\ Len(runs) < MaxRuns
  /\ \E x \in entries[i] :
       /\ runs' = Append(runs, x.job)
       /\ firing' = [firing EXCEPT ![i] = @ \cup {<<x.id, Len(runs) + 1>>}]
  /\ UNCHANGED <<tableVars, up, entries, req, stale>>

\* Mutant of Ran: UPDATE without WHERE.
RanAll(id, run) == {j \in Job : row[j] # NoRow}

\* The rows UpdateLastRun changes.
Ran(id, run) == {j \in Job : row[j] # NoRow /\ row[j].id = id}

\* FindByID and UpdateLastRun: a schedule that is gone by then, or goes between
\* the two, is not written.
RecordRun(i) ==
  /\ \E f \in firing[i], o \in Outcomes :
       /\ firing' = [firing EXCEPT ![i] = @ \ {f}]
       /\ row' = [j \in Job |-> IF Applied(o) /\ j \in Ran(f[1], f[2])
                                THEN [row[j] EXCEPT !.last = f[2]] ELSE row[j]]
  /\ UNCHANGED <<job, ids, up, entries, req, runs, stale>>

-------------------------------------------------------------------------------
(* What the job handlers do to a scheduled job; no scheduler is told.      *)

\* DeleteJob: the row of schedules goes with it (ON DELETE CASCADE).
DeleteJob(j) ==
  /\ "delete" \in JobOps
  /\ job[j] # "deleted"
  /\ job' = [job EXCEPT ![j] = "deleted"]
  /\ row' = [row EXCEPT ![j] = NoRow]
  /\ Loses(Instance, j)
  /\ UNCHANGED <<ids, req, runs, memoryVars>>

\* UpdateJob with isActive.
SetActive(j) ==
  /\ "deactivate" \in JobOps
  /\ job[j] # "deleted"
  /\ job' = [job EXCEPT ![j] = IF @ = "active" THEN "inactive" ELSE "active"]
  /\ Loses(Instance, j)
  /\ UNCHANGED <<row, ids, req, runs, memoryVars>>

Next == \/ \E i \in Instance : Start(i) \/ Stop(i) \/ Fire(i) \/ RecordRun(i)
        \/ \E r \in Request :
             \/ \E i \in Instance, j \in Job : UpsertFind(r, i, j) \/ DeleteFind(r, i, j)
             \/ UpsertWrite(r) \/ UpsertRegister(r)
             \/ DeleteWrite(r) \/ DeleteUnregister(r)
        \/ \E j \in Job : DeleteJob(j) \/ SetActive(j)

Spec == Init /\ [][Next]_vars

-------------------------------------------------------------------------------
\* An instance's cron entries for a job are what the job's row says, also when
\* statements fail, requests for several jobs overlap and instances restart, as long
\* as the instance can follow: since it started it has served all requests for the
\* schedule itself, one after the other, each with a known outcome, and no job
\* handler has deleted, activated or deactivated the job.
EntriesMatch ==
  \A i \in up, j \in Job :
    j \notin stale[i] \cup InHand =>
      {x \in entries[i] : x.job = j} = {EntryOf(sc) : sc \in {x \in Enabled : x.job = j}}

\* The last run recorded for a schedule is a run of its job, whatever requests,
\* deletions, new schedules and restarts come between the run and the record.
RunsAreOwn ==
  \A j \in Job : row[j] # NoRow /\ row[j].last > 0 => runs[row[j].last] = j

===============================================================================
