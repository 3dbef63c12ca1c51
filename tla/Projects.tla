-------------------------------- MODULE Projects --------------------------------
(***************************************************************************)
(* The tables below projects as a whole: node definitions, jobs with their *)
(* steps and notification rules, and executions.  The handlers of          *)
(* projects, nodes and rules, Execute and fireJob are added to the         *)
(* transactions of Jobs.                                                   *)
(*                                                                         *)
(* DELETE FROM projects locks the project, then its node definitions, then *)
(* its jobs (the cascades, in the order in which their constraints were    *)
(* made), and then looks for rows that still refer to one of these.  Each  *)
(* row may be in use by an open transaction, which the DELETE waits for,   *)
(* as transactions wait for the rows it has locked.  Two that wait for     *)
(* each other are noticed by PostgreSQL, which fails one.                  *)
(*                                                                         *)
(* The contents of these rows are left out (what an update does to columns *)
(* that it does not name is in Sessions), as are roles and audit events,   *)
(* which no code writes.                                                   *)
(***************************************************************************)
EXTENDS Jobs

CONSTANTS
  Project,  \* IDs of projects
  Rule,     \* IDs of notification rules
  Home,     \* the project in whose path a job or a definition is made
  JobOf,    \* the job in whose path a rule is made
  None      \* no row, no project

ASSUME HomeAssumption == Home \in [Job \cup Def -> Project]
ASSUME JobOfAssumption == JobOf \in [Rule -> Job]
ASSUME DistinctAssumption ==
  /\ Project \cap Def = {} /\ Project \cap Job = {} /\ Def \cap Job = {}
  /\ Rule \cap (Project \cup Def \cup Job) = {}
ASSUME NoneAssumption == None \notin Project \cup Def \cup Job

VARIABLES
  projects,  \* the rows of projects
  rules,     \* the rows of notification_rules
  deletion,  \* a DELETE under way: what it deletes and the rows it has locked
  under,     \* the project in whose path a dispatch was made, or None
  gone       \* IDs of rows that were deleted

rowVars == <<projects, rules, gone>>
vars == <<jobVars, rowVars, deletion, under>>

NoDeletion == [what |-> None, held |-> {}]

\* Nothing is there.
Init ==
  /\ job = [j \in Job |-> NoRow] /\ steps = {} /\ defs = {}
  /\ projects = {} /\ rules = {} /\ gone = {}
  /\ req = [r \in Request |-> Nowhere] /\ exec = [e \in Execution |-> Nowhere]
  /\ deletion = NoDeletion /\ under = [e \in Execution |-> None]

Held == deletion.held
Jobs == {j \in Job : job[j] # NoRow}

-------------------------------------------------------------------------------
(* Rows are made, changed and deleted by single statements.                *)

\* A row that refers to x: x must be there, and not be on its way out.
MayRefer(x) == x \in projects \cup defs \cup Jobs /\ x \notin Held

\* uuid.New gives out an ID once.
CreateProject(p) ==
  /\ p \notin projects \cup gone
  /\ projects' = projects \cup {p}
  /\ UNCHANGED <<jobVars, rules, gone, deletion, under>>

CreateNode(d) ==
  /\ d \notin defs \cup gone /\ MayRefer(Home[d])
  /\ defs' = defs \cup {d}
  /\ UNCHANGED <<job, steps, req, exec, rowVars, deletion, under>>

CreateRule(x) ==
  /\ x \notin rules /\ MayRefer(JobOf[x])
  /\ rules' = rules \cup {x}
  /\ UNCHANGED <<jobVars, projects, gone, deletion, under>>

DeleteRule(x) ==
  /\ x \in rules
  /\ rules' = rules \ {x}
  /\ UNCHANGED <<jobVars, projects, gone, deletion, under>>

\* Mutant of Updated: the row is inserted if it is not there.
UpdatedOrInserted(table, x) == table \cup {x}

\* The IDs in a table after UPDATE ... WHERE id: no row, no change, and no error.
Updated(table, x) == table

\* The last statement of UpdateProject, UpdateNode and UpdateRule, which have found
\* the row; since then it may be gone.
UpdateContents(x) ==
  /\ x \in projects \cup defs \cup rules \cup gone /\ x \notin Held
  /\ projects' = IF x \in Project THEN Updated(projects, x) ELSE projects
  /\ defs' = IF x \in Def THEN Updated(defs, x) ELSE defs
  /\ rules' = IF x \in Rule THEN Updated(rules, x) ELSE rules
  /\ UNCHANGED <<job, steps, req, exec, gone, deletion, under>>

RulesOf(S) == {x \in rules : JobOf[x] \in S}

\* Mutant of Pinned: executions.job_id is ON DELETE CASCADE.
PinnedNot(S) == FALSE

\* Rows of executions refer to their job and to the project of their path, and
\* these references do not cascade.
Pinned(S) ==
  \E e \in Execution : /\ exec[e].pc # "idle" /\ exec[e].manual
                       /\ {exec[e].job, under[e]} \cap S # {}

\* DELETE FROM jobs waits for the row and takes the job's steps and rules with it.
DeleteJob(j) ==
  /\ j \in Jobs \ Held /\ RowIsFree(j) /\ ~Pinned({j})
  /\ job' = [job EXCEPT ![j] = NoRow]
  /\ steps' = {s \in steps : s.job # j}
  /\ rules' = rules \ RulesOf({j}) /\ gone' = gone \cup {j}
  /\ UNCHANGED <<defs, req, exec, projects, deletion, under>>

-------------------------------------------------------------------------------
(* DeleteProject and DeleteNode.                                           *)

DeleteProject(p) ==
  /\ deletion = NoDeletion /\ p \in projects
  /\ deletion' = [deletion EXCEPT !.what = p]
  /\ UNCHANGED <<jobVars, rowVars, under>>

DeleteNode(d) ==
  /\ deletion = NoDeletion /\ d \in defs
  /\ deletion' = [deletion EXCEPT !.what = d]
  /\ UNCHANGED <<jobVars, rowVars, under>>

\* The rows to lock next: the one that is deleted, then those that the cascades
\* reach.
NextRows ==
  LET own == {deletion.what} \cap (projects \cup defs)
      nodes == {d \in defs : Home[d] = deletion.what}
      jobs == {j \in Jobs : Home[j] = deletion.what}
  IN IF own \ Held # {} THEN own \ Held
     ELSE IF nodes \ Held # {} THEN nodes \ Held ELSE jobs \ Held

\* Mutant of Uses: a new job does not hold its project.
UsesNoProject(r, x) ==
  /\ req[r].pc \in Writing
  /\ \/ \E s \in req[r].ins : s.def = x
     \/ req[r].matched /\ x = req[r].job

\* An open transaction has locked x, or has inserted a row that refers to it.
Uses(r, x) ==
  /\ req[r].pc \in Writing
  /\ \/ \E s \in req[r].ins : s.def = x
     \/ req[r].matched /\ x = req[r].job
     \/ req[r].matched /\ req[r].job \notin Jobs /\ x = Home[req[r].job]

LockRow(x) ==
  /\ x \in NextRows /\ \A r \in Request : ~Uses(r, x)
  /\ deletion' = [deletion EXCEPT !.held = @ \cup {x}]
  /\ UNCHANGED <<jobVars, rowVars, under>>

\* Steps that refer to a locked definition: of other jobs, and of jobs that go too.
Referring == {s \in steps : s.def \in Held /\ s.job \notin Held}
ReferringOwn == {s \in steps : s.def \in Held /\ s.job \in Held}

\* Whoever is about to delete such a step is waited for.
Clears(r) == req[r].pc \in Writing /\ req[r].dels \cap Referring # {}

AllLocked == deletion # NoDeletion /\ NextRows = {}

\* Mutant of Removed: the jobs stay.
RemovedNotJobs(j) == FALSE

Removed(j) == j \in Held

\* All that was locked is gone at once, with the steps and the rules of the jobs.
FinishDeletion ==
  /\ AllLocked /\ ~Pinned(Held) /\ Referring = {}
  /\ projects' = projects \ Held /\ defs' = defs \ Held
  /\ job' = [j \in Job |-> IF Removed(j) THEN NoRow ELSE job[j]]
  /\ steps' = {s \in steps : s.job \notin Held}
  /\ rules' = rules \ RulesOf(Held) /\ gone' = gone \cup Held
  /\ deletion' = NoDeletion
  /\ UNCHANGED <<req, exec, under>>

GiveUp == deletion' = NoDeletion /\ UNCHANGED <<jobVars, rowVars, under>>

\* The DELETE is refused, or fails.  Whether the steps of the project's own jobs
\* are still there when the reference to their definition is looked at is a matter
\* of the order in which PostgreSQL runs the constraints' triggers: either may be.
RefuseDeletion ==
  /\ deletion # NoDeletion
  /\ \/ AllLocked /\ Pinned(Held)
     \/ AllLocked /\ Referring # {} /\ \A r \in Request : ~Clears(r)
     \/ AllLocked /\ ReferringOwn # {}
     \/ "lost" \in Outcomes
  /\ GiveUp

-------------------------------------------------------------------------------
(* CreateJob and UpdateJob beside a deletion.                              *)

\* The next statement of a save needs a row that the deletion has locked.
AwaitsDeletion(r) ==
  \/ req[r].pc = "create" /\ Home[req[r].job] \in Held
  \/ req[r].pc = "row" /\ req[r].job \in Held
  \/ req[r].pc = "insert" /\ req[r].rest # <<>> /\ Head(req[r].rest).def \in Held

SaveStep(r) ==
  /\ ~AwaitsDeletion(r)
  /\ \/ /\ req[r].pc = "create" => MayRefer(Home[req[r].job])
        /\ RequestStep(r)
     \/ /\ req[r].pc = "create" /\ Home[req[r].job] \notin projects
        /\ Refuse(r)
  /\ UNCHANGED <<rowVars, deletion, under>>

Save(r, j, w) ==
  /\ \/ j \notin gone /\ CreateJob(r, j, w)
     \/ UpdateJob(r, j, w)
  /\ UNCHANGED <<rowVars, deletion, under>>

\* The deletion needs a row that a save uses.
DeletionAwaits(r) ==
  \/ \E x \in NextRows : Uses(r, x)
  \/ AllLocked /\ Clears(r)

Deadlocked(r) == AwaitsDeletion(r) /\ DeletionAwaits(r)

\* deadlock_timeout: one of the two fails.
BreakDeadlock(r) ==
  /\ Deadlocked(r)
  /\ GiveUp \/ (Refuse(r) /\ UNCHANGED <<rowVars, deletion, under>>)

-------------------------------------------------------------------------------
(* Dispatches.                                                             *)

\* Execute takes the project from the path; that it is the job's is not looked at.
Execute(e, j, p) ==
  /\ MayRefer(j) /\ MayRefer(p)
  /\ Dispatch(e, j, TRUE)
  /\ under' = [under EXCEPT ![e] = p]
  /\ UNCHANGED <<rowVars, deletion>>

\* A cron entry outlives its job.
FireJob(e, j) ==
  /\ j \in Jobs \cup gone
  /\ Dispatch(e, j, FALSE)
  /\ UNCHANGED <<rowVars, deletion, under>>

Load(e) == (LoadJob(e) \/ LoadSteps(e)) /\ UNCHANGED <<rowVars, deletion, under>>

-------------------------------------------------------------------------------
DeletionStep == FinishDeletion \/ RefuseDeletion \/ \E x \in NextRows : LockRow(x)

Next ==
  \/ \E r \in Request :
       \/ SaveStep(r) \/ BreakDeadlock(r)
       \/ \E j \in Job, w \in Workflow : Save(r, j, w)
  \/ \E j \in Job : DeleteJob(j)
  \/ \E p \in Project : CreateProject(p) \/ DeleteProject(p)
  \/ \E d \in Def : CreateNode(d) \/ DeleteNode(d)
  \/ \E x \in Rule : CreateRule(x) \/ DeleteRule(x)
  \/ \E x \in Project \cup Def \cup Rule : UpdateContents(x)
  \/ DeletionStep
  \/ \E e \in Execution :
       \/ Load(e)
       \/ \E j \in Job : FireJob(e, j)
       \/ \E j \in Job, p \in Project : Execute(e, j, p)

Spec == Init /\ [][Next]_vars

\* Handlers run on: PostgreSQL answers, breaks deadlocks, and hands a row lock on to
\* who waits for it, also when others want the row again and again.
FairSpec ==
  /\ Spec
  /\ SF_vars(\E r \in Request : SaveStep(r))
  /\ WF_vars(\E r \in Request : BreakDeadlock(r))
  /\ WF_vars(DeletionStep)

-------------------------------------------------------------------------------
(* Properties.                                                             *)

\* Types; what a deletion has locked is there, and belongs to what is deleted.
TypeOK ==
  /\ job \in [Job -> JobRow \cup {NoRow}] /\ steps \subseteq StepRow
  /\ projects \subseteq Project /\ defs \subseteq Def /\ rules \subseteq Rule
  /\ gone \subseteq Project \cup Def \cup Job
  /\ req \in [Request -> Busy \cup Ended \cup {Nowhere}]
  /\ exec \in [Execution -> Dispatched \cup {Nowhere}]
  /\ under \in [Execution -> Project \cup {None}]
  /\ deletion \in [what : projects \cup defs \cup {None},
                   held : SUBSET (projects \cup defs \cup Jobs)]
  /\ \A x \in Held \ {deletion.what} : x \in Job \cup Def /\ Home[x] = deletion.what

\* The tree of rows is whole whatever is made in a project while it is deleted:
\* definitions, jobs, steps and rules have their parents, and a step its definition.
TreeIsWhole ==
  /\ \A x \in Jobs \cup defs : Home[x] \in projects
  /\ \A x \in rules : JobOf[x] \in Jobs
  /\ \A s \in steps : s.job \in Jobs /\ s.def \in defs

\* What is deleted stays deleted: no update, save or cascade that had read the row
\* before brings it back.
GoneStaysGone == gone \cap (projects \cup defs \cup Jobs \cup rules) = {}

\* The record of an execution outlives every attempt to delete what it belongs to:
\* its job and its project are there, and it finds the job.
HistoryStays ==
  \A e \in Execution : exec[e].pc # "idle" /\ exec[e].manual =>
    exec[e].job \in Jobs /\ under[e] \in projects /\ exec[e].pc # "nojob"

\* A save waits for the row of the job, or for steps that another is deleting.
Awaits(r, q) ==
  /\ q # r /\ req[q].pc \in Writing
  /\ \/ req[r].pc = "row" /\ req[q].matched /\ req[q].job = req[r].job
     \/ req[r].pc = "clearing" /\ req[q].dels \cap req[r].seen # {}

\* Saves cannot deadlock among themselves, nor a chain of them with a deletion: a
\* save that waits for another uses nothing that anybody waits for (Update changes
\* the job's row before all else).
WaitersHoldNothing ==
  \A r, q \in Request : Awaits(r, q) =>
    ~DeletionAwaits(r) /\ \A p \in Request : ~Awaits(p, r)

\* Every save and every deletion is answered: a transaction gives its rows back
\* whichever way it ends, and where a save and a deletion wait for each other one
\* of them fails.
RequestsAreAnswered ==
  /\ \A r \in Request : (req[r].pc # "idle") ~> (req[r].pc \in Answered)
  /\ (deletion # NoDeletion) ~> (deletion = NoDeletion)

-------------------------------------------------------------------------------
(* Refinement: the tables and the transactions are a JobStore.             *)

\* A job: the save that wrote it, and its steps.
Stored == [j \in Job |->
             IF job[j] = NoRow THEN NoRow
             ELSE [by |-> job[j].by, rows |-> {s \in steps : s.job = j}]]

ASSUME StoredAssumption == NoRow \notin [by : Request, rows : SUBSET StepRow]

\* Requests: what their clients know of them.
Saves == [r \in Request |->
            IF req[r].pc = "idle" THEN [st |-> "unsent"]
            ELSE [st |-> IF req[r].pc \in Answered THEN req[r].pc ELSE "open",
                  job |-> req[r].job, spec |-> req[r].spec]]

\* Executors: the steps they have loaded.
Seen == [e \in Execution |->
           IF exec[e].pc = "loaded"
           THEN {exec[e].run[i] : i \in DOMAIN exec[e].run} ELSE None]

Store == INSTANCE JobStore
           WITH Reader <- Execution, Fits <- IsMaterialization,
                Absent <- NoRow, Unread <- None,
                store <- Stored, deleted <- gone \cap Job, save <- Saves, seen <- Seen

\* However the statements of saves, deletions and dispatches interleave, wait for each
\* other and fail, each save is one change of a job with all its steps, between the
\* request and its answer, or none, and an executor loads the steps of one save.
ImplementsJobStore == Store!Spec
===============================================================================
