# Openote: models, checks and proofs

Openote is a visual job scheduler: an API server (Go, Echo), a worker (Go), a
single-page frontend (React), PostgreSQL and Redis.  This directory holds TLA+
modules of the parts whose behaviour depends on what happens at the same time,
in which order, and what fails in between; the TLC configurations that check
them; and theorems that TLAPS proves.  `PROJECT.json` leads from every
definition to the source lines it stands for.

    tlc -config executions_faults.cfg MCExecutions.tla
    tlapm ExecutionsProofs.tla

## 1. The system

### 1.1 Inventory

| Component | State | Operations | Module |
|---|---|---|---|
| execution API (`api/internal/execution`) | table `executions`, stream `executions:queue` | Execute, AbortExecution, StreamLogs, list, get | Executions, LogStream |
| worker process (`worker/cmd/worker`) | goroutines, shared context | start, signal, 30 s shutdown, crash | Executions |
| consumer (`worker/internal/consumer`) | consumer group `workers`, its pending list | reclaimPending, Run, processMessage, parseDispatch, ack | Executions, WorkQueue |
| executor (`worker/internal/executor/executor.go`) | `executions`, `step_executions` | Execute, loadJob, loadSteps, upsert/finalizeStepExecution | Executions |
| step runner (`runStep`, `process.go`) | child processes, pipes, script file | runStep, copyStream, killProcessGroup | StepRunner |
| log writer (`worker/internal/logstream`) | `execution_logs`, incomplete last line, counter | Write, Flush, writeLine | StepRunner, LogStream |
| scheduler (`api/internal/schedule/scheduler.go`) | key `scheduler:leader`, cron entries | Start, Stop, RegisterJob, UnregisterJob, fireJob, isLeader, runLeaderLoop | SchedulerLock, Schedules |
| schedule handlers (`api/internal/schedule`) | table `schedules` | UpsertSchedule, DeleteSchedule, ListEnabled, UpdateLastRun | Schedules |
| log viewer (`frontend/src/hooks/useLogStream.ts`) | sockets, timers, refs, lines | effect and its cleanup, connect, socket handlers | LogViewer |
| jobs and workflow (`api/internal/job`) | `jobs`, `job_steps`, `node_definitions` | CreateJob, UpdateJob, DeleteJob, materializeSteps, CreateNode, UpdateNode, DeleteNode | Jobs, Projects, JobStore |
| projects (`api/internal/project`) | `projects`, and all that cascades from it | CreateProject, UpdateProject, DeleteProject | Projects |
| notification rules (`api/internal/notification`) | `notification_rules` | CreateRule, UpdateRule, DeleteRule | Projects |
| sessions (`api/internal/auth`) | refresh tokens in Redis, access tokens | Login, Refresh, Logout, JWTMiddleware | Sessions |
| users (`api/internal/user`) | table `users` | Create, Update, Delete | Sessions |
| API server process (`api/cmd/server`) | the scheduler of the instance | start, stop, routes | Schedules, SchedulerLock |
| workflow canvas (`frontend/src/components/workflow`, `store/workflow.ts`) | nodes, edges, the store's copy | drop, connect, edit, save | not modelled (section 5) |
| audit (`api/internal/audit`) | table `audit_events` | Append, which nothing calls | not modelled |
| frontend session, pages, infra | - | - | not modelled (section 6) |

### 1.2 How they interact

A user's *Execute* inserts a row `queued` and adds an entry to the Redis Stream;
a scheduled run adds an entry as well (`fireJob`), decided by one key in Redis
that all API instances share.  Worker goroutines read entries through a
consumer group, run the executor, and acknowledge.  The executor writes the
status of the execution and of its steps, runs each step in a child process,
and two Writers put its output into a table and publish it; the API forwards
what it subscribes to over WebSockets, which a hook in the browser opens, closes
and reopens.  An abort is a row update and a message on a Redis channel.

Everything a user makes hangs on a project by foreign keys: definitions, jobs,
their steps, schedules and rules go with it, executions do not and hold it back.
The handlers of all these run at the same time, on any instance, and meet only in
PostgreSQL's row locks.

### 1.3 What is hard here, and what would make it right

* **Executions.** Two statements against two stores with no transaction; a
  pending list that survives processes; claims by idle time; a context that is
  cancelled under a running job; retries over rows an earlier attempt left.
  *Right*: an execution is run by one goroutine at a time, for as long as its claim
  lasts, and a claim is not renewed; an acknowledged entry has been dealt with; what the rows say of a success or a failure is true;
  what is dispatched ends.
* **Scheduler.** The same instant on several clocks, a key with a TTL, holders
  that die. *Right*: one dispatch for a schedule and an instant, and there is one.
* **Schedules.** A table and several in-memory copies, changed one after the
  other; cron jobs that fire between the two. *Right*: entries say what rows say;
  a recorded run is the schedule's own.
* **Steps.** Processes that fork, hold pipes, ignore signals; deadlines; pids.
  *Right*: no output is lost, the result is the child's, a deadline ends a step.
* **Logs.** Two streams with one counter, two sinks that fail apart, several
  attempts, subscribers that come late. *Right*: order, completeness, and no
  live line that cannot be read again.
* **Jobs.** A row and the rows made of it, written in a transaction whose
  statements see each other's commits; a foreign key to definitions that others
  delete; an executor that reads the two tables one after the other.  *Right*:
  a job's steps are those of its workflow at every moment; a refused save leaves
  nothing; steps run after those they depend on.
* **Projects.** A delete that takes its rows one lock after the other while
  others make rows below it, write back rows they read before, or hold what it
  needs and wait for what it has.  *Right*: no row without its parent, nothing that
  was deleted comes back, no execution loses its job, everybody is answered.
* **Sessions.** A token read and deleted by two commands, of which the second
  may fail unseen; users who are disabled, deleted and made anew while requests
  are under way; updates that write back what they read.  *Right*: a refresh token
  is used once, those that clients hold work, who is out stays out.
* **Viewer.** Answers and socket events that arrive after the user has moved on.
  *Right*: one socket, the right lines, nothing left behind, and it settles.

`PROJECT.json` lists the hazards line by line.

## 2. The modules

Names are the code's wherever there is one: actions are the functions, values
are the string values.  A statement against PostgreSQL or a Redis command is one
atomic step, and anything can happen between two of them.  `"ok"`, `"lost"` (it
failed and changed nothing) and `"unknown"` (it took effect and an error was
returned) are the outcomes of a statement.

**Executions** composes the execution API, the worker process, the consumer and
the executor around the stream.  `row` and `steps` are the two tables; `id`,
`topId`, `cursor`, `pel`, `stale` and `acked` are the stream and its group; `api`
(with what Execute has answered, `created` or `ended`) and `aborting` are handlers; `proc`, `pc`, `batch`, `cur`, `step`
and `verdict` are processes and goroutines.  `pc[c]` names the statement a
goroutine executes next: `load` (loadJob, loadSteps), `mark` (the UPDATE to
running), `begin` (upsertStepExecution), `run` (runStep and
finalizeStepExecution), `skip` (the skipped rest), `final` (finalStatus), `ack`.
What a step does is an outcome, success or failed.  `Happens` says what the
environment does: aborts, requests that end early, crashes, signals, failing
statements.  Jobs take any time: an entry that is pending may become claimable
(`GrowStale`) at any moment, in a goroutine's hands or not.  `UpsertFits` says
whether the table has what upsertStepExecution names (section 5).  Three histories
remember what the properties must not promise for that one execution: `overdue`, its
entry became claimable in somebody's hands; `rowErr` and `stepErr`, a statement about
its job or row, or about the rows of its steps, failed on its own.

**WorkQueue** is the abstract specification of what the stream and the workers
are to be, a queue with leases: an item is taken when nobody has a lease on it that
still runs, a lease is not renewed, and when it has run out the item may be taken
again although somebody has it in hand; an item is finished with once, for everybody.
`Executions!ImplementsWorkQueue` is the refinement: `added` are the entries, `leased`
the pending ones, `expired` those idle for `pendingClaimAge`, `holders` the goroutines
that have the message, `done` the acknowledged ones.

**SchedulerLock** is time: ticks, the key's remaining life `ttl`, the instants of
the cron expressions (`age` since the latest), and for each instance and
schedule whether fireJob is still to be called (`waiting`), has passed isLeader
(`leading`) or has added its entry (`dispatched`).

**Schedules** leaves time out: rows, each instance's cron entries, requests
between two of their steps, and the runs that are fired.  `stale` is history, used
by a property only: the jobs whose schedule an instance cannot follow any more,
because another instance served a request for it, two requests overlapped, a
statement's outcome was unknown, or a job handler deleted or (de)activated the job.

**StepRunner** is `runStep` with the operating system around it: processes with
pid, group and pipe, reads that end a line or not, contexts that end at any
moment.  `pc` is where runStep waits: `drain` (both copyStream), `wait`
(cmd.Wait), `check` and `grace` (killProcessGroup).

**LogStream** is the two Writers of an attempt line by line (number, INSERT,
PUBLISH), the attempts, and StreamLogs with its clients.  `InsertFits` says whether
the table has the columns the INSERT names (section 5).

**Jobs** is the transactions of the job repository, statement by statement, under
READ COMMITTED: `job`, `steps` and `defs` are the tables, `req[r]` a request with
its next statement (`create` or `find`, `row`, `clear`, `clearing`, `insert`) and
what its transaction has written, invisible to others until COMMIT.  A workflow is
its nodes, their heights, their definitions and edges; `Orders` are all orders
`sort.Slice` may put nodes of one height in.  `exec[e]` is what the executor has
loaded of the job.  It has no Next of its own.

**Projects** extends Jobs with the other tables below a project and composes all of
it.  `projects`, `defs` and `rules` are sets of IDs; `gone` remembers IDs that were
deleted.  `deletion` is a DELETE of a project or a definition under way: it locks
row after row (`NextRows`, the order of the cascades), waits for rows that open
transactions use (`Uses`), and then removes what it holds (`FinishDeletion`) or is
refused because an execution or a foreign step refers to it (`RefuseDeletion`).  A
save waits for rows the deletion holds (`AwaitsDeletion`); when both wait for each
other PostgreSQL fails one (`BreakDeadlock`).  The updates of projects, definitions
and rules may come any time after they have read their row.

**JobStore** is the abstract specification of what these tables promise: a job is
what one save made it, with all its steps; a save takes effect at one moment
between its request and its answer, or never; what is deleted stays deleted; a
reader gets all steps of one save.  There are no statements, locks or transactions
in it.  `Projects!ImplementsJobStore` is the refinement: `Stored` are the rows as
others see them, each with its steps and with the save that made them, `Saves` what
the clients know of their requests, and `Seen` the steps the executors have loaded.
COMMIT is `Put`, every statement before it stutters, and `FinishDeletion` deletes.

**Sessions** is users, refresh tokens (`live`, the keys in Redis, against `held`,
what clients were given) and access tokens (`access`, users for whom an unexpired
one is around).  `request[r]` is a handler between two commands: a Refresh that
has read its token (`delete`), is to find the user (`find`) or to store the new
token (`store`, Login too), and an Update that has read the row (`write`).
The history variables are what the properties compare with: `wanted`, what the
updates of a user asked for, and `mixed`, the users with updates under way of which two
overlapped; of these what they wrote, whole rows, is what counts.

**CommandLine** is `splitCommand`: `Scanned` is what the loop keeps after each
character, a recursive function, and `Lines` are the ways to write words, each in
pieces that are quoted or need not be.  StepRunner extends it, since runStep makes a
child's argv with it; *CommandsAreSplit* is *WordsSurvive* of this module.

**LogViewer** is the hook in one mounted component: each event handler is an action,
an unmount is final, and the server is external and answers when and how it likes.  A
component that is mounted anew has refs of its own and shares nothing with the old one.

The `MC...` modules give small instances: model values, functions for constants
that are functions, symmetry sets.

Each definition named "Mutant of ..." in a module is a plausible mistake in the
code; no behaviour uses it.  `PROJECT.json` pairs every checked property with
a mutant under which TLC finds it violated.

## 3. What is checked

| Run | Question | Instance |
|---|---|---|
| `executions_faults` | *AtMostOneExecutor*, unless overdue; an acknowledged execution has ended (*AckedMeansSettled*) and is left alone (*AckedIsLeftAlone*); what Execute answered 201 for is not lost (*AcceptedIsKept*); a success is earned by its steps over all attempts (*SuccessIsEarned*), a failure's step rows explain it (*FailureIsExplained*); *NoEntryVanishes* | 1 execution of 3 steps with policy stop, 2 processes; all of abort, crash, signal, disconnect, io_error |
| `executions_liveness` | the refinement *ImplementsWorkQueue*; *EveryDispatchSettles*, *StaleIsRecovered* | 2 executions of jobs without steps, 2 processes; crash |
| `lock_dispatch` | one dispatch per schedule and instant (*OneDispatch*), a free key is used (*FreeLockFires*) | 3 instances, 2 schedules, TTL 3, renewal 1, period 4, lateness 2; crash, io_error |
| `schedules` | cron entries are what the rows say (*EntriesMatch*), a recorded run is the schedule's own (*RunsAreOwn*) | 1 instance, 2 requests at a time, 2 jobs, 2 expressions, 2 IDs, 1 run; statements that fail, jobs that are deleted and deactivated |
| `steps` | *OutputIsLogged*, *ResultIsHonest*, *ScriptLivesWithChild*, *DeadlineEndsStep*; *CommandsAreSplit*, splitCommand against the words a user wrote, quoted whole or in pieces | 1 runner, 2 steps, 3 pids, pipes that hold 1 read; command lines of up to 2 words |
| `logs` | numbers unique and in order (*LinesInOrder*), *LiveIsStored*, *EveryLineIsPersisted* | 2 attempts of up to 3 lines on 2 streams, 1 viewer; crash, abort, all outcomes |
| `viewer` | *OneSocket*, *OwnLines*, *QuietAfterUnmount*, *Settles* | 2 executions, 3 sockets, 3 runs of the effect, 1 retry, 1 chunk |
| `jobs` | a job's steps are its workflow's (*StepsMatchWorkflow*), *RefusedLeavesNothing*, *DependenciesRunFirst*; an execution keeps its job and project (*HistoryStays*), *TreeIsWhole*, *GoneStaysGone*, saves wait for each other only as a queue (*WaitersHoldNothing*), *RequestsAreAnswered*; the refinement *ImplementsJobStore* | Projects with 1 project, 1 job, 1 definition, 1 rule, 3 saves of 2 workflows, 1 dispatch; statements that fail |
| `sessions` | *TypeOK* with unique usernames, *UpdatesHold*, *RefreshedOnce*, *HandedTokensWork*, *DisabledStaysOut* | 2 user IDs of one name, 2 tokens, 2 requests at a time; commands that fail |
| `executions_sent_fields` | violated: *EveryDispatchSettles* with the fields Execute really sends | 1 execution |
| `executions_reclaim` | violated: *ReclaimsFromCrashed* | 1 execution of 1 step, 2 processes; nothing fails |
| `lock_keeps_firing` | violated: *KeepsFiring* | 1 instance, 1 schedule, period 6 |

### 3.1 Bounds

The bounds are the smallest at which each hazard can occur, and one more where
that was affordable.  Two goroutines in two processes let one claim what the other has
in hand, and let an attempt follow one that a crash ended; three steps have
something on both sides of a failing one.  What
executions share is the stream and its group, not rows: `executions_faults` has one
execution and every failure, `executions_liveness` two, one before the other in the
stream or in one reclaimed batch, and no steps, which add nothing to a queue but time.
The policy "continue", and everything for more executions, steps and workers at once, is
in the theorems.  Time
in `SchedulerLock` has ticks of ten seconds, so TTL and renewal are the code's;
period 4 has instants after the key ran out, period 6 has time for renewals in
between.  Three pids let a pid be used again while a daemon keeps its group
number.  Three saves are a create and two updates that overlap; the two
workflows have a node above another with an edge down and an edge from a node that
is gone, and no node at all, so that a save may have anything, or nothing, to
delete and to insert.  One row in each table is enough for a save and a deletion to
race and to wait for each other; `Requests` are numbered as they arrive, which loses
nothing since they differ in their number only.  A commit that takes effect and
reports an error (`"unknown"`) is left out of this run for its size; the theorems
have it.  The proofs also cover nodes of one height, edges that lead upward, several
projects, and everything else the instance is too small for.  In `sessions` the second
user ID can only be made after the first is deleted, since they have one name; two
tokens let one be in use while the other is handed out, and two requests race.
The words of *CommandsAreSplit* are all of one or two characters out of a letter, a
blank and the two quotes, written in all the ways there are; two characters are what it
takes to write a word in two pieces.  Pipes hold one read, so a writer is blocked as soon as it can be.
`MaxRuns`, `MaxId`, `MaxLines`, `MaxAttempts`, `MaxChunks` and `MaxShows` cap
counters in guards; nothing in the properties depends on their values.
`MaxRetries` is the code's MAX_RETRIES, 10 there.  Each property is
falsified by a mutant within these bounds.

`executions_faults` has a VIEW, under which states of an overdue execution are one when
they differ only in the rows of its steps and in the errors met (`UnlessOverdue`): no guard
depends on these, and every property that does is about executions that are not overdue.

Symmetry is used in safety runs only; *DisabledStaysOut* and *AckedIsLeftAlone* are
action properties, and safety.

`CHECK_DEADLOCK FALSE` is in the runs of LogStream, where an execution that is
over and has no viewers is the end, of LogViewer, where an unmounted viewer
without further user actions is, of Jobs, where all requests have been answered,
and of Sessions, where all users are deleted and all tokens expired.

### 3.2 Assumptions of the passing runs

* The properties of Executions assume nothing of how long jobs take or which statements
  fail; what they cannot promise is named in them, for the one execution it happened to.
  XAUTOCLAIM counts from the delivery and nothing renews a claim, so of an entry that was
  in hand for more than `pendingClaimAge` (60 s; `overdue`) two attempts may run at once
  and overwrite each other.  `processMessage` acknowledges after every error, so a failing
  loadJob, loadSteps or updateExecution (`rowErr`) leaves a row `queued` or `running`; a
  failing statement of a step's row (`stepErr`) leaves that row as it was.  Errors of a
  process that is shutting down are no such excuse: its XACK is refused as well.
* The passing runs have stream entries with the fields parseDispatch asks for and tables
  with the columns the statements name (`UpsertFits`, `InsertFits`).  Section 5 says where
  this is not so, and theorems say what follows (*UnparsedIsNeverRun*, *StepsNeverBegin*,
  *LinesNeverFit*).
* *EntriesMatch* speaks of an instance and a job as long as the instance can follow
  (`stale`, section 2): the code tells no other instance of a request, and two
  overlapping first upserts, or one for an inactive job, do leave an entry too many.
* *DependenciesRunFirst* is about workflows whose edges lead downward, and
  *HistoryStays* about manual dispatches: a scheduled one inserts no row and may find
  its job gone.
* The executor's INSERT into `step_executions` names columns the migration does not
  have (section 5), so the reference `step_executions.job_step_id` without CASCADE
  (000001_init.up.sql:159) is left out of Jobs.  With columns that agree, a job that
  has run could not be saved again, for the save deletes its steps.
* While updates of a user overlap (`mixed`) *UpdatesHold* asks only for the row that was
  written last, and *DisabledStaysOut* lets the user come back: an update writes every
  column as it read it, so a late change of a password enables a user who was disabled
  meanwhile.  From the last of these updates on both hold again.
* *RefreshedOnce* excuses tokens that two requests presented at a time or whose DEL
  failed (`excused`): Refresh does not look at either.
* *OwnLines*, *QuietAfterUnmount* and *Settles* are about users who do not move
  on before a fetch is answered (`hasty` records that one did); *OneSocket* is not.

### 3.3 Fairness

*Executions*: goroutines get the processor, and statements and steps end (each
step has a timeout), so `ConsumerStep` is weakly fair; a process that is down is
restarted by its supervisor, so `Start` is.  Users, crashes, signals, `Exit` and
the passing of idle time are under no obligation.  *SchedulerLock*: time
passes, tickers and cron goroutines run.  *StepRunner*: the worker's own
goroutines run and every context ends; no child has to do anything.
*LogStream*: the Writers and the API's goroutines, though its run checks safety only.
*Projects*: handlers run on and PostgreSQL answers (`DeletionStep`), notices a
deadlock (`BreakDeadlock`) and queues those who wait for a row, so that a save gets
on even when others take the row again and again: `SaveStep` is strongly fair.
*Schedules* and *Sessions*: none.  *LogViewer*: fetches are
answered, connections open unless refused, events and timers are delivered, and
user and network come to rest at some time.

## 4. What is proved

| Theorem | Module | Says, for all values of the constants |
|---|---|---|
| TypeCorrect | ExecutionsProofs | the type invariant, with *Hands*: what a goroutine's `pc` says of `cur` and `batch` |
| DeliveredIsKept | ExecutionsProofs | *NoEntryVanishes* |
| AcceptedKept | ExecutionsProofs | *AcceptedIsKept* |
| OneExecutor | ExecutionsProofs | *AtMostOneExecutor* |
| AckedUntouched | ExecutionsProofs | *AckedIsLeftAlone* |
| SuccessEarned | ExecutionsProofs | *SuccessIsEarned* |
| AcksAreSettled | ExecutionsProofs | *AckedMeansSettled* |
| FailuresExplained | ExecutionsProofs | *FailureIsExplained* |
| QueueImplemented | ExecutionsProofs | *ImplementsWorkQueue* |
| UnparsedIsNeverRun | ExecutionsProofs | an execution whose entry lacks a field parseDispatch asks for (`~Parses`), as all that Execute sends do, never begins |
| StepsNeverBegin | ExecutionsProofs | while the table does not fit the upsert (`~UpsertFits`) no step begins and no job with steps succeeds |
| BeforeGroupIsLost | ExecutionsProofs | an execution dispatched before the group exists is never served |
| LockTypeCorrect | SchedulerLockProofs | the type invariant of the lock |
| DispatchedOnce | SchedulerLockProofs | *OneDispatch* |
| OneScheduleFires | SchedulerLockProofs | of all schedules due at an instant one at most is dispatched |
| KeyIsNeverFreed | SchedulerLockProofs | the key never expires again, without crash and io_error, with RenewEvery < TTL |
| NothingFiresAgain | SchedulerLockProofs | once an instant has come with the key there nothing is dispatched any more, under the same assumptions |
| StreamTypeCorrect | LogStreamProofs | the type invariant of the log stream |
| NumberedInOrder | LogStreamProofs | *LinesInOrder* |
| LiveStored | LogStreamProofs | *LiveIsStored* |
| LinesNeverFit | LogStreamProofs | while the table does not fit the INSERT (`~InsertFits`) no line is stored or goes out live |
| LinesPersisted | LogStreamProofs | *EveryLineIsPersisted* |
| SchedulesTypeCorrect | SchedulesProofs | the type invariant of the schedules: a row is its job's, one cron entry per ID |
| RunsOwn | SchedulesProofs | *RunsAreOwn* |
| EntriesFollow | SchedulesProofs | *EntriesMatch* |
| ProjectsTypeCorrect | ProjectsProofs | the type invariant of Projects: tables, requests, executions, what a deletion holds |
| StepsFollow | ProjectsProofs | *StepsMatchWorkflow* |
| RefusalsLeaveNothing | ProjectsProofs | *RefusedLeavesNothing* |
| RunsKeepDependencies | ProjectsProofs | *DependenciesRunFirst* |
| TreeStaysWhole | ProjectsProofs | *TreeIsWhole* |
| NothingReturns | ProjectsProofs | *GoneStaysGone* |
| HistoryIsKept | ProjectsProofs | *HistoryStays* |
| StoreImplemented | ProjectsProofs | *ImplementsJobStore* |
| SavesQueueUp | ProjectsProofs | *WaitersHoldNothing* |
| RunsAlike | ProjectsProofs | at every moment a job's steps can be loaded, in one order only |
| SessionsTypeCorrect | SessionsProofs | the type invariant of Sessions, unique usernames with it |
| UpdatesLast | SessionsProofs | *UpdatesHold* |
| RotationHolds | SessionsProofs | *RefreshedOnce* |
| NoSessionLost | SessionsProofs | *HandedTokensWork* |
| TheDisabledStayOut | SessionsProofs | *DisabledStaysOut* |
| StepsTypeCorrect | StepRunnerProofs | the type invariant of StepRunner: no two running processes have one pid |
| OutputLogged | StepRunnerProofs | *OutputIsLogged* |
| ResultHonest | StepRunnerProofs | *ResultIsHonest* |
| ScriptWithChild | StepRunnerProofs | *ScriptLivesWithChild* |
| CommandsSplit | StepRunnerProofs | *CommandsAreSplit* |
| ViewerTypeCorrect | LogViewerProofs | the type invariant of LogViewer |
| OneSocketLives | LogViewerProofs | *OneSocket* |
| LinesAreOwn | LogViewerProofs | *OwnLines* |
| QuietWhenGone | LogViewerProofs | *QuietAfterUnmount* |

Any number of executions, steps, processes, goroutines and hosts, any policy,
and every subset of the environment's actions but the ones named; any attempts,
lines and viewers; any instances, overlapping requests, jobs and schedule IDs; any
projects, definitions, workflows, saves and dispatches; any users, tokens and
patches; any runners, steps, pids and pipes, any characters and any
words but the empty one (section 5); any sockets, retries and runs of the effect.  The
type invariants are left to their theorems, and the runs spend their time on the
other properties; only that of Sessions, with unique usernames in it, is in a run.
The assumptions on constants are the named ASSUMEs of the modules, which TLC
evaluates: that the "none" values are not IDs or rows, that the IDs of different
tables are different, that a workflow is a function of finitely many nodes.

*Executions.*  `AtMostOneExecutor` is not inductive: it says nothing of the
pending list that the next claim goes by.  The invariant is built up.  *Hands*
ties a goroutine's hands to its `pc`.  *Accounting* orders stream IDs, the
group's cursor and the deliveries (an ID is given out once, what is pending was
delivered, nobody has what was not) and with it *NoEntryVanishes* is inductive.
*Ownership* adds that what a goroutine has is pending for this goroutine and not stale,
unless it is `overdue`.  XAUTOCLAIM takes stale entries only, and the one way to become
stale while in hand makes the entry overdue for good, so this is inductive with claims of
any message, and with it come *AtMostOneExecutor* and that an acknowledged message that
was not overdue is in nobody's hands, hence *AckedIsLeftAlone*.  The refinement needs
*Accounting* only: a lease does not say that its holder is alone.
*Attempt* is the loop invariant of the executor: while the verdict is success
the rows of the steps before the current one are running or success; it is about
executions that are not overdue, since two goroutines at one execution undo it.
*Ending* is the stronger loop invariant of executions that are not in `stepErr` either:
where the failed step is, that the steps before it succeeded and those after it are
skipped, as far as the loop has come (*Explained*, *Progress*), and that a goroutine that
is about to acknowledge and is not cancelled has settled its row or met a `rowErr`.  A
cancelled goroutine may leave anything behind, but can write nothing more, the ACK
included; this is what makes a shutdown safe, and the message is run again from the start.
*Answered* says of what was answered 201 that its row and its entry were made, and
neither is ever taken back; an entry is undelivered, or pending, or acknowledged, and then
*AckedMeansSettled* has it, so *AcceptedIsKept* holds.

*SchedulerLock.*  The invariant *Guarded*: as long as an instance may still call
fireJob for the latest instant and one has got through, the key lives longer
than that call may take (`ttl + age > Lag`), and only one call has got through.
It needs `Lag < TTL` and `Lag < Period`, nothing else; renewals only help.  It
also shows that of all schedules due at one instant only one is dispatched
(*OneScheduleFires*).

*LogStream.*  *Numbered* says that a busy Writer has a number no other busy Writer
has and none above the counter; *Placed*, where the rows of the running attempt
stand against the Writers: before the line a Writer is about to insert, and none
of a later attempt.  With it *LinesInOrder* is inductive.  *InsertedFirst* and
*Complete* say what a Writer's next statement means for the table.

*Schedules.*  *RunsAreOwn* needs to know that an ID never comes to stand for another
job, and IDs are not only in the table: requests have them in memory, instances
in their cron entries, runs on their way to be recorded.  *Owned* says that in all
four places together an ID is one job's, and at most the last that was made;
*Recorded*, that the last run of every Schedule in the table or in a request is a
run of its job.  *EntriesMatch* is not inductive while a request is between its statement and the
scheduler: *Following* says what each such request will make of the entries, for
the one request that may be about a job the instance follows.

*Projects.*  *TreeIsWhole*, *GoneStaysGone* and *HistoryStays* are the foreign keys,
and with one deletion beside any number of saves they need to know what open
transactions have: *Locks* says that two never hold one job's row, that the row of
a job being made is its maker's alone, and that nothing an open transaction uses is
locked by the deletion, so that a deletion that has locked everything finds what
it will remove and nothing else.  *Content* is what a transaction will leave:
`ins` and `rest` together are the materialization of its workflow, and `dels`, once
it has cleared them, all steps of the job.  *Saved*, which gives *StepsMatchWorkflow*
and *RefusedLeavesNothing*, says that a job's row and all its steps come from one
request, which is over; *Loaded*, the same of what an executor has loaded.  The
order of the steps is an argument about `Orders`: an injection from 1..n into n
nodes meets all of them (*Enumerates*).

The same invariants carry the refinement of *JobStore*.  A statement inside a
transaction changes no row that others see, so it stutters.  At a COMMIT *Content* says
that the rows of the job become the materialization of the request's workflow, and
*StillHeld* (with *Locks*) that nobody has touched the job's row since this request
locked it: one `Put`, or a `Miss` where the job was deleted before the UPDATE reached
its row.  What `FinishDeletion` removes are jobs with all their steps, and by
*Enumerates* a list of loaded steps has the same steps as the table had.

*WaitersHoldNothing* is why saves need no deadlock detection among themselves:
UpdateJob updates the job's row before it touches a step, so a save that waits for
another waits at that row, with nothing deleted or inserted yet (*WaitsAtTheRow*),
and nobody can wait for it.  Put the other way, a circle has one save and the
deletion, which is the one `BreakDeadlock` looks for.

*Sessions.*  *UpdatesHold* needs *UserInv*: an update that has read the row of a user
has the row's present columns in hand, unless the user is `mixed`; a user
leaves `mixed` with the last of the overlapping updates, when there is none left that
could have older columns in hand (*UpdateOver*).  *Rotated* says
of a token that is not excused that one request at most presents it, that it is out
of Redis from that request's DEL on, and that it is not presented once it was used;
from it comes *RefreshedOnce*.  *DisabledStaysOut* needs that a user can be enabled by an update only that asks for it
or writes back what it read, and then by *UserInv* the user is `mixed` (*OnlyEnabled*), and
that nobody without an active row is given a token (*BarredStaysOut*).

*StepRunner.*  *ChildOf* ties the child's fate to where runStep waits, *OutputOf* says
that a stream that has ended was read to its end and that no process holds its
pipe, *ResultOf* that the result is drawn from an exit that cannot change any more,
whoever gets the pid next.

*LogViewer.*  *OneSocket* is inductive with *LiveIsArmed*: a socket that lives still
has its `onclose`, for only the cleanup takes it away, and closes the socket with it;
`connect` closes what `wsRef` names before it opens another.  For the rest *Tidy* says
what holds as long as the user has not moved on before an answer: a run of the effect
has one way to a connection at a time, its fetch, then a socket, then the timer this
socket leaves behind (*OwnFetch*, *OwnSocket*, *OwnTimer*), all of the execution that
is shown.  The cleanup knows the socket and the timer, so an unmount leaves nothing
(*QuietAfterUnmount*), and no line of another execution comes in (*OwnLines*).

*CommandLine.*  *CommandsSplit* is an induction over data, which the prover's induction
theorems cannot state; here it goes through all the same, since a recursive function
is an ordinary function and the sets of numbers for which a step holds can be named:
a set that has every `k` whose predecessors it has contains `0..n` (*UpTo*), because
`<` on Nat is well-founded and its complement would have a least number (*WFMin*).
*ScannedDef* shows with it that the recursive function exists, *ScannedType* what the
loop keeps, *ResultSnoc* that one more character is one more `Scan`.  Then by size:
characters that do not matter to the loop are copied (*CopyRun*); a piece, in quotes or
bare, adds its characters to the current word (*PieceRun*), whatever quote it contains,
since only the quote that began it ends it (`Closes`); a word adds itself however it is
cut into pieces (*WritingRun*); a line leaves its last word in `current` and the others
in `parts` (*LineRun*); and `Cut` adds the last.

*Sorting.*  In the same way *Sortable* shows that any finite set has an order that
`sort.Slice` or ORDER BY may return (the largest element last, after an order of the
rest), so that `Orders` and `Ordered`, over which the actions quantify, are never empty
and the models of a save and of a load never stop there.  *OneOrderOnly* says that
elements with different keys have one such order; with *Saved*, which gives the rows of
a job different `step_order`s, it follows that executors that load a job at the same
moment run it alike (*RunsAlike*), though two saves of one workflow may differ in nodes
of one height.

*What cannot happen any more.*  Some of what section 5 says is proved as safety, for
every instance.  *UnparsedIsNeverRun* is the core of `executions_sent_fields`: an entry
with the fields that Execute sends never gets as far as the executor, so its row is never
`running` and no step row is made for it (*UnparsedIdle* is inductive).  *StepsNeverBegin*
and *LinesNeverFit* are the migration's doing: the INSERTs of step rows and of log lines
name columns that are not there, so every job with steps fails at its first and no line is
kept or seen live.  *BeforeGroupIsLost*:
a group that is created at `$` has its cursor behind the entries of the stream, and
XREADGROUP and XAUTOCLAIM never come to them (*NeverBefore*).  *NothingFiresAgain* is the
core of `lock_keeps_firing`: if no instance goes down, some leader loop always extends
the key before it would expire (*Extended*), so isLeader, which asks for a key that is
not there, succeeds for nobody again.  Its assumptions (`Calm`) are the best case: no
crash, no failing command, tickers on time, and renewals (10 s) that are faster than the
TTL (30 s).

Every safety property that a run checks, action properties and refinements included, is
stated by a theorem.  Out of the prover's reach and left to TLC: liveness under
fairness (*EveryDispatchSettles*, *StaleIsRecovered*, *FreeLockFires*,
*DeadlineEndsStep*, *RequestsAreAnswered*, *Settles*), and ENABLED.

## 5. Disagreements met while modelling

Three have a run of their own (section 3 and "findings").  The others, found
with the same models before their assumptions were put in, or by reading:

* `AbortExecution` publishes on a channel no worker reads (handler.go:163-165),
  and the executor's UPDATEs have no condition: an aborted execution becomes
  running, success or failed again.
* `reclaimPending` is to recover jobs of crashed workers (consumer.go:60, 142), but takes
  every message that was delivered 60 s ago, and a step may run an hour
  (executor.go:182): a worker that starts runs the jobs of healthy ones a second time
  (`executions_reclaim`).
* `upsertStepExecution` names `step_id` and needs a unique constraint on it
  (executor.go:492); the migration (000001_init.up.sql:156-166) has neither.
  `writeLine` names `step_exec_id` and `created_at` (writer.go:103), which
  `execution_logs` does not have.  (*StepsNeverBegin*, *LinesNeverFit*)
* A worker that restarts within 60 s of its crash finds nothing stale, and does
  not look again (consumer.go:60-64).
* XGROUP CREATE starts at `$` (main.go:154): entries added before the first
  worker ever started are never delivered.
* All schedules share one lock key: of two that are due together one is skipped.
  The leader loop extends the key whoever holds it (scheduler.go:180-181).
* Two first upserts of a schedule that overlap leave two cron entries
  (handler.go:83); other instances are told of no change; an upsert may write an
  older `last_run_at` back (repository.go:69).
* `killProcessGroup` is called with the pid of a reaped child (executor.go:245),
  and takes the end of its own polling for an exit (process.go:88).
* A second attempt of an execution numbers its lines from 1 again
  (executor.go:103, writer.go:19-20); StreamLogs forwards the abort message as a
  line and does not end with the execution (openapi.yaml:1041-1044).
* A fetch that is answered after an unmount opens a socket, and two runs of the
  effect whose fetches overlap close each other's sockets for ever
  (useLogStream.ts:35, 87); `LogViewer.tsx:71` writes all lines anew each time.
* The executor waits for the ends of both pipes before it waits for the child
  (executor.go:230), so a process that left the child's group and holds a pipe keeps
  the step past its deadline, while process.go:27 says "The context deadline is
  honoured".  *DeadlineEndsStep* names the exception.
* The Writer publishes on `exec:<id>:logs` (writer.go:124), StreamLogs subscribes to
  `exec:<id>` (handler.go:185): no line reaches a client live (openapi.yaml:1043).
* NodePalette.tsx:63 tells users that connecting handles defines the execution order;
  the executor orders by height and does not read `depends_on`, and nodes of one
  height come in any order.
* A job or a project that has an execution cannot be deleted (foreign keys without
  CASCADE), and Execute does not compare the project in its path with the job's
  (execution/handler.go:54-64), so that an execution may hold back a project its
  job is not in.
* `job_steps.node_def_id` does not cascade, `node_definitions.project_id` and
  `jobs.project_id` do (000001_init.up.sql): a project whose jobs have steps may be
  refused its deletion, and the client gets a 500.
* An UpdateJob locks the job and then its definitions, a DeleteProject the
  definitions and then the jobs: they may deadlock, PostgreSQL fails one, and
  nothing tries again (job/repository.go:265, project/repository.go:117).
* An UpdateJob of a job that was deleted after FindByID answers 200 when its
  workflow is empty: the UPDATE matches no row, and that is not looked at.
* An upsert of the schedule of an inactive job registers a cron entry that a restart
  does not (schedule/handler.go:96, repository.go's ListEnabled).
* Were its columns there (above), `step_executions.job_step_id` would refer to the
  steps that every save of the job deletes (000001_init.up.sql:159, no CASCADE): a job
  that has run could not be changed.
* Of two updates of a user or a job that overlap, the later writes the columns of
  the other back: a password change may enable a user who was just disabled.
* A refresh token that two requests present at a time is used twice, and so is one
  whose DEL fails ("rotation", auth/handler.go:119); Logout reports success when its
  DEL failed (openapi.yaml:439).  A database error after the DEL loses the session.
* The frontend reads and writes camelCase (`accessToken`, `workflowSpec`), the API
  snake_case; openapi.yaml has both.  A login or a saved workflow therefore does not
  get from one to the other, and a model that composed the editor with the API
  would have nothing to show.  This is why the canvas is not modelled.  The page
  also gives the canvas its initial workflow before the job is loaded
  (JobBuilderPage.tsx:37, 175), so that a save may overwrite it, and moves and
  deletions of nodes are not reported to it.
* `splitCommand` drops an empty quoted word.

## 6. What is not modelled

* **Audit**: nothing calls `Append`, so no entry is ever written.  Nor does any code
  read the notification rules to send something; what is modelled is their table.
* **Workflow canvas**: between the canvas and the API stands a disagreement of field
  names (section 5), so that no stored workflow is ever shown and none that was drawn
  is stored.  By itself the canvas is one thread that copies React Flow's events.
* **Frontend session and pages**: the store never gets a token from a login
  (section 5), and does nothing with a 401 but go to the login page.  Pages render
  query results.
* **Read-only handlers**, configuration, pools, wiring, migrations, deployment files:
  no behaviour of their own.
* Cron expressions are parsed by a library, and the timezone of a schedule has no
  effect on it; `next_run_at` is left out.  The other columns of a job, and the email
  of a user, behave as the columns that are modelled.  argv, environment, output texts
  and names are data.  The terminal of LogViewer is left out.
* In **Projects** one DELETE of a project or definition is under way at a time: a
  second of the same project waits at its first row, and one of another project
  touches other rows.  Schedules are not in its tables: their row goes
  with the job's, which `Schedules!DeleteJob` has.

## 7. What could come next

1. A composition of dispatch, executor and steps in which the outcome of a step is
   StepRunner's, refined by Executions.
2. Canvas and client session, once the field names agree.

Modules that are to be proved about have no RECURSIVE operators.
