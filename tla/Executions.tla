------------------------------ MODULE Executions ------------------------------
(***************************************************************************)
(* The life of an execution, from POST .../execute to the acknowledgement  *)
(* of its Redis Stream entry: the API's Execute and AbortExecution         *)
(* handlers, the consumer group "workers" on "executions:queue", the       *)
(* worker processes with their consumer goroutines, and the executor that  *)
(* runs the steps of a job and writes their rows to PostgreSQL.            *)
(*                                                                         *)
(* Each statement against PostgreSQL or Redis is one atomic step; between  *)
(* two of them any other process may run, be signalled or crash.  What a   *)
(* step of a job does while it runs is abstracted to its outcome.  An      *)
(* execution has at most one stream entry (Execute makes a new UUID), so   *)
(* an entry is named by its execution and id[e] is its stream ID.          *)
(***************************************************************************)
EXTENDS Integers, FiniteSets

CONSTANTS
  Execution,       \* the executions users ask for
  Process,         \* worker processes
  Consumer,        \* consumer goroutines of all processes, by consumer name
  Host,            \* [Consumer -> Process]: the process a goroutine runs in
  NumSteps,        \* number of job_steps of the job
  OnFailure,       \* [Execution -> policy]: on_failure of the execution's job
  DispatchFields,  \* [Execution -> set of fields]: of the execution's entry
  GroupExists,     \* whether the group was created before the system starts
  UpsertFits,      \* whether step_executions has the columns and the unique
                   \* key that upsertStepExecution names
  Happens,         \* what the environment does to the system, see Hazard
  NoConsumer,      \* not a consumer: the entry is not in the pending list
  NoExecution      \* not an execution: the goroutine has no message in hand

Hazard == {"abort",        \* users abort executions
           "disconnect",   \* a request's context ends before its handler
           "crash",        \* a worker process dies
           "signal",       \* a worker process gets SIGTERM or SIGINT
           "io_error"}     \* a statement or a Redis command may fail

ASSUME HostAssumption == Host \in [Consumer -> Process]
ASSUME StepsAssumption == NumSteps \in Nat
ASSUME PolicyAssumption ==
         OnFailure \in [Execution -> {"stop", "continue", "retry"}]
ASSUME FlagsAssumption == /\ GroupExists \in BOOLEAN /\ UpsertFits \in BOOLEAN
                          /\ Happens \subseteq Hazard
ASSUME NoneAssumption ==
         NoConsumer \notin Consumer /\ NoExecution \notin Execution

VARIABLES
  row,       \* executions.status, "none" while there is no row
  steps,     \* step_executions.status of each step, "none" without a row
  id,        \* ID of the execution's stream entry, 0 while there is none
  topId,     \* the last ID the stream has given out
  cursor,    \* the group's last-delivered-id, NoGroup before XGROUP CREATE
  pel,       \* the group's pending entries list: the consumer of an entry
  stale,     \* pending entries idle for at least pendingClaimAge
  acked,     \* entries a consumer of the group has acknowledged
  overdue,   \* history: entries that became stale in a goroutine's hands
  rowErr,    \* history: executions the executor had an error for when it read
             \* their job or wrote their row, in a process that goes on
  stepErr,   \* history: the same for the rows of their steps
  api,       \* the Execute handler of an execution: "created" is its answer 201
  aborting,  \* executions an AbortExecution handler has found abortable
  proc,      \* state of a worker process
  pc,        \* what a goroutine does next
  batch,     \* messages a goroutine has received and not yet looked at
  cur,       \* the message a goroutine is processing
  step,      \* the step the executor is at
  verdict    \* finalStatus, the status the execution will get

apiVars == <<api, aborting>>
streamVars == <<id, topId, cursor, pel, stale, acked, overdue>>
dbVars == <<row, steps, rowErr, stepErr>>
workerVars == <<proc, pc, batch, cur, step, verdict>>
vars == <<dbVars, streamVars, apiVars, workerVars>>

Step == 1..NumSteps
NoGroup == -1
Settled == {"success", "failed", "aborted"}
Status == {"none", "queued", "running"} \cup Settled
StepStatus == {"none", "running", "success", "failed", "skipped"}
Place == {"down", "returned", "reclaim", "loop", "read", "next", "load",
          "mark", "begin", "run", "skip", "final", "ack"}

TypeOK ==
  /\ row \in [Execution -> Status]
  /\ steps \in [Execution -> [Step -> StepStatus]]
  /\ id \in [Execution -> Nat]
  /\ topId \in Nat
  /\ cursor \in Nat \cup {NoGroup}
  /\ pel \in [Execution -> Consumer \cup {NoConsumer}]
  /\ stale \subseteq Execution
  /\ acked \subseteq Execution
  /\ overdue \subseteq Execution
  /\ rowErr \subseteq Execution
  /\ stepErr \subseteq Execution
  /\ api \in [Execution -> {"idle", "inserted", "created", "ended"}]
  /\ aborting \subseteq Execution
  /\ proc \in [Process -> {"down", "up", "stopping"}]
  /\ pc \in [Consumer -> Place]
  /\ batch \in [Consumer -> SUBSET Execution]
  /\ cur \in [Consumer -> Execution \cup {NoExecution}]
  /\ step \in [Consumer -> 1..(NumSteps + 1)]
  /\ verdict \in [Consumer -> {"success", "failed"}]

Init ==
  /\ row = [e \in Execution |-> "none"]
  /\ steps = [e \in Execution |-> [s \in Step |-> "none"]]
  /\ id = [e \in Execution |-> 0]
  /\ topId = 0
  /\ cursor = IF GroupExists THEN 0 ELSE NoGroup
  /\ pel = [e \in Execution |-> NoConsumer]
  /\ stale = {}
  /\ acked = {}
  /\ overdue = {}
  /\ rowErr = {}
  /\ stepErr = {}
  /\ api = [e \in Execution |-> "idle"]
  /\ aborting = {}
  /\ proc = [p \in Process |-> "down"]
  /\ pc = [c \in Consumer |-> "down"]
  /\ batch = [c \in Consumer |-> {}]
  /\ cur = [c \in Consumer |-> NoExecution]
  /\ step = [c \in Consumer |-> 1]
  /\ verdict = [c \in Consumer |-> "success"]

-------------------------------------------------------------------------------
(* Outcomes of a statement or command.  "lost": it failed and changed      *)
(* nothing; "unknown": it took effect and the caller still got an error.   *)

IOErrors == IF "io_error" \in Happens THEN {"lost", "unknown"} ELSE {}
Applied(outcome) == outcome \in {"ok", "unknown"}

RequestOutcome == {"ok"} \cup IOErrors

\* The context all goroutines of a process share: rootCancel() has run.
Cancelled(c) == proc[Host[c]] = "stopping"

\* pgx and go-redis refuse a call whose context is already cancelled.
WorkerOutcome(c) == IF Cancelled(c) THEN {"lost"} ELSE {"ok"} \cup IOErrors

\* PostgreSQL refuses the upsert of a step if the table does not fit it.
UpsertOutcome(c) == IF UpsertFits THEN WorkerOutcome(c) ELSE {"lost"}

\* The history of errors with that of goroutine c's statement.
Noted(c, outcome, errors) ==
  IF outcome = "ok" \/ Cancelled(c) THEN errors ELSE errors \cup {cur[c]}

Goes(c, place) ==      \* goroutine c goes to place, everything else kept
  /\ pc' = [pc EXCEPT ![c] = place]
  /\ UNCHANGED <<proc, batch, cur, step, verdict>>

-------------------------------------------------------------------------------
(* The API server.                                                         *)

\* The two statements of the execution repository that write a status.
Create(e) == [row EXCEPT ![e] = "queued"]
UpdateStatus(e, status) == [row EXCEPT ![e] = status]

\* Execute, first half: the queued row is inserted.
InsertExecution(e) ==
  /\ api[e] = "idle"
  /\ \E o \in RequestOutcome :
       /\ row' = IF Applied(o) THEN Create(e) ELSE row
       /\ api' = [api EXCEPT ![e] = IF o = "ok" THEN "inserted" ELSE "ended"]
  /\ UNCHANGED <<steps, rowErr, stepErr, aborting, streamVars, workerVars>>

\* Mutant of Answer: an error of XADD is not looked at.
AnswerCreated(outcome) == "created"

Answer(outcome) == IF outcome = "ok" THEN "created" ELSE "ended"

\* Execute, second half: XADD.  An error is returned to the client and the
\* row stays queued.
Dispatch(e) ==
  /\ api[e] = "inserted"
  /\ \E o \in RequestOutcome :
       /\ topId' = IF Applied(o) THEN topId + 1 ELSE topId
       /\ id' = IF Applied(o) THEN [id EXCEPT ![e] = topId + 1] ELSE id
       /\ api' = [api EXCEPT ![e] = Answer(o)]
  /\ UNCHANGED <<dbVars, cursor, pel, stale, acked, overdue, aborting, workerVars>>

\* The request's context ends, or the server dies, between the two halves.
DropRequest(e) ==
  /\ "disconnect" \in Happens
  /\ api[e] = "inserted"
  /\ api' = [api EXCEPT ![e] = "ended"]
  /\ UNCHANGED <<dbVars, streamVars, aborting, workerVars>>

\* AbortExecution reads the row and finds it queued or running ...
AbortRead(e) ==
  /\ "abort" \in Happens
  /\ e \notin aborting
  /\ row[e] \in {"queued", "running"}
  /\ aborting' = aborting \cup {e}
  /\ UNCHANGED <<dbVars, streamVars, api, workerVars>>

\* ... then updates it whatever it has become, and publishes on exec:<id>,
\* a channel no worker subscribes to.
AbortWrite(e) ==
  /\ e \in aborting
  /\ \E o \in RequestOutcome :
       row' = IF Applied(o) THEN UpdateStatus(e, "aborted") ELSE row
  /\ aborting' = aborting \ {e}
  /\ UNCHANGED <<steps, rowErr, stepErr, streamVars, api, workerVars>>

-------------------------------------------------------------------------------
(* Worker processes.                                                       *)

ConsumersOf(p) == {c \in Consumer : Host[c] = p}

\* Mutant of EnsuredCursor: an existing group is set to $ as well.
EnsuredCursorReset == topId

\* XGROUP CREATE ... $ MKSTREAM, whose BUSYGROUP error is ignored: a group made
\* now starts behind the entries that are already there.
EnsuredCursor == IF cursor = NoGroup THEN topId ELSE cursor

\* run: the group is ensured and the goroutines start.
Start(p) ==
  /\ proc[p] = "down"
  /\ proc' = [proc EXCEPT ![p] = "up"]
  /\ cursor' = EnsuredCursor
  /\ pc' = [c \in Consumer |-> IF c \in ConsumersOf(p) THEN "reclaim" ELSE pc[c]]
  /\ UNCHANGED <<dbVars, id, topId, pel, stale, acked, overdue, apiVars, batch,
                 cur, step, verdict>>

\* SIGTERM or SIGINT: the shared context is cancelled, the goroutines go on.
Signal(p) ==
  /\ "signal" \in Happens
  /\ proc[p] = "up"
  /\ proc' = [proc EXCEPT ![p] = "stopping"]
  /\ UNCHANGED <<dbVars, streamVars, apiVars, pc, batch, cur, step, verdict>>

\* The process is gone and its goroutines with it.
Gone(p) ==
  /\ proc' = [proc EXCEPT ![p] = "down"]
  /\ pc' = [c \in Consumer |-> IF c \in ConsumersOf(p) THEN "down" ELSE pc[c]]
  /\ batch' = [c \in Consumer |-> IF c \in ConsumersOf(p) THEN {} ELSE batch[c]]
  /\ cur' = [c \in Consumer |->
               IF c \in ConsumersOf(p) THEN NoExecution ELSE cur[c]]
  /\ step' = [c \in Consumer |-> IF c \in ConsumersOf(p) THEN 1 ELSE step[c]]
  /\ verdict' = [c \in Consumer |->
                   IF c \in ConsumersOf(p) THEN "success" ELSE verdict[c]]
  /\ UNCHANGED <<dbVars, streamVars, apiVars>>

\* run returns when its goroutines have, or 30 seconds after the signal.
Exit(p) == proc[p] = "stopping" /\ Gone(p)

Crash(p) == "crash" \in Happens /\ proc[p] # "down" /\ Gone(p)

-------------------------------------------------------------------------------
(* A consumer goroutine: Run, reclaimPending, processMessage.              *)

Pending(e) == pel[e] # NoConsumer

Holds(c, e) == cur[c] = e \/ e \in batch[c]

\* pendingClaimAge, 60 seconds, has passed since the entry was handed out.
\* Nothing renews it while the message waits in a batch or its job runs, and
\* one step alone may take its timeout_secs, by default 3600.
GrowStale(e) ==
  /\ Pending(e) /\ e \notin stale
  /\ stale' = stale \cup {e}
  /\ overdue' = IF \E c \in Consumer : Holds(c, e) THEN overdue \cup {e} ELSE overdue
  /\ UNCHANGED <<dbVars, id, topId, cursor, pel, acked, apiVars, workerVars>>

\* Mutant of Claimable: min-idle-time is left at zero.
ClaimableAny == {e \in Execution : Pending(e)}

\* Mutant of Claimable: nothing is ever reclaimed.
ClaimableNone == {}

\* What XAUTOCLAIM with MinIdle = pendingClaimAge may take over.
Claimable == stale

\* reclaimPending: XAUTOCLAIM of every stale entry (one page of 100 holds
\* them), each of which is then processed before the next is looked at.
Reclaim(c) ==
  /\ pc[c] = "reclaim"
  /\ \E o \in WorkerOutcome(c) :
       /\ pel' = [e \in Execution |->
                    IF Applied(o) /\ e \in Claimable THEN c ELSE pel[e]]
       /\ stale' = IF Applied(o) THEN stale \ Claimable ELSE stale
       /\ batch' = IF o = "ok" THEN [batch EXCEPT ![c] = Claimable] ELSE batch
       /\ pc' = [pc EXCEPT ![c] = IF o = "ok" /\ Claimable # {}
                                  THEN "next" ELSE "loop"]
  /\ UNCHANGED <<dbVars, id, topId, cursor, acked, overdue, apiVars, proc, cur,
                 step, verdict>>

\* The top of Run's loop: return once the context is cancelled.
Loop(c) ==
  /\ pc[c] = "loop"
  /\ Goes(c, IF Cancelled(c) THEN "returned" ELSE "read")
  /\ UNCHANGED <<dbVars, streamVars, apiVars>>

Undelivered == {e \in Execution : id[e] > cursor}
Delivered(e) == id[e] \in 1..cursor
IsOldest(e, entries) == \A d \in entries : id[e] =< id[d]

\* A call begun before the cancellation goes through, one begun after is
\* refused.
ReadOutcome(c) == RequestOutcome \cup (IF Cancelled(c) THEN {"lost"} ELSE {})

\* XREADGROUP ... COUNT 1 ">" hands out the oldest entry behind the cursor.
\* A call that is blocked when the context is cancelled still returns it.
\* With an error the reply, and in "unknown" the entry with it, is lost.
Read(c) ==
  /\ pc[c] = "read"
  /\ \E e \in Undelivered, o \in ReadOutcome(c) :
       /\ IsOldest(e, Undelivered)
       /\ pel' = IF Applied(o) THEN [pel EXCEPT ![e] = c] ELSE pel
       /\ cursor' = IF Applied(o) THEN id[e] ELSE cursor
       /\ batch' = IF o = "ok" THEN [batch EXCEPT ![c] = {e}] ELSE batch
       /\ pc' = [pc EXCEPT ![c] = IF o = "ok" THEN "next" ELSE "loop"]
  /\ UNCHANGED <<dbVars, id, topId, stale, acked, overdue, apiVars, proc, cur,
                 step, verdict>>

\* blockDuration has passed: redis.Nil.
ReadNothing(c) ==
  /\ pc[c] = "read"
  /\ Undelivered = {}
  /\ Goes(c, "loop")
  /\ UNCHANGED <<dbVars, streamVars, apiVars>>

\* Mutant of RequiredFields: a field the dispatches do not carry.
RequiredFieldsMore == {"execution_id", "job_id", "project_id", "triggered_by"}

\* The fields parseDispatch insists on.
RequiredFields == {"execution_id", "job_id", "project_id"}
Parses(e) == RequiredFields \subseteq DispatchFields[e]

\* processMessage begins with the next message received, in stream order:
\* one that does not parse goes straight to XACK.
TakeMessage(c) ==
  /\ pc[c] = "next"
  /\ \E e \in batch[c] :
       /\ IsOldest(e, batch[c])
       /\ cur' = [cur EXCEPT ![c] = e]
       /\ batch' = [batch EXCEPT ![c] = @ \ {e}]
       /\ pc' = [pc EXCEPT ![c] = IF Parses(e) THEN "load" ELSE "ack"]
  /\ UNCHANGED <<dbVars, streamVars, apiVars, proc, step, verdict>>

\* Mutant of AckOutcome: XACK gets a context of its own.
AckOutcomeDetached(c) == {"ok"} \cup IOErrors

\* The ACK uses the goroutine's own context.
AckOutcome(c) == WorkerOutcome(c)

\* XACK removes the entry from the list, whoever it is pending for.
Ack(c) ==
  /\ pc[c] = "ack"
  /\ \E o \in AckOutcome(c) :
       /\ pel' = IF Applied(o) THEN [pel EXCEPT ![cur[c]] = NoConsumer] ELSE pel
       /\ stale' = IF Applied(o) THEN stale \ {cur[c]} ELSE stale
       /\ acked' = IF Applied(o) THEN acked \cup {cur[c]} ELSE acked
  /\ cur' = [cur EXCEPT ![c] = NoExecution]
  /\ pc' = [pc EXCEPT ![c] = IF batch[c] = {} THEN "loop" ELSE "next"]
  /\ UNCHANGED <<dbVars, id, topId, cursor, overdue, apiVars, proc, batch, step,
                 verdict>>

-------------------------------------------------------------------------------
(* Execute of the executor, on the message in hand.                        *)

\* Mutant of Position: the loop ends before the last step.
PositionShort(s, place) == IF s >= NumSteps THEN "final" ELSE place

\* Where the loop over the steps goes on with step s.
Position(s, place) == IF s > NumSteps THEN "final" ELSE place

\* UPDATE executions ... WHERE id = e, and no condition on the status.
UpdateExecution(e, status) == [row EXCEPT ![e] = status]

\* The row of a step is inserted, or found and updated.
UpsertStep(e, s, status) == [steps EXCEPT ![e][s] = status]

FinalizeStep(e, s, status) == [steps EXCEPT ![e][s] = status]

\* loadJob and loadSteps: on an error Execute returns before it has touched
\* the execution's row.
Load(c) ==
  /\ pc[c] = "load"
  /\ \E o \in WorkerOutcome(c) :
       /\ Goes(c, IF o = "ok" THEN "mark" ELSE "ack")
       /\ rowErr' = Noted(c, o, rowErr)
  /\ UNCHANGED <<row, steps, stepErr, streamVars, apiVars>>

\* The execution becomes running, whatever its status was.
MarkRunning(c) ==
  /\ pc[c] = "mark"
  /\ \E o \in WorkerOutcome(c) :
       /\ row' = IF Applied(o) THEN UpdateExecution(cur[c], "running") ELSE row
       /\ pc' = [pc EXCEPT ![c] =
                   IF o = "ok" THEN Position(1, "begin") ELSE "ack"]
       /\ rowErr' = Noted(c, o, rowErr)
  /\ step' = [step EXCEPT ![c] = 1]
  /\ verdict' = [verdict EXCEPT ![c] = "success"]
  /\ UNCHANGED <<steps, stepErr, streamVars, apiVars, proc, batch, cur>>

\* The step's row becomes running; on an error the execution fails here and
\* the remaining steps are left alone.
BeginStep(c) ==
  /\ pc[c] = "begin"
  /\ \E o \in UpsertOutcome(c) :
       /\ steps' = IF Applied(o)
                   THEN UpsertStep(cur[c], step[c], "running") ELSE steps
       /\ stepErr' = Noted(c, o, stepErr)
       /\ pc' = [pc EXCEPT ![c] = IF o = "ok" THEN "run" ELSE "final"]
       /\ verdict' = IF o = "ok" THEN verdict
                     ELSE [verdict EXCEPT ![c] = "failed"]
  /\ UNCHANGED <<row, rowErr, streamVars, apiVars, proc, batch, cur, step>>

\* Mutant of Stops: the test on job.on_failure is the wrong way round.
StopsInverted(e) == OnFailure[e] # "stop"

Stops(e) == OnFailure[e] = "stop"

\* runStep returns, and finalizeStepExecution records its outcome; an error
\* of the latter is only logged.
RunStep(c) ==
  /\ pc[c] = "run"
  /\ \E result \in {"success", "failed"}, o \in WorkerOutcome(c) :
       /\ steps' = IF Applied(o)
                   THEN FinalizeStep(cur[c], step[c], result) ELSE steps
       /\ stepErr' = Noted(c, o, stepErr)
       /\ verdict' = IF result = "failed"
                     THEN [verdict EXCEPT ![c] = "failed"] ELSE verdict
       /\ pc' = [pc EXCEPT ![c] =
                   Position(step[c] + 1,
                            IF result = "failed" /\ Stops(cur[c])
                            THEN "skip" ELSE "begin")]
  /\ step' = [step EXCEPT ![c] = @ + 1]
  /\ UNCHANGED <<row, rowErr, streamVars, apiVars, proc, batch, cur>>

\* on_failure = "stop": every later step gets a row that says skipped; one
\* that cannot be written is passed over.
SkipStep(c) ==
  /\ pc[c] = "skip"
  /\ \E o \in UpsertOutcome(c) :
       /\ steps' = IF Applied(o)
                   THEN UpsertStep(cur[c], step[c], "skipped") ELSE steps
       /\ stepErr' = Noted(c, o, stepErr)
  /\ step' = [step EXCEPT ![c] = @ + 1]
  /\ pc' = [pc EXCEPT ![c] = Position(step[c] + 1, "skip")]
  /\ UNCHANGED <<row, rowErr, streamVars, apiVars, proc, batch, cur, verdict>>

\* The last updateExecution, whose error is only logged.
Finalize(c) ==
  /\ pc[c] = "final"
  /\ \E o \in WorkerOutcome(c) :
       /\ row' = IF Applied(o) THEN UpdateExecution(cur[c], verdict[c]) ELSE row
       /\ rowErr' = Noted(c, o, rowErr)
  /\ pc' = [pc EXCEPT ![c] = "ack"]
  /\ step' = [step EXCEPT ![c] = 1]
  /\ verdict' = [verdict EXCEPT ![c] = "success"]
  /\ UNCHANGED <<steps, stepErr, streamVars, apiVars, proc, batch, cur>>

-------------------------------------------------------------------------------
ApiStep(e) == \/ InsertExecution(e) \/ Dispatch(e) \/ DropRequest(e)
              \/ AbortRead(e) \/ AbortWrite(e)

ProcessStep(p) == Start(p) \/ Signal(p) \/ Exit(p) \/ Crash(p)

ConsumerStep(c) == \/ Reclaim(c) \/ Loop(c) \/ Read(c) \/ ReadNothing(c)
                   \/ TakeMessage(c) \/ Ack(c)
                   \/ Load(c) \/ MarkRunning(c) \/ BeginStep(c) \/ RunStep(c)
                   \/ SkipStep(c) \/ Finalize(c)

Next == \/ \E e \in Execution : ApiStep(e) \/ GrowStale(e)
        \/ \E p \in Process : ProcessStep(p)
        \/ \E c \in Consumer : ConsumerStep(c)

Spec == Init /\ [][Next]_vars

(* Goroutines are scheduled, statements and Redis commands return, and a   *)
(* step ends (its timeout_secs has a default of one hour); a process that  *)
(* is down is started.  Nothing obliges users, signals or crashes.         *)
FairSpec == /\ Spec
            /\ \A p \in Process : WF_vars(Start(p))
            /\ \A c \in Consumer : WF_vars(ConsumerStep(c))

-------------------------------------------------------------------------------
(* Safety.  Two histories weaken what can be promised of an execution, and  *)
(* only of that one: its message was in hand for more than pendingClaimAge *)
(* (overdue), or one of its statements failed on its own (rowErr, stepErr). *)

\* Two goroutines have the same message, and so may run the same execution at
\* once, only after it became claimable in somebody's hands: whatever crashes,
\* restarts, is signalled or loses a reply, XREADGROUP and XAUTOCLAIM hand a
\* message to a second goroutine in no other way.
AtMostOneExecutor ==
  \A e \in Execution, c, d \in Consumer :
    Holds(c, e) /\ Holds(d, e) /\ c # d => e \in overdue

Recorded(e) == row[e] \in Settled \/ ~Parses(e) \/ e \in overdue \/ e \in rowErr

\* An acknowledged entry is never delivered again, so its execution must
\* have ended: processMessage ACKs every message because "failures are
\* recorded in the DB by the executor".  What leaves a row queued or running
\* behind an ACK is a message that does not parse, one that was claimed from a
\* goroutine at work, or a failing statement of loadJob, loadSteps or
\* updateExecution; errors at a step's row, crashes, signals and aborts do not.
AckedMeansSettled == \A e \in acked : Recorded(e)

\* Status success is backed by the rows of the steps: each step was begun
\* and none is failed, skipped or missing, whatever attempts came before
\* (Execute's finalStatus against upsert- and finalizeStepExecution), unless
\* two attempts may have overlapped.
SuccessIsEarned ==
  \A e \in Execution \ overdue : row[e] = "success" =>
    \A s \in Step : steps[e][s] \in {"running", "success"}

\* With on_failure = "stop" a failed execution shows where it stopped: one
\* failed step, successes before it and skipped steps after it; with any
\* other policy all steps were run and at least one failed.  (Unless attempts
\* may have overlapped or a step's row could not be written.)
FailureIsExplained ==
  \A e \in Execution \ (overdue \cup stepErr) : row[e] = "failed" =>
    \E k \in Step :
      /\ steps[e][k] = "failed"
      /\ IF OnFailure[e] = "stop"
         THEN \A s \in Step : /\ s < k => steps[e][s] = "success"
                              /\ s > k => steps[e][s] = "skipped"
         ELSE \A s \in Step : steps[e][s] \in {"success", "failed"}

\* The group loses no entry it has delivered: it stays pending, to be
\* reclaimed, until it is acknowledged, and never comes back after that.
NoEntryVanishes ==
  \A e \in Execution :
    /\ GroupExists /\ Delivered(e) => Pending(e) \/ e \in acked
    /\ Pending(e) => e \notin acked

\* What the API has answered 201 for is never lost: its row is there, and its
\* entry waits in the stream, is pending, or the execution has ended, but for
\* the three causes AckedMeansSettled names.  (An Execute that fails may leave a
\* row queued for good, or dispatch it all the same.)
AcceptedIsKept ==
  \A e \in Execution : api[e] = "created" =>
    /\ row[e] # "none"
    /\ GroupExists => e \in Undelivered \/ Pending(e) \/ Recorded(e)

LeavesAckedAlone ==
  \A e \in acked \ overdue : /\ steps'[e] = steps[e]
                              /\ row'[e] # row[e] => row'[e] = "aborted"

\* Once an entry is acknowledged no worker touches its execution again, unless
\* it was overdue; only an abort that was already under way may still change
\* the status.
AckedIsLeftAlone == [][LeavesAckedAlone]_vars

\* reclaimPending recovers "jobs that were in-flight on a previously crashed
\* worker": it takes no message over that a running process has in hand.
ReclaimsFromCrashed ==
  [][\A e \in Execution : pel'[e] # pel[e] /\ Pending(e)' =>
       \A c \in Consumer : ~Holds(c, e)]_vars

-------------------------------------------------------------------------------
(* Refinement: the stream, the group and the workers are a WorkQueue.      *)

Added == {e \in Execution : id[e] > 0}
Leased == {e \in Execution : Pending(e)}
Holders == [e \in Execution |-> {c \in Consumer : Holds(c, e)}]

Queue == INSTANCE WorkQueue WITH Item <- Execution, Worker <- Consumer,
                                 added <- Added, leased <- Leased,
                                 expired <- stale, holders <- Holders,
                                 done <- acked

\* The stream, its consumer group and the workers, with deliveries, reclaims,
\* acknowledgements, crashes and shutdowns, are a queue with leases of
\* pendingClaimAge: a message is taken when it is in nobody's hands or its
\* lease has run out, and once acknowledged it is never taken again.
ImplementsWorkQueue == Queue!Spec

-------------------------------------------------------------------------------
(* Liveness, under FairSpec.                                               *)

AllUp == \A p \in Process : proc[p] = "up"

\* Every execution whose entry waits in the stream is picked up by a worker,
\* ends and is acknowledged, unless a process goes down.
EveryDispatchSettles ==
  \A e \in Execution :
    e \in Undelivered /\ AllUp
      ~> (e \in acked /\ row[e] \in Settled) \/ ~AllUp

\* A pending message that is stale when a worker starts is recovered: the
\* worker's reclaimPending takes it over and it ends up acknowledged, unless
\* a process goes down in between.
StaleIsRecovered ==
  \A e \in Execution :
    e \in stale /\ AllUp /\ (\E c \in Consumer : pc[c] = "reclaim")
      ~> e \in acked \/ ~AllUp

===============================================================================
