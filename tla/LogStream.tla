------------------------------- MODULE LogStream -------------------------------
(***************************************************************************)
(* The log lines of one execution: the two Writers of the executor number, *)
(* insert and publish them; StreamLogs forwards what is published on the   *)
(* channel it subscribes to, over a WebSocket.                             *)
(*                                                                         *)
(* A Writer writes its lines one after another; how bytes become lines is  *)
(* in StepRunner.  The steps of an attempt use the Writers in turn.  Redis *)
(* delivers a message at once to the subscribers there are.                *)
(***************************************************************************)
EXTENDS Integers, Sequences

CONSTANTS
  Viewer,       \* WebSocket connections
  Outcomes,     \* of a statement: "ok", "lost" or "unknown" (done, yet an error)
  InsertFits,   \* whether execution_logs has the columns that writeLine names
  Happens,      \* what the environment does: "crash", "abort"
  MaxAttempts,  \* bound on the attempts to execute
  MaxLines      \* bound on the lines of an attempt

ASSUME OutcomesAssumption ==
         "ok" \in Outcomes /\ Outcomes \subseteq {"ok", "lost", "unknown"}
ASSUME FitsAssumption == InsertFits \in BOOLEAN
ASSUME HappensAssumption == Happens \subseteq {"crash", "abort"}
ASSUME BoundsAssumption == MaxAttempts \in Nat /\ MaxLines \in Nat

Stream == {"stdout", "stderr"}
Line == [attempt : 1..MaxAttempts, stream : Stream, n : 1..MaxLines,
         seq : 1..MaxLines]
AbortMessage == [action |-> "abort"]

\* Writer.writeLine publishes on "exec:<id>:logs"; StreamLogs subscribes to
\* "exec:<id>", on which AbortExecution publishes.
LogChannel == "exec:id:logs"
ExecutionChannel == "exec:id"

VARIABLES
  attempt,   \* attempts begun
  running,   \* one is running
  finished,  \* the execution has ended
  aborted,   \* a user has aborted it
  sequence,  \* the counter the attempt's Writers share
  taken,     \* lines a stream's Writers have taken in the attempt
  wpc,       \* what a stream's Writer does next
  wseq,      \* the number of its line
  failed,    \* history: an INSERT of the attempt has returned an error
  stored,    \* the rows of execution_logs
  live,      \* the lines published on LogChannel
  conn,      \* a connection: "none", "open", "gone" (its client), "closed"
  queue      \* messages for a connection

writerVars == <<sequence, taken, wpc, wseq, failed>>
runVars == <<attempt, running, finished, aborted>>
viewerVars == <<conn, queue>>
vars == <<runVars, writerVars, stored, live, viewerVars>>

TypeOK ==
  /\ attempt \in 0..MaxAttempts
  /\ running \in BOOLEAN /\ finished \in BOOLEAN /\ aborted \in BOOLEAN
  /\ sequence \in 0..MaxLines
  /\ taken \in [Stream -> 0..MaxLines]
  /\ wpc \in [Stream -> {"idle", "insert", "publish"}]
  /\ wseq \in [Stream -> 0..MaxLines]
  /\ failed \in BOOLEAN
  /\ stored \subseteq Line
  /\ live \subseteq Line
  /\ conn \in [Viewer -> {"none", "open", "gone", "closed"}]
  /\ queue \in [Viewer -> Seq(Line \cup {AbortMessage})]
  /\ sequence = taken["stdout"] + taken["stderr"]

Init ==
  /\ attempt = 0
  /\ running = FALSE /\ finished = FALSE /\ aborted = FALSE
  /\ sequence = 0
  /\ taken = [s \in Stream |-> 0]
  /\ wpc = [s \in Stream |-> "idle"]
  /\ wseq = [s \in Stream |-> 0]
  /\ failed = FALSE
  /\ stored = {}
  /\ live = {}
  /\ conn = [v \in Viewer |-> "none"]
  /\ queue = [v \in Viewer |-> <<>>]

Applied(outcome) == outcome \in {"ok", "unknown"}

\* PUBLISH: the message reaches whoever is subscribed to the channel.
Published(channel, msg) ==
  queue' = [v \in Viewer |->
              IF channel = ExecutionChannel /\ conn[v] \in {"open", "gone"}
              THEN Append(queue[v], msg) ELSE queue[v]]

-------------------------------------------------------------------------------
(* The executor.                                                           *)

\* Execute begins with a counter of its own.
NewAttempt ==
  /\ ~running /\ ~finished
  /\ attempt < MaxAttempts
  /\ attempt' = attempt + 1
  /\ running' = TRUE
  /\ sequence' = 0
  /\ taken' = [s \in Stream |-> 0]
  /\ wseq' = [s \in Stream |-> 0]
  /\ failed' = FALSE
  /\ UNCHANGED <<finished, aborted, wpc, stored, live, viewerVars>>

\* The worker dies; another will start the execution over.
Crash ==
  /\ "crash" \in Happens
  /\ running
  /\ running' = FALSE
  /\ wpc' = [s \in Stream |-> "idle"]
  /\ UNCHANGED <<attempt, finished, aborted, sequence, taken, wseq, failed, stored,
                 live, viewerVars>>

\* Mutant of NextSeq: a counter per Writer.
NextSeqOwn(s) == taken[s] + 1

NextSeq(s) == sequence + 1

\* The Writer has a line and takes a number for it.
TakeLine(s) ==
  /\ running /\ wpc[s] = "idle"
  /\ sequence < MaxLines
  /\ taken' = [taken EXCEPT ![s] = @ + 1]
  /\ sequence' = NextSeq(s)
  /\ wseq' = [wseq EXCEPT ![s] = NextSeq(s)]
  /\ wpc' = [wpc EXCEPT ![s] = "insert"]
  /\ UNCHANGED <<runVars, failed, stored, live, viewerVars>>

CurrentLine(s) ==
  [attempt |-> attempt, stream |-> s, n |-> taken[s], seq |-> wseq[s]]

\* Mutant of AfterInsert: an error of the INSERT does not end writeLine.
AfterInsertAlways(outcome) == "publish"

\* An error of the INSERT ends writeLine; Write goes on with the next line.
AfterInsert(outcome) == IF outcome = "ok" THEN "publish" ELSE "idle"

\* PostgreSQL refuses the INSERT if a column it names is not there.
InsertOutcomes == IF InsertFits THEN Outcomes ELSE {"lost"}

Insert(s) ==
  /\ wpc[s] = "insert"
  /\ \E o \in InsertOutcomes :
       /\ stored' = IF Applied(o) THEN stored \cup {CurrentLine(s)} ELSE stored
       /\ wpc' = [wpc EXCEPT ![s] = AfterInsert(o)]
       /\ failed' = (failed \/ o # "ok")
  /\ UNCHANGED <<runVars, sequence, taken, wseq, live, viewerVars>>

\* The PUBLISH; an error of it is not an error of writeLine.
Publish(s) ==
  /\ wpc[s] = "publish"
  /\ \E o \in Outcomes :
       IF Applied(o) THEN /\ live' = live \cup {CurrentLine(s)}
                          /\ Published(LogChannel, CurrentLine(s))
                     ELSE UNCHANGED <<live, queue>>
  /\ wpc' = [wpc EXCEPT ![s] = "idle"]
  /\ UNCHANGED <<runVars, sequence, taken, wseq, failed, stored, conn>>

\* Mutant of WritersDone: the executor does not wait for the streams to drain.
WritersAny == TRUE

\* runStep returns when both Writers are flushed.
WritersDone == \A s \in Stream : wpc[s] = "idle"

Finish ==
  /\ running /\ WritersDone
  /\ running' = FALSE /\ finished' = TRUE
  /\ wpc' = [s \in Stream |-> "idle"]
  /\ UNCHANGED <<attempt, aborted, sequence, taken, wseq, failed, stored,
                 live, viewerVars>>

-------------------------------------------------------------------------------
(* The API and the clients.                                                *)

\* AbortExecution tells the subscribers of the execution's channel.
Abort ==
  /\ "abort" \in Happens
  /\ ~finished /\ ~aborted
  /\ aborted' = TRUE
  /\ Published(ExecutionChannel, AbortMessage)
  /\ UNCHANGED <<attempt, running, finished, writerVars, stored, live, conn>>

\* StreamLogs upgrades and subscribes; it sends nothing by itself, fromSeq is
\* not read.
Connect(v) ==
  /\ conn[v] = "none"
  /\ conn' = [conn EXCEPT ![v] = "open"]
  /\ UNCHANGED <<runVars, writerVars, stored, live, queue>>

\* The client goes; the request's context does not end with a hijacked
\* connection, so StreamLogs goes on until it has something to write.
Leave(v) ==
  /\ conn[v] = "open"
  /\ conn' = [conn EXCEPT ![v] = "gone"]
  /\ UNCHANGED <<runVars, writerVars, stored, live, queue>>

\* WriteMessage, which fails when the client has gone.
Forward(v) ==
  /\ conn[v] \in {"open", "gone"} /\ queue[v] # <<>>
  /\ queue' = [queue EXCEPT ![v] = Tail(@)]
  /\ conn' = [conn EXCEPT ![v] = IF @ = "gone" THEN "closed" ELSE @]
  /\ UNCHANGED <<runVars, writerVars, stored, live>>

Next == \/ NewAttempt \/ Crash \/ Finish \/ Abort
        \/ \E s \in Stream : TakeLine(s) \/ Insert(s) \/ Publish(s)
        \/ \E v \in Viewer : Connect(v) \/ Leave(v) \/ Forward(v)

Spec == Init /\ [][Next]_vars

(* The executor and the API's goroutines run; processes need not print,    *)
(* users need not do anything.                                             *)
FairSpec ==
  /\ Spec
  /\ WF_vars(NewAttempt) /\ WF_vars(Finish)
  /\ \A s \in Stream : WF_vars(Insert(s)) /\ WF_vars(Publish(s))
  /\ \A v \in Viewer : WF_vars(Forward(v))

-------------------------------------------------------------------------------
\* Within an attempt no two rows have the same number, and a stream's lines have
\* their numbers in the order in which they were written.
LinesInOrder ==
  \A a, b \in stored : a.attempt = b.attempt =>
    /\ a.seq = b.seq => a = b
    /\ a.stream = b.stream => (a.n < b.n <=> a.seq < b.seq)

\* What clients are sent live can be read again: it is in the table.
LiveIsStored == live \subseteq stored

\* Writer "persists log lines to PostgreSQL": unless an INSERT failed, each line
\* of the attempt that ended the execution is in the table.
EveryLineIsPersisted ==
  finished /\ ~failed => \A s \in Stream : \A n \in 1..taken[s] :
                \E a \in stored : a.attempt = attempt /\ a.stream = s /\ a.n = n

===============================================================================
