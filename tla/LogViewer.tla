------------------------------- MODULE LogViewer -------------------------------
(***************************************************************************)
(* The hook useLogStream of the component LogViewer in a browser tab: the  *)
(* effect fetches the existing lines, opens a WebSocket, reconnects when it *)
(* is closed, and is cleaned up when another execution is shown or none.   *)
(* It is one mounted instance: another mount has refs of its own.          *)
(*                                                                         *)
(* A handler runs to its end.  The server is external: it answers a fetch, *)
(* accepts, closes and sends over a socket when it likes.  A chunk is the  *)
(* execution it is of and its place in the order of arrival.               *)
(***************************************************************************)
EXTENDS Naturals, Sequences

CONSTANTS
  Execution,
  Socket,       \* names for WebSockets
  MaxRetries,   \* MAX_RETRIES
  MaxChunks,    \* bound on the chunks that arrive
  MaxShows,     \* bound on the runs of the effect
  None          \* no execution, no socket

ASSUME BoundsAssumption ==
         MaxRetries \in Nat /\ MaxChunks \in Nat /\ MaxShows \in Nat
ASSUME NoneAssumption == None \notin Execution \cup Socket

Chunk == [of : Execution, n : 1..MaxChunks]
SocketState == [exec : Execution, st : {"connecting", "open", "closing", "closed"},
                handler : BOOLEAN]

VARIABLES
  shown,        \* the hook's executionId; None: not yet or no longer mounted
  shows,        \* runs of the effect so far
  fetches,      \* <<show, execution>>: fetchExistingLogs without an answer
  sockets,      \* the WebSockets there are
  wsRef,        \* wsRef.current
  timers,       \* <<socket, execution>>: connect in a while, on account of socket
  timerRef,     \* the socket for which reconnectTimerRef was set
  retries,      \* retriesRef.current
  isConnected,  \* the state isConnected
  logs,         \* the state logs
  arrived,      \* chunks that have arrived
  calm,         \* user and network change nothing any more
  hasty         \* history: the user has moved on before a fetch was answered

hookVars == <<shown, shows, fetches>>
socketVars == <<sockets, wsRef, timers, timerRef, retries, isConnected>>
logVars == <<logs, arrived>>
vars == <<hookVars, socketVars, logVars, calm, hasty>>

TypeOK ==
  /\ shown \in Execution \cup {None}
  /\ shows \in 0..MaxShows
  /\ fetches \subseteq (1..MaxShows) \X Execution
  /\ sockets \in [Socket -> SocketState \cup {None}]
  /\ wsRef \in Socket \cup {None}
  /\ timers \subseteq Socket \X Execution
  /\ timerRef \in Socket \cup {None}
  /\ retries \in 0..MaxRetries
  /\ {isConnected, calm, hasty} \subseteq BOOLEAN
  /\ logs \in Seq(Chunk)
  /\ arrived \in 0..MaxChunks

Init ==
  /\ shown = None /\ shows = 0 /\ fetches = {}
  /\ sockets = [s \in Socket |-> None]
  /\ wsRef = None /\ timers = {} /\ timerRef = None /\ retries = 0
  /\ isConnected = FALSE
  /\ logs = <<>> /\ arrived = 0
  /\ calm = FALSE /\ hasty = FALSE

Lives(s) == sockets[s] # None /\ sockets[s].st \in {"connecting", "open"}

\* close(): a socket that lives begins to close.
Closed(s) == IF s # None /\ Lives(s) THEN [sockets EXCEPT ![s].st = "closing"]
             ELSE sockets

-------------------------------------------------------------------------------
(* The effect.                                                             *)

\* Mutants: the effect keeps the lines it finds, cleanup leaves onclose be.
LinesKept == logs
SilencedNot == Closed(wsRef)

\* setLogs([]) when the effect runs.
LinesReset == <<>>

\* The cleanup takes the handler of the current socket away and closes it.
Silenced ==
  IF wsRef # None /\ sockets[wsRef] # None
  THEN [Closed(wsRef) EXCEPT ![wsRef].handler = FALSE] ELSE sockets

\* clearTimeout stops the timer reconnectTimerRef knows.
Cleared == {t \in timers : t[1] # timerRef}

\* The component is mounted, executionId changes, or the component is unmounted
\* for good: the old effect's cleanup and, with an execution, the effect.
Show(e) ==
  /\ ~calm /\ shown # e
  /\ shown # None \/ shows = 0
  /\ hasty' = (hasty \/ fetches # {})
  /\ shown' = e
  /\ IF shown # None THEN sockets' = Silenced /\ timers' = Cleared
                     ELSE UNCHANGED <<sockets, timers>>
  /\ IF e # None
     THEN /\ shows < MaxShows
          /\ shows' = shows + 1
          /\ fetches' = fetches \cup {<<shows + 1, e>>}
          /\ logs' = LinesReset
          /\ retries' = 0
     ELSE UNCHANGED <<shows, fetches, logs, retries>>
  /\ UNCHANGED <<wsRef, timerRef, isConnected, arrived, calm>>

\* A new chunk of an execution is appended to what is shown.
Arrive(e) ==
  /\ arrived < MaxChunks
  /\ arrived' = arrived + 1
  /\ logs' = Append(logs, [of |-> e, n |-> arrived + 1])

\* Mutant of Replaced: the socket there is goes on.
ReplacedNot == sockets

\* connect closes the socket it replaces; that one's handler stays.
Replaced == Closed(wsRef)

Connect(e) ==
  \E s \in Socket :
    /\ sockets[s] = None /\ s # wsRef /\ \A t \in timers : t[1] # s
    /\ sockets' = [Replaced EXCEPT ![s] = [exec |-> e, st |-> "connecting",
                                           handler |-> TRUE]]
    /\ wsRef' = s

\* fetchExistingLogs is answered, with a chunk, with none or with an error;
\* then the effect connects.
FetchDone(f) ==
  /\ f \in fetches
  /\ fetches' = fetches \ {f}
  /\ Arrive(f[2]) \/ UNCHANGED logVars
  /\ Connect(f[2])
  /\ UNCHANGED <<shown, shows, timers, timerRef, retries, isConnected, calm, hasty>>

-------------------------------------------------------------------------------
(* The handlers of a socket, and the timer.                                *)

OnOpen(s) ==
  /\ sockets[s] # None /\ sockets[s].st = "connecting"
  /\ sockets' = [sockets EXCEPT ![s].st = "open"]
  /\ isConnected' = TRUE
  /\ retries' = 0
  /\ UNCHANGED <<hookVars, wsRef, timers, timerRef, logVars, calm, hasty>>

OnMessage(s) ==
  /\ sockets[s] # None /\ sockets[s].st = "open"
  /\ Arrive(sockets[s].exec)
  /\ UNCHANGED <<hookVars, socketVars, calm, hasty>>

\* The network or the server ends a connection, or refuses it.
Drop(s) ==
  /\ ~calm /\ Lives(s)
  /\ sockets' = Closed(s)
  /\ UNCHANGED <<hookVars, wsRef, timers, timerRef, retries, isConnected,
                 logVars, calm, hasty>>

\* Mutant of MayRetry: never.
MayRetryNever == FALSE

MayRetry == retries < MaxRetries

\* onclose: a timer for the next attempt, unless they are used up.  A cleanup
\* may have taken the handler away.
OnClose(s) ==
  /\ sockets[s] # None /\ sockets[s].st = "closing"
  /\ sockets' = [sockets EXCEPT ![s] = IF s = wsRef THEN [@ EXCEPT !.st = "closed"]
                                                    ELSE None]
  /\ IF sockets[s].handler
     THEN /\ isConnected' = FALSE
          /\ IF MayRetry
             THEN /\ retries' = retries + 1
                  /\ timers' = timers \cup {<<s, sockets[s].exec>>}
                  /\ timerRef' = s
             ELSE UNCHANGED <<retries, timers, timerRef>>
     ELSE UNCHANGED <<isConnected, retries, timers, timerRef>>
  /\ UNCHANGED <<hookVars, wsRef, logVars, calm, hasty>>

TimerFires(t) ==
  /\ t \in timers
  /\ timers' = timers \ {t}
  /\ Connect(t[2])
  /\ UNCHANGED <<hookVars, timerRef, retries, isConnected, logVars, calm, hasty>>

\* A socket that was replaced and is closed is no longer anybody's.
Forget(s) ==
  /\ sockets[s] # None /\ sockets[s].st = "closed" /\ s # wsRef
  /\ sockets' = [sockets EXCEPT ![s] = None]
  /\ UNCHANGED <<hookVars, wsRef, timers, timerRef, retries, isConnected, logVars,
                 calm, hasty>>

\* From now on the user stays and the network holds.
CalmDown ==
  /\ ~calm /\ calm' = TRUE
  /\ UNCHANGED <<hookVars, socketVars, logVars, hasty>>

Next == \/ \E e \in Execution \cup {None} : Show(e)
        \/ \E f \in (1..MaxShows) \X Execution : FetchDone(f)
        \/ \E s \in Socket : OnOpen(s) \/ OnMessage(s) \/ Drop(s) \/ OnClose(s)
                             \/ Forget(s)
        \/ \E t \in Socket \X Execution : TimerFires(t)
        \/ CalmDown

Spec == Init /\ [][Next]_vars

(* Fetches are answered, connections that are not refused open, events and *)
(* timers are delivered, and things calm down in the end.                  *)
FairSpec ==
  /\ Spec
  /\ WF_vars(CalmDown)
  /\ \A f \in (1..MaxShows) \X Execution : WF_vars(FetchDone(f))
  /\ \A s \in Socket : WF_vars(OnOpen(s)) /\ WF_vars(OnClose(s)) /\ WF_vars(Forget(s))
  /\ \A t \in Socket \X Execution : WF_vars(TimerFires(t))

-------------------------------------------------------------------------------
\* However switches, fetches, reconnections and closing sockets fall together,
\* the hook has at most one socket that lives, and wsRef leads to it.
OneSocket == \A s \in Socket : Lives(s) => s = wsRef

\* What is shown are lines of the execution that is shown, unless the user has
\* moved on before a fetch was answered.
OwnLines == shown # None /\ ~hasty => \A i \in 1..Len(logs) : logs[i].of = shown

\* The cleanup is to "prevent reconnect on unmount": when the component is gone
\* no socket of it lives and no timer will open one, unless the user moved on
\* before a fetch was answered.
QuietAfterUnmount ==
  shown = None /\ ~hasty => timers = {} /\ \A s \in Socket : ~Lives(s)

\* Once things are calm the hook is connected to the execution it shows and
\* stays so, or has used up its retries, unless the user moved on before a
\* fetch was answered.
Settles ==
  calm /\ shown # None /\ ~hasty ~>
    [](\/ wsRef # None /\ sockets[wsRef].st = "open" /\ sockets[wsRef].exec = shown
       \/ retries = MaxRetries)

===============================================================================
