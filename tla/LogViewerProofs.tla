---------------------------- MODULE LogViewerProofs ----------------------------
(***************************************************************************)
(* Theorems about LogViewer, for any executions, sockets, retries and runs *)
(* of the effect, and every order of answers, events, timers and switches. *)
(***************************************************************************)
EXTENDS LogViewer, TLAPS

\* The sockets whose end may still set a timer: onclose is there and has not run.
Armed == {s \in Socket : /\ sockets[s] # None
                         /\ sockets[s].handler /\ sockets[s].st # "closed"}

\* Only the cleanup takes a handler away, and it closes the socket with it.
LiveIsArmed == \A s \in Socket : Lives(s) => s \in Armed

\* A run of the effect has one way to a connection at a time: its fetch, then a
\* socket, then the timer this socket leaves behind, and all are of its execution.
OwnFetch == /\ fetches \subseteq {<<shows, shown>>}
            /\ fetches # {} => Armed = {} /\ timers = {}
OwnSocket == \A s \in Armed : s = wsRef /\ sockets[s].exec = shown
OwnTimer == /\ timers \subseteq {<<wsRef, shown>>}
            /\ timers # {} => timerRef = wsRef /\ Armed = {}

Tidy == OwnFetch /\ OwnSocket /\ OwnTimer /\ OwnLines

IInv == TypeOK /\ OneSocket /\ LiveIsArmed /\ (~hasty => Tidy)

-------------------------------------------------------------------------------
LEMMA InitInv == Init => IInv
<1> SUFFICES ASSUME Init PROVE IInv
  OBVIOUS
<1>1. TypeOK
  <2>1. {isConnected, calm, hasty} \subseteq BOOLEAN
    BY Zenon DEF Init
  <2>2. QED
    BY <2>1, BoundsAssumption DEF Init, TypeOK
<1>2. Armed = {} /\ \A s \in Socket : ~Lives(s)
  BY DEF Init, Armed, Lives
<1>3. QED
  BY <1>1, <1>2
  DEF Init, IInv, OneSocket, LiveIsArmed, Tidy, OwnFetch, OwnSocket, OwnTimer, OwnLines

\* close() keeps everything about a socket but its state, and ends its life.
LEMMA ClosedOf ==
  ASSUME TypeOK, NEW s \in Socket \cup {None}
  PROVE  /\ Closed(s) \in [Socket -> SocketState \cup {None}]
         /\ \A q \in Socket : q # s => Closed(s)[q] = sockets[q]
         /\ s # None /\ sockets[s] # None =>
              /\ Closed(s)[s] \in SocketState
              /\ Closed(s)[s].handler = sockets[s].handler
              /\ Closed(s)[s].exec = sockets[s].exec
              /\ Closed(s)[s].st = IF Lives(s) THEN "closing" ELSE sockets[s].st
         /\ s # None /\ sockets[s] = None => Closed(s)[s] = None
<1>1. CASE s # None /\ Lives(s)
  <2>1. s \in Socket /\ sockets[s] \in SocketState
    BY <1>1 DEF TypeOK, Lives
  <2>2. [sockets[s] EXCEPT !.st = "closing"] \in SocketState
    BY <2>1 DEF SocketState
  <2>3. Closed(s) = [sockets EXCEPT ![s] = [sockets[s] EXCEPT !.st = "closing"]]
    BY <1>1 DEF Closed
  <2>4. QED
    BY <1>1, <2>1, <2>2, <2>3 DEF TypeOK, Lives, SocketState
<1>2. CASE ~(s # None /\ Lives(s))
  BY <1>2, NoneAssumption DEF Closed, TypeOK
<1>3. QED
  BY <1>1, <1>2

\* After the cleanup no socket lives and the current one is not armed.
LEMMA SilencedOf ==
  ASSUME TypeOK, OneSocket, sockets' = Silenced
  PROVE  /\ sockets' \in [Socket -> SocketState \cup {None}]
         /\ \A s \in Socket : ~Lives(s)'
         /\ Armed' \subseteq Armed \ {wsRef}
<1>1. CASE wsRef # None /\ sockets[wsRef] # None
  <2> DEFINE c == Closed(wsRef)
  <2>1. /\ wsRef \in Socket /\ c \in [Socket -> SocketState \cup {None}]
        /\ \A q \in Socket : q # wsRef => c[q] = sockets[q]
        /\ c[wsRef] \in SocketState
        /\ c[wsRef].st \notin {"connecting", "open"}
    BY <1>1, ClosedOf DEF TypeOK, Lives
  <2>2. sockets' = [c EXCEPT ![wsRef].handler = FALSE]
    BY <1>1 DEF Silenced
  <2> HIDE DEF c
  <2>3. sockets' = [c EXCEPT ![wsRef] = [c[wsRef] EXCEPT !.handler = FALSE]]
    BY <2>1, <2>2
  <2>4. [c[wsRef] EXCEPT !.handler = FALSE] \in SocketState
    BY <2>1 DEF SocketState
  <2>5. /\ sockets'[wsRef].handler = FALSE /\ sockets'[wsRef].st = c[wsRef].st
        /\ \A q \in Socket : q # wsRef => sockets'[q] = sockets[q]
    BY <2>1, <2>3 DEF SocketState
  <2>6. QED
    BY <2>1, <2>3, <2>4, <2>5 DEF OneSocket, Lives, Armed
<1>2. CASE wsRef = None \/ sockets[wsRef] = None
  BY <1>2, NoneAssumption DEF Silenced, TypeOK, OneSocket, Lives, Armed
<1>3. QED
  BY <1>1, <1>2

\* connect: the new socket is the only one that lives, and no other is newly armed.
LEMMA ConnectOf ==
  ASSUME TypeOK, OneSocket, LiveIsArmed, NEW e \in Execution, Connect(e)
  PROVE  /\ sockets' \in [Socket -> SocketState \cup {None}] /\ wsRef' \in Socket
         /\ OneSocket' /\ LiveIsArmed'
         /\ sockets'[wsRef'].exec = e
         /\ Armed' \subseteq Armed \cup {wsRef'}
<1> DEFINE c == Closed(wsRef)
           new == [exec |-> e, st |-> "connecting", handler |-> TRUE]
<1>1. PICK s \in Socket : /\ sockets[s] = None /\ s # wsRef
                          /\ sockets' = [c EXCEPT ![s] = new] /\ wsRef' = s
  BY DEF Connect, Replaced
<1>2. /\ c \in [Socket -> SocketState \cup {None}]
      /\ \A q \in Socket : q # wsRef => c[q] = sockets[q]
      /\ wsRef # None /\ sockets[wsRef] # None =>
           /\ c[wsRef].handler = sockets[wsRef].handler
           /\ c[wsRef].st = IF Lives(wsRef) THEN "closing" ELSE sockets[wsRef].st
      /\ wsRef # None /\ sockets[wsRef] = None => c[wsRef] = None
  BY ClosedOf DEF TypeOK
<1>3. new \in SocketState /\ new.exec = e /\ new.st = "connecting" /\ new.handler
  BY DEF SocketState
<1> HIDE DEF c, new
<1>4. sockets' \in [Socket -> SocketState \cup {None}] /\ sockets'[s] = new
      /\ \A q \in Socket : q # s => sockets'[q] = c[q]
  BY <1>1, <1>2, <1>3
<1>5. \A q \in Socket : q # s => ~Lives(q)' /\ (q \in Armed' => q \in Armed)
  <2> SUFFICES ASSUME NEW q \in Socket, q # s
               PROVE  ~Lives(q)' /\ (q \in Armed' => q \in Armed)
    OBVIOUS
  <2>1. CASE q = wsRef
    BY <1>2, <1>4, <2>1, NoneAssumption DEF Lives, Armed
  <2>2. CASE q # wsRef
    BY <1>2, <1>4, <2>2 DEF Lives, Armed, OneSocket
  <2>3. QED
    BY <2>1, <2>2
<1>6. Lives(s)' => s \in Armed'
  BY <1>3, <1>4 DEF Lives, Armed
<1>7. QED
  BY <1>1, <1>3, <1>4, <1>5, <1>6 DEF OneSocket, LiveIsArmed, Armed

\* A new chunk of the execution that is shown.
LEMMA ArriveOf ==
  ASSUME TypeOK, NEW e \in Execution, Arrive(e)
  PROVE  /\ logs' \in Seq(Chunk) /\ arrived' \in 0..MaxChunks
         /\ e = shown /\ shown' = shown /\ ~hasty /\ OwnLines => OwnLines'
<1>1. [of |-> e, n |-> arrived + 1] \in Chunk /\ arrived' \in 0..MaxChunks
  BY BoundsAssumption DEF Arrive, TypeOK, Chunk
<1>2. logs' = Append(logs, [of |-> e, n |-> arrived + 1])
  BY DEF Arrive
<1>3. ASSUME e = shown, shown' = shown, ~hasty, OwnLines PROVE OwnLines'
  <2> SUFFICES ASSUME NEW i \in 1..Len(logs') PROVE logs'[i].of = shown
    BY <1>3 DEF OwnLines
  <2>1. /\ i \in 1..(Len(logs) + 1)
        /\ logs'[i] = IF i = Len(logs) + 1 THEN [of |-> e, n |-> arrived + 1] ELSE logs[i]
    BY <1>1, <1>2 DEF TypeOK
  <2>2. i # Len(logs) + 1 => i \in 1..Len(logs)
    BY <2>1 DEF TypeOK
  <2>3. shown # None
    BY <1>3, NoneAssumption
  <2>4. QED
    BY <1>3, <2>1, <2>2, <2>3 DEF OwnLines
<1>4. QED
  BY <1>1, <1>2, <1>3 DEF TypeOK

-------------------------------------------------------------------------------
(* One lemma for each action.                                              *)

LEMMA ShowInv ==
  ASSUME IInv, NEW e \in Execution \cup {None}, Show(e)
  PROVE  IInv'
<1>1. TypeOK /\ OneSocket /\ LiveIsArmed
  BY DEF IInv
<1>2. /\ sockets' \in [Socket -> SocketState \cup {None}]
      /\ \A s \in Socket : Lives(s)' => Lives(s) /\ sockets' = sockets
      /\ Armed' \subseteq Armed
      /\ shown # None => Armed' \subseteq Armed \ {wsRef}
  <2>1. CASE shown # None
    BY <1>1, <2>1, SilencedOf DEF Show
  <2>2. CASE shown = None
    BY <1>1, <2>2 DEF Show, TypeOK, Lives, Armed
  <2>3. QED
    BY <2>1, <2>2
<1>3. timers' \subseteq timers /\ (shown # None => timers' = Cleared)
  BY DEF Show, Cleared
<1>4. TypeOK'
  <2>1. {isConnected, calm, hasty}' \subseteq BOOLEAN
    <3>1. /\ isConnected' = isConnected /\ calm' = calm
          /\ hasty' = (hasty \/ fetches # {})
      BY DEF Show
    <3>2. QED
      BY <1>1, <3>1 DEF TypeOK
  <2>2. /\ shown' \in Execution \cup {None} /\ shows' \in 0..MaxShows
        /\ fetches' \subseteq (1..MaxShows) \X Execution
    <3>1. CASE e = None
      BY <1>1, <3>1 DEF Show, TypeOK
    <3>2. CASE e # None
      <4>1. shows + 1 \in 1..MaxShows /\ e \in Execution
        BY <1>1, <3>2, BoundsAssumption DEF Show, TypeOK
      <4>2. <<shows + 1, e>> \in (1..MaxShows) \X Execution
        BY <4>1
      <4>3. QED
        BY <1>1, <3>2, <4>1, <4>2, BoundsAssumption DEF Show, TypeOK
    <3>3. QED
      BY <3>1, <3>2
  <2>3. logs' \in Seq(Chunk) /\ retries' \in 0..MaxRetries
    <3>1. logs' \in {logs, <<>>} /\ retries' \in {retries, 0}
      BY DEF Show, LinesReset
    <3>2. <<>> \in Seq(Chunk) /\ 0 \in 0..MaxRetries
      BY BoundsAssumption
    <3>3. QED
      BY <1>1, <3>1, <3>2 DEF TypeOK
  <2>4. QED
    <3>1. UNCHANGED <<wsRef, timerRef, arrived>>
      BY DEF Show
    <3>2. QED
      BY <1>1, <1>2, <1>3, <2>1, <2>2, <2>3, <3>1 DEF TypeOK
<1>5. OneSocket' /\ LiveIsArmed'
  BY <1>1, <1>2 DEF Show, OneSocket, LiveIsArmed, Lives, Armed
<1>6. ASSUME ~hasty' PROVE Tidy'
  <2>1. Tidy /\ fetches = {} /\ hasty' = FALSE
    BY <1>6, <1>1 DEF Show, IInv, TypeOK
  <2>2. timers' = {}
    <3>1. CASE shown = None
      BY <1>1, <1>3, <2>1, <3>1, NoneAssumption DEF Tidy, OwnTimer, TypeOK
    <3>2. CASE shown # None
      BY <1>3, <2>1, <3>2 DEF Tidy, OwnTimer, Cleared
    <3>3. QED
      BY <3>1, <3>2
  <2>3. Armed' = {}
    <3>1. CASE shown = None
      BY <1>1, <1>2, <2>1, <3>1, NoneAssumption
      DEF Tidy, OwnSocket, TypeOK, Armed, SocketState
    <3>2. CASE shown # None
      BY <1>2, <2>1, <3>2 DEF Tidy, OwnSocket
    <3>3. QED
      BY <3>1, <3>2
  <2>4. OwnFetch'
    BY <2>1, <2>2, <2>3 DEF Show, OwnFetch
  <2>5. OwnLines'
    BY DEF Show, OwnLines, LinesReset
  <2>6. QED
    BY <2>2, <2>3, <2>4, <2>5 DEF Tidy, OwnSocket, OwnTimer
<1>7. QED
  BY <1>4, <1>5, <1>6 DEF IInv

LEMMA FetchInv ==
  ASSUME IInv, NEW f \in (1..MaxShows) \X Execution, FetchDone(f)
  PROVE  IInv'
<1>1. TypeOK /\ OneSocket /\ LiveIsArmed /\ f[2] \in Execution
  BY DEF IInv
<1>2. /\ sockets' \in [Socket -> SocketState \cup {None}] /\ wsRef' \in Socket
      /\ OneSocket' /\ LiveIsArmed'
      /\ sockets'[wsRef'].exec = f[2]
      /\ Armed' \subseteq Armed \cup {wsRef'}
  BY <1>1, ConnectOf DEF FetchDone
<1>3. /\ logs' \in Seq(Chunk) /\ arrived' \in 0..MaxChunks
      /\ f[2] = shown /\ ~hasty /\ OwnLines => OwnLines'
  <2>1. CASE Arrive(f[2])
    BY <1>1, <2>1, ArriveOf DEF FetchDone
  <2>2. CASE UNCHANGED logVars
    BY <1>1, <2>2 DEF FetchDone, logVars, TypeOK, OwnLines
  <2>3. QED
    BY <2>1, <2>2 DEF FetchDone
<1>4. TypeOK'
  BY <1>1, <1>2, <1>3 DEF FetchDone, TypeOK
<1>5. ASSUME ~hasty' PROVE Tidy'
  <2>1. Tidy /\ ~hasty
    BY <1>5 DEF FetchDone, IInv
  <2>2. f = <<shows, shown>> /\ fetches = {f} /\ Armed = {} /\ timers = {}
    BY <2>1 DEF FetchDone, Tidy, OwnFetch
  <2>3. OwnFetch' /\ OwnTimer'
    BY <2>2 DEF FetchDone, OwnFetch, OwnTimer
  <2>4. OwnSocket'
    BY <1>2, <2>2 DEF FetchDone, OwnSocket
  <2>5. OwnLines'
    BY <1>3, <2>1, <2>2 DEF Tidy
  <2>6. QED
    BY <2>3, <2>4, <2>5 DEF Tidy
<1>6. QED
  BY <1>2, <1>4, <1>5 DEF IInv

LEMMA TimerInv ==
  ASSUME IInv, NEW t \in Socket \X Execution, TimerFires(t)
  PROVE  IInv'
<1>1. TypeOK /\ OneSocket /\ LiveIsArmed /\ t[2] \in Execution
  BY DEF IInv
<1>2. /\ sockets' \in [Socket -> SocketState \cup {None}] /\ wsRef' \in Socket
      /\ OneSocket' /\ LiveIsArmed'
      /\ sockets'[wsRef'].exec = t[2]
      /\ Armed' \subseteq Armed \cup {wsRef'}
  BY <1>1, ConnectOf DEF TimerFires
<1>3. TypeOK'
  BY <1>1, <1>2 DEF TimerFires, TypeOK, hookVars, logVars
<1>4. ASSUME ~hasty' PROVE Tidy'
  <2>1. Tidy
    BY <1>4 DEF TimerFires, IInv
  <2>2. t = <<wsRef, shown>> /\ timers = {t} /\ Armed = {} /\ fetches = {}
    BY <2>1 DEF TimerFires, Tidy, OwnTimer, OwnFetch
  <2>3. OwnFetch' /\ OwnTimer'
    BY <2>2 DEF TimerFires, hookVars, OwnFetch, OwnTimer
  <2>4. OwnSocket'
    BY <1>2, <2>2 DEF TimerFires, hookVars, OwnSocket
  <2>5. OwnLines'
    BY <2>1 DEF TimerFires, hookVars, logVars, Tidy, OwnLines
  <2>6. QED
    BY <2>3, <2>4, <2>5 DEF Tidy
<1>5. QED
  BY <1>2, <1>3, <1>4 DEF IInv

\* The handlers of one socket: the others stay as they are, and nothing is armed that
\* was not.
LEMMA SocketOf ==
  ASSUME TypeOK, OneSocket, LiveIsArmed, NEW s \in Socket,
         \/ OnOpen(s) \/ OnMessage(s) \/ Drop(s) \/ OnClose(s) \/ Forget(s)
  PROVE  /\ sockets' \in [Socket -> SocketState \cup {None}]
         /\ OneSocket' /\ LiveIsArmed'
         /\ \A q \in Armed' : q \in Armed /\ sockets'[q].exec = sockets[q].exec
<1>1. /\ s \in Socket /\ sockets[s] # None /\ sockets[s] \in SocketState
      /\ sockets \in [Socket -> SocketState \cup {None}] /\ wsRef' = wsRef
  BY DEF OnOpen, OnMessage, Drop, OnClose, Forget, Lives, TypeOK, hookVars, socketVars
<1>2. /\ sockets' \in [Socket -> SocketState \cup {None}]
      /\ \A q \in Socket : q # s => sockets'[q] = sockets[q]
      /\ sockets'[s] # None =>
           /\ sockets'[s].handler = sockets[s].handler
           /\ sockets'[s].exec = sockets[s].exec
           /\ sockets[s].st = "closed" => sockets'[s].st = "closed"
           /\ sockets'[s].st \in {"connecting", "open"} =>
                sockets[s].st \in {"connecting", "open"}
  <2>1. CASE OnOpen(s)
    <3>1. [sockets[s] EXCEPT !.st = "open"] \in SocketState
      BY <1>1 DEF SocketState
    <3>2. sockets' = [sockets EXCEPT ![s] = [sockets[s] EXCEPT !.st = "open"]]
      BY <2>1 DEF OnOpen
    <3>3. QED
      BY <1>1, <2>1, <3>1, <3>2 DEF OnOpen, SocketState
  <2>2. CASE OnMessage(s)
    BY <1>1, <2>2 DEF OnMessage, socketVars
  <2>3. CASE Drop(s)
    BY <1>1, <2>3, ClosedOf, NoneAssumption DEF Drop, Lives, SocketState
  <2>4. CASE OnClose(s)
    <3>1. [sockets[s] EXCEPT !.st = "closed"] \in SocketState
      BY <1>1 DEF SocketState
    <3>2. sockets' = [sockets EXCEPT ![s] = IF s = wsRef THEN [sockets[s] EXCEPT !.st = "closed"]
                                                         ELSE None]
      BY <2>4 DEF OnClose
    <3>3. CASE s = wsRef
      <4>1. sockets'[s] = [sockets[s] EXCEPT !.st = "closed"]
        BY <1>1, <3>2, <3>3
      <4>2. sockets' \in [Socket -> SocketState \cup {None}]
        BY <1>1, <3>1, <3>2, <3>3
      <4>3. QED
        BY <1>1, <3>2, <4>1, <4>2 DEF SocketState
    <3>4. CASE s # wsRef
      BY <1>1, <3>2, <3>4
    <3>5. QED
      BY <3>3, <3>4
  <2>5. CASE Forget(s)
    BY <1>1, <2>5 DEF Forget
  <2>6. QED
    BY <2>1, <2>2, <2>3, <2>4, <2>5
<1>3. \A q \in Armed' : q \in Armed /\ sockets'[q].exec = sockets[q].exec
  BY <1>1, <1>2 DEF Armed
<1>4. QED
  BY <1>1, <1>2, <1>3 DEF OneSocket, LiveIsArmed, Lives, Armed

\* An event of a socket sets no timer but for an armed socket, and shows no chunk but
\* of one that is open.
LEMMA EventInv ==
  ASSUME IInv, NEW s \in Socket,
         \/ OnOpen(s) \/ OnMessage(s) \/ Drop(s) \/ OnClose(s) \/ Forget(s)
  PROVE  IInv'
<1>1. TypeOK /\ OneSocket /\ LiveIsArmed
  BY DEF IInv
<1>2. /\ sockets' \in [Socket -> SocketState \cup {None}]
      /\ OneSocket' /\ LiveIsArmed'
      /\ \A q \in Armed' : q \in Armed /\ sockets'[q].exec = sockets[q].exec
  BY <1>1, SocketOf
<1>3. sockets[s] # None /\ sockets[s] \in SocketState
  BY <1>1 DEF OnOpen, OnMessage, Drop, OnClose, Forget, Lives, TypeOK
<1>4. UNCHANGED <<hookVars, wsRef, hasty>>
  BY DEF OnOpen, OnMessage, Drop, OnClose, Forget, socketVars
<1>5. CASE OnMessage(s)
  <2>1. Lives(s) /\ Arrive(sockets[s].exec) /\ sockets[s].exec \in Execution
    BY <1>3, <1>5 DEF OnMessage, Lives, SocketState
  <2>2. s \in Armed
    BY <1>1, <2>1 DEF LiveIsArmed
  <2>3. /\ logs' \in Seq(Chunk) /\ arrived' \in 0..MaxChunks
        /\ sockets[s].exec = shown /\ ~hasty /\ OwnLines => OwnLines'
    BY <1>1, <1>4, <2>1, ArriveOf DEF hookVars
  <2>4. UNCHANGED <<hookVars, socketVars, calm, hasty>>
    BY <1>5 DEF OnMessage
  <2>5. TypeOK'
    BY <1>1, <2>3, <2>4 DEF TypeOK, hookVars, socketVars
  <2>6. ASSUME ~hasty' PROVE Tidy'
    <3>1. Tidy /\ ~hasty
      BY <1>4, <2>6 DEF IInv
    <3>2. OwnLines'
      BY <2>2, <2>3, <3>1 DEF Tidy, OwnSocket
    <3>3. QED
      BY <2>4, <3>1, <3>2 DEF Tidy, OwnFetch, OwnSocket, OwnTimer, Armed, hookVars, socketVars
  <2>7. QED
    BY <1>2, <2>5, <2>6 DEF IInv
<1>6. CASE OnClose(s) /\ sockets[s].handler /\ MayRetry
  <2>1. /\ timers' = timers \cup {<<s, sockets[s].exec>>} /\ timerRef' = s
        /\ retries' = retries + 1 /\ isConnected' = FALSE
        /\ UNCHANGED <<logVars, calm>>
        /\ sockets[s].st = "closing" /\ sockets[s].exec \in Execution
    BY <1>3, <1>6 DEF OnClose, SocketState
  <2>2. TypeOK'
    <3>1. <<s, sockets[s].exec>> \in Socket \X Execution /\ retries + 1 \in 0..MaxRetries
      BY <1>1, <1>6, <2>1, BoundsAssumption DEF TypeOK, MayRetry
    <3>2. {isConnected, calm, hasty}' \subseteq BOOLEAN
      BY <1>1, <1>4, <2>1 DEF TypeOK
    <3>3. QED
      BY <1>1, <1>2, <1>4, <2>1, <3>1, <3>2 DEF TypeOK, hookVars, logVars
  <2>3. ASSUME ~hasty' PROVE Tidy'
    <3>1. Tidy
      BY <1>4, <2>3 DEF IInv
    <3>2. s \in Armed
      BY <1>3, <1>6, <2>1 DEF Armed
    <3>3. s = wsRef /\ sockets[s].exec = shown /\ timers = {} /\ fetches = {}
          /\ Armed \subseteq {s}
      BY <3>1, <3>2 DEF Tidy, OwnSocket, OwnTimer, OwnFetch
    <3>4. s \notin Armed'
      <4>1. sockets' = [sockets EXCEPT ![s] = [sockets[s] EXCEPT !.st = "closed"]]
        BY <1>6, <3>3 DEF OnClose
      <4>2. sockets'[s].st = "closed"
        BY <1>1, <1>3, <4>1 DEF TypeOK, SocketState
      <4>3. QED
        BY <4>2 DEF Armed
    <3>5. Armed' = {}
      BY <1>2, <3>3, <3>4
    <3>6. QED
      BY <1>4, <2>1, <3>1, <3>3, <3>5
      DEF Tidy, OwnFetch, OwnSocket, OwnTimer, OwnLines, hookVars, logVars
  <2>4. QED
    BY <1>2, <2>2, <2>3 DEF IInv
<1>7. CASE OnOpen(s) \/ Drop(s) \/ (OnClose(s) /\ ~(sockets[s].handler /\ MayRetry))
           \/ Forget(s)
  <2>1. /\ UNCHANGED <<timers, timerRef, logVars, calm>>
        /\ retries' \in {retries, 0} /\ isConnected' \in {isConnected, TRUE, FALSE}
    BY <1>7 DEF OnOpen, Drop, OnClose, Forget
  <2>2. TypeOK'
    <3>1. {isConnected, calm, hasty}' \subseteq BOOLEAN
      BY <1>1, <1>4, <2>1 DEF TypeOK
    <3>2. QED
      BY <1>1, <1>2, <1>4, <2>1, <3>1, BoundsAssumption DEF TypeOK, hookVars, logVars
  <2>3. ASSUME ~hasty' PROVE Tidy'
    <3>1. Tidy
      BY <1>4, <2>3 DEF IInv
    <3>2. Armed' \subseteq Armed
      BY <1>2
    <3>3. QED
      BY <1>2, <1>4, <2>1, <3>1, <3>2
      DEF Tidy, OwnFetch, OwnSocket, OwnTimer, OwnLines, hookVars, logVars
  <2>4. QED
    BY <1>2, <2>2, <2>3 DEF IInv
<1>8. QED
  BY <1>5, <1>6, <1>7

LEMMA NextInv ==
  ASSUME IInv, [Next]_vars
  PROVE  IInv'
<1>1. CASE CalmDown
  <2>1. TypeOK'
    BY <1>1 DEF CalmDown, IInv, TypeOK, hookVars, socketVars, logVars
  <2>2. QED
    BY <1>1, <2>1
    DEF CalmDown, IInv, OneSocket, LiveIsArmed, Lives, Armed, Tidy, OwnFetch, OwnSocket,
        OwnTimer, OwnLines, hookVars, socketVars, logVars
<1>2. CASE UNCHANGED vars
  BY <1>2
  DEF vars, IInv, TypeOK, OneSocket, LiveIsArmed, Lives, Armed, Tidy, OwnFetch, OwnSocket,
      OwnTimer, OwnLines, hookVars, socketVars, logVars
<1>3. QED
  BY <1>1, <1>2, ShowInv, FetchInv, EventInv, TimerInv DEF Next

LEMMA InvCorrect == Spec => []IInv
  BY InitInv, NextInv, PTL DEF Spec

-------------------------------------------------------------------------------
\* The types of the hook's state, its refs and its sockets: retries stay within
\* MAX_RETRIES, and a timer is for an execution the hook has shown.
THEOREM ViewerTypeCorrect == Spec => []TypeOK
  BY InvCorrect, PTL DEF IInv

\* However switches, fetches, reconnections and closing sockets fall together, the
\* hook has at most one socket that lives, and wsRef leads to it.
THEOREM OneSocketLives == Spec => []OneSocket
  BY InvCorrect, PTL DEF IInv

\* What is shown are lines of the execution that is shown, unless the user has moved on
\* before a fetch was answered.
THEOREM LinesAreOwn == Spec => []OwnLines
<1>1. IInv => OwnLines
  BY DEF IInv, Tidy, OwnLines
<1>2. QED
  BY <1>1, InvCorrect, PTL

\* When the component is gone no socket of it lives and no timer will open one, unless
\* the user moved on before a fetch was answered.
THEOREM QuietWhenGone == Spec => []QuietAfterUnmount
<1>1. IInv => QuietAfterUnmount
  <2> SUFFICES ASSUME IInv, shown = None, ~hasty
               PROVE  timers = {} /\ \A s \in Socket : ~Lives(s)
    BY DEF QuietAfterUnmount
  <2>1. timers = {}
    BY NoneAssumption DEF IInv, TypeOK, Tidy, OwnTimer
  <2>2. \A s \in Socket : ~Lives(s)
    BY NoneAssumption
    DEF IInv, TypeOK, LiveIsArmed, Tidy, OwnSocket, Armed, SocketState
  <2>3. QED
    BY <2>1, <2>2
<1>2. QED
  BY <1>1, InvCorrect, PTL

===============================================================================
