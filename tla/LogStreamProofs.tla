---------------------------- MODULE LogStreamProofs ----------------------------
(***************************************************************************)
(* Theorems about LogStream, for any viewers, attempts and lines, any      *)
(* failing statements and any crashes.                                     *)
(***************************************************************************)
EXTENDS LogStream, TLAPS

\* A Writer is busy in a running attempt only, with a line it has a number for;
\* no other line of the attempt has this number.
Numbered ==
  /\ running => attempt >= 1 /\ ~finished
  /\ \A s \in Stream : wpc[s] # "idle" => running /\ taken[s] >= 1 /\ wseq[s] >= 1
  /\ \A s \in Stream : wseq[s] =< sequence
  /\ \A s, t \in Stream : s # t /\ wpc[s] = "insert" => wseq[s] # wseq[t]

\* Where a row of the running attempt stands against what the Writers are at.
Earlier(a) ==
  /\ a.n =< taken[a.stream] /\ a.seq =< wseq[a.stream]
  /\ \A s \in Stream : wpc[s] = "insert" =>
       /\ a.seq # wseq[s]
       /\ a.stream = s => a.n < taken[s] /\ a.seq < wseq[s]

Placed ==
  \A a \in stored : /\ a.attempt =< attempt
                    /\ a.attempt = attempt => Earlier(a)

\* A line is published after it was inserted.
InsertedFirst ==
  /\ live \subseteq stored
  /\ \A s \in Stream : wpc[s] = "publish" => CurrentLine(s) \in stored

HasRow(s, n) == \E a \in stored : a.attempt = attempt /\ a.stream = s /\ a.n = n

\* Unless an INSERT failed, what is not in the table is still to be inserted.
Complete ==
  (running \/ finished) /\ ~failed =>
    \A s \in Stream : \A n \in 1..taken[s] :
      HasRow(s, n) \/ (n = taken[s] /\ wpc[s] = "insert")

IInv == /\ TypeOK /\ Numbered /\ Placed /\ InsertedFirst /\ Complete
        /\ LinesInOrder

-------------------------------------------------------------------------------
\* What belongs to the Writers and the table; a viewer's steps do not touch it.
logVars == <<attempt, running, finished, sequence, taken, wpc, wseq, failed,
             stored, live>>

LEMMA InitInv == Init => IInv
<1> SUFFICES ASSUME Init PROVE IInv
  OBVIOUS
<1> USE BoundsAssumption DEF Init, Stream
<1>1. TypeOK
  <2>1. /\ running \in BOOLEAN /\ finished \in BOOLEAN /\ aborted \in BOOLEAN
        /\ failed \in BOOLEAN
    OBVIOUS
  <2>2. queue \in [Viewer -> Seq(Line \cup {AbortMessage})]
    OBVIOUS
  <2>3. taken["stdout"] = 0 /\ taken["stderr"] = 0 /\ sequence = 0
    OBVIOUS
  <2>4. QED
    BY <2>1, <2>2, <2>3 DEF TypeOK
<1>2. Numbered /\ Placed /\ InsertedFirst /\ Complete /\ LinesInOrder
  BY DEF Numbered, Placed, InsertedFirst, Complete, LinesInOrder
<1>3. QED
  BY <1>1, <1>2 DEF IInv

\* The part of the type invariant that the viewers have to do with.
ViewerType ==
  /\ aborted \in BOOLEAN
  /\ conn \in [Viewer -> {"none", "open", "gone", "closed"}]
  /\ queue \in [Viewer -> Seq(Line \cup {AbortMessage})]

\* Everything but the viewers' part is kept by a step that leaves it alone.
LEMMA LogUntouched ==
  ASSUME IInv, UNCHANGED logVars, ViewerType'
  PROVE  IInv'
<1>1. TypeOK'
  BY DEF IInv, TypeOK, ViewerType, logVars
<1>2. Numbered' /\ InsertedFirst'
  BY DEF IInv, Numbered, InsertedFirst, CurrentLine, logVars
<1>3. Placed'
  BY DEF IInv, Placed, Earlier, logVars
<1>4. Complete' /\ LinesInOrder'
  BY DEF IInv, Complete, HasRow, LinesInOrder, logVars
<1>5. QED
  BY <1>1, <1>2, <1>3, <1>4 DEF IInv

\* A message put into the queues is a line or an abort message.
LEMMA PublishedType ==
  ASSUME TypeOK, NEW channel, NEW msg \in Line \cup {AbortMessage},
         Published(channel, msg)
  PROVE  queue' \in [Viewer -> Seq(Line \cup {AbortMessage})]
BY DEF TypeOK, Published

\* The line a busy Writer is at is a line.
LEMMA CurrentLineType ==
  ASSUME IInv, NEW s \in Stream, wpc[s] # "idle"
  PROVE  CurrentLine(s) \in Line
<1> USE BoundsAssumption DEF IInv, TypeOK
<1>1. attempt \in 1..MaxAttempts
  BY DEF Numbered
<1>2. taken[s] \in 1..MaxLines
  BY DEF Numbered
<1>3. wseq[s] \in 1..MaxLines
  <2>1. wseq[s] \in 0..MaxLines /\ wseq[s] >= 1
    BY DEF Numbered
  <2>2. ASSUME NEW k \in Int, NEW m \in Int, k \in 0..m, k >= 1 PROVE k \in 1..m
    BY <2>2
  <2>3. QED
    BY <2>1, <2>2
<1>4. QED
  BY <1>1, <1>2, <1>3 DEF CurrentLine, Line

LEMMA NewAttemptInv == IInv /\ NewAttempt => IInv'
<1> SUFFICES ASSUME IInv, NewAttempt PROVE IInv'
  OBVIOUS
<1> USE BoundsAssumption DEF IInv, NewAttempt, runVars, viewerVars
<1>1. TypeOK'
  <2>1. sequence' = 0 /\ taken' = [s \in Stream |-> 0] /\ wseq' = [s \in Stream |-> 0]
    OBVIOUS
  <2>2. sequence' \in 0..MaxLines /\ taken' \in [Stream -> 0..MaxLines]
        /\ wseq' \in [Stream -> 0..MaxLines]
    BY <2>1
  <2>3. sequence' = taken'["stdout"] + taken'["stderr"]
    BY <2>1 DEF Stream
  <2>4. /\ running' \in BOOLEAN /\ failed' \in BOOLEAN
        /\ UNCHANGED <<finished, aborted, wpc, stored, live, conn, queue>>
    OBVIOUS
  <2>5. attempt' \in 0..MaxAttempts
    BY DEF TypeOK
  <2>6. QED
    BY <2>2, <2>3, <2>4, <2>5 DEF TypeOK
<1>2. \A s \in Stream : wpc'[s] = "idle"
  BY DEF Numbered, TypeOK
<1>3. Numbered'
  <2>1. attempt' >= 1 /\ ~finished'
    BY DEF TypeOK
  <2>2. \A s \in Stream : wseq'[s] = 0 /\ sequence' = 0
    OBVIOUS
  <2>3. QED
    BY <1>2, <2>1, <2>2 DEF Numbered
<1>4. Placed'
  <2>1. \A a \in stored : a.attempt \in Int /\ a.attempt =< attempt
    BY DEF Placed, TypeOK, Line
  <2>2. \A a \in stored : a.attempt =< attempt' /\ a.attempt # attempt'
    BY <2>1 DEF TypeOK
  <2>3. QED
    BY <2>2 DEF Placed
<1>5. InsertedFirst'
  BY <1>2 DEF InsertedFirst
<1>6. Complete'
  BY DEF Complete
<1>7. LinesInOrder'
  BY DEF LinesInOrder
<1>8. QED
  BY <1>1, <1>3, <1>4, <1>5, <1>6, <1>7

\* An attempt that ends, well or not, with its Writers at rest.
LEMMA EndInv ==
  ASSUME IInv, NEW f \in BOOLEAN,
         running, running' = FALSE, finished' = f,
         wpc' = [s \in Stream |-> "idle"],
         f => \A s \in Stream : wpc[s] = "idle",
         UNCHANGED <<attempt, aborted, sequence, taken, wseq, failed, stored, live,
                     viewerVars>>
  PROVE  IInv'
<1> USE DEF IInv, viewerVars
<1>1. TypeOK'
  BY DEF TypeOK
<1>2. Numbered'
  BY DEF Numbered
<1>3. Placed'
  BY DEF Placed, Earlier
<1>4. InsertedFirst' /\ LinesInOrder'
  BY DEF InsertedFirst, LinesInOrder
<1>5. Complete'
  BY DEF Complete, HasRow
<1>6. QED
  BY <1>1, <1>2, <1>3, <1>4, <1>5

-------------------------------------------------------------------------------
LEMMA TakeLineInv ==
  ASSUME IInv, NEW s \in Stream, TakeLine(s)
  PROVE  IInv'
<1> USE BoundsAssumption DEF IInv, TakeLine, NextSeq, runVars, viewerVars
<1>0. /\ taken \in [Stream -> 0..MaxLines] /\ sequence \in Int
      /\ taken[s] =< sequence
      /\ wpc \in [Stream -> {"idle", "insert", "publish"}]
      /\ wseq \in [Stream -> 0..MaxLines]
      /\ sequence = taken["stdout"] + taken["stderr"]
      /\ sequence < MaxLines /\ wpc[s] = "idle" /\ running
  BY DEF TypeOK, Stream
<1>1. /\ taken' = [taken EXCEPT ![s] = taken[s] + 1] /\ sequence' = sequence + 1
      /\ wseq' = [wseq EXCEPT ![s] = sequence + 1]
      /\ wpc' = [wpc EXCEPT ![s] = "insert"]
  OBVIOUS
<1>2. taken' \in [Stream -> 0..MaxLines]
  BY <1>0, <1>1
<1>3. sequence' = taken'["stdout"] + taken'["stderr"]
  BY <1>0, <1>1 DEF Stream
<1>4. sequence' \in 0..MaxLines
  BY <1>1 DEF TypeOK
<1>5. TypeOK'
  <2>1. wseq' \in [Stream -> 0..MaxLines]
    BY <1>0, <1>1, <1>4
  <2>2. wpc' \in [Stream -> {"idle", "insert", "publish"}]
    BY <1>0, <1>1
  <2>3. QED
    BY <1>2, <1>3, <1>4, <2>1, <2>2 DEF TypeOK
<1>6. \A t \in Stream : wseq[t] \in Int /\ wseq[t] =< sequence
  BY <1>0 DEF Numbered
<1>7. Numbered'
  <2>1. running' => attempt' >= 1 /\ ~finished'
    BY DEF Numbered
  <2>2. sequence >= 0
    BY <1>0 DEF Stream
  <2>3. ASSUME NEW t \in Stream PROVE wseq'[t] =< sequence'
    BY <1>0, <1>1, <1>6
  <2>4. ASSUME NEW t \in Stream, wpc'[t] # "idle"
        PROVE  running' /\ taken'[t] >= 1 /\ wseq'[t] >= 1
    BY <1>0, <1>1, <2>2, <2>4 DEF Numbered
  <2>5. ASSUME NEW t \in Stream, NEW u \in Stream, t # u, wpc'[t] = "insert"
        PROVE  wseq'[t] # wseq'[u]
    BY <1>0, <1>1, <1>6, <2>5 DEF Numbered
  <2>6. QED
    BY <2>1, <2>3, <2>4, <2>5 DEF Numbered
<1>8. Placed'
  <2> SUFFICES ASSUME NEW a \in stored, a.attempt = attempt PROVE Earlier(a)'
    BY DEF Placed
  <2>1. Earlier(a) /\ a \in Line
    BY DEF Placed, TypeOK
  <2>2. a.stream \in Stream /\ a.n \in Int /\ a.seq \in Int
    BY <2>1 DEF Line
  <2>3. a.seq =< sequence
    <3>1. a.seq =< wseq[a.stream]
      BY <2>1 DEF Earlier
    <3>2. wseq[a.stream] \in Int /\ wseq[a.stream] =< sequence
      BY <1>6, <2>2
    <3>3. QED
      BY <1>0, <2>2, <3>1, <3>2
  <2>4. a.n =< taken'[a.stream] /\ a.seq =< wseq'[a.stream]
    BY <1>0, <1>1, <2>1, <2>2, <2>3 DEF Earlier
  <2>5. ASSUME NEW t \in Stream, wpc'[t] = "insert"
        PROVE  /\ a.seq # wseq'[t]
               /\ a.stream = t => a.n < taken'[t] /\ a.seq < wseq'[t]
    BY <1>0, <1>1, <2>1, <2>2, <2>3, <2>5 DEF Earlier
  <2>6. QED
    BY <2>4, <2>5 DEF Earlier
<1>9. InsertedFirst'
  <2>1. ASSUME NEW t \in Stream, wpc'[t] = "publish" PROVE CurrentLine(t)' \in stored'
    <3>1. t # s /\ wpc[t] = "publish"
      BY <1>0, <1>1, <2>1
    <3>2. CurrentLine(t)' = CurrentLine(t)
      BY <1>0, <1>1, <3>1 DEF CurrentLine
    <3>3. QED
      BY <3>1, <3>2 DEF InsertedFirst
  <2>2. QED
    BY <2>1 DEF InsertedFirst
<1>10. Complete'
  <2> SUFFICES ASSUME ~failed, NEW t \in Stream, NEW n \in 1..taken'[t]
               PROVE  HasRow(t, n)' \/ (n = taken'[t] /\ wpc'[t] = "insert")
    BY DEF Complete
  <2>1. HasRow(t, n)' <=> HasRow(t, n)
    BY DEF HasRow
  <2>2. CASE n \in 1..taken[t]
    BY <1>0, <1>1, <2>1, <2>2 DEF Complete
  <2>3. CASE n \notin 1..taken[t]
    <3>1. t = s
      BY <1>0, <1>1, <2>3
    <3>2. n = taken'[t]
      BY <1>0, <1>1, <2>3, <3>1
    <3>3. QED
      BY <1>0, <1>1, <3>1, <3>2
  <2>4. QED
    BY <2>2, <2>3
<1>11. LinesInOrder'
  BY DEF LinesInOrder
<1>12. QED
  BY <1>5, <1>7, <1>8, <1>9, <1>10, <1>11

-------------------------------------------------------------------------------
\* An INSERT that reports success went through, and a publish follows it only.
LEMMA InsertInv ==
  ASSUME IInv, NEW s \in Stream, Insert(s)
  PROVE  IInv'
<1> USE BoundsAssumption, OutcomesAssumption DEF IInv, Insert, InsertOutcomes, runVars,
        viewerVars
<1> PICK o \in InsertOutcomes :
       /\ stored' = IF Applied(o) THEN stored \cup {CurrentLine(s)} ELSE stored
       /\ wpc' = [wpc EXCEPT ![s] = AfterInsert(o)]
       /\ failed' = (failed \/ o # "ok")
  OBVIOUS
<1> DEFINE line == CurrentLine(s)
<1>0. /\ wpc \in [Stream -> {"idle", "insert", "publish"}] /\ wpc[s] = "insert"
      /\ taken \in [Stream -> 0..MaxLines] /\ wseq \in [Stream -> 0..MaxLines]
      /\ UNCHANGED <<attempt, running, finished, aborted, sequence, taken, wseq,
                     live, conn, queue>>
  BY DEF TypeOK
<1>1. line \in Line /\ line.attempt = attempt /\ line.stream = s
      /\ line.n = taken[s] /\ line.seq = wseq[s]
  BY <1>0, CurrentLineType DEF CurrentLine
<1>2. wpc' \in [Stream -> {"idle", "insert", "publish"}] /\ wpc'[s] # "insert"
      /\ \A t \in Stream : t # s => wpc'[t] = wpc[t]
  BY <1>0 DEF AfterInsert
<1>3. stored \subseteq stored' /\ stored' \subseteq stored \cup {line}
  OBVIOUS
<1>4. failed' \in BOOLEAN /\ (~failed' => ~failed /\ o = "ok")
  BY Zenon
<1>5. o = "ok" => line \in stored'
  BY DEF Applied
<1>6. TypeOK'
  <2>1. stored' \subseteq Line
    BY <1>1, <1>3 DEF TypeOK
  <2>2. QED
    BY <1>0, <1>2, <1>4, <2>1 DEF TypeOK
<1>7. Numbered'
  BY <1>0, <1>2 DEF Numbered
<1>8. Placed'
  <2> SUFFICES ASSUME NEW a \in stored', a.attempt = attempt
               PROVE  Earlier(a)'
    BY <1>0, <1>1, <1>3 DEF Placed, TypeOK
  <2>1. CASE a \in stored
    BY <1>0, <1>2, <2>1 DEF Placed, Earlier
  <2>2. CASE a = line
    <3>1. a.n =< taken'[a.stream] /\ a.seq =< wseq'[a.stream]
      BY <1>0, <1>1, <2>2
    <3>2. ASSUME NEW t \in Stream, wpc'[t] = "insert" PROVE a.seq # wseq'[t] /\ t # s
      BY <1>0, <1>1, <1>2, <2>2, <3>2 DEF Numbered
    <3>3. QED
      BY <1>1, <2>2, <3>1, <3>2 DEF Earlier
  <2>3. QED
    BY <1>3, <2>1, <2>2
<1>9. InsertedFirst'
  <2>1. ASSUME NEW t \in Stream, wpc'[t] = "publish" PROVE CurrentLine(t)' \in stored'
    <3>1. CurrentLine(t)' = CurrentLine(t)
      BY <1>0 DEF CurrentLine
    <3>2. CASE t = s
      <4>1. o = "ok"
        BY <1>0, <2>1, <3>2 DEF AfterInsert
      <4>2. QED
        BY <1>5, <3>1, <3>2, <4>1
    <3>3. CASE t # s
      BY <1>2, <1>3, <2>1, <3>1, <3>3 DEF InsertedFirst
    <3>4. QED
      BY <3>2, <3>3
  <2>2. QED
    BY <1>0, <1>3, <2>1 DEF InsertedFirst
<1>10. Complete'
  <2> SUFFICES ASSUME (running \/ finished), ~failed', NEW t \in Stream, NEW n \in 1..taken[t]
               PROVE  HasRow(t, n)' \/ (n = taken[t] /\ wpc'[t] = "insert")
    BY <1>0 DEF Complete
  <2>1. HasRow(t, n) \/ (n = taken[t] /\ wpc[t] = "insert")
    BY <1>4 DEF Complete
  <2>2. CASE HasRow(t, n)
    BY <1>0, <1>3, <2>2 DEF HasRow
  <2>3. CASE n = taken[t] /\ wpc[t] = "insert"
    <3>1. CASE t = s
      <4>1. line \in stored' /\ line.attempt = attempt' /\ line.stream = t /\ line.n = n
        BY <1>0, <1>1, <1>4, <1>5, <2>3, <3>1
      <4>2. QED
        BY <4>1 DEF HasRow
    <3>2. CASE t # s
      BY <1>2, <2>3, <3>2
    <3>3. QED
      BY <3>1, <3>2
  <2>4. QED
    BY <2>1, <2>2, <2>3
<1>11. LinesInOrder'
  <2>1. ASSUME NEW a \in stored, a.attempt = attempt
        PROVE  /\ a.seq # line.seq /\ a.seq \in Int /\ a.n \in Int
               /\ a.stream = s => a.n < line.n /\ a.seq < line.seq
    BY <1>0, <1>1, <2>1 DEF Placed, Earlier, TypeOK, Line
  <2>2. line.n \in Int /\ line.seq \in Int
    BY <1>1 DEF Line
  <2>3. ASSUME NEW a \in stored', NEW b \in stored', a.attempt = b.attempt
        PROVE  /\ a.seq = b.seq => a = b
               /\ a.stream = b.stream => (a.n < b.n <=> a.seq < b.seq)
    <3>1. CASE a \in stored /\ b \in stored
      BY <2>3, <3>1 DEF LinesInOrder
    <3>2. CASE a = line /\ b = line
      BY <2>2, <3>2
    <3>3. CASE a = line /\ b \in stored
      BY <1>1, <2>1, <2>2, <2>3, <3>3
    <3>4. CASE a \in stored /\ b = line
      BY <1>1, <2>1, <2>2, <2>3, <3>4
    <3>5. QED
      BY <1>3, <3>1, <3>2, <3>3, <3>4
  <2>4. QED
    BY <2>3 DEF LinesInOrder
<1>12. QED
  BY <1>6, <1>7, <1>8, <1>9, <1>10, <1>11

LEMMA PublishInv ==
  ASSUME IInv, NEW s \in Stream, Publish(s)
  PROVE  IInv'
<1> USE DEF IInv, Publish, runVars
<1>0. /\ wpc \in [Stream -> {"idle", "insert", "publish"}] /\ wpc[s] = "publish"
      /\ wpc' = [wpc EXCEPT ![s] = "idle"]
      /\ UNCHANGED <<attempt, running, finished, aborted, sequence, taken, wseq,
                     failed, stored, conn>>
  BY DEF TypeOK
<1>1. CurrentLine(s) \in Line /\ CurrentLine(s) \in stored
  BY <1>0, CurrentLineType DEF InsertedFirst
<1>2. live' \subseteq stored
  BY <1>1 DEF InsertedFirst
<1>3. queue' \in [Viewer -> Seq(Line \cup {AbortMessage})]
  BY <1>1, PublishedType DEF TypeOK
<1>4. wpc' \in [Stream -> {"idle", "insert", "publish"}]
      /\ \A t \in Stream : wpc'[t] \in {"idle", wpc[t]} /\ (t # s => wpc'[t] = wpc[t])
  BY <1>0
<1>5. TypeOK'
  BY <1>0, <1>2, <1>3, <1>4 DEF TypeOK
<1>6. Numbered'
  BY <1>0, <1>4 DEF Numbered
<1>7. Placed'
  BY <1>0, <1>4 DEF Placed, Earlier
<1>8. InsertedFirst'
  BY <1>0, <1>2, <1>4 DEF InsertedFirst, CurrentLine
<1>9. Complete'
  BY <1>0, <1>4 DEF Complete, HasRow
<1>10. LinesInOrder'
  BY <1>0 DEF LinesInOrder
<1>11. QED
  BY <1>5, <1>6, <1>7, <1>8, <1>9, <1>10

-------------------------------------------------------------------------------
LEMMA NextInv == IInv /\ [Next]_vars => IInv'
<1> SUFFICES ASSUME IInv, [Next]_vars PROVE IInv'
  OBVIOUS
<1>1. CASE NewAttempt
  BY <1>1, NewAttemptInv
<1>2. CASE Crash
  <2>1. finished = FALSE
    BY <1>2 DEF Crash, IInv, Numbered, TypeOK
  <2>2. QED
    BY <1>2, <2>1, EndInv DEF Crash
<1>3. CASE Finish
  BY <1>3, EndInv DEF Finish, WritersDone
<1>4. CASE Abort
  <2>1. UNCHANGED logVars /\ aborted' \in BOOLEAN /\ conn' = conn
    BY <1>4 DEF Abort, writerVars, logVars
  <2>2. queue' \in [Viewer -> Seq(Line \cup {AbortMessage})]
    BY <1>4, PublishedType DEF Abort, IInv
  <2>3. ViewerType'
    BY <2>1, <2>2 DEF ViewerType, IInv, TypeOK
  <2>4. QED
    BY <2>1, <2>3, LogUntouched
<1>5. ASSUME NEW s \in Stream, TakeLine(s) \/ Insert(s) \/ Publish(s) PROVE IInv'
  BY <1>5, TakeLineInv, InsertInv, PublishInv
<1>6. ASSUME NEW v \in Viewer, Connect(v) \/ Leave(v) \/ Forward(v) PROVE IInv'
  <2>1. UNCHANGED logVars
    BY <1>6 DEF Connect, Leave, Forward, runVars, writerVars, logVars
  <2>2. ViewerType'
    <3>1. ViewerType
      BY DEF IInv, TypeOK, ViewerType
    <3>2. CASE Connect(v) \/ Leave(v)
      BY <3>1, <3>2 DEF Connect, Leave, runVars, ViewerType
    <3>3. CASE Forward(v)
      <4>1. /\ queue' = [queue EXCEPT ![v] = Tail(queue[v])] /\ queue[v] # <<>>
            /\ conn[v] \in {"open", "gone"} /\ aborted' = aborted
            /\ conn' = [conn EXCEPT ![v] = IF conn[v] = "gone" THEN "closed"
                                                             ELSE conn[v]]
        BY <3>3 DEF Forward, runVars
      <4>2. Tail(queue[v]) \in Seq(Line \cup {AbortMessage})
        BY <3>1, <4>1 DEF ViewerType
      <4>3. queue' \in [Viewer -> Seq(Line \cup {AbortMessage})]
        BY <3>1, <4>1, <4>2 DEF ViewerType
      <4>4. conn' \in [Viewer -> {"none", "open", "gone", "closed"}]
        BY <3>1, <4>1 DEF ViewerType
      <4>5. QED
        BY <3>1, <4>1, <4>3, <4>4 DEF ViewerType
    <3>4. QED
      BY <1>6, <3>2, <3>3
  <2>3. QED
    BY <2>1, <2>2, LogUntouched
<1>7. CASE UNCHANGED vars
  <2>1. UNCHANGED logVars /\ ViewerType'
    BY <1>7 DEF vars, runVars, writerVars, viewerVars, logVars, ViewerType, IInv, TypeOK
  <2>2. QED
    BY <2>1, LogUntouched
<1>8. QED
  BY <1>1, <1>2, <1>3, <1>4, <1>5, <1>6, <1>7 DEF Next

LEMMA Inductive == Spec => []IInv
BY InitInv, NextInv, PTL DEF Spec

-------------------------------------------------------------------------------
\* The type invariant of the Writers, the table and the connections, and that
\* the attempt's counter is the number of lines taken from both streams.
THEOREM StreamTypeCorrect == Spec => []TypeOK
<1>1. IInv => TypeOK
  BY DEF IInv
<1>2. QED
  BY <1>1, Inductive, PTL

\* Writer.writeLine: the two Writers of an attempt never give a number twice, and
\* a stream's numbers rise, whatever fails and however often a worker dies.
THEOREM NumberedInOrder == Spec => []LinesInOrder
<1>1. IInv => LinesInOrder
  BY DEF IInv
<1>2. QED
  BY <1>1, Inductive, PTL

\* Writer.writeLine: what is published has been inserted.
THEOREM LiveStored == Spec => []LiveIsStored
<1>1. IInv => LiveIsStored
  BY DEF IInv, InsertedFirst, LiveIsStored
<1>2. QED
  BY <1>1, Inductive, PTL

\* runStep waits for its Writers: unless an INSERT failed, no line of the attempt
\* that ended the execution is missing from the table.
THEOREM LinesPersisted == Spec => []EveryLineIsPersisted
<1>1. ASSUME IInv PROVE EveryLineIsPersisted
  <2>1. finished => \A s \in Stream : wpc[s] = "idle"
    BY <1>1 DEF IInv, Numbered, TypeOK
  <2>2. QED
    BY <1>1, <2>1 DEF IInv, Complete, HasRow, EveryLineIsPersisted
<1>2. QED
  BY <1>1, Inductive, PTL

\* Nothing is stored, and no Writer has come to its PUBLISH.
NothingIsLogged == /\ stored = {} /\ live = {}
                   /\ \A s \in Stream : wpc[s] # "publish"

\* While execution_logs lacks a column that writeLine names, as it does after the
\* repository's migration, no line is ever stored, and none goes out live either:
\* an error of the INSERT ends writeLine before its PUBLISH.
THEOREM LinesNeverFit == Spec => [](~InsertFits => NothingIsLogged)
<1>1. Init => NothingIsLogged
  BY DEF Init, NothingIsLogged
<1>2. ASSUME TypeOK, NothingIsLogged, ~InsertFits, [Next]_vars
      PROVE  NothingIsLogged'
  <2> USE DEF NothingIsLogged, TypeOK, runVars, writerVars, viewerVars
  <2>1. CASE NewAttempt \/ Crash \/ Finish \/ Abort
    BY <1>2, <2>1 DEF NewAttempt, Crash, Finish, Abort
  <2>2. ASSUME NEW s \in Stream, TakeLine(s) PROVE NothingIsLogged'
    BY <1>2, <2>2 DEF TakeLine
  <2>3. ASSUME NEW s \in Stream, Insert(s) PROVE NothingIsLogged'
    BY <1>2, <2>3 DEF Insert, InsertOutcomes, AfterInsert, Applied
  <2>4. ASSUME NEW s \in Stream, Publish(s) PROVE NothingIsLogged'
    BY <1>2, <2>4 DEF Publish
  <2>5. ASSUME NEW v \in Viewer, Connect(v) \/ Leave(v) \/ Forward(v)
        PROVE  NothingIsLogged'
    BY <1>2, <2>5 DEF Connect, Leave, Forward
  <2>6. CASE UNCHANGED vars
    BY <1>2, <2>6 DEF vars
  <2>7. QED
    BY <1>2, <2>1, <2>2, <2>3, <2>4, <2>5, <2>6 DEF Next
<1>3. TypeOK /\ (~InsertFits => NothingIsLogged) /\ [Next]_vars
        => (~InsertFits => NothingIsLogged)'
  BY <1>2
<1>4. QED
  BY <1>1, <1>3, StreamTypeCorrect, PTL DEF Spec

===============================================================================
