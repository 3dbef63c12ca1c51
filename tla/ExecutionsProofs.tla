--------------------------- MODULE ExecutionsProofs ---------------------------
(***************************************************************************)
(* Theorems about Executions, for any number of executions, steps,         *)
(* processes and goroutines: types and what the stream and the API promise *)
(* whatever happens, then who owns a message and what follows from that    *)
(* for rows, step rows and acknowledgements, that WorkQueue is             *)
(* implemented, and which executions are never run at all.                 *)
(***************************************************************************)
EXTENDS Executions, TLAPS

\* What the place of a goroutine says about its hands: it works on a message
\* it has taken out of its batch, and on a step the job has.
Hands ==
  \A c \in Consumer :
    /\ pc[c] \in {"down", "returned", "reclaim", "loop", "read"} =>
         batch[c] = {} /\ cur[c] = NoExecution
    /\ pc[c] = "next" => cur[c] = NoExecution
    /\ pc[c] \in {"load", "mark", "begin", "run", "skip", "final", "ack"} =>
         cur[c] \in Execution /\ cur[c] \notin batch[c]
    /\ pc[c] \in {"begin", "run", "skip"} => step[c] =< NumSteps
    /\ proc[Host[c]] = "down" => pc[c] = "down"

LEMMA InitTyped == Init => TypeOK /\ Hands
  BY StepsAssumption, FlagsAssumption DEF Init, TypeOK, Hands, NoGroup, Status,
     Settled, StepStatus, Place

\* The two step statements change one entry of the table of step statuses.
LEMMA StepsType ==
  ASSUME TypeOK, NEW e \in Execution, NEW s \in Step, NEW status \in StepStatus
  PROVE  /\ UpsertStep(e, s, status) \in [Execution -> [Step -> StepStatus]]
         /\ FinalizeStep(e, s, status) \in [Execution -> [Step -> StepStatus]]
<1>1. [steps[e] EXCEPT ![s] = status] \in [Step -> StepStatus]
  BY DEF TypeOK
<1>2. QED
  BY <1>1 DEF TypeOK, UpsertStep, FinalizeStep

\* The outcomes of a worker's statement: a cancelled context refuses it.
LEMMA WorkerOutcomes ==
  ASSUME NEW c \in Consumer, NEW o \in WorkerOutcome(c) \cup UpsertOutcome(c)
  PROVE  /\ o \in {"ok", "lost", "unknown"}
         /\ Cancelled(c) => o = "lost"
         /\ Applied(o) <=> o # "lost"
BY DEF WorkerOutcome, UpsertOutcome, IOErrors, Applied

\* Histories of errors only grow, by the execution in hand, and miss none of
\* a process that goes on.
LEMMA NotedErrors ==
  ASSUME NEW c \in Consumer, NEW o, NEW errors
  PROVE  /\ errors \subseteq Noted(c, o, errors)
         /\ Noted(c, o, errors) \subseteq errors \cup {cur[c]}
         /\ cur[c] \notin Noted(c, o, errors) /\ ~Cancelled(c) => o = "ok"
BY DEF Noted

\* Every step keeps the types and the control state of the goroutines.
LEMMA NextTyped == TypeOK /\ Hands /\ [Next]_vars => TypeOK' /\ Hands'
<1> SUFFICES ASSUME TypeOK, Hands, [Next]_vars
             PROVE  TypeOK' /\ Hands'
  OBVIOUS
<1> USE StepsAssumption, HostAssumption, NoneAssumption
    DEF TypeOK, Hands, Status, Settled, StepStatus, Place, apiVars, streamVars,
        dbVars, workerVars
<1>1. ASSUME NEW e \in Execution, InsertExecution(e) PROVE TypeOK' /\ Hands'
  <2>1. TypeOK'
    BY <1>1 DEF InsertExecution, Create
  <2>2. Hands'
    BY <1>1 DEF InsertExecution, Create
  <2>3. QED
    BY <2>1, <2>2
<1>2. ASSUME NEW e \in Execution, Dispatch(e) PROVE TypeOK' /\ Hands'
  <2>1. topId' \in Nat /\ id' \in [Execution -> Nat]
    BY <1>2 DEF Dispatch
  <2>2. TypeOK'
    BY <1>2, <2>1 DEF Dispatch, Answer
  <2>3. Hands'
    BY <1>2 DEF Dispatch
  <2>4. QED
    BY <2>2, <2>3
<1>3. ASSUME NEW e \in Execution, DropRequest(e) PROVE TypeOK' /\ Hands'
  <2>1. TypeOK'
    BY <1>3 DEF DropRequest
  <2>2. Hands'
    BY <1>3 DEF DropRequest
  <2>3. QED
    BY <2>1, <2>2
<1>4. ASSUME NEW e \in Execution, AbortRead(e) PROVE TypeOK' /\ Hands'
  <2>1. TypeOK'
    BY <1>4 DEF AbortRead
  <2>2. Hands'
    BY <1>4 DEF AbortRead
  <2>3. QED
    BY <2>1, <2>2
<1>5. ASSUME NEW e \in Execution, AbortWrite(e) PROVE TypeOK' /\ Hands'
  <2>1. TypeOK'
    BY <1>5 DEF AbortWrite, UpdateStatus
  <2>2. Hands'
    BY <1>5 DEF AbortWrite, UpdateStatus
  <2>3. QED
    BY <2>1, <2>2
<1>6. ASSUME NEW e \in Execution, GrowStale(e) PROVE TypeOK' /\ Hands'
  <2>1. TypeOK'
    BY <1>6 DEF GrowStale
  <2>2. Hands'
    BY <1>6 DEF GrowStale
  <2>3. QED
    BY <2>1, <2>2
<1>7. ASSUME NEW p \in Process, Start(p) PROVE TypeOK' /\ Hands'
  <2>1. TypeOK'
    BY <1>7 DEF Start, EnsuredCursor, ConsumersOf
  <2>2. Hands'
    BY <1>7 DEF Start, EnsuredCursor, ConsumersOf
  <2>3. QED
    BY <2>1, <2>2
<1>8. ASSUME NEW p \in Process, Signal(p) PROVE TypeOK' /\ Hands'
  <2>1. TypeOK'
    BY <1>8 DEF Signal
  <2>2. Hands'
    BY <1>8 DEF Signal
  <2>3. QED
    BY <2>1, <2>2
<1>9. ASSUME NEW p \in Process, Gone(p) PROVE TypeOK' /\ Hands'
  <2>1. TypeOK'
    BY <1>9 DEF Gone, ConsumersOf
  <2>2. Hands'
    BY <1>9 DEF Gone, ConsumersOf
  <2>3. QED
    BY <2>1, <2>2
<1>10. ASSUME NEW c \in Consumer, Reclaim(c) PROVE TypeOK' /\ Hands'
  <2>1. TypeOK'
    <3>1. pel' \in [Execution -> Consumer \cup {NoConsumer}]
      BY <1>10 DEF Reclaim, Claimable
    <3>2. stale' \subseteq Execution
      BY <1>10 DEF Reclaim, Claimable
    <3>3. batch' \in [Consumer -> SUBSET Execution]
      BY <1>10 DEF Reclaim, Claimable
    <3>4. pc' \in [Consumer -> Place]
      BY <1>10 DEF Reclaim
    <3>5. QED
      BY <1>10, <3>1, <3>2, <3>3, <3>4 DEF Reclaim
  <2>2. Hands'
    BY <1>10 DEF Reclaim, Claimable
  <2>3. QED
    BY <2>1, <2>2
<1>11. ASSUME NEW c \in Consumer, Loop(c) PROVE TypeOK' /\ Hands'
  <2>1. TypeOK'
    BY <1>11 DEF Loop, Goes
  <2>2. Hands'
    BY <1>11 DEF Loop, Goes
  <2>3. QED
    BY <2>1, <2>2
<1>12. ASSUME NEW c \in Consumer, Read(c) PROVE TypeOK' /\ Hands'
  <2>1. PICK e \in Undelivered, o \in ReadOutcome(c) : Read(c)!2!(e, o)
    BY <1>12 DEF Read
  <2>2. e \in Execution
    BY DEF Undelivered
  <2>3. TypeOK'
    <3>1. pel' \in [Execution -> Consumer \cup {NoConsumer}]
      BY <2>1, <2>2
    <3>2. cursor' \in Nat \cup {NoGroup}
      BY <2>1, <2>2
    <3>3. batch' \in [Consumer -> SUBSET Execution]
      BY <2>1, <2>2
    <3>4. pc' \in [Consumer -> Place]
      BY <2>1
    <3>5. QED
      BY <1>12, <2>2, <3>1, <3>2, <3>3, <3>4 DEF Read
  <2>4. Hands'
    BY <1>12, <2>1, <2>2 DEF Read
  <2>5. QED
    BY <2>3, <2>4
<1>13. ASSUME NEW c \in Consumer, ReadNothing(c) PROVE TypeOK' /\ Hands'
  <2>1. TypeOK'
    BY <1>13 DEF ReadNothing, Goes
  <2>2. Hands'
    BY <1>13 DEF ReadNothing, Goes
  <2>3. QED
    BY <2>1, <2>2
<1>14. ASSUME NEW c \in Consumer, TakeMessage(c) PROVE TypeOK' /\ Hands'
  <2>1. TypeOK'
    <3>1. cur' \in [Consumer -> Execution \cup {NoExecution}]
      BY <1>14 DEF TakeMessage
    <3>2. batch' \in [Consumer -> SUBSET Execution]
      BY <1>14 DEF TakeMessage
    <3>3. pc' \in [Consumer -> Place]
      BY <1>14 DEF TakeMessage
    <3>4. QED
      BY <1>14, <3>1, <3>2, <3>3 DEF TakeMessage
  <2>2. Hands'
    BY <1>14 DEF TakeMessage
  <2>3. QED
    BY <2>1, <2>2
<1>15. ASSUME NEW c \in Consumer, Ack(c) PROVE TypeOK' /\ Hands'
  <2>1. TypeOK'
    <3>1. pel' \in [Execution -> Consumer \cup {NoConsumer}]
      BY <1>15 DEF Ack
    <3>2. stale' \subseteq Execution
      BY <1>15 DEF Ack
    <3>3. acked' \subseteq Execution
      BY <1>15 DEF Ack
    <3>4. cur' \in [Consumer -> Execution \cup {NoExecution}]
      BY <1>15 DEF Ack
    <3>5. pc' \in [Consumer -> Place]
      BY <1>15 DEF Ack
    <3>6. QED
      BY <1>15, <3>1, <3>2, <3>3, <3>4, <3>5 DEF Ack
  <2>2. Hands'
    BY <1>15 DEF Ack
  <2>3. QED
    BY <2>1, <2>2
<1>16. ASSUME NEW c \in Consumer, Load(c) PROVE TypeOK' /\ Hands'
  <2>1. TypeOK'
    BY <1>16 DEF Load, Goes, Noted
  <2>2. Hands'
    BY <1>16 DEF Load, Goes
  <2>3. QED
    BY <2>1, <2>2
<1>17. ASSUME NEW c \in Consumer, MarkRunning(c) PROVE TypeOK' /\ Hands'
  <2>1. TypeOK'
    <3>1. row' \in [Execution -> Status]
      BY <1>17 DEF MarkRunning, UpdateExecution
    <3>2. pc' \in [Consumer -> Place]
      BY <1>17 DEF MarkRunning, Position
    <3>3. step' \in [Consumer -> 1..(NumSteps + 1)]
      BY <1>17 DEF MarkRunning
    <3>4. verdict' \in [Consumer -> {"success", "failed"}]
      BY <1>17 DEF MarkRunning
    <3>5. rowErr' \subseteq Execution
      BY <1>17 DEF MarkRunning, Noted
    <3>6. QED
      BY <1>17, <3>1, <3>2, <3>3, <3>4, <3>5 DEF MarkRunning
  <2>2. Hands'
    BY <1>17 DEF MarkRunning, Position
  <2>3. QED
    BY <2>1, <2>2
<1>18. ASSUME NEW c \in Consumer, BeginStep(c) PROVE TypeOK' /\ Hands'
  <2>1. TypeOK'
    <3>1. steps' \in [Execution -> [Step -> StepStatus]]
      <4>1. cur[c] \in Execution /\ step[c] \in Step
        BY <1>18 DEF BeginStep, Step
      <4>2. QED
        BY <1>18, <4>1, StepsType DEF BeginStep
    <3>2. pc' \in [Consumer -> Place]
      BY <1>18 DEF BeginStep
    <3>3. verdict' \in [Consumer -> {"success", "failed"}]
      BY <1>18 DEF BeginStep
    <3>4. stepErr' \subseteq Execution
      BY <1>18 DEF BeginStep, Noted
    <3>5. QED
      BY <1>18, <3>1, <3>2, <3>3, <3>4 DEF BeginStep
  <2>2. Hands'
    BY <1>18 DEF BeginStep
  <2>3. QED
    BY <2>1, <2>2
<1>19. ASSUME NEW c \in Consumer, RunStep(c) PROVE TypeOK' /\ Hands'
  <2>1. TypeOK'
    <3>1. steps' \in [Execution -> [Step -> StepStatus]]
      <4>1. cur[c] \in Execution /\ step[c] \in Step
        BY <1>19 DEF RunStep, Step
      <4>2. QED
        BY <1>19, <4>1, StepsType DEF RunStep
    <3>2. pc' \in [Consumer -> Place]
      BY <1>19 DEF RunStep, Position
    <3>3. step' \in [Consumer -> 1..(NumSteps + 1)]
      BY <1>19 DEF RunStep
    <3>4. verdict' \in [Consumer -> {"success", "failed"}]
      BY <1>19 DEF RunStep
    <3>5. stepErr' \subseteq Execution
      BY <1>19 DEF RunStep, Noted
    <3>6. QED
      BY <1>19, <3>1, <3>2, <3>3, <3>4, <3>5 DEF RunStep
  <2>2. Hands'
    BY <1>19 DEF RunStep, Position
  <2>3. QED
    BY <2>1, <2>2
<1>20. ASSUME NEW c \in Consumer, SkipStep(c) PROVE TypeOK' /\ Hands'
  <2>1. TypeOK'
    <3>1. steps' \in [Execution -> [Step -> StepStatus]]
      <4>1. cur[c] \in Execution /\ step[c] \in Step
        BY <1>20 DEF SkipStep, Step
      <4>2. QED
        BY <1>20, <4>1, StepsType DEF SkipStep
    <3>2. pc' \in [Consumer -> Place]
      BY <1>20 DEF SkipStep, Position
    <3>3. step' \in [Consumer -> 1..(NumSteps + 1)]
      BY <1>20 DEF SkipStep
    <3>4. stepErr' \subseteq Execution
      BY <1>20 DEF SkipStep, Noted
    <3>5. QED
      BY <1>20, <3>1, <3>2, <3>3, <3>4 DEF SkipStep
  <2>2. Hands'
    BY <1>20 DEF SkipStep, Position
  <2>3. QED
    BY <2>1, <2>2
<1>21. ASSUME NEW c \in Consumer, Finalize(c) PROVE TypeOK' /\ Hands'
  <2>1. TypeOK'
    <3>1. row' \in [Execution -> Status]
      BY <1>21 DEF Finalize, UpdateExecution
    <3>2. pc' \in [Consumer -> Place]
      BY <1>21 DEF Finalize
    <3>3. step' \in [Consumer -> 1..(NumSteps + 1)]
      BY <1>21 DEF Finalize
    <3>4. verdict' \in [Consumer -> {"success", "failed"}]
      BY <1>21 DEF Finalize
    <3>5. rowErr' \subseteq Execution
      BY <1>21 DEF Finalize, Noted
    <3>6. QED
      BY <1>21, <3>1, <3>2, <3>3, <3>4, <3>5 DEF Finalize
  <2>2. Hands'
    BY <1>21 DEF Finalize
  <2>3. QED
    BY <2>1, <2>2
<1>22. CASE UNCHANGED vars
  BY <1>22 DEF vars
<1>23. QED
  BY <1>1, <1>2, <1>3, <1>4, <1>5, <1>6, <1>7, <1>8, <1>9, <1>10, <1>11, <1>12,
     <1>13, <1>14, <1>15, <1>16, <1>17, <1>18, <1>19, <1>20, <1>21, <1>22
  DEF Next, ApiStep, ProcessStep, ConsumerStep, Exit, Crash

\* The variables keep their types, and a goroutine that processes a message
\* has one (processMessage and Execute are never entered without).
THEOREM TypeCorrect == Spec => [](TypeOK /\ Hands)
  BY InitTyped, NextTyped, PTL DEF Spec

-------------------------------------------------------------------------------
(* The group's accounting, whatever the environment does.                  *)

\* Execute has not come to its XADD.
Open(e) == api[e] \in {"idle", "inserted"}
USE DEF Open

\* Stream IDs grow and are given out once, and everything that is pending,
\* stale, acknowledged or in a goroutine's hands has been delivered.
Accounting ==
  /\ cursor =< topId
  /\ GroupExists \/ (\E p \in Process : proc[p] # "down") => cursor # NoGroup
  /\ \A e \in Execution : id[e] =< topId /\ (Open(e) => id[e] = 0)
  /\ \A d, e \in Execution : id[d] = id[e] /\ id[d] > 0 => d = e
  /\ \A e \in Execution : Pending(e) => Delivered(e)
  /\ \A e \in acked : Delivered(e)
  /\ \A e \in stale : Pending(e)
  /\ \A c \in Consumer, e \in Execution : Holds(c, e) => Delivered(e)

\* What the accounting and the ownership of messages depend on.
queueVars == <<id, topId, cursor, pel, stale, acked, overdue, cur, batch>>

\* The executor's steps and the loop of Run leave the queue alone.
LEMMA QueueUntouched ==
  ASSUME NEW c \in Consumer,
         Loop(c) \/ ReadNothing(c) \/ Load(c) \/ MarkRunning(c) \/ BeginStep(c)
           \/ RunStep(c) \/ SkipStep(c) \/ Finalize(c)
  PROVE  UNCHANGED <<queueVars, api, proc>>
BY DEF queueVars, Loop, ReadNothing, Load, Goes, MarkRunning, BeginStep, RunStep, SkipStep,
       Finalize, streamVars, apiVars

\* A step that keeps the queue and puts no handler back keeps the accounting.
LEMMA AccountingStable ==
  ASSUME Accounting, NoEntryVanishes, UNCHANGED queueVars,
         \A e \in Execution : Open(e)' => Open(e),
         \A p \in Process : proc'[p] # "down" => proc[p] # "down"
  PROVE  Accounting' /\ NoEntryVanishes'
BY DEF Accounting, NoEntryVanishes, queueVars, Pending, Delivered, Holds

LEMMA InitAccounting == Init => Accounting /\ NoEntryVanishes
  BY NoneAssumption DEF Init, Accounting, NoEntryVanishes, Pending, Delivered, Holds,
     NoGroup

LEMMA NextAccounting ==
  TypeOK /\ Hands /\ Accounting /\ NoEntryVanishes /\ [Next]_vars
    => Accounting' /\ NoEntryVanishes'
<1> SUFFICES ASSUME TypeOK, Hands, Accounting, NoEntryVanishes, [Next]_vars
             PROVE  Accounting' /\ NoEntryVanishes'
  OBVIOUS
<1> USE NoneAssumption, HostAssumption
<1>1. ASSUME NEW e \in Execution, InsertExecution(e) \/ DropRequest(e)
                                 \/ AbortRead(e) \/ AbortWrite(e)
      PROVE  Accounting' /\ NoEntryVanishes'
  BY <1>1, AccountingStable
  DEF TypeOK, InsertExecution, DropRequest, AbortRead, AbortWrite, queueVars,
      streamVars, workerVars, apiVars
<1>2. ASSUME NEW e \in Execution, Dispatch(e)
      PROVE  Accounting' /\ NoEntryVanishes'
  <2>1. id[e] = 0
    BY <1>2 DEF Dispatch, Accounting
  <2>2. Accounting'
    BY <1>2, <2>1 DEF Dispatch, Answer, TypeOK, Accounting, Pending, Delivered, Holds,
       workerVars, NoGroup
  <2>3. NoEntryVanishes'
    BY <1>2, <2>1 DEF Dispatch, TypeOK, Accounting, NoEntryVanishes, Pending,
       Delivered, NoGroup
  <2>4. QED
    BY <2>2, <2>3
<1>3. ASSUME NEW e \in Execution, GrowStale(e)
      PROVE  Accounting' /\ NoEntryVanishes'
  BY <1>3 DEF GrowStale, TypeOK, Accounting, NoEntryVanishes, Pending, Delivered,
     Holds, apiVars, workerVars
<1>4. ASSUME NEW p \in Process, Start(p)
      PROVE  Accounting' /\ NoEntryVanishes'
  BY <1>4 DEF Start, EnsuredCursor, TypeOK, Accounting, NoEntryVanishes, Pending, Delivered, Holds,
     apiVars, NoGroup
<1>5. ASSUME NEW p \in Process, Signal(p)
      PROVE  Accounting' /\ NoEntryVanishes'
  BY <1>5, AccountingStable DEF Signal, TypeOK, queueVars, streamVars, apiVars
<1>6. ASSUME NEW p \in Process, Gone(p)
      PROVE  Accounting' /\ NoEntryVanishes'
  BY <1>6 DEF Gone, TypeOK, Accounting, NoEntryVanishes, Pending, Delivered, Holds,
     streamVars, apiVars
<1>7. ASSUME NEW c \in Consumer, Reclaim(c)
      PROVE  Accounting' /\ NoEntryVanishes'
  <2>1. Accounting'
    BY <1>7 DEF Reclaim, Claimable, TypeOK, Accounting, Pending, Delivered, Holds,
       apiVars
  <2>2. NoEntryVanishes'
    BY <1>7 DEF Reclaim, Claimable, TypeOK, Accounting, NoEntryVanishes, Pending,
       Delivered
  <2>3. QED
    BY <2>1, <2>2
<1>8. ASSUME NEW c \in Consumer, Read(c)
      PROVE  Accounting' /\ NoEntryVanishes'
  <2>1. PICK e \in Undelivered, o \in ReadOutcome(c) : Read(c)!2!(e, o)
    BY <1>8 DEF Read
  <2>2. e \in Execution /\ id[e] > cursor /\ \A d \in Execution : id[d] > cursor => id[e] =< id[d]
    BY <2>1 DEF Undelivered, IsOldest
  <2>3. CASE ~Applied(o)
    <3>1. UNCHANGED <<queueVars, api, proc>>
      BY <1>8, <2>1, <2>3 DEF Read, Applied, queueVars, apiVars
    <3>2. QED
      BY <3>1, AccountingStable
  <2>4. CASE Applied(o)
    <3>1. /\ UNCHANGED <<id, topId, stale, acked, api, cur, proc>>
          /\ pel' = [pel EXCEPT ![e] = c] /\ cursor' = id[e]
          /\ \A d \in Consumer : batch'[d] \subseteq batch[d] \cup {e}
      BY <1>8, <2>1, <2>4 DEF Read, TypeOK, apiVars
    <3>2. id[e] \in Nat /\ id[e] > cursor /\ id[e] > 0 /\ Delivered(e)'
      <4>1. id[e] \in Nat /\ id[e] > 0
        <5>1. cursor # NoGroup
          BY <1>8 DEF Read, Hands, Accounting, TypeOK
        <5>2. QED
          BY <2>2, <5>1 DEF TypeOK
      <4>2. QED
        BY <2>2, <3>1, <4>1 DEF Delivered
    <3>3. \A d \in Execution : Delivered(d) => Delivered(d)'
      BY <2>2, <3>1, <3>2 DEF TypeOK, Delivered, NoGroup
    <3>4. \A d \in Execution : Pending(d)' <=> Pending(d) \/ d = e
      BY <2>2, <3>1 DEF TypeOK, Pending
    <3>5. \A d \in Execution : Delivered(d)' => Delivered(d) \/ d = e
      <4> SUFFICES ASSUME NEW d \in Execution, Delivered(d)'
                   PROVE  Delivered(d) \/ d = e
        OBVIOUS
      <4>1. id[d] \in Nat /\ cursor \in Int /\ 0 < id[d] /\ id[d] =< id[e]
        BY <2>2, <3>1, <3>2 DEF TypeOK, Delivered, NoGroup
      <4>2. CASE id[d] > cursor
        <5>1. id[d] = id[e]
          BY <2>2, <3>2, <4>1, <4>2
        <5>2. QED
          BY <2>2, <4>1, <5>1 DEF Accounting
      <4>3. CASE ~(id[d] > cursor)
        BY <4>1, <4>3 DEF Delivered
      <4>4. QED
        BY <4>2, <4>3
    <3>6. e \notin acked
      <4>1. ~Delivered(e)
        BY <2>2, <3>2 DEF Delivered, TypeOK, NoGroup
      <4>2. QED
        BY <4>1 DEF Accounting
    <3>7. \A d \in Consumer, x \in Execution : Holds(d, x)' => Holds(d, x) \/ x = e
      BY <3>1 DEF Holds
    <3>8. Accounting'
      BY <2>2, <3>1, <3>2, <3>3, <3>4, <3>7 DEF TypeOK, Accounting, NoGroup
    <3>9. NoEntryVanishes'
      BY <3>1, <3>4, <3>5, <3>6 DEF NoEntryVanishes
    <3>10. QED
      BY <3>8, <3>9
  <2>5. QED
    BY <2>3, <2>4
<1>9. ASSUME NEW c \in Consumer, TakeMessage(c)
      PROVE  Accounting' /\ NoEntryVanishes'
  BY <1>9 DEF TakeMessage, TypeOK, Accounting, NoEntryVanishes, Pending, Delivered,
     Holds, streamVars, apiVars
<1>10. ASSUME NEW c \in Consumer, Ack(c)
       PROVE  Accounting' /\ NoEntryVanishes'
  <2>1. cur[c] \in Execution /\ Holds(c, cur[c])
    BY <1>10 DEF Ack, Hands, Holds
  <2>2. /\ UNCHANGED <<id, topId, cursor, api, batch, proc>>
        /\ \A d \in Consumer : cur'[d] \in {cur[d], NoExecution}
        /\ \/ UNCHANGED <<pel, stale, acked>>
           \/ /\ pel' = [pel EXCEPT ![cur[c]] = NoConsumer]
              /\ stale' = stale \ {cur[c]}
              /\ acked' = acked \cup {cur[c]}
    BY <1>10 DEF Ack, TypeOK, apiVars
  <2>3. \A e \in Execution : /\ Pending(e)' => Pending(e)
                             /\ Pending(e) /\ ~Pending(e)' => e \in acked'
    BY <2>1, <2>2 DEF TypeOK, Pending
  <2>4. \A e \in Execution : Delivered(e)' = Delivered(e)
    BY <2>2 DEF Delivered
  <2>5. Accounting'
    <3>1. \A e \in stale' : Pending(e)'
      BY <2>1, <2>2 DEF TypeOK, Accounting, Pending
    <3>2. \A d \in Consumer, e \in Execution : Holds(d, e)' => Holds(d, e)
      BY <2>2 DEF Holds
    <3>3. \A e \in acked' : Delivered(e)'
      BY <2>1, <2>2, <2>4 DEF Accounting, TypeOK
    <3>4. QED
      BY <2>2, <2>3, <2>4, <3>1, <3>2, <3>3 DEF Accounting
  <2>6. NoEntryVanishes'
    BY <2>1, <2>2, <2>4 DEF TypeOK, NoEntryVanishes, Pending
  <2>7. QED
    BY <2>5, <2>6
<1>11. ASSUME NEW c \in Consumer, ConsumerStep(c)
       PROVE  Accounting' /\ NoEntryVanishes'
  <2>1. CASE Loop(c) \/ ReadNothing(c) \/ Load(c) \/ MarkRunning(c)
               \/ BeginStep(c) \/ RunStep(c) \/ SkipStep(c) \/ Finalize(c)
    BY <2>1, QueueUntouched, AccountingStable
  <2>2. QED
    BY <1>7, <1>8, <1>9, <1>10, <1>11, <2>1 DEF ConsumerStep
<1>12. CASE UNCHANGED vars
  BY <1>12, AccountingStable
  DEF vars, queueVars, streamVars, workerVars, apiVars
<1>13. QED
  BY <1>1, <1>2, <1>3, <1>4, <1>5, <1>6, <1>11, <1>12
  DEF Next, ApiStep, ProcessStep, Exit, Crash

LEMMA AccountingCorrect == Spec => [](Accounting /\ NoEntryVanishes)
  BY TypeCorrect, InitAccounting, NextAccounting, PTL DEF Spec

\* The group never loses an entry: what XREADGROUP has delivered is pending
\* until it is acknowledged, through crashes, lost replies and double claims.
THEOREM DeliveredIsKept == Spec => []NoEntryVanishes
  BY AccountingCorrect, PTL

\* Execute dispatches what it has inserted, and answers 201 for what it has dispatched.
Answered ==
  \A e \in Execution : /\ api[e] \in {"inserted", "created"} => row[e] # "none"
                       /\ api[e] = "created" => id[e] > 0

LEMMA AnsweredStays ==
  ASSUME Answered, UNCHANGED <<api, id>>,
         \A e \in Execution : row[e] # "none" => row'[e] # "none"
  PROVE  Answered'
BY DEF Answered

LEMMA NextAnswered ==
  ASSUME TypeOK, Hands, Answered, [Next]_vars
  PROVE  Answered'
<1>1. ASSUME NEW e \in Execution, InsertExecution(e) PROVE Answered'
  <2>1. PICK o \in RequestOutcome :
          /\ row' = IF Applied(o) THEN [row EXCEPT ![e] = "queued"] ELSE row
          /\ api' = [api EXCEPT ![e] = IF o = "ok" THEN "inserted" ELSE "ended"]
    BY <1>1 DEF InsertExecution, Create
  <2>2. id' = id
    BY <1>1 DEF InsertExecution, streamVars
  <2>3. QED
    BY <2>1, <2>2 DEF Answered, TypeOK, Applied
<1>2. ASSUME NEW e \in Execution, Dispatch(e) PROVE Answered'
  <2>1. PICK o \in RequestOutcome :
          /\ id' = IF Applied(o) THEN [id EXCEPT ![e] = topId + 1] ELSE id
          /\ api' = [api EXCEPT ![e] = IF o = "ok" THEN "created" ELSE "ended"]
    BY <1>2 DEF Dispatch, Answer
  <2>2. api[e] = "inserted" /\ row' = row
    BY <1>2 DEF Dispatch, dbVars
  <2>3. topId + 1 > 0
    BY DEF TypeOK
  <2>4. ASSUME NEW d \in Execution
        PROVE  /\ api'[d] \in {"inserted", "created"} => row'[d] # "none"
               /\ api'[d] = "created" => id'[d] > 0
    <3>1. CASE d = e
      BY <2>1, <2>2, <2>3, <3>1 DEF Answered, TypeOK, Applied
    <3>2. CASE d # e
      BY <2>1, <2>2, <3>2 DEF Answered, TypeOK
    <3>3. QED
      BY <3>1, <3>2
  <2>5. QED
    BY <2>4 DEF Answered
<1>3. ASSUME NEW e \in Execution, DropRequest(e) PROVE Answered'
  BY <1>3 DEF DropRequest, dbVars, streamVars, Answered, TypeOK
<1>4. ASSUME NEW e \in Execution, AbortRead(e) \/ AbortWrite(e) \/ GrowStale(e)
      PROVE  Answered'
  <2>1. /\ UNCHANGED <<api, id>>
        /\ \A d \in Execution : row[d] # "none" => row'[d] # "none"
    BY <1>4 DEF AbortRead, AbortWrite, GrowStale, UpdateStatus, dbVars, streamVars, apiVars,
       TypeOK
  <2>2. QED
    BY <2>1, AnsweredStays
<1>5. ASSUME NEW p \in Process, ProcessStep(p) PROVE Answered'
  BY <1>5, AnsweredStays
  DEF ProcessStep, Start, Signal, Exit, Crash, Gone, dbVars, streamVars, apiVars
<1>6. ASSUME NEW c \in Consumer, ConsumerStep(c) PROVE Answered'
  <2>1. UNCHANGED <<api, id>>
    BY <1>6 DEF ConsumerStep, Reclaim, Loop, Goes, Read, ReadNothing, TakeMessage, Ack, Load,
       MarkRunning, BeginStep, RunStep, SkipStep, Finalize, streamVars, apiVars
  <2>2. ASSUME NEW d \in Execution, row[d] # "none" PROVE row'[d] # "none"
    <3>1. CASE MarkRunning(c) \/ Finalize(c)
      BY <2>2, <3>1 DEF MarkRunning, Finalize, UpdateExecution, TypeOK
    <3>2. CASE row' = row
      BY <2>2, <3>2
    <3>3. QED
      BY <1>6, <3>1, <3>2 DEF ConsumerStep, Reclaim, Loop, Read, ReadNothing, TakeMessage,
         Ack, Load, BeginStep, RunStep, SkipStep, dbVars
  <2>3. QED
    BY <2>1, <2>2, AnsweredStays
<1>7. CASE UNCHANGED vars
  BY <1>7, AnsweredStays DEF vars, dbVars, streamVars, apiVars
<1>8. QED
  BY <1>1, <1>2, <1>3, <1>4, <1>5, <1>6, <1>7 DEF Next, ApiStep

-------------------------------------------------------------------------------
(* Who has a message.  An entry that became claimable in a goroutine's     *)
(* hands is overdue for good; of all others one goroutine at most has the  *)
(* message, whatever crashes, signals, aborts and failures do.             *)

\* What is in a goroutine's hands and not overdue is pending for that goroutine,
\* and not old enough for another one to claim it.
Ownership ==
  \A c \in Consumer, e \in Execution \ overdue :
    Holds(c, e) => pel[e] = c /\ e \notin stale

Typed == TypeOK /\ Hands /\ Accounting /\ NoEntryVanishes

LEMMA TypedCorrect == Spec => []Typed
  BY TypeCorrect, AccountingCorrect, PTL DEF Typed

\* A step that gives no goroutine anything new, and neither moves nor ages
\* what is pending, keeps the ownership.
LEMMA OwnershipStable ==
  ASSUME Ownership,
         \A c \in Consumer, e \in Execution : Holds(c, e)' => Holds(c, e),
         UNCHANGED <<pel, stale, overdue>>
  PROVE  Ownership'
BY DEF Ownership

LEMMA InitOwnership == Init => Ownership
  BY NoneAssumption DEF Init, Ownership, Holds

LEMMA NextOwnership ==
  ASSUME Typed, Ownership, [Next]_vars
  PROVE  Ownership'
<1> USE NoneAssumption, HostAssumption DEF Typed
<1>1. ASSUME NEW e \in Execution, ApiStep(e) PROVE Ownership'
  <2>1. UNCHANGED <<pel, stale, overdue, cur, batch>>
    BY <1>1 DEF ApiStep, InsertExecution, Dispatch, DropRequest, AbortRead, AbortWrite,
       streamVars, workerVars
  <2>2. QED
    BY <2>1 DEF Ownership, Holds
<1>2. ASSUME NEW e \in Execution, GrowStale(e) PROVE Ownership'
  <2>1. /\ UNCHANGED <<pel, cur, batch>> /\ stale' = stale \cup {e}
        /\ overdue' = IF \E c \in Consumer : Holds(c, e) THEN overdue \cup {e} ELSE overdue
    BY <1>2 DEF GrowStale, workerVars
  <2>2. \A c \in Consumer, x \in Execution : Holds(c, x)' <=> Holds(c, x)
    BY <2>1 DEF Holds
  <2>3. QED
    BY <2>1, <2>2 DEF Ownership
<1>3. ASSUME NEW p \in Process, ProcessStep(p) PROVE Ownership'
  <2>1. CASE Start(p) \/ Signal(p)
    BY <2>1 DEF Start, EnsuredCursor, Signal, Ownership, Holds, streamVars
  <2>2. CASE Gone(p)
    <3>1. \A c \in Consumer, e \in Execution : Holds(c, e)' => Holds(c, e)
      BY <2>2 DEF Gone, Holds
    <3>2. QED
      BY <2>2, <3>1, OwnershipStable DEF Gone, streamVars
  <2>3. QED
    BY <1>3, <2>1, <2>2 DEF ProcessStep, Exit, Crash
<1>4. ASSUME NEW c \in Consumer, Reclaim(c) PROVE Ownership'
  <2>1. PICK o \in WorkerOutcome(c) :
          /\ pel' = [e \in Execution |->
                      IF Applied(o) /\ e \in stale THEN c ELSE pel[e]]
          /\ stale' = IF Applied(o) THEN stale \ stale ELSE stale
          /\ batch' = IF o = "ok" THEN [batch EXCEPT ![c] = stale] ELSE batch
    BY <1>4 DEF Reclaim, Claimable
  <2>2. batch[c] = {} /\ cur[c] = NoExecution
    BY <1>4 DEF Reclaim, Hands
  <2>3. cur' = cur /\ overdue' = overdue
    BY <1>4 DEF Reclaim
  <2>4. \A d \in Consumer, e \in Execution : Holds(d, e)' =>
           Holds(d, e) \/ (d = c /\ o = "ok" /\ e \in stale)
    BY <2>1, <2>3 DEF Holds, TypeOK
  <2>5. QED
    BY <2>1, <2>3, <2>4 DEF Ownership, Applied
<1>5. ASSUME NEW c \in Consumer, Read(c) PROVE Ownership'
  <2>1. PICK e \in Undelivered, o \in ReadOutcome(c) : Read(c)!2!(e, o)
    BY <1>5 DEF Read
  <2>2. e \in Execution /\ ~Delivered(e)
    BY <2>1 DEF Undelivered, Delivered, TypeOK, NoGroup
  <2>3. e \notin stale /\ \A d \in Consumer : ~Holds(d, e)
    BY <2>2 DEF Accounting
  <2>4. stale' = stale /\ cur' = cur /\ overdue' = overdue
    BY <1>5 DEF Read
  <2>5. \A d \in Consumer, x \in Execution : Holds(d, x)' =>
           Holds(d, x) \/ (d = c /\ o = "ok" /\ x = e)
    BY <2>1, <2>4 DEF Holds, TypeOK
  <2>6. \A x \in Execution : x # e => pel'[x] = pel[x]
    BY <2>1 DEF TypeOK
  <2>7. o = "ok" => pel'[e] = c
    BY <2>1, <2>2 DEF TypeOK, Applied
  <2>8. QED
    BY <2>3, <2>4, <2>5, <2>6, <2>7 DEF Ownership
<1>6. ASSUME NEW c \in Consumer, TakeMessage(c) PROVE Ownership'
  <2>1. \A d \in Consumer, e \in Execution : Holds(d, e)' => Holds(d, e)
    BY <1>6 DEF TakeMessage, Holds, TypeOK
  <2>2. QED
    BY <1>6, <2>1, OwnershipStable DEF TakeMessage, streamVars
<1>7. ASSUME NEW c \in Consumer, Ack(c) PROVE Ownership'
  <2>1. cur[c] \in Execution /\ cur[c] \notin batch[c] /\ Holds(c, cur[c])
    BY <1>7 DEF Ack, Hands, Holds
  <2>2. \A d \in Consumer, e \in Execution :
          Holds(d, e)' => Holds(d, e) /\ (e # cur[c] \/ e \in overdue)
    <3>1. cur[c] \notin overdue => \A d \in Consumer : Holds(d, cur[c]) => d = c
      BY <2>1 DEF Ownership
    <3>2. batch' = batch /\ cur' = [cur EXCEPT ![c] = NoExecution]
      BY <1>7 DEF Ack
    <3>3. QED
      BY <2>1, <3>1, <3>2 DEF Holds, TypeOK
  <2>3. \A e \in Execution : e # cur[c] => pel'[e] = pel[e]
    BY <1>7 DEF Ack, TypeOK
  <2>4. stale' \subseteq stale /\ overdue' = overdue
    BY <1>7 DEF Ack
  <2>5. QED
    BY <2>2, <2>3, <2>4 DEF Ownership
<1>8. ASSUME NEW c \in Consumer, ConsumerStep(c) PROVE Ownership'
  <2>1. CASE Loop(c) \/ ReadNothing(c) \/ Load(c) \/ MarkRunning(c)
               \/ BeginStep(c) \/ RunStep(c) \/ SkipStep(c) \/ Finalize(c)
    BY <2>1, QueueUntouched, OwnershipStable DEF queueVars, Holds
  <2>2. QED
    BY <1>4, <1>5, <1>6, <1>7, <1>8, <2>1 DEF ConsumerStep
<1>9. CASE UNCHANGED vars
  BY <1>9 DEF vars, streamVars, workerVars, Ownership, Holds
<1>10. QED
  BY <1>1, <1>2, <1>3, <1>8, <1>9 DEF Next

LEMMA OwnershipCorrect == Spec => []Ownership
<1>1. Typed /\ Ownership /\ [Next]_vars => Ownership'
  BY NextOwnership
<1>2. QED
  BY <1>1, TypedCorrect, InitOwnership, PTL DEF Spec

\* Two goroutines never have the same message but when it became claimable in
\* the hands of one, whatever crashes, restarts, shutdowns and lost replies do to
\* the pending entries list.
THEOREM OneExecutor == Spec => []AtMostOneExecutor
<1>1. Ownership => AtMostOneExecutor
  BY DEF Ownership, AtMostOneExecutor
<1>2. QED
  BY <1>1, OwnershipCorrect, PTL

-------------------------------------------------------------------------------
(* What is acknowledged is left alone.                                     *)

\* The request of an acknowledged message has ended, and nobody has the message
\* unless it is overdue.
LEMMA AckedIsFree ==
  ASSUME Typed, Ownership, NEW e \in acked
  PROVE  /\ e \in Execution /\ ~Open(e)
         /\ e \notin overdue => \A c \in Consumer : ~Holds(c, e)
<1>1. e \in Execution /\ ~Pending(e) /\ Delivered(e)
  BY DEF Typed, TypeOK, Accounting, NoEntryVanishes
<1>2. ~Open(e)
  BY <1>1 DEF Typed, Accounting, Delivered, TypeOK, NoGroup
<1>3. QED
  BY <1>1, <1>2, NoneAssumption DEF Ownership, Pending

\* No worker changes the row or the steps of an acknowledged execution that was
\* never overdue; an abort that had read the row may still set it to aborted.
THEOREM AckedUntouched == Spec => AckedIsLeftAlone
<1>1. ASSUME Typed, Ownership, [Next]_vars, NEW e \in acked \ overdue
      PROVE  steps'[e] = steps[e] /\ (row'[e] # row[e] => row'[e] = "aborted")
  <2>1. /\ e \in Execution /\ ~Open(e)
        /\ \A c \in Consumer : cur[c] # e
    BY <1>1, AckedIsFree DEF Holds
  <2>2. ASSUME NEW x \in Execution, ApiStep(x)
        PROVE  steps' = steps /\ (row'[e] # row[e] => row'[e] = "aborted")
    BY <1>1, <2>1, <2>2
    DEF ApiStep, InsertExecution, Dispatch, DropRequest, AbortRead, AbortWrite, Create, UpdateStatus, dbVars,
        Typed, TypeOK
  <2>3. ASSUME NEW x \in Execution, GrowStale(x) PROVE UNCHANGED dbVars
    BY <2>3 DEF GrowStale
  <2>4. ASSUME NEW p \in Process, ProcessStep(p) PROVE UNCHANGED dbVars
    BY <2>4 DEF ProcessStep, Start, Signal, Exit, Crash, Gone
  <2>5. ASSUME NEW c \in Consumer, ConsumerStep(c)
        PROVE  steps'[e] = steps[e] /\ row'[e] = row[e]
    <3>1. CASE MarkRunning(c) \/ Finalize(c)
      BY <1>1, <2>1, <3>1 DEF MarkRunning, Finalize, UpdateExecution, Typed, TypeOK
    <3>2. CASE BeginStep(c) \/ RunStep(c) \/ SkipStep(c)
      BY <1>1, <2>1, <3>2 DEF BeginStep, RunStep, SkipStep, UpsertStep, FinalizeStep, Typed, TypeOK
    <3>3. CASE Reclaim(c) \/ Loop(c) \/ Read(c) \/ ReadNothing(c)
                 \/ TakeMessage(c) \/ Ack(c) \/ Load(c)
      BY <3>3 DEF Reclaim, Loop, Read, ReadNothing, TakeMessage, Ack, Load, dbVars
    <3>4. QED
      BY <2>5, <3>1, <3>2, <3>3 DEF ConsumerStep
  <2>6. CASE UNCHANGED vars
    BY <2>6 DEF vars, dbVars
  <2>7. QED
    BY <1>1, <2>2, <2>3, <2>4, <2>5, <2>6 DEF Next, dbVars
<1>2. Typed /\ Ownership /\ [Next]_vars => LeavesAckedAlone
  BY <1>1 DEF LeavesAckedAlone
<1>3. QED
  BY <1>2, TypedCorrect, OwnershipCorrect, PTL DEF Spec, AckedIsLeftAlone

-------------------------------------------------------------------------------
(* A success is backed by the rows of the steps.                           *)

Good(e, s) == steps[e][s] \in {"running", "success"}

\* What an attempt in progress has established: the row was taken out of
\* success when it began, and unless the verdict is failed each step before
\* the current one has a row that was begun and not failed.
AttemptOf(c) ==
  /\ pc[c] \in {"begin", "run", "skip", "final"} => row[cur[c]] # "success"
  /\ pc[c] \in {"begin", "run", "final"} /\ verdict[c] = "success" =>
       \A s \in Step : s < step[c] => Good(cur[c], s)
  /\ pc[c] = "run" => Good(cur[c], step[c])
  /\ pc[c] = "skip" => verdict[c] = "failed"
  /\ pc[c] = "final" /\ verdict[c] = "success" => step[c] = NumSteps + 1

\* Of an execution that is overdue two attempts may be under way.
Attempt == \A c \in Consumer : cur[c] \notin overdue => AttemptOf(c)

LEMMA InitAttempt == Init => Attempt /\ SuccessIsEarned
  BY DEF Init, Attempt, AttemptOf, SuccessIsEarned

\* A step of goroutine c on its execution leaves the attempts of the other
\* goroutines alone, for they work on other executions.
LEMMA OthersKeep ==
  ASSUME Typed, Ownership, Attempt, SuccessIsEarned,
         NEW c \in Consumer, cur[c] \in Execution, cur'[c] = cur[c], overdue' = overdue,
         \A e \in Execution :
           e # cur[c] => row'[e] = row[e] /\ steps'[e] = steps[e],
         \A d \in Consumer : d # c => /\ pc'[d] = pc[d] /\ cur'[d] = cur[d]
                                      /\ step'[d] = step[d]
                                      /\ verdict'[d] = verdict[d],
         cur[c] \notin overdue =>
           /\ AttemptOf(c)'
           /\ row'[cur[c]] = "success" =>
                \A s \in Step : steps'[cur[c]][s] \in {"running", "success"}
  PROVE  Attempt' /\ SuccessIsEarned'
<1>1. ASSUME NEW d \in Consumer, d # c, cur[d] \notin overdue PROVE AttemptOf(d)'
  <2>1. CASE pc[d] \notin {"begin", "run", "skip", "final"}
    BY <1>1, <2>1 DEF AttemptOf
  <2>2. CASE pc[d] \in {"begin", "run", "skip", "final"}
    <3>1. cur[d] \in Execution
      BY <2>2 DEF Typed, Hands
    <3>2. cur[d] # cur[c]
      BY <1>1, <3>1 DEF Ownership, Holds
    <3>3. QED
      BY <1>1, <3>1, <3>2 DEF Attempt, AttemptOf, Good
  <2>3. QED
    BY <2>1, <2>2
<1>2. SuccessIsEarned'
  BY DEF SuccessIsEarned, Good
<1>3. QED
  BY <1>1, <1>2 DEF Attempt

LEMMA NextAttempt ==
  ASSUME Typed, Ownership, Attempt, SuccessIsEarned, [Next]_vars
  PROVE  Attempt' /\ SuccessIsEarned'
<1> USE StepsAssumption, NoneAssumption DEF Typed
<1>1. ASSUME NEW e \in Execution, ApiStep(e) PROVE Attempt' /\ SuccessIsEarned'
  <2>1. /\ UNCHANGED <<steps, pc, cur, step, verdict, overdue>>
        /\ \A x \in Execution : row'[x] = "success" => row[x] = "success"
    BY <1>1 DEF ApiStep, InsertExecution, Dispatch, DropRequest, AbortRead, AbortWrite,
       Create, UpdateStatus, dbVars, streamVars, workerVars, TypeOK
  <2>2. \A c \in Consumer : pc[c] \in {"begin", "run", "skip", "final"} =>
          cur[c] \in Execution
    BY DEF Hands
  <2>3. QED
    BY <2>1, <2>2 DEF Attempt, AttemptOf, SuccessIsEarned, Good
<1>2. ASSUME NEW e \in Execution, GrowStale(e) PROVE Attempt' /\ SuccessIsEarned'
  <2>1. UNCHANGED <<row, steps, workerVars>> /\ overdue \subseteq overdue'
    BY <1>2 DEF GrowStale, dbVars
  <2>2. QED
    BY <2>1 DEF Attempt, AttemptOf, SuccessIsEarned, Good, workerVars
<1>3. ASSUME NEW p \in Process, ProcessStep(p) PROVE Attempt' /\ SuccessIsEarned'
  <2>1. CASE Start(p) \/ Signal(p)
    <3>1. UNCHANGED <<row, steps, cur, step, verdict, overdue>>
      BY <2>1 DEF Start, Signal, dbVars, streamVars
    <3>2. \A c \in Consumer : pc'[c] \in {pc[c], "reclaim"}
      BY <2>1 DEF Start, Signal, TypeOK
    <3>3. QED
      BY <3>1, <3>2 DEF Attempt, AttemptOf, SuccessIsEarned, Good
  <2>2. CASE Gone(p)
    <3>1. UNCHANGED <<row, steps, overdue>>
      BY <2>2 DEF Gone, dbVars, streamVars
    <3>2. \A c \in Consumer :
            \/ pc'[c] = "down"
            \/ /\ pc'[c] = pc[c] /\ cur'[c] = cur[c] /\ step'[c] = step[c]
               /\ verdict'[c] = verdict[c]
      BY <2>2 DEF Gone
    <3>3. QED
      BY <3>1, <3>2 DEF Attempt, AttemptOf, SuccessIsEarned, Good
  <2>3. QED
    BY <1>3, <2>1, <2>2 DEF ProcessStep, Exit, Crash
<1>4. ASSUME NEW c \in Consumer,
             Reclaim(c) \/ Loop(c) \/ Read(c) \/ ReadNothing(c) \/ TakeMessage(c)
               \/ Ack(c) \/ Load(c)
      PROVE  Attempt' /\ SuccessIsEarned'
  <2>1. /\ UNCHANGED <<row, steps, step, verdict, overdue>>
        /\ \A d \in Consumer : d # c => pc'[d] = pc[d] /\ cur'[d] = cur[d]
        /\ pc'[c] \notin {"begin", "run", "skip", "final"}
    BY <1>4 DEF Reclaim, Loop, Goes, Read, ReadNothing, TakeMessage, Ack, Load, dbVars,
       streamVars, TypeOK
  <2>2. QED
    BY <2>1 DEF Attempt, AttemptOf, SuccessIsEarned, Good
<1>5. ASSUME NEW c \in Consumer, MarkRunning(c) PROVE Attempt' /\ SuccessIsEarned'
  <2>1. cur[c] \in Execution /\ cur' = cur /\ steps' = steps /\ overdue' = overdue
    BY <1>5 DEF MarkRunning, Hands, streamVars
  <2>2. AttemptOf(c)' /\ (row'[cur[c]] = "success" => row[cur[c]] = "success")
    BY <1>5, <2>1 DEF MarkRunning, UpdateExecution, AttemptOf, Position, Applied, Step, TypeOK
  <2>3. QED
    BY <1>5, <2>1, <2>2, OthersKeep
    DEF MarkRunning, UpdateExecution, SuccessIsEarned, Good, TypeOK
<1>6. ASSUME NEW c \in Consumer, BeginStep(c) PROVE Attempt' /\ SuccessIsEarned'
  <2>1. /\ cur[c] \in Execution /\ overdue' = overdue
        /\ cur' = cur /\ row' = row /\ step' = step
    BY <1>6 DEF BeginStep, Hands, streamVars
  <2>2. cur[c] \notin overdue => row[cur[c]] # "success"
    BY <1>6 DEF BeginStep, Attempt, AttemptOf
  <2>3. \A e \in Execution : e # cur[c] => steps'[e] = steps[e]
    BY <1>6, <2>1 DEF BeginStep, UpsertStep, FinalizeStep, TypeOK
  <2>4. \A s \in Step : s # step[c] => steps'[cur[c]][s] = steps[cur[c]][s]
    BY <1>6, <2>1 DEF BeginStep, UpsertStep, FinalizeStep, TypeOK
  <2>5. /\ pc'[c] \in {"run", "final"}
        /\ pc'[c] = "run" => /\ steps'[cur[c]][step[c]] = "running"
                             /\ verdict' = verdict
        /\ pc'[c] = "final" => verdict'[c] = "failed"
    <3>1. step[c] \in Step
      BY <1>6 DEF BeginStep, Hands, Step, TypeOK
    <3>2. QED
      BY <1>6, <2>1, <3>1 DEF BeginStep, UpsertStep, FinalizeStep, Applied, TypeOK
  <2>6. cur[c] \notin overdue => AttemptOf(c)'
    BY <1>6, <2>1, <2>2, <2>4, <2>5 DEF BeginStep, Attempt, AttemptOf, Good, Step
  <2>7. QED
    BY <1>6, <2>1, <2>2, <2>3, <2>6, OthersKeep DEF BeginStep, TypeOK
<1>7. ASSUME NEW c \in Consumer, RunStep(c) PROVE Attempt' /\ SuccessIsEarned'
  <2>1. cur[c] \in Execution /\ cur' = cur /\ row' = row /\ overdue' = overdue
    BY <1>7 DEF RunStep, Hands, streamVars
  <2>2. cur[c] \notin overdue => row[cur[c]] # "success"
    BY <1>7 DEF RunStep, Attempt, AttemptOf
  <2>3. \A e \in Execution : e # cur[c] => steps'[e] = steps[e]
    BY <1>7, <2>1 DEF RunStep, UpsertStep, FinalizeStep, TypeOK
  <2>4. \A s \in Step : s # step[c] => steps'[cur[c]][s] = steps[cur[c]][s]
    BY <1>7, <2>1 DEF RunStep, UpsertStep, FinalizeStep, TypeOK
  <2>5. ASSUME cur[c] \notin overdue, verdict'[c] = "success"
        PROVE  /\ verdict[c] = "success"
               /\ steps'[cur[c]][step[c]] \in {"running", "success"}
               /\ pc'[c] = Position(step[c] + 1, "begin")
    <3>1. step[c] \in Step /\ Good(cur[c], step[c])
      BY <1>7, <2>5 DEF RunStep, Hands, Step, TypeOK, Attempt, AttemptOf
    <3>2. QED
      BY <1>7, <2>1, <2>5, <3>1 DEF RunStep, UpsertStep, FinalizeStep, Good, TypeOK
  <2>6. /\ step'[c] = step[c] + 1 /\ step[c] \in 1..NumSteps
        /\ pc'[c] \in {"begin", "skip", "final"}
        /\ pc'[c] = "skip" => verdict'[c] = "failed"
        /\ pc'[c] = "final" => step'[c] = NumSteps + 1
    <3>1. step[c] \in 1..NumSteps
      BY <1>7 DEF RunStep, Hands, TypeOK
    <3>2. PICK result \in {"success", "failed"} :
            /\ verdict' = IF result = "failed"
                          THEN [verdict EXCEPT ![c] = "failed"] ELSE verdict
            /\ pc' = [pc EXCEPT ![c] =
                        Position(step[c] + 1,
                                 IF result = "failed" /\ Stops(cur[c])
                                 THEN "skip" ELSE "begin")]
      BY <1>7 DEF RunStep
    <3>3. step'[c] = step[c] + 1
      BY <1>7 DEF RunStep, TypeOK
    <3>4. QED
      BY <3>1, <3>2, <3>3 DEF Position, TypeOK
  <2>7. cur[c] \notin overdue => AttemptOf(c)'
    BY <1>7, <2>1, <2>2, <2>4, <2>5, <2>6
    DEF RunStep, Attempt, AttemptOf, Good, Step
  <2>8. QED
    BY <1>7, <2>1, <2>2, <2>3, <2>7, OthersKeep DEF RunStep, TypeOK
<1>8. ASSUME NEW c \in Consumer, SkipStep(c) PROVE Attempt' /\ SuccessIsEarned'
  <2>1. /\ cur[c] \in Execution /\ overdue' = overdue
        /\ cur' = cur /\ row' = row /\ verdict' = verdict
    BY <1>8 DEF SkipStep, Hands, streamVars
  <2>2. cur[c] \notin overdue => row[cur[c]] # "success" /\ verdict[c] = "failed"
    BY <1>8 DEF SkipStep, Attempt, AttemptOf
  <2>3. \A e \in Execution : e # cur[c] => steps'[e] = steps[e]
    BY <1>8, <2>1 DEF SkipStep, UpsertStep, FinalizeStep, TypeOK
  <2>4. pc'[c] \in {"skip", "final"}
    BY <1>8 DEF SkipStep, Position, TypeOK
  <2>5. cur[c] \notin overdue => AttemptOf(c)'
    BY <2>1, <2>2, <2>4 DEF AttemptOf
  <2>6. QED
    BY <1>8, <2>1, <2>2, <2>3, <2>5, OthersKeep DEF SkipStep, TypeOK
<1>9. ASSUME NEW c \in Consumer, Finalize(c) PROVE Attempt' /\ SuccessIsEarned'
  <2>1. /\ cur[c] \in Execution /\ overdue' = overdue
        /\ cur' = cur /\ steps' = steps /\ pc'[c] = "ack"
    BY <1>9 DEF Finalize, Hands, TypeOK, streamVars
  <2>2. AttemptOf(c)'
    BY <2>1 DEF AttemptOf
  <2>3. cur[c] \notin overdue /\ row'[cur[c]] = "success" => verdict[c] = "success"
    BY <1>9, <2>1 DEF Finalize, UpdateExecution, Attempt, AttemptOf, TypeOK
  <2>4. cur[c] \notin overdue /\ verdict[c] = "success" => \A s \in Step : Good(cur[c], s)
    BY <1>9 DEF Finalize, Attempt, AttemptOf, Step
  <2>5. QED
    BY <1>9, <2>1, <2>2, <2>3, <2>4, OthersKeep DEF Finalize, UpdateExecution, Good, TypeOK
<1>10. CASE UNCHANGED vars
  BY <1>10 DEF vars, dbVars, streamVars, workerVars, Attempt, AttemptOf, SuccessIsEarned, Good
<1>11. QED
  BY <1>1, <1>2, <1>3, <1>4, <1>5, <1>6, <1>7, <1>8, <1>9, <1>10
  DEF Next, ConsumerStep

\* An execution that is recorded as a success has, for every step of its job,
\* a row that was begun and is neither failed nor skipped, even when it took
\* several attempts and statements were lost on the way, unless two attempts may
\* have overlapped.
THEOREM SuccessEarned == Spec => []SuccessIsEarned
<1>1. Typed /\ Ownership /\ Attempt /\ SuccessIsEarned /\ [Next]_vars
        => Attempt' /\ SuccessIsEarned'
  BY NextAttempt
<1>2. Spec => [](Attempt /\ SuccessIsEarned)
  BY <1>1, InitAttempt, TypedCorrect, OwnershipCorrect, PTL DEF Spec
<1>3. QED
  BY <1>2, PTL

-------------------------------------------------------------------------------
(* How an execution ends: what is recorded by those who are never overdue  *)
(* and whose statements succeed until their process shuts down.            *)

\* The steps before k of an attempt, all of them run.
RunBefore(e, k) == \A s \in Step : s < k => steps[e][s] \in {"success", "failed"}

\* A failed step at which an execution with on_failure = "stop" has stopped; the steps
\* from k on are not looked at.
StoppedAt(e, f, k) ==
  /\ steps[e][f] = "failed"
  /\ \A s \in Step : /\ s < f => steps[e][s] = "success"
                     /\ f < s /\ s < k => steps[e][s] = "skipped"

\* What explains the failure of an attempt that has come to step k.
Explained(e, k) ==
  \E f \in Step : /\ f < k
                  /\ IF OnFailure[e] = "stop" THEN StoppedAt(e, f, k)
                                              ELSE steps[e][f] = "failed" /\ RunBefore(e, k)

\* What the steps of an attempt have recorded if none of their statements failed.
Progress(c) ==
  /\ pc[c] \in {"begin", "run"} /\ verdict[c] = "success" =>
       \A s \in Step : s < step[c] => steps[cur[c]][s] = "success"
  /\ pc[c] \in {"begin", "run"} /\ verdict[c] = "failed" => OnFailure[cur[c]] # "stop"
  /\ pc[c] = "skip" => OnFailure[cur[c]] = "stop" /\ verdict[c] = "failed"
  /\ pc[c] \in {"begin", "run", "skip", "final"} /\ verdict[c] = "failed" =>
       Explained(cur[c], step[c])
  /\ pc[c] = "final" => step[c] = NumSteps + 1

\* What an attempt has written that no other one can overlap with.
Written(c) ==
  cur[c] \notin overdue =>
    /\ pc[c] \in {"begin", "run", "skip", "final"} => row[cur[c]] \in {"running", "aborted"}
    /\ ~Cancelled(c) /\ cur[c] \notin stepErr => Progress(c)
    /\ ~Cancelled(c) /\ pc[c] = "ack" => Recorded(cur[c])

Ending ==
  /\ AckedMeansSettled /\ FailureIsExplained
  /\ \A c \in Consumer : Written(c)

\* Statements may fail meanwhile, and messages get overdue.
Histories == /\ overdue \subseteq overdue' /\ rowErr \subseteq rowErr'
             /\ stepErr \subseteq stepErr'

\* A step that leaves tables and attempts alone, or only loses goroutines and aborts,
\* or discards a message that does not parse.
LEMMA EndingStable ==
  ASSUME Typed, Ownership, Ending, UNCHANGED <<steps, acked>>, Histories,
         \A e \in Execution : row'[e] = row[e] \/ row'[e] = "aborted"
                              \/ (row'[e] = "queued" /\ Open(e)),
         \A c \in Consumer :
           pc'[c] \in {"begin", "run", "skip", "final", "ack"} =>
             \/ /\ pc'[c] = pc[c] /\ cur'[c] = cur[c] /\ step'[c] = step[c]
                /\ verdict'[c] = verdict[c] /\ (Cancelled(c) => Cancelled(c)')
             \/ pc'[c] = "ack" /\ (~Cancelled(c)' => Recorded(cur[c])')
                /\ Progress(c)'
  PROVE  Ending'
<1>1. \A e \in acked : ~Open(e) /\ e \in Execution
  BY AckedIsFree
<1>2. \A c \in Consumer, e \in Execution : Holds(c, e) => ~Open(e)
  BY DEF Typed, Accounting, Delivered, TypeOK, NoGroup
<1>3. \A e \in Execution : Recorded(e) /\ ~Open(e) => Recorded(e)'
  BY DEF Recorded, Settled, Histories, Parses
<1>4. AckedMeansSettled'
  BY <1>1, <1>3 DEF Ending, AckedMeansSettled
<1>5. FailureIsExplained'
  <2>1. \A e \in Execution : row'[e] = "failed" => row[e] = "failed"
    OBVIOUS
  <2>2. QED
    BY <2>1 DEF Ending, FailureIsExplained, Histories
<1>6. ASSUME NEW c \in Consumer PROVE Written(c)'
  <2>1. CASE pc'[c] \notin {"begin", "run", "skip", "final", "ack"}
    BY <2>1 DEF Written, Progress
  <2>2. CASE /\ pc'[c] \in {"begin", "run", "skip", "final", "ack"}
             /\ pc'[c] = pc[c] /\ cur'[c] = cur[c] /\ step'[c] = step[c]
             /\ verdict'[c] = verdict[c] /\ (Cancelled(c) => Cancelled(c)')
    <3>1. cur[c] \in Execution /\ ~Open(cur[c])
      BY <1>2, <2>2 DEF Typed, Hands, Holds
    <3>2. row'[cur[c]] = row[cur[c]] \/ row'[cur[c]] = "aborted"
      BY <3>1
    <3>3. \A e, k : Explained(e, k)' <=> Explained(e, k)
      BY DEF Explained, StoppedAt, RunBefore
    <3>4. Progress(c) => Progress(c)'
      BY <2>2, <3>3 DEF Progress
    <3>5. Recorded(cur[c]) => Recorded(cur[c])'
      BY <1>3, <2>2, <3>1 DEF Recorded
    <3>6. Written(c)
      BY DEF Ending
    <3>7. QED
      BY <2>2, <3>2, <3>4, <3>5, <3>6 DEF Written, Histories
  <2>3. CASE pc'[c] = "ack" /\ (~Cancelled(c)' => Recorded(cur[c])') /\ Progress(c)'
    BY <2>3 DEF Written
  <2>4. QED
    BY <2>1, <2>2, <2>3
<1>7. QED
  BY <1>4, <1>5, <1>6 DEF Ending

\* A statement of goroutine c on its execution.
LEMMA EndingOf ==
  ASSUME Typed, Ownership, Ending, NEW c \in Consumer, cur[c] \in Execution,
         UNCHANGED <<acked, cur, proc, overdue>>, Histories,
         \A e \in Execution : e # cur[c] => row'[e] = row[e] /\ steps'[e] = steps[e],
         \A d \in Consumer : d # c => /\ pc'[d] = pc[d] /\ step'[d] = step[d]
                                      /\ verdict'[d] = verdict[d],
         Written(c)',
         cur[c] \notin overdue /\ cur[c] \notin stepErr' /\ row'[cur[c]] = "failed"
           => Explained(cur[c], NumSteps + 1)'
  PROVE  Ending'
<1>1. \A e \in acked : e \in Execution /\ (e # cur[c] \/ e \in overdue)
  BY AckedIsFree DEF Holds
<1>2. AckedMeansSettled'
  BY <1>1 DEF Ending, AckedMeansSettled, Recorded, Histories, Parses
<1>3. FailureIsExplained'
  <2>1. SUFFICES ASSUME NEW e \in Execution, e \notin overdue, e \notin stepErr',
                        row'[e] = "failed"
                 PROVE  \E k \in Step :
                          /\ steps'[e][k] = "failed"
                          /\ IF OnFailure[e] = "stop"
                             THEN \A s \in Step : /\ s < k => steps'[e][s] = "success"
                                                  /\ s > k => steps'[e][s] = "skipped"
                             ELSE \A s \in Step : steps'[e][s] \in {"success", "failed"}
    BY DEF FailureIsExplained
  <2>2. CASE e # cur[c]
    <3>1. row[e] = "failed" /\ steps'[e] = steps[e] /\ e \in Execution \ (overdue \cup stepErr)
      BY <2>1, <2>2 DEF Histories
    <3>2. QED
      BY <3>1 DEF Ending, FailureIsExplained
  <2>3. CASE e = cur[c]
    <3>1. \E f \in Step :
            /\ f < NumSteps + 1
            /\ IF OnFailure[e] = "stop"
               THEN /\ steps'[e][f] = "failed"
                    /\ \A s \in Step : /\ s < f => steps'[e][s] = "success"
                                       /\ f < s /\ s < NumSteps + 1 => steps'[e][s] = "skipped"
               ELSE /\ steps'[e][f] = "failed"
                    /\ \A s \in Step : s < NumSteps + 1 => steps'[e][s] \in {"success", "failed"}
      BY <2>1, <2>3 DEF Explained, StoppedAt, RunBefore
    <3>2. \A s \in Step : s < NumSteps + 1 /\ s \in Int
      BY StepsAssumption DEF Step
    <3>3. QED
      BY <3>1, <3>2
  <2>4. QED
    BY <2>2, <2>3
<1>4. ASSUME NEW d \in Consumer, d # c PROVE Written(d)'
  <2>1. CASE pc[d] \notin {"begin", "run", "skip", "final", "ack"}
    BY <1>4, <2>1 DEF Written, Progress
  <2>2. CASE cur[d] \in overdue
    BY <2>2 DEF Written
  <2>3. CASE pc[d] \in {"begin", "run", "skip", "final", "ack"} /\ cur[d] \notin overdue
    <3>1. cur[d] # cur[c] /\ cur[d] \in Execution
      BY <1>4, <2>3 DEF Ownership, Holds, Typed, Hands
    <3>2. row'[cur[d]] = row[cur[d]] /\ steps'[cur[d]] = steps[cur[d]]
      BY <3>1
    <3>3. \A k : Explained(cur[d], k)' <=> Explained(cur[d], k)
      BY <3>2 DEF Explained, StoppedAt, RunBefore
    <3>4. Cancelled(d)' <=> Cancelled(d)
      BY DEF Cancelled
    <3>5. Progress(d) => Progress(d)'
      BY <1>4, <3>2, <3>3 DEF Progress
    <3>6. Recorded(cur[d]) => Recorded(cur[d])'
      BY <3>2 DEF Recorded, Histories, Parses
    <3>7. Written(d) /\ pc'[d] = pc[d] /\ cur'[d] = cur[d]
      BY <1>4 DEF Ending
    <3>8. QED
      BY <3>2, <3>4, <3>5, <3>6, <3>7 DEF Written, Histories
  <2>4. QED
    BY <2>1, <2>2, <2>3
<1>5. QED
  BY <1>2, <1>3, <1>4 DEF Ending

LEMMA InitEnding == Init => Ending
  BY DEF Init, Ending, AckedMeansSettled, FailureIsExplained, Written, Progress

LEMMA BeginStepEnding ==
  ASSUME Typed, Ownership, Ending, NEW c \in Consumer, BeginStep(c)
  PROVE  Ending'
<1> USE DEF Typed
<1> DEFINE e == cur[c]
<1>1. /\ pc[c] = "begin" /\ cur[c] \in Execution /\ step[c] \in Step
      /\ UNCHANGED <<row, acked, overdue, cur, proc, step, rowErr>>
  BY DEF BeginStep, Hands, Step, TypeOK, streamVars
<1>2. PICK o \in UpsertOutcome(c) :
        /\ steps' = IF Applied(o) THEN UpsertStep(cur[c], step[c], "running") ELSE steps
        /\ stepErr' = Noted(c, o, stepErr)
        /\ pc' = [pc EXCEPT ![c] = IF o = "ok" THEN "run" ELSE "final"]
        /\ verdict' = IF o = "ok" THEN verdict ELSE [verdict EXCEPT ![c] = "failed"]
  BY DEF BeginStep
<1>3. Written(c) /\ (Cancelled(c)' <=> Cancelled(c))
  BY <1>1 DEF Ending, Cancelled
<1>4. /\ pc'[c] \in {"run", "final"} /\ \A x \in Execution : x # e => steps'[x] = steps[x]
      /\ \A d \in Consumer : d # c => pc'[d] = pc[d] /\ verdict'[d] = verdict[d]
  BY <1>1, <1>2 DEF UpsertStep, TypeOK
<1>5. Histories
  BY <1>1, <1>2, NotedErrors DEF Histories
<1>6. Written(c)'
  <2>1. CASE Cancelled(c) \/ cur[c] \in stepErr' \/ cur[c] \in overdue
    BY <1>1, <1>3, <1>4, <2>1 DEF Written
  <2>2. CASE ~Cancelled(c) /\ cur[c] \notin stepErr' /\ cur[c] \notin overdue
    <3>0. cur[c] \notin stepErr
      BY <1>5, <2>2 DEF Histories
    <3>1. o = "ok" /\ Applied(o) /\ verdict' = verdict /\ pc'[c] = "run"
      BY <1>2, <2>2, NotedErrors, WorkerOutcomes DEF TypeOK
    <3>2. \A s \in Step : s # step[c] => steps'[cur[c]][s] = steps[cur[c]][s]
      BY <1>1, <1>2, <3>1 DEF UpsertStep, TypeOK
    <3>3. \A s \in Step : s < step[c] => steps'[cur[c]][s] = steps[cur[c]][s]
      BY <1>1, <3>2, StepsAssumption DEF Step
    <3>4. Explained(cur[c], step[c]) => Explained(cur[c], step[c])'
      <4>1. ASSUME NEW f \in Step, f < step[c],
                   IF OnFailure[cur[c]] = "stop" THEN StoppedAt(cur[c], f, step[c])
                   ELSE steps[cur[c]][f] = "failed" /\ RunBefore(cur[c], step[c])
            PROVE  IF OnFailure[cur[c]] = "stop" THEN StoppedAt(cur[c], f, step[c])'
                   ELSE steps'[cur[c]][f] = "failed" /\ RunBefore(cur[c], step[c])'
        <5>1. \A s \in Step : s < f => s < step[c]
          BY <1>1, <4>1, StepsAssumption DEF Step
        <5>2. QED
          BY <1>1, <3>3, <4>1, <5>1 DEF StoppedAt, RunBefore
      <4>2. QED
        BY <1>1, <4>1 DEF Explained
    <3>5. Progress(c)'
      BY <1>1, <1>3, <2>2, <3>0, <3>1, <3>3, <3>4 DEF Written, Progress
    <3>6. QED
      BY <1>1, <1>3, <1>4, <3>5 DEF Written
  <2>3. QED
    BY <2>1, <2>2
<1>7. cur[c] \notin overdue => row'[cur[c]] # "failed"
  BY <1>1, <1>3 DEF Written
<1>8. QED
  BY <1>1, <1>4, <1>5, <1>6, <1>7, EndingOf

LEMMA RunStepEnding ==
  ASSUME Typed, Ownership, Ending, NEW c \in Consumer, RunStep(c)
  PROVE  Ending'
<1> USE DEF Typed
<1> DEFINE e == cur[c]
<1>1. /\ pc[c] = "run" /\ cur[c] \in Execution /\ step[c] \in Step
      /\ UNCHANGED <<row, acked, overdue, cur, proc, rowErr>>
      /\ step' = [step EXCEPT ![c] = @ + 1]
  BY DEF RunStep, Hands, Step, TypeOK, streamVars
<1>2. PICK result \in {"success", "failed"}, o \in WorkerOutcome(c) :
        /\ steps' = IF Applied(o) THEN FinalizeStep(cur[c], step[c], result) ELSE steps
        /\ stepErr' = Noted(c, o, stepErr)
        /\ verdict' = IF result = "failed" THEN [verdict EXCEPT ![c] = "failed"] ELSE verdict
        /\ pc' = [pc EXCEPT ![c] =
                    Position(step[c] + 1,
                             IF result = "failed" /\ Stops(cur[c]) THEN "skip" ELSE "begin")]
  BY DEF RunStep
<1>3. Written(c) /\ (Cancelled(c)' <=> Cancelled(c))
  BY <1>1 DEF Ending, Cancelled
<1>4. /\ \A x \in Execution : x # e => steps'[x] = steps[x]
      /\ \A d \in Consumer : d # c => /\ pc'[d] = pc[d] /\ verdict'[d] = verdict[d]
                                      /\ step'[d] = step[d]
  BY <1>1, <1>2 DEF FinalizeStep, TypeOK
<1>5. step[c] \in 1..NumSteps /\ step'[c] = step[c] + 1
  BY <1>1 DEF TypeOK, Step
<1>6. /\ pc'[c] \in {"begin", "skip", "final"}
      /\ pc'[c] = "skip" => result = "failed" /\ OnFailure[cur[c]] = "stop"
      /\ pc'[c] = "begin" => ~(result = "failed" /\ OnFailure[cur[c]] = "stop")
      /\ pc'[c] = "final" => step'[c] = NumSteps + 1
  <2>1. pc'[c] = Position(step[c] + 1,
                          IF result = "failed" /\ Stops(cur[c]) THEN "skip" ELSE "begin")
    BY <1>2 DEF TypeOK
  <2>2. QED
    BY <1>5, <2>1, StepsAssumption DEF Position, Stops
<1>7. Histories
  BY <1>1, <1>2, NotedErrors DEF Histories
<1>8. Written(c)'
  <2>1. CASE Cancelled(c) \/ cur[c] \in stepErr' \/ cur[c] \in overdue
    BY <1>1, <1>3, <1>6, <2>1 DEF Written
  <2>2. CASE ~Cancelled(c) /\ cur[c] \notin stepErr' /\ cur[c] \notin overdue
    <3>0. /\ cur[c] \notin stepErr /\ Progress(c)
          /\ Progress(c)' => Written(c)'
      BY <1>1, <1>3, <1>6, <1>7, <2>2 DEF Histories, Written
    <3>1. Applied(o)
      BY <1>2, <2>2, NotedErrors, WorkerOutcomes
    <3>2. /\ \A s \in Step : s # step[c] => steps'[cur[c]][s] = steps[cur[c]][s]
          /\ steps'[cur[c]][step[c]] = result
      BY <1>1, <1>2, <3>1 DEF FinalizeStep, TypeOK
    <3>3. \A s \in Step : s < step[c] => steps'[cur[c]][s] = steps[cur[c]][s]
      BY <1>1, <3>2, StepsAssumption DEF Step
    <3>4. \A s \in Step : s < step'[c] <=> s < step[c] \/ s = step[c]
      BY <1>5, StepsAssumption DEF Step
    <3>5. verdict[c] \in {"success", "failed"} /\ step[c] \in Int
      BY <1>5 DEF TypeOK
    <3>6. CASE verdict[c] = "success"
      <4>1. \A s \in Step : s < step[c] => steps[cur[c]][s] = "success"
        BY <1>1, <3>0, <3>6 DEF Progress
      <4>2. CASE result = "success"
        <5>1. verdict'[c] = "success"
          BY <1>2, <3>6, <4>2
        <5>2. \A s \in Step : s < step'[c] => steps'[cur[c]][s] = "success"
          BY <3>2, <3>3, <3>4, <4>1, <4>2
        <5>3. pc'[c] # "skip"
          BY <1>6, <4>2
        <5>4. QED
          BY <1>1, <1>6, <3>0, <5>1, <5>2, <5>3 DEF Progress
      <4>3. CASE result = "failed"
        <5>1. verdict'[c] = "failed"
          BY <1>2, <4>3 DEF TypeOK
        <5>2. steps'[cur[c]][step[c]] = "failed" /\ step[c] < step'[c]
          BY <1>5, <3>2, <4>3
        <5>3. \A s \in Step : s < step[c] => steps'[cur[c]][s] = "success"
          BY <3>3, <4>1
        <5>4. \A s \in Step : ~(step[c] < s /\ s < step'[c])
          BY <1>5, StepsAssumption DEF Step
        <5>5. \A s \in Step : s < step'[c] => steps'[cur[c]][s] \in {"success", "failed"}
          BY <3>4, <5>2, <5>3
        <5>6. Explained(cur[c], step[c])'
          BY <1>1, <5>2, <5>3, <5>4, <5>5 DEF Explained, StoppedAt, RunBefore
        <5>7. QED
          BY <1>1, <1>6, <3>0, <4>3, <5>1, <5>6 DEF Progress
      <4>4. QED
        BY <4>2, <4>3
    <3>7. CASE verdict[c] = "failed"
      <4>1. verdict'[c] = "failed"
        BY <1>2, <3>7 DEF TypeOK
      <4>2. OnFailure[cur[c]] # "stop" /\ Explained(cur[c], step[c])
        BY <1>1, <3>0, <3>7 DEF Progress
      <4>3. PICK f \in Step : f < step[c] /\ steps[cur[c]][f] = "failed" /\ RunBefore(cur[c], step[c])
        BY <4>2 DEF Explained
      <4>4. \A s \in Step : s < step'[c] => steps'[cur[c]][s] \in {"success", "failed"}
        BY <3>2, <3>3, <3>4, <4>3 DEF RunBefore
      <4>5. f < step'[c] /\ steps'[cur[c]][f] = "failed"
        BY <3>3, <3>4, <4>3
      <4>6. Explained(cur[c], step[c])'
        BY <1>1, <4>2, <4>4, <4>5 DEF Explained, RunBefore
      <4>7. pc'[c] # "skip"
        BY <1>6, <4>2
      <4>8. QED
        BY <1>1, <1>6, <3>0, <4>1, <4>2, <4>6, <4>7 DEF Progress
    <3>8. QED
      BY <3>5, <3>6, <3>7
  <2>3. QED
    BY <2>1, <2>2
<1>9. cur[c] \notin overdue => row'[cur[c]] # "failed"
  BY <1>1, <1>3 DEF Written
<1>10. QED
  BY <1>1, <1>4, <1>7, <1>8, <1>9, EndingOf

LEMMA SkipStepEnding ==
  ASSUME Typed, Ownership, Ending, NEW c \in Consumer, SkipStep(c)
  PROVE  Ending'
<1> USE DEF Typed
<1> DEFINE e == cur[c]
<1>1. /\ pc[c] = "skip" /\ cur[c] \in Execution /\ step[c] \in Step
      /\ UNCHANGED <<row, acked, overdue, cur, proc, verdict, rowErr>>
      /\ step' = [step EXCEPT ![c] = @ + 1]
      /\ pc' = [pc EXCEPT ![c] = Position(step[c] + 1, "skip")]
  BY DEF SkipStep, Hands, Step, TypeOK, streamVars
<1>2. PICK o \in UpsertOutcome(c) :
        /\ steps' = IF Applied(o) THEN UpsertStep(cur[c], step[c], "skipped") ELSE steps
        /\ stepErr' = Noted(c, o, stepErr)
  BY DEF SkipStep
<1>3. Written(c) /\ (Cancelled(c)' <=> Cancelled(c))
  BY <1>1 DEF Ending, Cancelled
<1>4. /\ \A x \in Execution : x # e => steps'[x] = steps[x]
      /\ \A d \in Consumer : d # c => /\ pc'[d] = pc[d] /\ verdict'[d] = verdict[d]
                                      /\ step'[d] = step[d]
  BY <1>1, <1>2 DEF UpsertStep, TypeOK
<1>5. /\ step[c] \in 1..NumSteps /\ step'[c] = step[c] + 1
      /\ pc'[c] \in {"skip", "final"} /\ (pc'[c] = "final" => step'[c] = NumSteps + 1)
  BY <1>1, StepsAssumption DEF TypeOK, Step, Position
<1>6. Histories
  BY <1>1, <1>2, NotedErrors DEF Histories
<1>7. Written(c)'
  <2>1. CASE Cancelled(c) \/ cur[c] \in stepErr' \/ cur[c] \in overdue
    BY <1>1, <1>3, <1>5, <2>1 DEF Written
  <2>2. CASE ~Cancelled(c) /\ cur[c] \notin stepErr' /\ cur[c] \notin overdue
    <3>0. /\ cur[c] \notin stepErr /\ Progress(c)
          /\ Progress(c)' => Written(c)'
      BY <1>1, <1>3, <1>5, <1>6, <2>2 DEF Histories, Written
    <3>1. Applied(o)
      BY <1>2, <2>2, NotedErrors, WorkerOutcomes
    <3>2. /\ \A s \in Step : s # step[c] => steps'[cur[c]][s] = steps[cur[c]][s]
          /\ steps'[cur[c]][step[c]] = "skipped"
      BY <1>1, <1>2, <3>1 DEF UpsertStep, TypeOK
    <3>3. OnFailure[cur[c]] = "stop" /\ verdict[c] = "failed" /\ Explained(cur[c], step[c])
      BY <1>1, <3>0 DEF Progress
    <3>4. PICK f \in Step : f < step[c] /\ StoppedAt(cur[c], f, step[c])
      BY <3>3 DEF Explained
    <3>5. /\ f # step[c] /\ f < step'[c]
          /\ \A s \in Step : /\ s < f => s # step[c]
                             /\ s < step'[c] => s < step[c] \/ s = step[c]
                             /\ s < step[c] => s # step[c]
      BY <1>5, <3>4, StepsAssumption DEF Step
    <3>6. Explained(cur[c], step[c])'
      BY <1>1, <3>2, <3>3, <3>4, <3>5 DEF Explained, StoppedAt
    <3>7. QED
      BY <1>1, <1>5, <3>0, <3>3, <3>6 DEF Progress
  <2>3. QED
    BY <2>1, <2>2
<1>8. cur[c] \notin overdue => row'[cur[c]] # "failed"
  BY <1>1, <1>3 DEF Written
<1>9. QED
  BY <1>1, <1>4, <1>6, <1>7, <1>8, EndingOf

LEMMA FinalizeEnding ==
  ASSUME Typed, Ownership, Ending, NEW c \in Consumer, Finalize(c)
  PROVE  Ending'
<1> USE DEF Typed
<1>1. /\ pc[c] = "final" /\ cur[c] \in Execution
      /\ UNCHANGED <<steps, acked, overdue, cur, proc, stepErr>>
      /\ pc' = [pc EXCEPT ![c] = "ack"] /\ step' = [step EXCEPT ![c] = 1]
      /\ verdict' = [verdict EXCEPT ![c] = "success"]
  BY DEF Finalize, Hands, TypeOK, streamVars
<1>2. PICK o \in WorkerOutcome(c) :
        /\ row' = IF Applied(o) THEN UpdateExecution(cur[c], verdict[c]) ELSE row
        /\ rowErr' = Noted(c, o, rowErr)
  BY DEF Finalize
<1>3. Written(c) /\ (Cancelled(c)' <=> Cancelled(c))
  BY <1>1 DEF Ending, Cancelled
<1>4. /\ \A x \in Execution : x # cur[c] => row'[x] = row[x]
      /\ \A d \in Consumer : d # c => /\ pc'[d] = pc[d] /\ verdict'[d] = verdict[d]
                                      /\ step'[d] = step[d]
      /\ pc'[c] = "ack"
  BY <1>1, <1>2 DEF UpdateExecution, TypeOK
<1>5. verdict[c] \in {"success", "failed"}
  BY DEF TypeOK
<1>6. Histories
  BY <1>1, <1>2, NotedErrors DEF Histories
<1>7. CASE ~Applied(o)
  <2>1. row' = row
    BY <1>2, <1>7
  <2>2. ~Cancelled(c) => cur[c] \in rowErr'
    BY <1>2, <1>7, NotedErrors DEF Applied
  <2>3. Written(c)'
    BY <1>1, <1>3, <1>4, <2>2 DEF Written, Progress, Recorded
  <2>4. cur[c] \notin overdue => row'[cur[c]] # "failed"
    BY <1>1, <1>3, <2>1 DEF Written
  <2>5. QED
    BY <1>1, <1>4, <1>6, <2>3, <2>4, EndingOf
<1>8. CASE Applied(o)
  <2>1. row'[cur[c]] = verdict[c] /\ ~Cancelled(c)
    BY <1>1, <1>2, <1>8, WorkerOutcomes DEF UpdateExecution, TypeOK
  <2>2. Written(c)'
    BY <1>1, <1>4, <1>5, <2>1 DEF Written, Progress, Recorded, Settled
  <2>3. cur[c] \notin overdue /\ cur[c] \notin stepErr /\ verdict[c] = "failed"
          => Explained(cur[c], NumSteps + 1)
    BY <1>1, <1>3, <2>1 DEF Written, Progress
  <2>4. Explained(cur[c], NumSteps + 1)' <=> Explained(cur[c], NumSteps + 1)
    BY <1>1 DEF Explained, StoppedAt, RunBefore
  <2>5. QED
    BY <1>1, <1>4, <1>6, <2>1, <2>2, <2>3, <2>4, EndingOf
<1>9. QED
  BY <1>7, <1>8

LEMMA MarkRunningEnding ==
  ASSUME Typed, Ownership, Ending, NEW c \in Consumer, MarkRunning(c)
  PROVE  Ending'
<1> USE DEF Typed
<1>1. /\ cur[c] \in Execution /\ UNCHANGED <<steps, acked, overdue, cur, proc, stepErr>>
      /\ step' = [step EXCEPT ![c] = 1] /\ verdict' = [verdict EXCEPT ![c] = "success"]
  BY DEF MarkRunning, Hands, streamVars
<1>2. PICK o \in WorkerOutcome(c) :
        /\ row' = IF Applied(o) THEN UpdateExecution(cur[c], "running") ELSE row
        /\ pc' = [pc EXCEPT ![c] = IF o = "ok" THEN Position(1, "begin") ELSE "ack"]
        /\ rowErr' = Noted(c, o, rowErr)
  BY DEF MarkRunning
<1>3. Cancelled(c)' <=> Cancelled(c)
  BY <1>1 DEF Cancelled
<1>4. /\ \A x \in Execution : x # cur[c] => row'[x] = row[x] /\ steps'[x] = steps[x]
      /\ \A d \in Consumer : d # c => /\ pc'[d] = pc[d] /\ verdict'[d] = verdict[d]
                                      /\ step'[d] = step[d]
  BY <1>1, <1>2 DEF UpdateExecution, TypeOK
<1>5. Histories
  BY <1>1, <1>2, NotedErrors DEF Histories
<1>6. CASE o # "ok"
  <2>1. pc'[c] = "ack" /\ (~Cancelled(c) => cur[c] \in rowErr')
    BY <1>2, <1>6, NotedErrors DEF TypeOK
  <2>2. Written(c)'
    BY <1>1, <1>3, <2>1 DEF Written, Progress, Recorded
  <2>3. row' = row \/ row'[cur[c]] = "running"
    BY <1>1, <1>2 DEF UpdateExecution, TypeOK
  <2>4. cur[c] \notin overdue /\ cur[c] \notin stepErr /\ row'[cur[c]] = "failed"
          => Explained(cur[c], NumSteps + 1)'
    <3>1. SUFFICES ASSUME row[cur[c]] = "failed", cur[c] \notin overdue, cur[c] \notin stepErr
                   PROVE  Explained(cur[c], NumSteps + 1)
      BY <1>1, <2>3 DEF Explained, StoppedAt, RunBefore
    <3>2. PICK k \in Step :
            /\ steps[cur[c]][k] = "failed"
            /\ IF OnFailure[cur[c]] = "stop"
               THEN \A s \in Step : /\ s < k => steps[cur[c]][s] = "success"
                                    /\ s > k => steps[cur[c]][s] = "skipped"
               ELSE \A s \in Step : steps[cur[c]][s] \in {"success", "failed"}
      BY <1>1, <3>1 DEF Ending, FailureIsExplained
    <3>3. \A s \in Step : s < NumSteps + 1 /\ s \in Int
      BY StepsAssumption DEF Step
    <3>4. QED
      BY <3>2, <3>3 DEF Explained, StoppedAt, RunBefore
  <2>5. QED
    BY <1>1, <1>4, <1>5, <2>2, <2>4, EndingOf
<1>7. CASE o = "ok"
  <2>1. /\ row'[cur[c]] = "running" /\ step'[c] = 1 /\ verdict'[c] = "success"
        /\ pc'[c] = Position(1, "begin")
    BY <1>1, <1>2, <1>7 DEF UpdateExecution, TypeOK, Applied
  <2>2. /\ pc'[c] \in {"begin", "final"} /\ (pc'[c] = "final" => step'[c] = NumSteps + 1)
        /\ \A s \in Step : ~(s < step'[c])
    BY <2>1, StepsAssumption DEF Position, Step
  <2>3. Written(c)'
    BY <1>1, <2>1, <2>2 DEF Written, Progress
  <2>4. QED
    BY <1>1, <1>4, <1>5, <2>1, <2>3, EndingOf
<1>8. QED
  BY <1>6, <1>7

\* A message is dropped before its row was touched by a cancelled goroutine or
\* for an error of loadJob or loadSteps.
LEMMA LoadEnding ==
  ASSUME Typed, Ownership, Ending, NEW c \in Consumer, Load(c)
  PROVE  Ending'
<1>1. /\ UNCHANGED <<row, steps, acked, overdue, cur, proc, step, verdict, stepErr>>
      /\ \A d \in Consumer : d # c => pc'[d] = pc[d]
  BY DEF Load, Goes, streamVars, Typed, TypeOK
<1>2. PICK o \in WorkerOutcome(c) : /\ pc' = [pc EXCEPT ![c] = IF o = "ok" THEN "mark" ELSE "ack"]
                                   /\ rowErr' = Noted(c, o, rowErr)
  BY DEF Load, Goes
<1>3. Histories
  BY <1>1, <1>2, NotedErrors DEF Histories
<1>4. Cancelled(c)' <=> Cancelled(c)
  BY <1>1 DEF Cancelled
<1>5. pc'[c] = "mark" \/ (pc'[c] = "ack" /\ (~Cancelled(c) => cur[c] \in rowErr'))
  BY <1>2, NotedErrors DEF Typed, TypeOK
<1>6. ASSUME NEW d \in Consumer, pc'[d] \in {"begin", "run", "skip", "final", "ack"}
      PROVE  \/ /\ pc'[d] = pc[d] /\ cur'[d] = cur[d] /\ step'[d] = step[d]
                /\ verdict'[d] = verdict[d] /\ (Cancelled(d) => Cancelled(d)')
             \/ pc'[d] = "ack" /\ (~Cancelled(d)' => Recorded(cur[d])') /\ Progress(d)'
  <2>1. CASE d # c
    BY <1>1, <2>1 DEF Cancelled
  <2>2. CASE d = c
    BY <1>1, <1>4, <1>5, <1>6, <2>2 DEF Recorded, Progress
  <2>3. QED
    BY <2>1, <2>2
<1>7. QED
  BY <1>1, <1>3, <1>6, EndingStable

\* Only a goroutine that goes on acknowledges, and it has recorded the end.
LEMMA AckEnding ==
  ASSUME Typed, Ownership, Ending, NEW c \in Consumer, Ack(c)
  PROVE  Ending'
<1>1. /\ pc[c] = "ack" /\ UNCHANGED <<row, steps, proc, step, verdict, overdue, rowErr, stepErr>>
      /\ \A d \in Consumer : d # c => pc'[d] = pc[d] /\ cur'[d] = cur[d]
      /\ pc'[c] \in {"loop", "next"}
  BY DEF Ack, dbVars, Typed, TypeOK
<1>2. PICK o \in WorkerOutcome(c) : acked' = IF Applied(o) THEN acked \cup {cur[c]} ELSE acked
  BY DEF Ack, AckOutcome
<1>3. AckedMeansSettled'
  <2>1. \A e \in acked : Recorded(e)
    BY DEF Ending, AckedMeansSettled
  <2>2. Applied(o) => Recorded(cur[c])
    <3>1. Applied(o) => ~Cancelled(c)
      BY <1>2, WorkerOutcomes
    <3>2. QED
      BY <1>1, <3>1 DEF Ending, Written, Recorded
  <2>3. \A e : Recorded(e) => Recorded(e)'
    BY <1>1 DEF Recorded, Parses
  <2>4. QED
    BY <1>2, <2>1, <2>2, <2>3 DEF AckedMeansSettled
<1>4. ASSUME NEW d \in Consumer PROVE Written(d)'
  <2>1. CASE d = c
    BY <1>1, <2>1 DEF Written, Progress
  <2>2. CASE d # c
    <3>1. \A e, k : Explained(e, k)' <=> Explained(e, k)
      BY <1>1 DEF Explained, StoppedAt, RunBefore
    <3>2. Cancelled(d)' <=> Cancelled(d)
      BY <1>1 DEF Cancelled
    <3>3. Progress(d)' <=> Progress(d)
      BY <1>1, <2>2, <3>1 DEF Progress
    <3>4. Recorded(cur[d])' <=> Recorded(cur[d])
      BY <1>1, <2>2 DEF Recorded, Parses
    <3>5. QED
      BY <1>1, <2>2, <3>2, <3>3, <3>4 DEF Ending, Written
  <2>3. QED
    BY <2>1, <2>2
<1>5. FailureIsExplained'
  BY <1>1 DEF Ending, FailureIsExplained
<1>6. QED
  BY <1>3, <1>4, <1>5 DEF Ending

LEMMA NextEnding ==
  ASSUME Typed, Ownership, Ending, [Next]_vars
  PROVE  Ending'
<1> USE HostAssumption DEF Typed
<1>1. ASSUME NEW e \in Execution, ApiStep(e) PROVE Ending'
  <2>1. /\ UNCHANGED <<steps, acked, overdue, rowErr, stepErr, workerVars>>
        /\ \A x \in Execution : row'[x] = row[x] \/ row'[x] = "aborted"
                                \/ (row'[x] = "queued" /\ Open(x))
    BY <1>1 DEF ApiStep, InsertExecution, Dispatch, DropRequest, AbortRead, AbortWrite,
       Create, UpdateStatus, dbVars, streamVars, TypeOK
  <2>2. QED
    BY <2>1, EndingStable DEF workerVars, Cancelled, Histories
<1>2. ASSUME NEW e \in Execution, GrowStale(e) PROVE Ending'
  <2>1. UNCHANGED <<row, steps, acked, rowErr, stepErr, workerVars>> /\ overdue \subseteq overdue'
    BY <1>2 DEF GrowStale, dbVars
  <2>2. QED
    BY <2>1, EndingStable DEF workerVars, Cancelled, Histories
<1>3. ASSUME NEW p \in Process, ProcessStep(p) PROVE Ending'
  <2>1. UNCHANGED <<row, steps, acked, overdue, rowErr, stepErr>>
    BY <1>3 DEF ProcessStep, Start, Signal, Exit, Crash, Gone, dbVars, streamVars
  <2>2. ASSUME NEW c \in Consumer, pc'[c] \in {"begin", "run", "skip", "final", "ack"}
        PROVE  /\ pc'[c] = pc[c] /\ cur'[c] = cur[c] /\ step'[c] = step[c]
               /\ verdict'[c] = verdict[c] /\ (Cancelled(c) => Cancelled(c)')
    <3>1. CASE Start(p) \/ Signal(p)
      BY <2>2, <3>1 DEF Start, Signal, Cancelled, ConsumersOf, TypeOK
    <3>2. CASE Gone(p)
      <4>1. Host[c] # p
        BY <2>2, <3>2 DEF Gone, ConsumersOf
      <4>2. QED
        BY <3>2, <4>1 DEF Gone, ConsumersOf, Cancelled, TypeOK
    <3>3. QED
      BY <1>3, <3>1, <3>2 DEF ProcessStep, Exit, Crash
  <2>3. QED
    BY <2>1, <2>2, EndingStable DEF Histories
<1>4. ASSUME NEW c \in Consumer,
             Reclaim(c) \/ Loop(c) \/ Read(c) \/ ReadNothing(c)
      PROVE  Ending'
  <2>1. UNCHANGED <<row, steps, acked, overdue, rowErr, stepErr, proc, step, verdict>>
    BY <1>4 DEF Reclaim, Loop, Goes, Read, ReadNothing, dbVars, streamVars
  <2>2. /\ \A d \in Consumer : d # c => pc'[d] = pc[d] /\ cur'[d] = cur[d]
        /\ pc'[c] \notin {"begin", "run", "skip", "final", "ack"}
    BY <1>4 DEF Reclaim, Loop, Goes, Read, ReadNothing, TypeOK
  <2>3. QED
    BY <2>1, <2>2, EndingStable DEF Cancelled, Histories
<1>5. ASSUME NEW c \in Consumer, TakeMessage(c) PROVE Ending'
  <2>1. UNCHANGED <<row, steps, acked, overdue, rowErr, stepErr, proc, step, verdict>>
    BY <1>5 DEF TakeMessage, dbVars, streamVars
  <2>2. PICK e \in batch[c] : /\ cur' = [cur EXCEPT ![c] = e]
                             /\ pc' = [pc EXCEPT ![c] = IF Parses(e) THEN "load" ELSE "ack"]
    BY <1>5 DEF TakeMessage
  <2>3. \A d \in Consumer : d # c => pc'[d] = pc[d] /\ cur'[d] = cur[d]
    BY <2>2 DEF TypeOK
  <2>4. pc'[c] = "load" \/ (pc'[c] = "ack" /\ ~Parses(cur'[c]))
    BY <2>2 DEF TypeOK
  <2>5. ~Parses(cur'[c]) => Recorded(cur[c])'
    BY DEF Recorded, Parses
  <2>6. ASSUME NEW d \in Consumer, pc'[d] \in {"begin", "run", "skip", "final", "ack"}
        PROVE  \/ /\ pc'[d] = pc[d] /\ cur'[d] = cur[d] /\ step'[d] = step[d]
                  /\ verdict'[d] = verdict[d] /\ (Cancelled(d) => Cancelled(d)')
               \/ pc'[d] = "ack" /\ (~Cancelled(d)' => Recorded(cur[d])') /\ Progress(d)'
    <3>1. CASE d # c
      BY <2>1, <2>3, <3>1 DEF Cancelled
    <3>2. CASE d = c
      BY <2>4, <2>5, <2>6, <3>2 DEF Progress
    <3>3. QED
      BY <3>1, <3>2
  <2>7. QED
    BY <2>1, <2>6, EndingStable DEF Histories
<1>6. CASE UNCHANGED vars
  <2>1. UNCHANGED <<row, steps, acked, overdue, rowErr, stepErr, workerVars>>
    BY <1>6 DEF vars, dbVars, streamVars
  <2>2. QED
    BY <2>1, EndingStable DEF workerVars, Cancelled, Histories
<1>7. QED
  BY <1>1, <1>2, <1>3, <1>4, <1>5, <1>6, LoadEnding, MarkRunningEnding, BeginStepEnding,
     RunStepEnding, SkipStepEnding, FinalizeEnding, AckEnding
  DEF Next, ConsumerStep

LEMMA EndingCorrect == Spec => []Ending
<1>1. Typed /\ Ownership /\ Ending /\ [Next]_vars => Ending'
  BY NextEnding
<1>2. QED
  BY <1>1, InitEnding, TypedCorrect, OwnershipCorrect, PTL DEF Spec

\* A worker acknowledges a message only when its execution has ended, unless the
\* message does not parse, was overdue, or an error of a statement for the execution's
\* job or row was met: crashes, shutdowns at any statement, restarts, aborts and
\* errors at the rows of steps leave no other execution behind.  (processMessage)
THEOREM AcksAreSettled == Spec => []AckedMeansSettled
<1>1. Ending => AckedMeansSettled
  BY DEF Ending
<1>2. QED
  BY <1>1, EndingCorrect, PTL

\* The rows of the steps show why an execution failed: where it stopped, or
\* that it went through all of its steps, whatever attempts came before.
\* (Execute's loop over the steps)
THEOREM FailuresExplained == Spec => []FailureIsExplained
<1>1. Ending => FailureIsExplained
  BY DEF Ending
<1>2. QED
  BY <1>1, EndingCorrect, PTL

\* An execution for which the user was answered 201 is never lost, whatever crashes,
\* signals, lost replies and aborts come: it waits in the stream, is pending, or has
\* ended, but for the three causes that AckedMeansSettled names.
THEOREM AcceptedKept == Spec => []AcceptedIsKept
<1>1. Init => Answered
  BY DEF Init, Answered
<1>2. ASSUME TypeOK, Accounting, NoEntryVanishes, AckedMeansSettled, Answered
      PROVE  AcceptedIsKept
  <2>1. SUFFICES ASSUME NEW e \in Execution, api[e] = "created", GroupExists,
                        e \notin Undelivered
                 PROVE  Pending(e) \/ Recorded(e)
    BY <1>2 DEF AcceptedIsKept, Answered
  <2>2. id[e] \in Nat /\ id[e] > 0 /\ cursor \in Nat
    BY <1>2, <2>1, FlagsAssumption DEF TypeOK, Answered, Accounting
  <2>3. Delivered(e)
    BY <2>1, <2>2 DEF Undelivered, Delivered
  <2>4. QED
    BY <1>2, <2>1, <2>3 DEF NoEntryVanishes, AckedMeansSettled
<1>3. QED
  BY <1>1, <1>2, NextAnswered, TypeCorrect, AccountingCorrect, AcksAreSettled, PTL DEF Spec

-------------------------------------------------------------------------------
(* The refinement of WorkQueue.                                            *)

queue == <<Added, Leased, stale, Holders, acked>>

\* A step that moves no message and adds no entry is a stutter.
LEMMA Stutters ==
  ASSUME UNCHANGED <<id, pel, stale, acked, cur, batch>>
  PROVE  UNCHANGED queue
BY DEF queue, Added, Leased, Pending, Holders, Holds

LEMMA InitQueue == Init => Queue!Init
  BY NoneAssumption DEF Init, Queue!Init, Added, Leased, Pending, Holders, Holds

\* Handing items out, seen from the variables of Executions.
LEMMA LeaseOf ==
  ASSUME NEW ws \in SUBSET Consumer, NEW items \in SUBSET Execution,
         UNCHANGED <<id, acked>>, items \subseteq Added \ acked,
         \A e \in items : Pending(e) => e \in stale,
         \A e \in Execution : Pending(e)' <=> Pending(e) \/ e \in items,
         stale' = stale \ items,
         \A e \in Execution, d \in Consumer :
           Holds(d, e)' <=> Holds(d, e) \/ (d \in ws /\ e \in items)
  PROVE  Queue!Lease(ws, items)
<1>1. Added' = Added /\ Leased' = Leased \cup items
  BY DEF Added, Leased
<1>2. \A e \in Execution : Holders'[e] = IF e \in items THEN Holders[e] \cup ws ELSE Holders[e]
  BY DEF Holders
<1>3. Holders' = [e \in Execution |-> IF e \in items THEN Holders[e] \cup ws ELSE Holders[e]]
  BY <1>2 DEF Holders
<1>4. QED
  BY <1>1, <1>3 DEF Queue!Lease, Queue!Free, Leased

LEMMA NextQueue ==
  ASSUME Typed, [Next]_vars
  PROVE  Queue!Next \/ UNCHANGED queue
<1> USE NoneAssumption, HostAssumption DEF Typed
<1>1. ASSUME NEW e \in Execution, Dispatch(e)
      PROVE  Queue!Next \/ UNCHANGED queue
  <2>1. UNCHANGED <<pel, stale, acked, cur, batch>>
    BY <1>1 DEF Dispatch, workerVars
  <2>2. Holders' = Holders /\ Leased' = Leased
    BY <2>1 DEF Holders, Holds, Leased, Pending
  <2>3. CASE id' = id
    BY <2>1, <2>3, Stutters
  <2>4. CASE id' = [id EXCEPT ![e] = topId + 1]
    <3>1. id[e] = 0
      BY <1>1 DEF Dispatch, Accounting
    <3>2. e \notin Added /\ Added' = Added \cup {e}
      BY <2>4, <3>1 DEF Added, TypeOK
    <3>3. Queue!Add(e)
      BY <2>1, <2>2, <3>2 DEF Queue!Add
    <3>4. QED
      BY <3>3 DEF Queue!Next
  <2>5. QED
    BY <1>1, <2>3, <2>4 DEF Dispatch
<1>2. ASSUME NEW e \in Execution, InsertExecution(e) \/ DropRequest(e) \/ AbortRead(e)
                                 \/ AbortWrite(e)
      PROVE  UNCHANGED queue
  BY <1>2, Stutters DEF InsertExecution, DropRequest, AbortRead, AbortWrite,
     streamVars, workerVars
<1>3. ASSUME NEW e \in Execution, GrowStale(e)
      PROVE  Queue!Next
  <2>1. UNCHANGED <<id, pel, acked, cur, batch>> /\ stale' = stale \cup {e}
    BY <1>3 DEF GrowStale, workerVars
  <2>2. Added' = Added /\ Leased' = Leased /\ Holders' = Holders
    BY <2>1 DEF Added, Leased, Pending, Holders, Holds
  <2>3. Queue!Expire(e)
    BY <1>3, <2>1, <2>2 DEF GrowStale, Queue!Expire, Leased
  <2>4. QED
    BY <2>3 DEF Queue!Next
<1>4. ASSUME NEW p \in Process, Start(p) \/ Signal(p)
      PROVE  UNCHANGED queue
  BY <1>4, Stutters DEF Start, EnsuredCursor, Signal, streamVars
<1>5. ASSUME NEW p \in Process, Gone(p)
      PROVE  Queue!Next
  <2>1. UNCHANGED <<id, pel, stale, acked>>
    BY <1>5 DEF Gone, streamVars
  <2>2. Added' = Added /\ Leased' = Leased
    BY <2>1 DEF Added, Leased, Pending
  <2>3. \A e \in Execution, c \in Consumer :
          Holds(c, e)' <=> Holds(c, e) /\ c \notin ConsumersOf(p)
    BY <1>5 DEF Gone, Holds
  <2>4. \A e \in Execution : Holders'[e] = Holders[e] \ ConsumersOf(p)
    BY <2>3 DEF Holders
  <2>5. Holders' = [e \in Execution |->
                      IF e \in Execution THEN Holders[e] \ ConsumersOf(p) ELSE Holders[e]]
    BY <2>4 DEF Holders
  <2>6. Queue!Drop(ConsumersOf(p), Execution)
    BY <2>1, <2>2, <2>5 DEF Queue!Drop
  <2>7. ConsumersOf(p) \in SUBSET Consumer
    BY DEF ConsumersOf
  <2>8. QED
    BY <2>6, <2>7 DEF Queue!Next
<1>6. ASSUME NEW c \in Consumer, Reclaim(c)
      PROVE  Queue!Next \/ UNCHANGED queue
  <2>1. PICK o \in WorkerOutcome(c) :
          /\ pel' = [e \in Execution |-> IF Applied(o) /\ e \in stale THEN c ELSE pel[e]]
          /\ stale' = IF Applied(o) THEN stale \ stale ELSE stale
          /\ batch' = IF o = "ok" THEN [batch EXCEPT ![c] = stale] ELSE batch
    BY <1>6 DEF Reclaim, Claimable
  <2>2. UNCHANGED <<id, acked, cur>> /\ batch[c] = {}
    BY <1>6 DEF Reclaim, Hands
  <2>3. stale \in SUBSET Execution /\ stale \subseteq Added \ acked
    BY DEF Accounting, NoEntryVanishes, Added, Delivered, TypeOK, NoGroup
  <2>4. CASE o = "lost"
    <3>1. pel' = pel /\ stale' = stale /\ batch' = batch
      BY <2>1, <2>4 DEF Applied, TypeOK
    <3>2. QED
      BY <2>2, <3>1, Stutters
  <2>5. CASE o # "lost"
    <3>1. Applied(o) /\ stale' = stale \ stale
      BY <2>1, <2>5, WorkerOutcomes
    <3>2. \A e \in Execution : Pending(e)' <=> Pending(e) \/ e \in stale
      BY <2>1, <3>1 DEF Pending, Accounting
    <3>3. CASE o = "ok"
      <4>1. \A e \in Execution, d \in Consumer :
              Holds(d, e)' <=> Holds(d, e) \/ (d \in {c} /\ e \in stale)
        BY <2>1, <2>2, <3>3 DEF Holds, TypeOK
      <4>2. Queue!Take(c, stale)
        BY <2>2, <2>3, <3>1, <3>2, <4>1, LeaseOf DEF Queue!Take
      <4>3. QED
        BY <2>3, <4>2 DEF Queue!Next
    <3>4. CASE o # "ok"
      <4>1. \A e \in Execution, d \in Consumer :
              Holds(d, e)' <=> Holds(d, e) \/ (d \in {} /\ e \in stale)
        BY <2>1, <2>2, <3>4 DEF Holds
      <4>2. Queue!Mislay(stale)
        BY <2>2, <2>3, <3>1, <3>2, <4>1, LeaseOf DEF Queue!Mislay
      <4>3. QED
        BY <2>3, <4>2 DEF Queue!Next
    <3>5. QED
      BY <3>3, <3>4
  <2>6. QED
    BY <2>4, <2>5
<1>7. ASSUME NEW c \in Consumer, Read(c)
      PROVE  Queue!Next \/ UNCHANGED queue
  <2>1. PICK e \in Undelivered, o \in ReadOutcome(c) : Read(c)!2!(e, o)
    BY <1>7 DEF Read
  <2>2. UNCHANGED <<id, stale, acked, cur>> /\ batch[c] = {}
    BY <1>7 DEF Read, Hands
  <2>3. e \in Execution /\ ~Delivered(e) /\ id[e] > 0
    <3>1. cursor # NoGroup
      BY <1>7 DEF Read, Hands, Accounting, TypeOK
    <3>2. QED
      BY <2>1, <3>1 DEF Undelivered, Delivered, TypeOK
  <2>4. {e} \in SUBSET Execution /\ {e} \subseteq Added \ acked
    BY <2>3 DEF Added, Accounting
  <2>5. ~Pending(e) /\ stale' = stale \ {e}
    BY <2>2, <2>3 DEF Accounting
  <2>6. CASE o = "lost"
    BY <2>1, <2>2, <2>6, Stutters DEF Applied
  <2>7. CASE o # "lost"
    <3>1. Applied(o)
      BY <2>7 DEF ReadOutcome, RequestOutcome, IOErrors, Applied
    <3>2. \A x \in Execution : Pending(x)' <=> Pending(x) \/ x \in {e}
      BY <2>1, <2>3, <3>1 DEF Pending, TypeOK
    <3>3. CASE o = "ok"
      <4>1. \A x \in Execution, d \in Consumer :
              Holds(d, x)' <=> Holds(d, x) \/ (d \in {c} /\ x \in {e})
        BY <2>1, <2>2, <3>3 DEF Holds, TypeOK
      <4>2. Queue!Take(c, {e})
        BY <2>2, <2>4, <2>5, <3>2, <4>1, LeaseOf DEF Queue!Take
      <4>3. QED
        BY <2>4, <4>2 DEF Queue!Next
    <3>4. CASE o # "ok"
      <4>1. \A x \in Execution, d \in Consumer :
              Holds(d, x)' <=> Holds(d, x) \/ (d \in {} /\ x \in {e})
        BY <2>1, <2>2, <3>4 DEF Holds
      <4>2. Queue!Mislay({e})
        BY <2>2, <2>4, <2>5, <3>2, <4>1, LeaseOf DEF Queue!Mislay
      <4>3. QED
        BY <2>4, <4>2 DEF Queue!Next
    <3>5. QED
      BY <3>3, <3>4
  <2>8. QED
    BY <2>6, <2>7
<1>8. ASSUME NEW c \in Consumer, TakeMessage(c)
      PROVE  UNCHANGED queue
  <2>1. UNCHANGED <<id, pel, stale, acked>>
    BY <1>8 DEF TakeMessage, streamVars
  <2>2. \A d \in Consumer, e \in Execution : Holds(d, e)' <=> Holds(d, e)
    <3>1. PICK e \in batch[c] : /\ cur' = [cur EXCEPT ![c] = e]
                               /\ batch' = [batch EXCEPT ![c] = @ \ {e}]
      BY <1>8 DEF TakeMessage
    <3>2. cur[c] = NoExecution
      BY <1>8 DEF TakeMessage, Hands
    <3>3. QED
      BY <3>1, <3>2 DEF Holds, TypeOK
  <2>3. QED
    BY <2>1, <2>2 DEF queue, Added, Leased, Pending, Holders
<1>9. ASSUME NEW c \in Consumer, Ack(c)
      PROVE  Queue!Next
  <2> DEFINE e == cur[c]
  <2>1. e \in Execution /\ e \notin batch[c] /\ c \in Holders[e]
    BY <1>9 DEF Ack, Hands, Holders, Holds
  <2>2. batch' = batch /\ cur' = [cur EXCEPT ![c] = NoExecution] /\ id' = id
    BY <1>9 DEF Ack
  <2>3. \A d \in Consumer, x \in Execution :
          Holds(d, x)' <=> Holds(d, x) /\ ~(d = c /\ x = e)
    BY <2>1, <2>2 DEF Holds, TypeOK
  <2>4. \A x \in Execution : Holders'[x] = IF x = e THEN Holders[x] \ {c} ELSE Holders[x]
    BY <2>3 DEF Holders
  <2>5. Added' = Added
    BY <2>2 DEF Added
  <2>6. CASE UNCHANGED <<pel, stale, acked>>
    <3>1. Leased' = Leased
      BY <2>6 DEF Leased, Pending
    <3>2. Holders' = [x \in Execution |->
                        IF x \in {e} THEN Holders[x] \ {c} ELSE Holders[x]]
      BY <2>4 DEF Holders
    <3>3. Queue!Drop({c}, {e})
      BY <2>5, <2>6, <3>1, <3>2 DEF Queue!Drop
    <3>4. QED
      BY <2>1, <3>3 DEF Queue!Next
  <2>7. CASE /\ pel' = [pel EXCEPT ![e] = NoConsumer]
             /\ stale' = stale \ {e} /\ acked' = acked \cup {e}
    <3>1. Leased' = Leased \ {e}
      BY <2>7 DEF Leased, Pending, TypeOK
    <3>2. Holders' = [Holders EXCEPT ![e] = @ \ {c}]
      BY <2>4 DEF Holders
    <3>3. Queue!Finish(c, e)
      BY <2>1, <2>5, <2>7, <3>1, <3>2 DEF Queue!Finish
    <3>4. QED
      BY <2>1, <3>3 DEF Queue!Next
  <2>8. QED
    BY <1>9, <2>6, <2>7 DEF Ack
<1>10. ASSUME NEW c \in Consumer, ConsumerStep(c)
       PROVE  Queue!Next \/ UNCHANGED queue
  <2>1. CASE Loop(c) \/ ReadNothing(c) \/ Load(c) \/ MarkRunning(c)
               \/ BeginStep(c) \/ RunStep(c) \/ SkipStep(c) \/ Finalize(c)
    BY <2>1, QueueUntouched, Stutters DEF queueVars
  <2>2. QED
    BY <1>6, <1>7, <1>8, <1>9, <1>10, <2>1 DEF ConsumerStep
<1>11. CASE UNCHANGED vars
  BY <1>11, Stutters DEF vars, streamVars, workerVars
<1>12. QED
  BY <1>1, <1>2, <1>3, <1>4, <1>5, <1>10, <1>11
  DEF Next, ApiStep, ProcessStep, Exit, Crash

\* The Redis Stream, its consumer group and the workers implement WorkQueue: a message
\* goes to another goroutine only when its lease of pendingClaimAge has run out, and
\* one that is acknowledged is never given out again.
THEOREM QueueImplemented == Spec => ImplementsWorkQueue
<1>1. Typed /\ [Next]_vars => [Queue!Next]_(Queue!vars)
  BY NextQueue DEF queue, Queue!vars
<1>2. QED
  BY <1>1, InitQueue, TypedCorrect, PTL
  DEF Spec, ImplementsWorkQueue, Queue!Spec

-------------------------------------------------------------------------------
(* Executions that are never run.                                          *)

\* No goroutine is in Execute of the executor with e, and e's rows are as the API
\* made them.
NeverRun(e) ==
  /\ \A c \in Consumer :
       cur[c] = e => pc[c] \notin {"load", "mark", "begin", "run", "skip", "final"}
  /\ row[e] \in {"none", "queued", "aborted"}
  /\ \A s \in Step : steps[e][s] = "none"

UnparsedIdle == \A e \in Execution : ~Parses(e) => NeverRun(e)

\* A statement of Execute of the executor is made for the execution in hand.
LEMMA OthersUntouched ==
  ASSUME Typed, NEW c \in Consumer, NEW e \in Execution, cur[c] # e,
         Load(c) \/ MarkRunning(c) \/ BeginStep(c) \/ RunStep(c) \/ SkipStep(c) \/ Finalize(c)
  PROVE  row'[e] = row[e] /\ steps'[e] = steps[e]
<1>1. cur[c] \in Execution /\ step[c] \in 1..(NumSteps + 1)
  BY DEF Typed, TypeOK, Hands, Load, MarkRunning, BeginStep, RunStep, SkipStep, Finalize
<1>2. row'[e] = row[e]
  BY <1>1 DEF Load, MarkRunning, BeginStep, RunStep, SkipStep, Finalize, UpdateExecution,
              Typed, TypeOK
<1>3. steps'[e] = steps[e]
  BY <1>1 DEF Load, MarkRunning, BeginStep, RunStep, SkipStep, Finalize, UpsertStep,
              FinalizeStep, Typed, TypeOK
<1>4. QED
  BY <1>2, <1>3

LEMMA NextUnparsed ==
  ASSUME Typed, UnparsedIdle, [Next]_vars
  PROVE  UnparsedIdle'
<1> SUFFICES ASSUME NEW e \in Execution, ~Parses(e)
             PROVE  NeverRun(e)'
  BY DEF UnparsedIdle, Parses
<1>0. NeverRun(e)
  BY DEF UnparsedIdle
<1> USE <1>0 DEF NeverRun, Typed, TypeOK, apiVars, streamVars, dbVars, workerVars
<1>1. ASSUME NEW x \in Execution, ApiStep(x) \/ GrowStale(x) PROVE NeverRun(e)'
  <2>1. UNCHANGED <<steps, workerVars>>
    BY <1>1 DEF ApiStep, InsertExecution, Dispatch, DropRequest, AbortRead, AbortWrite,
                GrowStale
  <2>2. row' \in {row, Create(x), UpdateStatus(x, "aborted")}
    BY <1>1 DEF ApiStep, InsertExecution, Dispatch, DropRequest, AbortRead, AbortWrite,
                GrowStale
  <2>3. row'[e] \in {row[e], "queued", "aborted"}
    BY <2>2 DEF Create, UpdateStatus
  <2>4. QED
    BY <2>1, <2>3
<1>2. ASSUME NEW p \in Process, ProcessStep(p) PROVE NeverRun(e)'
  <2>1. UNCHANGED dbVars
    BY <1>2 DEF ProcessStep, Start, Signal, Exit, Crash, Gone
  <2>2. \A c \in Consumer : /\ pc'[c] \in {pc[c], "reclaim", "down"}
                            /\ cur'[c] \in {cur[c], NoExecution}
    BY <1>2 DEF ProcessStep, Start, Signal, Exit, Crash, Gone
  <2>3. QED
    BY <2>1, <2>2, NoneAssumption
<1>3. ASSUME NEW c \in Consumer,
             Reclaim(c) \/ Loop(c) \/ Read(c) \/ ReadNothing(c) \/ Ack(c)
      PROVE  NeverRun(e)'
  <2>1. UNCHANGED dbVars
    BY <1>3 DEF Reclaim, Loop, Read, ReadNothing, Ack, Goes
  <2>2. \E place \in {"next", "loop", "returned", "read"} : pc' = [pc EXCEPT ![c] = place]
    BY <1>3 DEF Reclaim, Loop, Read, ReadNothing, Ack, Goes
  <2>3. \A d \in Consumer : d # c => pc'[d] = pc[d] /\ cur'[d] = cur[d]
    BY <1>3, <2>2 DEF Reclaim, Loop, Read, ReadNothing, Ack, Goes
  <2>4. QED
    BY <2>1, <2>2, <2>3
<1>4. ASSUME NEW c \in Consumer, TakeMessage(c) PROVE NeverRun(e)'
  <2>1. UNCHANGED dbVars
    BY <1>4 DEF TakeMessage
  <2>2. PICK d \in batch[c] : /\ cur' = [cur EXCEPT ![c] = d]
                              /\ pc' = [pc EXCEPT ![c] = IF Parses(d) THEN "load" ELSE "ack"]
    BY <1>4 DEF TakeMessage
  <2>3. QED
    BY <2>1, <2>2
<1>5. ASSUME NEW c \in Consumer, Load(c) \/ MarkRunning(c) \/ BeginStep(c) \/ RunStep(c)
                                   \/ SkipStep(c) \/ Finalize(c)
      PROVE  NeverRun(e)'
  <2>1. cur[c] # e
    BY <1>5 DEF Load, MarkRunning, BeginStep, RunStep, SkipStep, Finalize
  <2>2. row'[e] = row[e] /\ steps'[e] = steps[e]
    BY <1>5, <2>1, OthersUntouched
  <2>3. cur' = cur /\ \A d \in Consumer : d # c => pc'[d] = pc[d]
    BY <1>5 DEF Load, Goes, MarkRunning, BeginStep, RunStep, SkipStep, Finalize
  <2>4. QED
    BY <2>1, <2>2, <2>3
<1>6. CASE UNCHANGED vars
  BY <1>6 DEF vars
<1>7. QED
  BY <1>1, <1>2, <1>3, <1>4, <1>5, <1>6 DEF Next, ConsumerStep

\* An execution whose stream entry lacks a field parseDispatch insists on, as all do that
\* Execute of the API sends, never begins, for any number of workers and whatever
\* happens to them: its row stays queued, until a user aborts it.
THEOREM UnparsedIsNeverRun == Spec => []UnparsedIdle
<1>1. Init => UnparsedIdle
  BY NoneAssumption DEF Init, UnparsedIdle, NeverRun
<1>2. Typed /\ UnparsedIdle /\ [Next]_vars => UnparsedIdle'
  BY NextUnparsed
<1>3. QED
  BY <1>1, <1>2, TypedCorrect, PTL DEF Spec

\* No step has a row, no goroutine runs one, and no job with steps succeeds.
NoStepBegins ==
  /\ \A e \in Execution, s \in Step : steps[e][s] = "none"
  /\ \A c \in Consumer :
       /\ pc[c] \notin {"run", "skip"}
       /\ NumSteps > 0 /\ pc[c] = "final" => verdict[c] = "failed"
  /\ NumSteps > 0 => \A e \in Execution : row[e] # "success"

LEMMA NextNoStep ==
  ASSUME Typed, ~UpsertFits, NoStepBegins, [Next]_vars
  PROVE  NoStepBegins'
<1> USE DEF NoStepBegins, Typed, TypeOK, apiVars, streamVars, dbVars, workerVars
<1>1. ASSUME NEW x \in Execution, ApiStep(x) \/ GrowStale(x) PROVE NoStepBegins'
  <2>1. UNCHANGED <<steps, workerVars>>
    BY <1>1 DEF ApiStep, InsertExecution, Dispatch, DropRequest, AbortRead, AbortWrite,
                GrowStale
  <2>2. row' \in {row, Create(x), UpdateStatus(x, "aborted")}
    BY <1>1 DEF ApiStep, InsertExecution, Dispatch, DropRequest, AbortRead, AbortWrite,
                GrowStale
  <2>3. \A e \in Execution : row'[e] \in {row[e], "queued", "aborted"}
    BY <2>2 DEF Create, UpdateStatus
  <2>4. QED
    BY <2>1, <2>3
<1>2. ASSUME NEW p \in Process, ProcessStep(p) PROVE NoStepBegins'
  <2>1. UNCHANGED dbVars
    BY <1>2 DEF ProcessStep, Start, Signal, Exit, Crash, Gone
  <2>2. \A c \in Consumer : \/ pc'[c] = pc[c] /\ verdict'[c] = verdict[c]
                            \/ pc'[c] \in {"reclaim", "down"}
    BY <1>2 DEF ProcessStep, Start, Signal, Exit, Crash, Gone
  <2>3. QED
    BY <2>1, <2>2
<1>3. ASSUME NEW c \in Consumer,
             Reclaim(c) \/ Loop(c) \/ Read(c) \/ ReadNothing(c) \/ TakeMessage(c) \/ Ack(c)
               \/ Load(c)
      PROVE  NoStepBegins'
  <2>1. UNCHANGED <<row, steps, verdict>>
    BY <1>3 DEF Reclaim, Loop, Read, ReadNothing, TakeMessage, Ack, Load, Goes
  <2>2. \E place \in {"next", "loop", "returned", "read", "load", "mark", "ack"} :
          pc' = [pc EXCEPT ![c] = place]
    BY <1>3 DEF Reclaim, Loop, Read, ReadNothing, TakeMessage, Ack, Load, Goes
  <2>3. QED
    BY <2>1, <2>2
<1>4. ASSUME NEW c \in Consumer, MarkRunning(c) PROVE NoStepBegins'
  <2>1. steps' = steps /\ \A e \in Execution : row'[e] \in {row[e], "running"}
    BY <1>4 DEF MarkRunning, UpdateExecution
  <2>2. /\ pc'[c] \in {"ack", "begin", "final"} /\ (NumSteps > 0 => pc'[c] # "final")
        /\ \A d \in Consumer : d # c => pc'[d] = pc[d] /\ verdict'[d] = verdict[d]
    BY <1>4, StepsAssumption DEF MarkRunning, Position
  <2>3. QED
    BY <2>1, <2>2
<1>5. ASSUME NEW c \in Consumer, BeginStep(c) PROVE NoStepBegins'
  <2>1. /\ UNCHANGED <<row, steps>> /\ pc' = [pc EXCEPT ![c] = "final"]
        /\ verdict' = [verdict EXCEPT ![c] = "failed"]
    BY <1>5 DEF BeginStep, UpsertOutcome, Applied
  <2>2. QED
    BY <2>1
<1>6. ASSUME NEW c \in Consumer, Finalize(c) PROVE NoStepBegins'
  <2>1. steps' = steps /\ \A e \in Execution : row'[e] \in {row[e], verdict[c]}
    BY <1>6 DEF Finalize, UpdateExecution
  <2>2. /\ pc'[c] = "ack" /\ pc[c] = "final"
        /\ \A d \in Consumer : d # c => pc'[d] = pc[d] /\ verdict'[d] = verdict[d]
    BY <1>6 DEF Finalize
  <2>3. QED
    BY <2>1, <2>2
<1>7. ASSUME NEW c \in Consumer, RunStep(c) \/ SkipStep(c) PROVE NoStepBegins'
  BY <1>7 DEF RunStep, SkipStep
<1>8. CASE UNCHANGED vars
  BY <1>8 DEF vars
<1>9. QED
  BY <1>1, <1>2, <1>3, <1>4, <1>5, <1>6, <1>7, <1>8 DEF Next, ConsumerStep

\* While step_executions lacks a column or the unique key that upsertStepExecution
\* names, as it does after the repository's migration, no step is ever run or gets a
\* row, and no job that has steps ends with success.
THEOREM StepsNeverBegin == Spec => [](~UpsertFits => NoStepBegins)
<1>1. Init => (~UpsertFits => NoStepBegins)
  BY DEF Init, NoStepBegins
<1>2. Typed /\ (~UpsertFits => NoStepBegins) /\ [Next]_vars => (~UpsertFits => NoStepBegins)'
  BY NextNoStep
<1>3. QED
  BY <1>1, <1>2, TypedCorrect, PTL DEF Spec

-------------------------------------------------------------------------------
(* Entries that are in the stream before the group is created.             *)

\* No worker has had, or will find, execution e among what was delivered to it.
NeverServed(e) ==
  /\ ~Pending(e) /\ e \notin acked
  /\ \A c \in Consumer : ~Holds(c, e)
  /\ row[e] \in {"none", "queued", "aborted"}
  /\ \A s \in Step : steps[e][s] = "none"

\* XREADGROUP with ">" does not come to e.
NotNext(e) == cursor = NoGroup \/ id[e] \in 1..cursor

LEMMA NextNever ==
  ASSUME Typed, NEW e \in Execution, NeverServed(e), NotNext(e), [Next]_vars
  PROVE  NeverServed(e)'
<1> USE NoneAssumption DEF NeverServed, Pending, Holds, Typed, TypeOK,
        apiVars, streamVars, dbVars, workerVars
<1>1. ASSUME NEW x \in Execution, ApiStep(x) \/ GrowStale(x) PROVE NeverServed(e)'
  <2>1. UNCHANGED <<steps, pel, acked, workerVars>>
    BY <1>1 DEF ApiStep, InsertExecution, Dispatch, DropRequest, AbortRead, AbortWrite,
                GrowStale
  <2>2. row' \in {row, Create(x), UpdateStatus(x, "aborted")}
    BY <1>1 DEF ApiStep, InsertExecution, Dispatch, DropRequest, AbortRead, AbortWrite,
                GrowStale
  <2>3. row'[e] \in {row[e], "queued", "aborted"}
    BY <2>2 DEF Create, UpdateStatus
  <2>4. QED
    BY <2>1, <2>3
<1>2. ASSUME NEW p \in Process, ProcessStep(p) PROVE NeverServed(e)'
  <2>1. UNCHANGED <<dbVars, pel, acked>>
    BY <1>2 DEF ProcessStep, Start, Signal, Exit, Crash, Gone
  <2>2. \A c \in Consumer : batch'[c] \in {batch[c], {}} /\ cur'[c] \in {cur[c], NoExecution}
    BY <1>2 DEF ProcessStep, Start, Signal, Exit, Crash, Gone
  <2>3. QED
    BY <2>1, <2>2
<1>3. ASSUME NEW c \in Consumer, Reclaim(c) PROVE NeverServed(e)'
  <2>1. e \notin Claimable
    BY DEF Claimable, Accounting
  <2>2. UNCHANGED <<dbVars, acked, cur>> /\ pel'[e] = pel[e]
    BY <1>3, <2>1 DEF Reclaim
  <2>3. \A d \in Consumer : batch'[d] \in {batch[d], Claimable}
    BY <1>3 DEF Reclaim
  <2>4. QED
    BY <2>1, <2>2, <2>3
<1>4. ASSUME NEW c \in Consumer, Read(c) PROVE NeverServed(e)'
  <2>1. proc[Host[c]] # "down" /\ Host[c] \in Process
    BY <1>4, HostAssumption DEF Read, Hands
  <2>2. cursor # NoGroup
    BY <2>1 DEF Accounting
  <2>3. e \notin Undelivered
    BY <2>2 DEF NotNext, Undelivered, NoGroup
  <2>4. PICK d \in Undelivered : /\ pel' \in {pel, [pel EXCEPT ![d] = c]}
                                 /\ batch' \in {batch, [batch EXCEPT ![c] = {d}]}
    BY <1>4 DEF Read
  <2>5. d # e /\ d \in Execution
    BY <2>3 DEF Undelivered
  <2>6. UNCHANGED <<dbVars, acked, cur>>
    BY <1>4 DEF Read
  <2>7. pel'[e] = pel[e] /\ \A x \in Consumer : batch'[x] \in {batch[x], {d}}
    BY <2>4, <2>5
  <2>8. \A x \in Consumer : e \notin batch'[x] /\ cur'[x] # e
    <3>1. \A x \in Consumer : e \notin batch[x] /\ cur[x] # e
      OBVIOUS
    <3>2. cur' = cur /\ \A x \in Consumer : batch'[x] = batch[x] \/ batch'[x] = {d}
      BY <2>6, <2>7
    <3>3. e \notin {d}
      BY <2>5
    <3>4. QED
      BY <3>1, <3>2, <3>3, Zenon
  <2>9. (~Pending(e) /\ e \notin acked)'
    BY <2>6, <2>7
  <2>10. (\A x \in Consumer : ~Holds(x, e))'
    BY <2>8
  <2>11. (row[e] \in {"none", "queued", "aborted"} /\ \A s \in Step : steps[e][s] = "none")'
    BY <2>6
  <2>12. QED
    BY <2>9, <2>10, <2>11
<1>5. ASSUME NEW c \in Consumer, TakeMessage(c) PROVE NeverServed(e)'
  <2>1. PICK d \in batch[c] : /\ cur' = [cur EXCEPT ![c] = d]
                              /\ batch' = [batch EXCEPT ![c] = @ \ {d}]
    BY <1>5 DEF TakeMessage
  <2>2. QED
    BY <1>5, <2>1 DEF TakeMessage
<1>6. ASSUME NEW c \in Consumer, Ack(c) PROVE NeverServed(e)'
  <2>1. cur[c] # e /\ cur[c] \in Execution
    BY <1>6 DEF Ack, Hands
  <2>2. UNCHANGED <<dbVars, batch>> /\ pel'[e] = pel[e] /\ acked' \subseteq acked \cup {cur[c]}
    BY <1>6, <2>1 DEF Ack
  <2>3. \A d \in Consumer : cur'[d] \in {cur[d], NoExecution}
    BY <1>6 DEF Ack
  <2>4. QED
    BY <2>1, <2>2, <2>3
<1>7. ASSUME NEW c \in Consumer, Load(c) \/ MarkRunning(c) \/ BeginStep(c) \/ RunStep(c)
                                   \/ SkipStep(c) \/ Finalize(c) \/ Loop(c) \/ ReadNothing(c)
      PROVE  NeverServed(e)'
  <2>1. UNCHANGED <<pel, acked, cur, batch>>
    BY <1>7, QueueUntouched DEF queueVars
  <2>2. CASE Loop(c) \/ ReadNothing(c)
    BY <2>1, <2>2 DEF Loop, ReadNothing
  <2>3. CASE ~(Loop(c) \/ ReadNothing(c))
    <3>1. cur[c] # e
      BY <1>7, <2>3 DEF Load, MarkRunning, BeginStep, RunStep, SkipStep, Finalize, Hands
    <3>2. row'[e] = row[e] /\ steps'[e] = steps[e]
      BY <1>7, <2>3, <3>1, OthersUntouched
    <3>3. QED
      BY <2>1, <3>2
  <2>4. QED
    BY <2>2, <2>3
<1>8. CASE UNCHANGED vars
  BY <1>8 DEF vars
<1>9. QED
  BY <1>1, <1>2, <1>3, <1>4, <1>5, <1>6, <1>7, <1>8 DEF Next, ConsumerStep

\* The group's cursor passes over the entry and does not come back.
LEMMA NextPassed ==
  ASSUME Typed, NEW e \in Execution, [Next]_vars
  PROVE  /\ cursor' = NoGroup => cursor = NoGroup
         /\ id[e] > 0 /\ NotNext(e) => id'[e] > 0 /\ NotNext(e)'
<1> USE DEF Typed, TypeOK, NotNext, Accounting, apiVars, streamVars
<1>1. ASSUME NEW x \in Execution, Dispatch(x)
      PROVE  cursor' = cursor /\ (id[e] > 0 => id'[e] = id[e])
  BY <1>1 DEF Dispatch
<1>2. ASSUME NEW p \in Process, Start(p)
      PROVE  /\ UNCHANGED id /\ cursor' \in Nat
             /\ id[e] > 0 /\ NotNext(e) => id[e] \in 1..cursor'
  BY <1>2 DEF Start, EnsuredCursor
<1>3. ASSUME NEW c \in Consumer, Read(c)
      PROVE  /\ UNCHANGED id /\ cursor' \in Nat
             /\ cursor # NoGroup /\ cursor' >= cursor
  <2>1. proc[Host[c]] # "down" /\ Host[c] \in Process
    BY <1>3, HostAssumption DEF Read, Hands
  <2>2. cursor # NoGroup
    BY <2>1
  <2>3. QED
    BY <1>3, <2>2 DEF Read, Undelivered, NoGroup
<1>4. ASSUME NEW x \in Execution, InsertExecution(x) \/ DropRequest(x) \/ AbortRead(x)
                                    \/ AbortWrite(x) \/ GrowStale(x)
      PROVE  UNCHANGED <<id, cursor>>
  BY <1>4 DEF InsertExecution, DropRequest, AbortRead, AbortWrite, GrowStale
<1>5. ASSUME NEW p \in Process, Signal(p) \/ Exit(p) \/ Crash(p)
      PROVE  UNCHANGED <<id, cursor>>
  BY <1>5 DEF Signal, Exit, Crash, Gone
<1>6. ASSUME NEW c \in Consumer, Reclaim(c) \/ TakeMessage(c) \/ Ack(c)
      PROVE  UNCHANGED <<id, cursor>>
  BY <1>6 DEF Reclaim, TakeMessage, Ack
<1>7. ASSUME NEW c \in Consumer, Load(c) \/ MarkRunning(c) \/ BeginStep(c) \/ RunStep(c)
                                   \/ SkipStep(c) \/ Finalize(c) \/ Loop(c) \/ ReadNothing(c)
      PROVE  UNCHANGED <<id, cursor>>
  BY <1>7, QueueUntouched DEF queueVars
<1>8. CASE UNCHANGED vars
  BY <1>8 DEF vars
<1>9. CASE UNCHANGED <<id, cursor>>
  BY <1>9
<1>10. QED
  <2>1. ASSUME NEW x \in Execution, Dispatch(x)
        PROVE  /\ cursor' = NoGroup => cursor = NoGroup
               /\ id[e] > 0 /\ NotNext(e) => id'[e] > 0 /\ NotNext(e)'
    BY <1>1, <2>1
  <2>2. ASSUME NEW p \in Process, Start(p)
        PROVE  /\ cursor' = NoGroup => cursor = NoGroup
               /\ id[e] > 0 /\ NotNext(e) => id'[e] > 0 /\ NotNext(e)'
    BY <1>2, <2>2 DEF NoGroup
  <2>3. ASSUME NEW c \in Consumer, Read(c)
        PROVE  /\ cursor' = NoGroup => cursor = NoGroup
               /\ id[e] > 0 /\ NotNext(e) => id'[e] > 0 /\ NotNext(e)'
    BY <1>3, <2>3 DEF NoGroup
  <2>4. QED
    BY <1>4, <1>5, <1>6, <1>7, <1>8, <1>9, <2>1, <2>2, <2>3
    DEF Next, ApiStep, ProcessStep, ConsumerStep, vars

\* Before there is a group no worker has had anything.
LEMMA NeverBefore ==
  ASSUME NEW e \in Execution
  PROVE  Spec => [](cursor = NoGroup => NeverServed(e))
<1>1. Init => NeverServed(e)
  BY NoneAssumption DEF Init, NeverServed, Pending, Holds
<1>2. Typed /\ (cursor = NoGroup => NeverServed(e)) /\ [Next]_vars
        => (cursor = NoGroup => NeverServed(e))'
  BY NextNever, NextPassed DEF NotNext
<1>3. QED
  BY <1>1, <1>2, TypedCorrect, PTL DEF Spec

\* The group is created at "$", behind the entries that are in the stream by then: an
\* execution that was dispatched before the first worker started, and was answered 201,
\* is never delivered to a worker nor acknowledged, and its row stays queued until a
\* user aborts it.
THEOREM BeforeGroupIsLost ==
  ASSUME NEW e \in Execution
  PROVE  Spec => [](id[e] > 0 /\ cursor = NoGroup => []NeverServed(e))
<1> DEFINE Passed == id[e] > 0 /\ NotNext(e) /\ NeverServed(e)
<1>1. Typed /\ Passed /\ [Next]_vars => Passed'
  BY NextNever, NextPassed
<1>2. id[e] > 0 /\ cursor = NoGroup /\ NeverServed(e) => Passed
  BY DEF NotNext
<1>3. Passed => NeverServed(e)
  OBVIOUS
<1> HIDE DEF Passed
<1>4. QED
  BY <1>1, <1>2, <1>3, NeverBefore, TypedCorrect, PTL DEF Spec

===============================================================================
