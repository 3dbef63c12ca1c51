---------------------------- MODULE StepRunnerProofs ----------------------------
(***************************************************************************)
(* Theorems about StepRunner, for any number of runners, steps and pids    *)
(* and for every behaviour of the steps' processes; and about splitCommand, *)
(* for any characters and words.                                           *)
(***************************************************************************)
EXTENDS StepRunner, SequenceTheorems, WellFoundedInduction, TLAPS

\* A running child keeps its runner where it has not been waited for, and a child that
\* was waited for has ended.
ChildOf(r) ==
  /\ exit[r] = "runs" => pc[r] \in {"drain", "wait"} /\ r \in script
  /\ pc[r] \in {"drain", "wait"} => exit[r] \in Ended \cup {"runs"} /\ result[r] = "none"
  /\ pc[r] \in {"check", "grace"} => exit[r] \in Ended
  /\ r \in script => pc[r] # "idle"

\* Nobody has a pipe of runner r's step open for writing.
Closed(r) == \A p \in procs : p.step = step[r] => ~p.holds

\* A stream that has ended was read to its end, and stays so.
OutputOf(r) ==
  /\ pc[r] = "drain" /\ eof[r] # {} => Closed(r)
  /\ pc[r] = "drain" => \A s \in eof[r] : pipe[r][s] = <<>>
  /\ pc[r] # "drain" => rest[r] = {} /\ \A s \in Stream : pipe[r][s] = <<>>
  /\ pc[r] \notin {"drain", "idle"} => Closed(r)

ResultOf(r) ==
  /\ result[r] = "zero" => exit[r] = "zero" /\ r \notin sent
  /\ exit[r] \in {"nonzero", "signal"} /\ pc[r] \notin {"drain", "wait"} =>
       result[r] = "nonzero"

Running == \A r \in Runner : ChildOf(r) /\ OutputOf(r) /\ ResultOf(r)

IInv == TypeOK /\ Running

-------------------------------------------------------------------------------
LEMMA InitInv == Init => IInv
  BY NamesAssumption
  DEF Init, IInv, TypeOK, Running, ChildOf, OutputOf, ResultOf, Ended, Closed

\* What the end of some processes does to the runners: a child that was running may
\* have ended, and nothing else.
LEMMA EndOf ==
  ASSUME TypeOK, NEW D, NEW hows \in SUBSET Ended, End(D, hows)
  PROVE  /\ procs' \subseteq procs
         /\ exit' \in [Runner -> Ended \cup {"none", "runs"}]
         /\ \A r \in Runner : exit'[r] = exit[r] \/ (exit[r] = "runs" /\ exit'[r] \in hows)
BY DEF End

\* A step that leaves the runners where they are, and only ends processes or adds
\* some that hold no pipe that is not held already.
LEMMA RunningStable ==
  ASSUME IInv, UNCHANGED <<pc, step, script, result, pipe, rest, eof>>,
         \A r \in Runner : \/ exit'[r] = exit[r]
                           \/ exit[r] = "runs" /\ exit'[r] \in Ended,
         \A r \in Runner : pc[r] \notin {"drain", "wait"} => (r \in sent <=> r \in sent'),
         \A p \in procs' : p.holds =>
           \E q \in procs : q.step = p.step /\ q.holds
  PROVE  Running'
<1> SUFFICES ASSUME NEW r \in Runner
             PROVE  (ChildOf(r) /\ OutputOf(r) /\ ResultOf(r))'
  BY DEF Running
<1>1. ChildOf(r) /\ OutputOf(r) /\ ResultOf(r) /\ r \in Runner
  BY DEF IInv, Running
<1>2. Closed(r) => Closed(r)'
  BY DEF Closed
<1>3. OutputOf(r)'
  BY <1>1, <1>2 DEF OutputOf
<1>4. ChildOf(r)'
  BY <1>1 DEF ChildOf, Ended
<1>5. ResultOf(r)'
  BY <1>1 DEF ResultOf, ChildOf, Ended, IInv, TypeOK
<1>6. QED
  BY <1>3, <1>4, <1>5

\* A step of runner r: the others keep their places, and no process holds a pipe of
\* theirs that was closed.
LEMMA RunningOf ==
  ASSUME IInv, NEW r \in Runner,
         \A q \in Runner : q # r =>
           /\ pc'[q] = pc[q] /\ step'[q] = step[q] /\ result'[q] = result[q]
           /\ pipe'[q] = pipe[q] /\ rest'[q] = rest[q] /\ eof'[q] = eof[q]
           /\ (q \in script <=> q \in script') /\ (q \in sent <=> q \in sent')
           /\ \/ exit'[q] = exit[q]
              \/ exit[q] = "runs" /\ exit'[q] \in Ended,
         \A q \in Runner : q # r /\ pc[q] # "idle" /\ Closed(q) => Closed(q)',
         (ChildOf(r) /\ OutputOf(r) /\ ResultOf(r))'
  PROVE  Running'
<1> SUFFICES ASSUME NEW q \in Runner, q # r
             PROVE  (ChildOf(q) /\ OutputOf(q) /\ ResultOf(q))'
  BY DEF Running
<1>1. ChildOf(q) /\ OutputOf(q) /\ ResultOf(q) /\ q \in Runner
  BY DEF IInv, Running
<1>2. OutputOf(q)'
  BY <1>1 DEF OutputOf
<1>3. ChildOf(q)'
  BY <1>1 DEF ChildOf, Ended
<1>4. ResultOf(q)'
  BY <1>1 DEF ResultOf, ChildOf, Ended
<1>5. QED
  BY <1>2, <1>3, <1>4

-------------------------------------------------------------------------------
LEMMA TypeStep ==
  ASSUME TypeOK, NEW r \in Runner, RunnerStep(r)
  PROVE  TypeOK'
<1> USE NamesAssumption
<1>1. CASE Begin(r)
  <2>1. PICK n \in Step : Begin(r)!2!(n)
    BY <1>1 DEF Begin
  <2>2. CASE \E pid \in FreePid :
               /\ pc' = [pc EXCEPT ![r] = "drain"]
               /\ child' = [child EXCEPT ![r] = pid]
               /\ exit' = [exit EXCEPT ![r] = "runs"]
               /\ script' = script \cup {r}
               /\ result' = [result EXCEPT ![r] = "none"]
               /\ procs' = procs \cup
                    {[pid |-> pid, group |-> pid, step |-> n, holds |-> TRUE]}
    <3>1. PICK pid \in FreePid :
            /\ pc' = [pc EXCEPT ![r] = "drain"]
            /\ child' = [child EXCEPT ![r] = pid]
            /\ exit' = [exit EXCEPT ![r] = "runs"]
            /\ script' = script \cup {r}
            /\ result' = [result EXCEPT ![r] = "none"]
            /\ procs' = procs \cup
                 {[pid |-> pid, group |-> pid, step |-> n, holds |-> TRUE]}
      BY <2>2
    <3>2. pid \in Pid /\ \A p \in procs : p.pid # pid
      BY <3>1 DEF FreePid
    <3>3. procs' \subseteq Proc /\ \A p, q \in procs' : p.pid = q.pid => p = q
      <4> DEFINE new == [pid |-> pid, group |-> pid, step |-> n, holds |-> TRUE]
      <4>1. new \in Proc /\ new.pid = pid
        BY <2>1, <3>2 DEF Proc
      <4> HIDE DEF new
      <4>2. procs' = procs \cup {new}
        BY <3>1 DEF new
      <4>3. QED
        BY <3>2, <4>1, <4>2 DEF TypeOK
    <3>4. step' = [step EXCEPT ![r] = n] /\ expired' = expired \ {r} /\ sent' = sent \ {r}
          /\ eof' = [eof EXCEPT ![r] = {}] /\ UNCHANGED <<pipe, rest>>
      BY <1>1, <2>1 DEF Begin
    <3>5. QED
      BY <3>1, <3>2, <3>3, <3>4 DEF TypeOK
  <2>3. CASE /\ child' = [child EXCEPT ![r] = NoPid]
             /\ exit' = [exit EXCEPT ![r] = "none"]
             /\ result' = [result EXCEPT ![r] = "error"]
             /\ script' = BuildFailed(r)
             /\ UNCHANGED <<pc, procs>>
    BY <1>1, <2>1, <2>3 DEF Begin, BuildFailed, TypeOK
  <2>4. QED
    BY <2>1, <2>2, <2>3
<1>2. CASE Expire(r)
  BY <1>2 DEF Expire, TypeOK, streamVars
<1>3. CASE SendKill(r)
  BY <1>3, EndOf DEF SendKill, TypeOK, stepVars, streamVars, Ended
<1>4. CASE Flush(r)
  BY <1>4 DEF Flush, TypeOK, stepVars
<1>5. CASE Wait(r)
  BY <1>5 DEF Wait, Answer, TypeOK, streamVars
<1>6. CASE Check(r) \/ GroupGone(r) \/ GraceOver(r)
  <2>1. exit' \in [Runner -> Ended \cup {"none", "runs"}] /\ procs' \subseteq procs
    BY <1>6, EndOf DEF Check, GroupGone, GraceOver, TypeOK, Ended
  <2>2. QED
    BY <1>6, <2>1 DEF Check, GroupGone, GraceOver, Return, TypeOK, streamVars
<1>7. ASSUME NEW s \in Stream, Copy(r, s) \/ Eof(r, s) PROVE TypeOK'
  <2>1. CASE Copy(r, s)
    <3>1. pipe[r] \in [Stream -> Seq(Chunk)] /\ pipe[r][s] \in Seq(Chunk) /\ pipe[r][s] # <<>>
      BY <2>1 DEF Copy, TypeOK
    <3>2. pipe' \in [Runner -> [Stream -> Seq(Chunk)]]
      BY <2>1, <3>1 DEF Copy, TypeOK
    <3>3. QED
      BY <2>1, <3>2 DEF Copy, TypeOK, stepVars
  <2>2. CASE Eof(r, s)
    BY <2>2 DEF Eof, TypeOK, stepVars
  <2>3. QED
    BY <1>7, <2>1, <2>2
<1>8. QED
  BY <1>1, <1>2, <1>3, <1>4, <1>5, <1>6, <1>7 DEF RunnerStep

LEMMA ProcessTypeStep ==
  ASSUME TypeOK, NEW p \in procs,
         Exit(p) \/ Fork(p) \/ \E r \in Runner : Emit(r, p)
  PROVE  TypeOK'
<1>1. CASE Exit(p)
  BY <1>1, EndOf DEF Exit, TypeOK, stepVars, streamVars, Ended
<1>2. CASE Fork(p)
  <2>1. PICK pid \in FreePid, holds \in BOOLEAN :
          procs' = procs \cup {[p EXCEPT !.pid = pid, !.holds = holds]}
    BY <1>2 DEF Fork
  <2>2. [p EXCEPT !.pid = pid, !.holds = holds] \in Proc
    BY <2>1 DEF TypeOK, Proc, FreePid
  <2>3. [p EXCEPT !.pid = pid, !.holds = holds].pid = pid
    BY DEF TypeOK, Proc
  <2>4. \A q \in procs : q.pid # pid
    BY <2>1 DEF FreePid
  <2>5. QED
    BY <1>2, <2>1, <2>2, <2>3, <2>4 DEF Fork, TypeOK, stepVars, streamVars
<1>3. ASSUME NEW r \in Runner, Emit(r, p) PROVE TypeOK'
  <2>1. PICK s \in Stream, c \in Chunk : pipe' = [pipe EXCEPT ![r][s] = Append(@, c)]
    BY <1>3 DEF Emit
  <2>2. pipe[r] \in [Stream -> Seq(Chunk)] /\ pipe[r][s] \in Seq(Chunk)
    BY DEF TypeOK
  <2>3. pipe' \in [Runner -> [Stream -> Seq(Chunk)]]
    BY <2>1, <2>2 DEF TypeOK
  <2>4. QED
    BY <1>3, <2>3 DEF Emit, TypeOK, stepVars
<1>4. QED
  BY <1>1, <1>2, <1>3

-------------------------------------------------------------------------------
LEMMA RunnerKeeps ==
  ASSUME IInv, NEW r \in Runner, RunnerStep(r)
  PROVE  Running'
<1> USE DEF IInv
<1>1. ChildOf(r) /\ OutputOf(r) /\ ResultOf(r)
  BY DEF Running
<1>2. CASE Begin(r)
  <2>1. PICK n \in Step : Begin(r)!2!(n)
    BY <1>2 DEF Begin
  <2>2. /\ pc[r] = "idle" /\ rest[r] = {} /\ \A s \in Stream : pipe[r][s] = <<>>
        /\ step' = [step EXCEPT ![r] = n] /\ sent' = sent \ {r}
        /\ eof' = [eof EXCEPT ![r] = {}] /\ UNCHANGED <<pipe, rest>>
    BY <1>1, <1>2, <2>1 DEF Begin, OutputOf
  <2>3. CASE \E pid \in FreePid :
               /\ pc' = [pc EXCEPT ![r] = "drain"]
               /\ child' = [child EXCEPT ![r] = pid]
               /\ exit' = [exit EXCEPT ![r] = "runs"]
               /\ script' = script \cup {r}
               /\ result' = [result EXCEPT ![r] = "none"]
               /\ procs' = procs \cup
                    {[pid |-> pid, group |-> pid, step |-> n, holds |-> TRUE]}
    <3>1. /\ pc'[r] = "drain" /\ exit'[r] = "runs" /\ r \in script' /\ result'[r] = "none"
          /\ eof'[r] = {}
      BY <2>2, <2>3 DEF TypeOK
    <3>2. (ChildOf(r) /\ OutputOf(r) /\ ResultOf(r))'
      BY <3>1 DEF ChildOf, OutputOf, ResultOf
    <3>3. \A q \in Runner : q # r /\ pc[q] # "idle" /\ Closed(q) => Closed(q)'
      <4>1. \A q \in Runner : q # r /\ pc[q] # "idle" => step'[q] = step[q] /\ step[q] # n
        BY <2>1, <2>2 DEF TypeOK
      <4>2. \A p \in procs' : p \in procs \/ p.step = n
        BY <2>3
      <4>3. QED
        BY <4>1, <4>2 DEF Closed
    <3>4. QED
      BY <2>2, <2>3, <3>2, <3>3, RunningOf DEF TypeOK
  <2>4. CASE /\ child' = [child EXCEPT ![r] = NoPid]
             /\ exit' = [exit EXCEPT ![r] = "none"]
             /\ result' = [result EXCEPT ![r] = "error"]
             /\ script' = BuildFailed(r)
             /\ UNCHANGED <<pc, procs>>
    <3>1. /\ pc'[r] = "idle" /\ exit'[r] = "none" /\ r \notin script' /\ result'[r] = "error"
          /\ rest'[r] = rest[r] /\ pipe'[r] = pipe[r]
      BY <2>2, <2>4 DEF TypeOK, BuildFailed
    <3>2. (ChildOf(r) /\ OutputOf(r) /\ ResultOf(r))'
      BY <2>2, <3>1 DEF ChildOf, OutputOf, ResultOf, Ended
    <3>3. \A q \in Runner : q # r /\ Closed(q) => Closed(q)'
      BY <2>2, <2>4 DEF Closed, TypeOK
    <3>4. QED
      BY <2>2, <2>4, <3>2, <3>3, RunningOf DEF TypeOK, BuildFailed
  <2>5. QED
    BY <2>1, <2>3, <2>4
<1>3. CASE Expire(r)
  BY <1>3, RunningStable DEF Expire, streamVars
<1>4. CASE SendKill(r)
  <2>1. /\ procs' \subseteq procs
        /\ \A q \in Runner : exit'[q] = exit[q] \/ (exit[q] = "runs" /\ exit'[q] \in Ended)
    BY <1>4, EndOf DEF SendKill, Ended
  <2>2. QED
    BY <1>4, <2>1, RunningStable DEF SendKill, stepVars, streamVars
<1>5. ASSUME NEW s \in Stream, Copy(r, s) PROVE Running'
  <2>1. /\ pc[r] = "drain" /\ pipe[r][s] # <<>>
        /\ UNCHANGED <<pc, stepVars, exit, sent, eof, procs>>
        /\ pipe' = [pipe EXCEPT ![r][s] = Tail(@)]
        /\ \A q \in Runner : q # r => rest'[q] = rest[q]
    BY <1>5 DEF Copy, TypeOK
  <2>2. \A x \in eof[r] : pipe'[r][x] = pipe[r][x]
    <3>1. s \notin eof[r]
      BY <1>1, <2>1 DEF OutputOf
    <3>2. QED
      BY <2>1, <3>1 DEF TypeOK
  <2>3. \A q \in Runner : Closed(q)' <=> Closed(q)
    BY <2>1 DEF Closed, stepVars
  <2>4. (ChildOf(r) /\ OutputOf(r) /\ ResultOf(r))'
    BY <1>1, <2>1, <2>2, <2>3 DEF ChildOf, OutputOf, ResultOf, stepVars
  <2>5. \A q \in Runner : q # r => pipe'[q] = pipe[q]
    BY <2>1 DEF TypeOK
  <2>6. QED
    BY <2>1, <2>3, <2>4, <2>5, RunningOf DEF stepVars
<1>6. ASSUME NEW s \in Stream, Eof(r, s) PROVE Running'
  <2>1. /\ pc[r] = "drain" /\ pipe[r][s] = <<>> /\ Closed(r)
        /\ UNCHANGED <<pc, stepVars, exit, sent, pipe, rest, procs>>
        /\ eof' = [eof EXCEPT ![r] = @ \cup {s}]
    BY <1>6 DEF Eof, Closed
  <2>2. eof'[r] = eof[r] \cup {s} /\ \A q \in Runner : q # r => eof'[q] = eof[q]
    BY <2>1 DEF TypeOK
  <2>3. \A q \in Runner : Closed(q)' <=> Closed(q)
    BY <2>1 DEF Closed, stepVars
  <2>4. (ChildOf(r) /\ OutputOf(r) /\ ResultOf(r))'
    BY <1>1, <2>1, <2>2, <2>3 DEF ChildOf, OutputOf, ResultOf, stepVars
  <2>5. QED
    BY <2>1, <2>2, <2>3, <2>4, RunningOf DEF stepVars
<1>7. CASE Flush(r)
  <2>1. /\ pc[r] = "drain" /\ eof[r] = Stream /\ UNCHANGED <<stepVars, exit, sent, pipe, eof, procs>>
        /\ rest' = [rest EXCEPT ![r] = {}] /\ pc' = [pc EXCEPT ![r] = "wait"]
    BY <1>7 DEF Flush, Drained
  <2>2. /\ pc'[r] = "wait" /\ rest'[r] = {}
        /\ \A q \in Runner : q # r => pc'[q] = pc[q] /\ rest'[q] = rest[q]
    BY <2>1 DEF TypeOK
  <2>3. \A q \in Runner : Closed(q)' <=> Closed(q)
    BY <2>1 DEF Closed, stepVars
  <2>4. Closed(r) /\ \A s \in Stream : pipe[r][s] = <<>>
    BY <1>1, <2>1 DEF OutputOf, Stream
  <2>5. (ChildOf(r) /\ OutputOf(r) /\ ResultOf(r))'
    BY <1>1, <2>1, <2>2, <2>3, <2>4 DEF ChildOf, OutputOf, ResultOf, stepVars
  <2>6. QED
    BY <2>1, <2>2, <2>3, <2>5, RunningOf DEF stepVars
<1>8. CASE Wait(r)
  <2>1. /\ pc[r] = "wait" /\ exit[r] \in Ended
        /\ UNCHANGED <<step, child, expired, script, exit, sent, streamVars, procs>>
        /\ pc' = [pc EXCEPT ![r] = "check"]
        /\ result' = [result EXCEPT ![r] = Answer(r)]
    BY <1>8 DEF Wait
  <2>2. /\ pc'[r] = "check" /\ result'[r] = Answer(r)
        /\ \A q \in Runner : q # r => pc'[q] = pc[q] /\ result'[q] = result[q]
    BY <2>1 DEF TypeOK
  <2>3. \A q \in Runner : Closed(q)' <=> Closed(q)
    BY <2>1 DEF Closed
  <2>4. /\ Answer(r) = "zero" => exit[r] = "zero" /\ r \notin sent
        /\ exit[r] \in {"nonzero", "signal"} => Answer(r) = "nonzero"
    BY <2>1 DEF Answer
  <2>5. (ChildOf(r) /\ OutputOf(r) /\ ResultOf(r))'
    BY <1>1, <2>1, <2>2, <2>3, <2>4 DEF ChildOf, OutputOf, ResultOf, streamVars, Ended
  <2>6. QED
    BY <2>1, <2>2, <2>3, <2>5, RunningOf DEF streamVars
<1>9. CASE Check(r) \/ GroupGone(r) \/ GraceOver(r)
  <2>1. /\ procs' \subseteq procs
        /\ \A q \in Runner : exit'[q] = exit[q] \/ (exit[q] = "runs" /\ exit'[q] \in Ended)
    BY <1>9, EndOf DEF Check, GroupGone, GraceOver, Ended
  <2>2. /\ pc[r] \in {"check", "grace"} /\ pc'[r] \in {"grace", "idle"}
        /\ pc'[r] = "idle" => r \notin script'
        /\ UNCHANGED <<step, child, expired, result, sent, streamVars>>
        /\ \A q \in Runner : q # r => pc'[q] = pc[q] /\ (q \in script <=> q \in script')
    BY <1>9 DEF Check, GroupGone, GraceOver, Return, TypeOK
  <2>3. \A q \in Runner : Closed(q) => Closed(q)'
    BY <2>1, <2>2 DEF Closed
  <2>4. exit'[r] = exit[r] /\ exit[r] \in Ended
    BY <1>1, <2>1, <2>2 DEF ChildOf, Ended
  <2>5. (ChildOf(r) /\ OutputOf(r) /\ ResultOf(r))'
    BY <1>1, <2>2, <2>3, <2>4 DEF ChildOf, OutputOf, ResultOf, streamVars, Ended
  <2>6. QED
    BY <2>1, <2>2, <2>3, <2>5, RunningOf DEF streamVars
<1>10. QED
  BY <1>2, <1>3, <1>4, <1>5, <1>6, <1>7, <1>8, <1>9, RunnerStep(r) DEF RunnerStep

LEMMA ProcessKeeps ==
  ASSUME IInv, NEW p \in procs,
         Exit(p) \/ Fork(p) \/ \E r \in Runner : Emit(r, p)
  PROVE  Running'
<1> USE DEF IInv
<1>1. CASE Exit(p)
  <2>1. /\ procs' \subseteq procs
        /\ \A q \in Runner : exit'[q] = exit[q] \/ (exit[q] = "runs" /\ exit'[q] \in Ended)
    BY <1>1, EndOf DEF Exit, Ended
  <2>2. QED
    BY <1>1, <2>1, RunningStable DEF Exit, stepVars, streamVars
<1>2. CASE Fork(p)
  <2>1. PICK pid \in FreePid, holds \in BOOLEAN :
          /\ IF holds THEN "inherit" \in Does /\ p.holds ELSE "daemon" \in Does
          /\ procs' = procs \cup {[p EXCEPT !.pid = pid, !.holds = holds]}
    BY <1>2 DEF Fork
  <2>2. /\ [p EXCEPT !.pid = pid, !.holds = holds].step = p.step
        /\ [p EXCEPT !.pid = pid, !.holds = holds].holds = holds
    BY DEF TypeOK, Proc
  <2>3. \A q \in procs' : q.holds => \E x \in procs : x.step = q.step /\ x.holds
    BY <2>1, <2>2
  <2>4. QED
    BY <1>2, <2>3, RunningStable DEF Fork, stepVars, streamVars
<1>3. ASSUME NEW r \in Runner, Emit(r, p) PROVE Running'
  <2>1. /\ pc[r] = "drain" /\ ~Closed(r)
        /\ UNCHANGED <<pc, stepVars, exit, sent, rest, eof, procs>>
        /\ \A q \in Runner : q # r => pipe'[q] = pipe[q]
    BY <1>3 DEF Emit, Closed, TypeOK
  <2>2. \A q \in Runner : Closed(q)' <=> Closed(q)
    BY <2>1 DEF Closed, stepVars
  <2>3. ChildOf(r) /\ OutputOf(r) /\ ResultOf(r)
    BY DEF Running
  <2>4. (ChildOf(r) /\ OutputOf(r) /\ ResultOf(r))'
    BY <2>1, <2>2, <2>3 DEF ChildOf, OutputOf, ResultOf, stepVars
  <2>5. QED
    BY <2>1, <2>2, <2>4, RunningOf DEF stepVars
<1>4. QED
  BY <1>1, <1>2, <1>3

LEMMA InvCorrect == Spec => []IInv
<1>1. IInv /\ [Next]_vars => IInv'
  <2>1. ASSUME IInv, UNCHANGED vars PROVE IInv'
    BY <2>1 DEF IInv, TypeOK, Running, ChildOf, OutputOf, ResultOf, Closed, vars, stepVars,
       streamVars
  <2>2. ASSUME IInv, Next PROVE IInv'
    BY <2>2, TypeStep, ProcessTypeStep, RunnerKeeps, ProcessKeeps DEF Next, IInv
  <2>3. QED
    BY <2>1, <2>2
<1>2. QED
  BY <1>1, InitInv, PTL DEF Spec

-------------------------------------------------------------------------------
\* Type correctness; no two processes that run have the same pid.
THEOREM StepsTypeCorrect == Spec => []TypeOK
<1>1. IInv => TypeOK
  BY DEF IInv
<1>2. QED
  BY <1>1, InvCorrect, PTL

\* When runStep waits for the child, everything the step's processes wrote has been
\* through the log writers, and nobody can write any more.
THEOREM OutputLogged == Spec => []OutputIsLogged
<1>1. IInv => OutputIsLogged
  BY DEF IInv, Running, OutputOf, OutputIsLogged, Closed
<1>2. QED
  BY <1>1, InvCorrect, PTL

\* runStep returns 0 only for a child that exited with 0 and was not killed, and an exit
\* code for every child that did not, whenever the context ends and whichever process
\* has the child's pid by then.
THEOREM ResultHonest == Spec => []ResultIsHonest
<1>1. IInv => ResultIsHonest
  BY DEF IInv, Running, ResultOf, ResultIsHonest
<1>2. QED
  BY <1>1, InvCorrect, PTL

\* The temporary script file is there while the child runs and is gone after the step.
THEOREM ScriptWithChild == Spec => []ScriptLivesWithChild
<1>1. IInv => ScriptLivesWithChild
  BY DEF IInv, Running, ChildOf, ScriptLivesWithChild
<1>2. QED
  BY <1>1, InvCorrect, PTL

-------------------------------------------------------------------------------
(* splitCommand.  What its loop has after the first characters of a line is   *)
(* found by induction on their number, which is the well-foundedness of the  *)
(* natural numbers.                                                          *)

\* Induction up to n, for a set: what has every k whose predecessors it has.
LEMMA UpTo ==
  ASSUME NEW n \in Nat, NEW S,
         \A k \in 0..n : 0..(k - 1) \subseteq S => k \in S
  PROVE  0..n \subseteq S
<1> DEFINE R == OpToRel(<, Nat)
           T == (0..n) \ S
<1>1. SUFFICES ASSUME T # {} PROVE FALSE
  OBVIOUS
<1>2. IsWellFoundedOn(R, Nat)
  BY NatLessThanWellFounded
<1>3. \A x, y \in Nat : x < y => <<x, y>> \in R
  BY DEF OpToRel
<1>4. T \subseteq Nat
  OBVIOUS
<1> HIDE DEF R, T
<1>5. PICK k \in T : \A x \in T : ~ (<<x, k>> \in R)
  BY <1>1, <1>2, <1>4, WFMin
<1>6. \A x \in T : ~ (x < k)
  BY <1>3, <1>4, <1>5
<1>7. k \in 0..n /\ k \notin S
  BY DEF T
<1>8. 0..(k - 1) \subseteq S
  BY <1>6, <1>7 DEF T
<1>9. QED
  BY <1>7, <1>8

Text == Seq(Char)

State == [parts : Seq(Text), current : Text, quote : Quote \cup {"none"}]

LEMMA ScanType ==
  ASSUME NEW st \in State, NEW c \in Char
  PROVE  Cut(st) \in State /\ Scan(st, c) \in State
<1>1. Cut(st) \in State
  <2>1. st.parts \in Seq(Text) /\ st.current \in Text /\ <<>> \in Text
    BY DEF State, Text
  <2>2. Append(st.parts, st.current) \in Seq(Text)
    <3> HIDE DEF Text
    <3>1. QED
      BY <2>1, AppendProperties
  <2>3. [st EXCEPT !.parts = Append(st.parts, st.current), !.current = <<>>] \in State
    <3> HIDE DEF Text
    <3>1. QED
      BY <2>1, <2>2 DEF State
  <2>4. QED
    BY <2>3 DEF Cut
<1>2. st.current \in Text /\ Append(st.current, c) \in Text
  BY DEF State, Text
<1>3. \A q \in Quote \cup {"none"} : [st EXCEPT !.quote = q] \in State
  BY DEF State
<1>4. [st EXCEPT !.current = Append(st.current, c)] \in State
  BY <1>2 DEF State
<1> HIDE DEF State
<1>5. QED
  BY <1>1, <1>3, <1>4 DEF Scan

\* The recursive function is one.
LEMMA ScannedDef ==
  ASSUME NEW command \in Text
  PROVE  Scanned(command) =
           [i \in 0..Len(command) |->
              IF i = 0 THEN Scanner ELSE Scan(Scanned(command)[i - 1], command[i])]
<1> DEFINE n == Len(command)
           F(g, m) == [i \in 0..m |-> IF i = 0 THEN Scanner
                                               ELSE Scan(g[i - 1], command[i])]
           P(g) == g = F(g, n)
           S == {m \in Nat : \E g : g = F(g, m)}
<1>1. n \in Nat
  BY DEF Text
<1>2. \A k \in 0..n : 0..(k - 1) \subseteq S => k \in S
  <2> SUFFICES ASSUME NEW k \in 0..n, 0..(k - 1) \subseteq S
               PROVE  \E g : g = F(g, k)
    <3> HIDE DEF F
    <3>1. TAKE k \in 0..n
    <3>2. HAVE 0..(k - 1) \subseteq S
    <3>3. k \in Nat
      BY <1>1
    <3>4. QED
      BY <3>2, <3>3
  <2>1. CASE k = 0
    <3>1. [i \in 0..0 |-> Scanner] = F([i \in 0..0 |-> Scanner], 0)
      OBVIOUS
    <3>2. QED
      BY <2>1, <3>1
  <2>2. CASE k # 0
    <3>1. k - 1 \in 0..(k - 1)
      BY <2>2
    <3>2. PICK g : g = F(g, k - 1)
      BY <3>1
    <3>3. DEFINE h == [i \in 0..k |-> IF i = k THEN Scan(g[k - 1], command[k]) ELSE g[i]]
    <3>4. \A i \in 0..(k - 1) : h[i] = g[i]
      BY <3>1
    <3>5. ASSUME NEW i \in 0..k
          PROVE  h[i] = IF i = 0 THEN Scanner ELSE Scan(h[i - 1], command[i])
      <4>1. CASE i = k
        BY <2>2, <3>1, <3>4, <4>1
      <4>2. CASE i # k
        <5>1. i \in 0..(k - 1)
          BY <4>2
        <5>2. g[i] = IF i = 0 THEN Scanner ELSE Scan(g[i - 1], command[i])
          BY <3>2, <5>1
        <5>3. i # 0 => i - 1 \in 0..(k - 1)
          BY <5>1
        <5>4. QED
          BY <3>4, <5>1, <5>2, <5>3
      <4>3. QED
        BY <4>1, <4>2
    <3>6. h = F(h, k)
      BY <3>5
    <3>7. QED
      BY <3>6
  <2>3. QED
    BY <2>1, <2>2
<1>3. \E g : P(g)
  <2> HIDE DEF F
  <2>1. n \in S
    <3> HIDE DEF S
    <3>1. 0..n \subseteq S
      BY <1>1, <1>2, UpTo
    <3>2. QED
      BY <1>1, <3>1
  <2>2. QED
    BY <2>1
<1>4. Scanned(command) = CHOOSE g : P(g)
  BY DEF Scanned
<1>5. P(CHOOSE g : P(g))
  <2> HIDE DEF P
  <2>1. QED
    BY <1>3, Zenon
<1>6. P(Scanned(command))
  <2> HIDE DEF P
  <2>1. QED
    BY <1>4, <1>5, Zenon
<1>7. QED
  BY <1>6

\* Concatenation by a name: its definition is expanded only where it is needed.
Join(s, t) == s \o t

LEMMA Snoc ==
  ASSUME NEW C, NEW s \in Seq(C), NEW c \in C
  PROVE  /\ Len(s) \in Nat
         /\ s \o <<c>> \in Seq(C) /\ Len(s \o <<c>>) = Len(s) + 1
         /\ (s \o <<c>>)[Len(s) + 1] = c
         /\ \A i \in 1..Len(s) : (s \o <<c>>)[i] = s[i]
<1>1. <<c>> \in Seq(C) /\ Len(<<c>>) = 1 /\ <<c>>[1] = c /\ Len(s) \in Nat
  OBVIOUS
<1> DEFINE t == <<c>>
<1> HIDE DEF t
<1>2. /\ s \o t \in Seq(C) /\ Len(s \o t) = Len(s) + Len(t)
      /\ \A i \in 1..(Len(s) + Len(t)) :
           (s \o t)[i] = IF i =< Len(s) THEN s[i] ELSE t[i - Len(s)]
  BY <1>1, ConcatProperties DEF t
<1>3. QED
  BY <1>1, <1>2 DEF t

\* One more character is one more step of the loop.
Result(command) == Scanned(command)[Len(command)]

LEMMA ScannedType ==
  ASSUME NEW command \in Text
  PROVE  Scanned(command) \in [0..Len(command) -> State]
<1> DEFINE n == Len(command)
           S == {m \in 0..n : Scanned(command)[m] \in State}
<1>1. n \in Nat
  BY DEF Text
<1>2. Scanner \in State
  BY DEF Scanner, State, Text
<1>3. ASSUME NEW k \in 0..n, 0..(k - 1) \subseteq S
      PROVE  k \in S
  <2>1. CASE k = 0
    <3>1. Scanned(command)[k] = Scanner
      BY <2>1, ScannedDef
    <3>2. QED
      BY <1>2, <3>1
  <2>2. CASE k # 0
    <3>1. k - 1 \in S /\ command[k] \in Char
      BY <1>1, <1>3, <2>2 DEF Text
    <3>2. Scanned(command)[k] = Scan(Scanned(command)[k - 1], command[k])
      BY <2>2, ScannedDef
    <3>3. QED
      BY <3>1, <3>2, ScanType
  <2>3. QED
    BY <2>1, <2>2
<1>4. 0..n \subseteq S
  <2> HIDE DEF S
  <2>1. QED
    BY <1>1, <1>3, UpTo
<1>5. \A k \in 0..n : Scanned(command)[k] \in State
  BY <1>4
<1>6. QED
  BY <1>5, ScannedDef

LEMMA ResultSnoc ==
  ASSUME NEW line \in Text, NEW c \in Char
  PROVE  Result(Join(line, <<c>>)) = Scan(Result(line), c)
<1> DEFINE longer == line \o <<c>>
           n == Len(line)
           S == {m \in 0..n : Scanned(longer)[m] = Scanned(line)[m]}
<1>1. n \in Nat /\ longer \in Text /\ Len(longer) = n + 1
  BY Snoc DEF Text
<1>2. longer[n + 1] = c /\ \A i \in 1..n : longer[i] = line[i]
  BY Snoc DEF Text
<1> HIDE DEF longer
<1>3. ASSUME NEW k \in 0..n, 0..(k - 1) \subseteq S
      PROVE  k \in S
  <2>1. CASE k = 0
    BY <1>1, <2>1, ScannedDef
  <2>2. CASE k # 0
    <3>1. k - 1 \in S /\ k \in 0..(n + 1)
      BY <1>1, <1>3, <2>2
    <3>2. Scanned(longer)[k] = Scan(Scanned(longer)[k - 1], longer[k])
      BY <1>1, <2>2, <3>1, ScannedDef
    <3>3. Scanned(line)[k] = Scan(Scanned(line)[k - 1], line[k])
      BY <1>1, <2>2, <3>1, ScannedDef
    <3>4. QED
      BY <1>2, <2>2, <3>1, <3>2, <3>3
  <2>3. QED
    BY <2>1, <2>2
<1>4. n \in S
  <2> HIDE DEF S
  <2>1. 0..n \subseteq S
    BY <1>1, <1>3, UpTo
  <2>2. QED
    BY <1>1, <2>1
<1>5. Scanned(longer)[n + 1] = Scan(Scanned(longer)[n], longer[n + 1])
  BY <1>1, ScannedDef
<1>6. QED
  BY <1>1, <1>2, <1>4, <1>5 DEF Result, longer, Join

LEMMA ResultType ==
  ASSUME NEW line \in Text
  PROVE  Result(line) \in State
<1>1. Len(line) \in Nat
  BY DEF Text
<1>2. QED
  BY <1>1, ScannedType DEF Result

LEMMA Joined ==
  ASSUME NEW s \in Text, NEW t \in Text
  PROVE  Join(s, t) \in Text
BY ConcatProperties DEF Text, Join

LEMMA JoinedInTurn ==
  ASSUME NEW s \in Text, NEW t \in Text, NEW u \in Text
  PROVE  Join(s, Join(t, u)) = Join(Join(s, t), u)
BY ConcatAssociative DEF Text, Join

LEMMA JoinedEmpty == <<>> \in Text /\ \A s \in Text : Join(s, <<>>) = s /\ Join(<<>>, s) = s
<1>1. <<>> \in Text
  BY EmptySeq DEF Text
<1>2. \A s \in Text : Join(s, <<>>) = s /\ Join(<<>>, s) = s
  BY ConcatEmptySeq DEF Text, Join
<1>3. QED
  BY <1>1, <1>2

\* A prefix of p that is longer by one character.
LEMMA OneMore ==
  ASSUME NEW p \in Text, NEW k \in 1..Len(p)
  PROVE  /\ SubSeq(p, 1, k - 1) \in Text /\ p[k] \in Char /\ <<p[k]>> \in Text
         /\ SubSeq(p, 1, k) = Join(SubSeq(p, 1, k - 1), <<p[k]>>)
<1>1. /\ Len(p) \in Nat /\ k \in Nat /\ 1 \in 1..Len(p) /\ k \in 1..Len(p)
      /\ \A i \in 1..Len(p) : p[i] \in Char
  BY LenProperties, ElementOfSeq DEF Text
<1>2. SubSeq(p, 1, k - 1) \in Text
  BY <1>1, SubSeqProperties DEF Text
<1>3. <<p[k]>> \in Text
  BY <1>1 DEF Text
<1>4. SubSeq(p, 1, k) = Join(SubSeq(p, 1, k - 1), <<p[k]>>)
  BY <1>1, SubSeqRecursiveSecond DEF Text, Join
<1>5. QED
  BY <1>1, <1>2, <1>3, <1>4

\* Characters that do not matter to the loop are copied.
LEMMA CopyRun ==
  ASSUME NEW l \in Text, NEW p \in Text,
         \A i \in 1..Len(p) :
           IF Result(l).quote = "none" THEN p[i] \notin Quote \cup Space
                                       ELSE p[i] # Result(l).quote
  PROVE  Result(Join(l, p)) = [Result(l) EXCEPT !.current = Join(@, p)]
<1> DEFINE n == Len(p)
           st == Result(l)
           upto(k) == SubSeq(p, 1, k)
           copied(k) == [st EXCEPT !.current = Join(st.current, upto(k))]
           S == {k \in 0..n : Result(Join(l, upto(k))) = copied(k)}
<1>1. n \in Nat /\ st \in State /\ st.current \in Text
  BY ResultType DEF State, Text
<1> HIDE DEF st
<1>2. ASSUME NEW k \in 0..n, 0..(k - 1) \subseteq S
      PROVE  k \in S
  <2>1. CASE k = 0
    <3>1. upto(k) = <<>>
      BY <2>1, SubSeqEmpty
    <3>2. Join(l, <<>>) = l /\ Join(st.current, <<>>) = st.current
      BY <1>1, JoinedEmpty
    <3>3. copied(k) = st
      BY <1>1, <3>1, <3>2 DEF State
    <3>4. QED
      BY <3>1, <3>2, <3>3 DEF st
  <2>2. CASE k # 0
    <3>1. k - 1 \in S /\ k \in 1..n
      <4>1. k - 1 \in 0..(k - 1) /\ k \in 1..n
        BY <1>1, <2>2
      <4> HIDE DEF S
      <4>2. QED
        BY <1>2, <4>1
    <3>2. /\ upto(k - 1) \in Text /\ p[k] \in Char /\ <<p[k]>> \in Text
          /\ upto(k) = Join(upto(k - 1), <<p[k]>>)
      BY <3>1, OneMore
    <3>3. ASSUME NEW s \in Text
          PROVE  /\ Join(s, upto(k)) = Join(Join(s, upto(k - 1)), <<p[k]>>)
                 /\ Join(s, upto(k - 1)) \in Text
      <4> HIDE DEF upto
      <4> QED
        BY <3>2, Joined, JoinedInTurn
    <3>4. Result(Join(l, upto(k))) = Scan(copied(k - 1), p[k])
      <4>1. Result(Join(l, upto(k - 1))) = copied(k - 1)
        BY <3>1
      <4> HIDE DEF upto, copied
      <4>2. QED
        BY <3>2, <3>3, <4>1, ResultSnoc
    <3>5. /\ copied(k - 1).quote = st.quote
          /\ copied(k - 1).current = Join(st.current, upto(k - 1))
      BY <1>1 DEF State
    <3>6. Scan(copied(k - 1), p[k]) =
            [copied(k - 1) EXCEPT !.current = Append(copied(k - 1).current, p[k])]
      <4>1. IF st.quote = "none" THEN p[k] \notin Quote \cup Space ELSE p[k] # st.quote
        BY <3>1 DEF st
      <4> HIDE DEF copied
      <4>2. QED
        BY <3>5, <4>1 DEF Scan, Closes
    <3>7. Append(copied(k - 1).current, p[k]) = Join(st.current, upto(k))
      <4>1. Join(st.current, upto(k - 1)) \in Text
        BY <1>1, <3>3
      <4> HIDE DEF upto
      <4>2. Append(Join(st.current, upto(k - 1)), p[k]) =
              Join(Join(st.current, upto(k - 1)), <<p[k]>>)
        BY <3>2, <4>1, AppendIsConcat DEF Text, Join
      <4>3. QED
        BY <1>1, <3>3, <3>5, <4>2
    <3>8. QED
      BY <1>1, <3>4, <3>6, <3>7 DEF State
  <2>3. QED
    BY <2>1, <2>2
<1>3. n \in S
  <2> HIDE DEF S
  <2>1. 0..n \subseteq S
    BY <1>1, <1>2, UpTo
  <2>2. QED
    BY <1>1, <2>1
<1>4. upto(n) = p
  BY SubSeqFull DEF Text
<1>5. QED
  BY <1>3, <1>4 DEF st

\* In quotes or not, a piece adds itself to the current word.
LEMMA PieceRun ==
  ASSUME NEW l \in Text, NEW p \in Text, NEW v \in Quoted(p), Result(l).quote = "none"
  PROVE  v \in Text /\ Result(Join(l, v)) = [Result(l) EXCEPT !.current = Join(@, p)]
<1> DEFINE st == Result(l)
<1>1. st \in State /\ st.current \in Text /\ DOMAIN p = 1..Len(p)
  BY ResultType DEF State, Text
<1>2. CASE v = p /\ {p[i] : i \in DOMAIN p} \cap (Quote \cup Space) = {}
  <2>1. \A i \in 1..Len(p) : p[i] \notin Quote \cup Space
    BY <1>1, <1>2
  <2>2. QED
    BY <1>2, <2>1, CopyRun
<1>3. ASSUME NEW q \in Quote, q \notin {p[i] : i \in DOMAIN p}, v = Join(Join(<<q>>, p), <<q>>)
      PROVE  v \in Text /\ Result(Join(l, v)) = [Result(l) EXCEPT !.current = Join(@, p)]
  <2> DEFINE o == <<q>>
  <2>1. q \in Char /\ o \in Text
    BY CharAssumption DEF Text
  <2>2. Result(Join(l, o)) = [st EXCEPT !.quote = q]
    <3>1. Scan(st, q) = [st EXCEPT !.quote = q]
      <4>1. q \notin Space
        BY DEF Quote, Space
      <4>2. QED
        BY <4>1 DEF Scan
    <3>2. QED
      BY <2>1, <3>1, ResultSnoc
  <2>3. Result(Join(l, o)).quote = q /\ q # "none"
    BY <1>1, <2>2 DEF State, Quote
  <2>4. \A i \in 1..Len(p) : p[i] # q
    BY <1>1, <1>3
  <2>5. Join(l, o) \in Text
    BY <2>1, Joined
  <2>6. Result(Join(Join(l, o), p)) = [Result(Join(l, o)) EXCEPT !.current = Join(@, p)]
    <3> HIDE DEF o
    <3>1. QED
      BY <2>3, <2>4, <2>5, CopyRun
  <2>7. Join(Join(l, o), p) \in Text
    <3> HIDE DEF o
    <3>1. QED
      BY <2>1, <2>5, Joined
  <2>8. Result(Join(Join(Join(l, o), p), <<q>>)) = Scan(Result(Join(Join(l, o), p)), q)
    <3> HIDE DEF o
    <3>1. QED
      BY <2>1, <2>7, ResultSnoc
  <2>9. Scan(Result(Join(Join(l, o), p)), q) = [st EXCEPT !.current = Join(@, p)]
    <3> DEFINE s2 == Result(Join(Join(l, o), p))
    <3>1. s2 = [[st EXCEPT !.quote = q] EXCEPT !.current = Join([st EXCEPT !.quote = q].current, p)]
      BY <2>2, <2>6
    <3>2. s2.quote = q /\ [s2 EXCEPT !.quote = "none"] = [st EXCEPT !.current = Join(st.current, p)]
      <4> HIDE DEF s2, st
      <4>1. st \in [parts : Seq(Text), current : Text, quote : {"none"}]
        BY <1>1 DEF st, State
      <4>2. QED
        BY <3>1, <4>1
    <3> HIDE DEF s2
    <3>3. Scan(s2, q) = [s2 EXCEPT !.quote = "none"]
      BY <2>3, <3>2 DEF Scan, Closes
    <3>4. QED
      BY <3>2, <3>3 DEF s2
  <2>10. Join(l, v) = Join(Join(Join(l, o), p), o) /\ v \in Text
    <3>1. v = Join(Join(o, p), o)
      BY <1>3
    <3> HIDE DEF o
    <3>2. o \in Text /\ Join(o, p) \in Text /\ Join(Join(o, p), o) \in Text
      BY <2>1, Joined
    <3>3. Join(l, Join(Join(o, p), o)) = Join(Join(l, Join(o, p)), o)
      BY <3>2, JoinedInTurn
    <3>4. Join(l, Join(o, p)) = Join(Join(l, o), p)
      BY <3>2, JoinedInTurn
    <3>5. QED
      BY <3>1, <3>2, <3>3, <3>4, Zenon
  <2>11. QED
    BY <2>8, <2>9, <2>10
<1>4. QED
  BY <1>2, <1>3 DEF Quoted, Join

LEMMA WritingsDef ==
  ASSUME NEW w \in Text
  PROVE  Writings(w) =
           [n \in 0..Len(w) |->
              IF n = 0 THEN {<<>>}
              ELSE UNION {Extended(Writings(w)[k], SubSeq(w, k + 1, n)) : k \in 0..(n - 1)}]
<1> DEFINE E(g, m) == UNION {Extended(g[k], SubSeq(w, k + 1, m)) : k \in 0..(m - 1)}
           F(g, n) == [m \in 0..n |-> IF m = 0 THEN {<<>>} ELSE E(g, m)]
           P(g) == g = F(g, Len(w))
           S == {n \in Nat : \E g : g = F(g, n)}
<1>1. Len(w) \in Nat
  BY DEF Text
<1>2. ASSUME NEW g, NEW h, NEW m \in Nat, \A k \in 0..(m - 1) : g[k] = h[k]
      PROVE  E(g, m) = E(h, m)
  <2> DEFINE G(k) == Extended(g[k], SubSeq(w, k + 1, m))
             H(k) == Extended(h[k], SubSeq(w, k + 1, m))
  <2>1. \A k \in 0..(m - 1) : G(k) = H(k)
    BY <1>2
  <2> HIDE DEF G, H
  <2>2. UNION {G(k) : k \in 0..(m - 1)} = UNION {H(k) : k \in 0..(m - 1)}
    BY <2>1
  <2>3. QED
    BY <2>2 DEF G, H
<1>3. \A n \in 0..Len(w) : 0..(n - 1) \subseteq S => n \in S
  <2> SUFFICES ASSUME NEW n \in 0..Len(w), 0..(n - 1) \subseteq S
               PROVE  \E g : g = F(g, n)
    <3> HIDE DEF F
    <3>1. TAKE n \in 0..Len(w)
    <3>2. HAVE 0..(n - 1) \subseteq S
    <3>3. n \in Nat
      BY <1>1
    <3>4. QED
      BY <3>2, <3>3
  <2>1. CASE n = 0
    <3>1. [m \in 0..0 |-> {<<>>}] = F([m \in 0..0 |-> {<<>>}], 0)
      <4> HIDE DEF E
      <4> QED
        OBVIOUS
    <3>2. QED
      BY <2>1, <3>1
  <2>2. CASE n # 0
    <3>1. n - 1 \in 0..(n - 1) /\ n \in Nat
      BY <1>1, <2>2
    <3>2. PICK g : g = F(g, n - 1)
      <4> HIDE DEF F
      <4> QED
        BY <3>1
    <3> DEFINE h == [m \in 0..n |-> IF m = n THEN E(g, n) ELSE g[m]]
    <3>3. \A m \in 0..(n - 1) : h[m] = g[m]
      <4> HIDE DEF E
      <4> QED
        BY <3>1
    <3>4. \A m \in 1..n : E(g, m) = E(h, m)
      <4> HIDE DEF E, h
      <4> QED
        BY <1>2, <3>1, <3>3
    <3>5. ASSUME NEW m \in 0..n
          PROVE  h[m] = IF m = 0 THEN {<<>>} ELSE E(h, m)
      <4>1. CASE m = n
        <5> HIDE DEF E
        <5> QED
          BY <2>2, <3>1, <3>4, <4>1
      <4>2. CASE m # n
        <5>1. m \in 0..(n - 1)
          BY <3>1, <4>2
        <5>2. g[m] = IF m = 0 THEN {<<>>} ELSE E(g, m)
          <6> HIDE DEF E
          <6> QED
            BY <3>2, <5>1
        <5> HIDE DEF E, h
        <5>3. QED
          BY <3>1, <3>3, <3>4, <5>1, <5>2
      <4>3. QED
        BY <4>1, <4>2
    <3>6. h = F(h, n)
      <4> HIDE DEF E
      <4> QED
        BY <3>5
    <3>7. QED
      BY <3>6
  <2>3. QED
    BY <2>1, <2>2
<1>4. \E g : P(g)
  <2> HIDE DEF F
  <2>1. Len(w) \in S
    <3> HIDE DEF S
    <3>1. 0..Len(w) \subseteq S
      BY <1>1, <1>3, UpTo
    <3>2. QED
      BY <1>1, <3>1
  <2>2. QED
    BY <2>1
<1>5. Writings(w) = CHOOSE g : P(g)
  BY DEF Writings
<1>6. P(Writings(w))
  <2> HIDE DEF P
  <2>1. P(CHOOSE g : P(g))
    BY <1>4, Zenon
  <2>2. QED
    BY <1>5, <2>1, Zenon
<1>7. QED
  BY <1>6

\* In however many pieces, a word adds itself to the current one.
LEMMA WritingRun ==
  ASSUME NEW l \in Text, NEW w \in Text, Result(l).quote = "none",
         NEW v \in Writings(w)[Len(w)]
  PROVE  v \in Text /\ Result(Join(l, v)) = [Result(l) EXCEPT !.current = Join(@, w)]
<1> DEFINE N == Len(w)
           st == Result(l)
           upto(n) == SubSeq(w, 1, n)
           Good(t, n) == /\ t \in Text
                         /\ Result(Join(l, t)) = [st EXCEPT !.current = Join(st.current, upto(n))]
           S == {n \in 0..N : \A t \in Writings(w)[n] : Good(t, n)}
<1>1. N \in Nat /\ st \in State /\ st.current \in Text
  BY ResultType DEF State, Text
<1>2. \A n \in 0..N : upto(n) \in Text
  <2>1. \A i \in 1..N : w[i] \in Char
    BY DEF Text
  <2>2. QED
    BY <1>1, <2>1, SubSeqProperties DEF Text
<1>3. ASSUME NEW n \in 0..N, 0..(n - 1) \subseteq S
      PROVE  n \in S
  <2> SUFFICES ASSUME NEW t \in Writings(w)[n]
               PROVE  Good(t, n)
    <3> HIDE DEF Good
    <3> QED
      OBVIOUS
  <2>1. CASE n = 0
    <3>1. t = <<>> /\ upto(n) = <<>>
      BY <2>1, WritingsDef, SubSeqEmpty
    <3>2. Join(l, t) = l /\ Join(st.current, upto(n)) = st.current /\ t \in Text
      BY <1>1, <3>1, JoinedEmpty
    <3>3. [st EXCEPT !.current = st.current] = st
      BY <1>1 DEF State
    <3>4. QED
      BY <3>2, <3>3
  <2>2. CASE n # 0
    <3>1. Writings(w)[n] =
            UNION {Extended(Writings(w)[k], SubSeq(w, k + 1, n)) : k \in 0..(n - 1)}
      BY <2>2, WritingsDef
    <3>2. PICK k \in 0..(n - 1) : t \in Extended(Writings(w)[k], SubSeq(w, k + 1, n))
      BY <3>1
    <3> DEFINE p == SubSeq(w, k + 1, n)
    <3>3. PICK u \in Writings(w)[k], q \in Quoted(p) : t = Join(u, q)
      <4>1. Extended(Writings(w)[k], p) = {Join(u, q) : u \in Writings(w)[k], q \in Quoted(p)}
        BY DEF Extended, Join
      <4> HIDE DEF p
      <4>2. QED
        BY <3>2, <4>1 DEF p
    <3>4. k \in 0..N /\ k \in S
      BY <1>1, <1>3, <3>2
    <3>5. u \in Text /\ Result(Join(l, u)) = [st EXCEPT !.current = Join(st.current, upto(k))]
      BY <3>3, <3>4
    <3>6. p \in Text
      <4>1. \A i \in (k + 1)..n : w[i] \in Char
        BY <1>1, <3>2 DEF Text
      <4>2. QED
        BY <1>1, <3>2, <4>1, SubSeqProperties DEF Text
    <3>7. Join(upto(k), p) = upto(n)
      BY <1>1, <2>2, <3>2, ConcatAdjacentSubSeq DEF Text, Join
    <3>8. Join(l, u) \in Text
      BY <3>5, Joined
    <3>9. Result(Join(l, u)).quote = "none"
      BY <1>1, <3>5 DEF State
    <3>10. /\ q \in Text
           /\ Result(Join(Join(l, u), q)) = [Result(Join(l, u)) EXCEPT !.current = Join(@, p)]
      <4> HIDE DEF p
      <4>1. QED
        BY <3>3, <3>6, <3>8, <3>9, PieceRun
    <3>11. Join(Join(st.current, upto(k)), p) = Join(st.current, upto(n))
      <4>1. upto(k) \in Text
        BY <1>2, <3>4
      <4> HIDE DEF upto, p, st
      <4>2. QED
        BY <1>1, <3>6, <3>7, <4>1, JoinedInTurn
    <3>12. Join(Join(l, u), q) = Join(l, t) /\ t \in Text
      BY <3>3, <3>5, <3>10, Joined, JoinedInTurn
    <3>13. Result(Join(l, t)) = [st EXCEPT !.current = Join(Join(st.current, upto(k)), p)]
      <4>1. Result(Join(l, t)) = [Result(Join(l, u)) EXCEPT !.current = Join(@, p)]
        BY <3>10, <3>12
      <4> HIDE DEF upto, p, st
      <4>2. QED
        BY <1>1, <3>5, <4>1 DEF State
    <3>14. QED
      BY <3>11, <3>12, <3>13
  <2>3. QED
    BY <2>1, <2>2
<1>4. N \in S
  <2> HIDE DEF S
  <2>1. 0..N \subseteq S
    BY <1>1, <1>3, UpTo
  <2>2. QED
    BY <1>1, <2>1
<1>5. upto(N) = w
  BY SubSeqFull DEF Text
<1>6. QED
  BY <1>4, <1>5

LEMMA LinesDef ==
  ASSUME NEW ws, Len(ws) \in Nat
  PROVE  Lines(ws) = [n \in 0..Len(ws) |->
                        IF n = 0 THEN {<<>>} ELSE Followed(Lines(ws)[n - 1], ws[n])]
<1> DEFINE F(g, n) == [m \in 0..n |-> IF m = 0 THEN {<<>>} ELSE Followed(g[m - 1], ws[m])]
           P(g) == g = F(g, Len(ws))
           S == {n \in Nat : \E g : g = F(g, n)}
<1>1. \A n \in 0..Len(ws) : 0..(n - 1) \subseteq S => n \in S
  <2> SUFFICES ASSUME NEW n \in 0..Len(ws), 0..(n - 1) \subseteq S
               PROVE  \E g : g = F(g, n)
    <3> HIDE DEF F
    <3>1. TAKE n \in 0..Len(ws)
    <3>2. HAVE 0..(n - 1) \subseteq S
    <3>3. n \in Nat
      OBVIOUS
    <3>4. QED
      BY <3>2, <3>3
  <2>1. CASE n = 0
    <3>1. [m \in 0..0 |-> {<<>>}] = F([m \in 0..0 |-> {<<>>}], 0)
      OBVIOUS
    <3>2. QED
      BY <2>1, <3>1
  <2>2. CASE n # 0
    <3>1. n - 1 \in 0..(n - 1)
      BY <2>2
    <3>2. PICK g : g = F(g, n - 1)
      BY <3>1
    <3> DEFINE h == [m \in 0..n |-> IF m = n THEN Followed(g[n - 1], ws[n]) ELSE g[m]]
    <3>3. \A m \in 0..(n - 1) : h[m] = g[m]
      BY <3>1
    <3>4. ASSUME NEW m \in 0..n
          PROVE  h[m] = IF m = 0 THEN {<<>>} ELSE Followed(h[m - 1], ws[m])
      <4>1. CASE m = n
        BY <2>2, <3>1, <3>3, <4>1
      <4>2. CASE m # n
        <5>1. m \in 0..(n - 1)
          BY <4>2
        <5>2. g[m] = IF m = 0 THEN {<<>>} ELSE Followed(g[m - 1], ws[m])
          BY <3>2, <5>1
        <5>3. m # 0 => m - 1 \in 0..(n - 1)
          BY <5>1
        <5>4. QED
          BY <3>3, <5>1, <5>2, <5>3
      <4>3. QED
        BY <4>1, <4>2
    <3>5. h = F(h, n)
      BY <3>4
    <3>6. QED
      BY <3>5
  <2>3. QED
    BY <2>1, <2>2
<1>2. \E g : P(g)
  <2> HIDE DEF F
  <2>1. Len(ws) \in S
    <3> HIDE DEF S
    <3>1. 0..Len(ws) \subseteq S
      BY <1>1, UpTo
    <3>2. QED
      BY <3>1
  <2>2. QED
    BY <2>1
<1>3. Lines(ws) = CHOOSE g : P(g)
  BY DEF Lines
<1>4. P(Lines(ws))
  <2> HIDE DEF P
  <2>1. P(CHOOSE g : P(g))
    BY <1>2, Zenon
  <2>2. QED
    BY <1>3, <2>1, Zenon
<1>5. QED
  BY <1>4

\* After n words, which nothing is left open of, the loop has them as its parts.
LEMMA LineRun ==
  ASSUME NEW ws \in Seq(Text \ {<<>>}), NEW n \in 0..Len(ws), NEW line \in Lines(ws)[n]
  PROVE  /\ line \in Text /\ Result(line).quote = "none"
         /\ Cut(Result(line)).parts = SubSeq(ws, 1, n)
<1> DEFINE N == Len(ws)
           Good(l, m) == /\ l \in Text /\ Result(l).quote = "none"
                         /\ Cut(Result(l)).parts = SubSeq(ws, 1, m)
           S == {m \in 0..N : \A l \in Lines(ws)[m] : Good(l, m)}
<1>1. N \in Nat /\ \A i \in 1..N : ws[i] \in Text /\ ws[i] # <<>>
  <2> HIDE DEF Text
  <2>1. QED
    BY LenProperties, ElementOfSeq
<1>2. ASSUME NEW m \in 0..N, 0..(m - 1) \subseteq S
      PROVE  m \in S
  <2> SUFFICES ASSUME NEW l \in Lines(ws)[m]
               PROVE  Good(l, m)
    <3> HIDE DEF Good
    <3> QED
      OBVIOUS
  <2>1. CASE m = 0
    <3>1. l = <<>> /\ SubSeq(ws, 1, m) = <<>>
      BY <1>1, <2>1, LinesDef, SubSeqEmpty
    <3>2. l \in Text /\ Len(l) = 0
      BY <3>1, JoinedEmpty
    <3>3. Result(l) = Scanner
      BY <3>2, ScannedDef DEF Result
    <3>4. Cut(Scanner).parts = <<>> /\ Scanner.quote = "none"
      BY DEF Cut, Scanner
    <3>5. QED
      BY <3>1, <3>2, <3>3, <3>4, Zenon
  <2>2. CASE m # 0
    <3>1. m - 1 \in S /\ m \in 1..N /\ m - 1 \in 0..N
      BY <1>1, <1>2, <2>2
    <3>2. Lines(ws)[m] = Followed(Lines(ws)[m - 1], ws[m])
      BY <1>1, <2>2, LinesDef
    <3> DEFINE one(s) == <<s>>
               start(before, s) == Join(before, one(s))
               starts == {start(before, s) : before \in Lines(ws)[m - 1], s \in Space}
               writings == Writings(ws[m])[Len(ws[m])]
    <3>3. Lines(ws)[m] = {Join(x, v) : x \in starts, v \in writings}
      BY <3>2 DEF Followed, Join
    <3> HIDE DEF starts, start, one
    <3>4. PICK x \in starts, v \in writings : l = Join(x, v)
      BY <3>3
    <3>5. PICK before \in Lines(ws)[m - 1], s \in Space : x = start(before, s)
      BY DEF starts
    <3>6. l = Join(Join(before, one(s)), v)
      BY <3>4, <3>5, Zenon DEF start
    <3> DEFINE w == ws[m]
               o == one(s)
               st == Result(before)
    <3>7. w \in Text /\ w # <<>> /\ s \in Char /\ o \in Text
      BY <1>1, <3>1, CharAssumption DEF Text, one
    <3>8. before \in Text /\ st.quote = "none" /\ Cut(st).parts = SubSeq(ws, 1, m - 1)
      BY <3>1
    <3>9. st \in State
      BY <3>8, ResultType
    <3>10. Scan(st, s) = Cut(st)
      <4>1. s \notin Quote /\ s # "none"
        BY DEF Quote, Space
      <4> HIDE DEF st
      <4>2. QED
        BY <3>8, <4>1 DEF Scan
    <3>11. Result(Join(before, o)) = Cut(st)
      BY <3>7, <3>8, <3>10, ResultSnoc DEF one
    <3>12. Join(before, o) \in Text
      <4> HIDE DEF o
      <4>1. QED
        BY <3>7, <3>8, Joined
    <3>13. Cut(st).quote = "none" /\ Cut(st).current = <<>>
      <4> HIDE DEF st
      <4>1. QED
        BY <3>8, <3>9 DEF Cut, State
    <3>14. /\ v \in Text
           /\ Result(Join(Join(before, o), v)) = [Cut(st) EXCEPT !.current = Join(Cut(st).current, w)]
      <4> HIDE DEF o, w
      <4>1. Result(Join(before, o)).quote = "none"
        BY <3>11, <3>13
      <4>2. v \in Writings(w)[Len(w)]
        BY DEF w
      <4>3. QED
        BY <3>7, <3>11, <3>12, <4>1, <4>2, WritingRun
    <3>15. l \in Text
      <4> HIDE DEF o
      <4>1. l = Join(Join(before, o), v)
        BY <3>6 DEF o
      <4>2. QED
        BY <3>12, <3>14, <4>1, Joined
    <3>16. Result(l) = [Cut(st) EXCEPT !.current = w]
      <4>1. Join(<<>>, w) = w
        BY <3>7, JoinedEmpty
      <4>2. QED
        BY <3>6, <3>13, <3>14, <4>1, Zenon
    <3>17. /\ Result(l).quote = "none" /\ Result(l).current = w
           /\ Result(l).parts = SubSeq(ws, 1, m - 1)
      <4>1. Cut(st) \in State
        <5> HIDE DEF st
        <5>1. QED
          BY <3>7, <3>9, ScanType
      <4> HIDE DEF st, w
      <4>2. QED
        BY <3>8, <3>13, <3>16, <4>1 DEF State
    <3>18. Result(l) \in State
      BY <3>15, ResultType
    <3>19. Cut(Result(l)).parts = Append(SubSeq(ws, 1, m - 1), w)
      <4> HIDE DEF w
      <4>1. QED
        BY <3>7, <3>17, <3>18 DEF Cut, State
    <3>20. Append(SubSeq(ws, 1, m - 1), w) = SubSeq(ws, 1, m)
      BY <3>1, SubSeqRecursiveSecond, SubSeqProperties, AppendIsConcat
    <3>21. QED
      BY <3>15, <3>17, <3>19, <3>20
  <2>3. QED
    BY <2>1, <2>2
<1>3. n \in S
  <2> HIDE DEF S
  <2>1. 0..N \subseteq S
    BY <1>1, <1>2, UpTo
  <2>2. QED
    BY <2>1
<1>4. QED
  BY <1>3

LEMMA EveryLineIsSplit == WordsSurvive
<1> SUFFICES ASSUME NEW n \in 0..MaxWords, NEW ws \in [1..n -> Words],
                    NEW line \in Lines(ws)[Len(ws)]
             PROVE  splitCommand(line) = ws
  BY Zenon DEF WordsSurvive
<1>1. n \in Nat
  BY WordsAssumption
<1>2. ws \in Seq(Text \ {<<>>}) /\ Len(ws) \in Nat
  BY <1>1, WordsAssumption DEF Text
<1>3. Cut(Result(line)).parts = SubSeq(ws, 1, Len(ws))
  BY <1>2, LineRun
<1>4. SubSeq(ws, 1, Len(ws)) = ws
  BY <1>2, SubSeqFull
<1>5. QED
  BY <1>3, <1>4 DEF splitCommand, Result

\* However the words of a command line are quoted, and whatever characters they consist
\* of, splitCommand returns them one by one and in their order: the command a
\* shell_command node runs has the arguments its user wrote.
THEOREM CommandsSplit == Spec => []CommandsAreSplit
<1>1. CommandsAreSplit /\ CommandsAreSplit'
  BY EveryLineIsSplit DEF CommandsAreSplit
<1>2. QED
  BY <1>1, PTL

===============================================================================
