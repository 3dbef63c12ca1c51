------------------------------ MODULE StepRunner ------------------------------
(***************************************************************************)
(* runStep and killProcessGroup: executors of one worker run steps as child *)
(* processes, copy their output to the log writers, wait for them and, when *)
(* the step's context has ended, signal their process group.               *)
(*                                                                         *)
(* Processes, pids and pipes are the operating system's.  A pid is free    *)
(* again when its process is reaped and no process is left in the group of *)
(* that number.  A descendant that dies is reaped at once, by init.  Time  *)
(* is not counted: a context may end at any moment, and so may the grace   *)
(* period.  The argv of a step is data; how a command becomes one is       *)
(* CommandLine.                                                            *)
(***************************************************************************)
EXTENDS Naturals, Sequences, FiniteSets, CommandLine

CONSTANTS
  Runner,    \* goroutines that execute steps
  Step,      \* names for steps
  Pid,       \* process IDs
  MaxPipe,   \* bound on what a pipe holds
  Does,      \* what the steps' processes do, see Deed
  NoPid      \* no process

Deed == {"write",         \* they write output
         "daemon",        \* they leave descendants that have closed the pipes
         "inherit",       \* they leave descendants that keep the pipes open
         "ignore_term"}   \* they may ignore SIGTERM

ASSUME DeedAssumption == Does \subseteq Deed
ASSUME NamesAssumption == NoPid \notin Pid /\ MaxPipe \in Nat /\ Step # {}

Stream == {"stdout", "stderr"}
Chunk == {"line", "part"}   \* a read that ends a line, or does not
Proc == [pid : Pid, group : Pid, step : Step, holds : BOOLEAN]
Ended == {"zero", "nonzero", "signal"}

VARIABLES
  pc,       \* where a runner is in runStep
  step,     \* its step, or the last one it ran
  child,    \* pid of the step's direct child
  exit,     \* what became of the child: "none", "runs" or how it ended
  expired,  \* runners whose stepCtx has ended
  sent,     \* runners whose exec.Cmd has sent SIGKILL to its child
  script,   \* runners whose temporary script file exists
  pipe,     \* chunks in a pipe
  rest,     \* streams whose Writer keeps an incomplete line
  eof,      \* streams whose copyStream has returned
  result,   \* what runStep returned: "zero", "nonzero", "error"
  procs     \* the running processes

streamVars == <<pipe, rest, eof>>
stepVars == <<step, child, expired, script, result>>
vars == <<pc, stepVars, exit, sent, streamVars, procs>>

TypeOK ==
  /\ pc \in [Runner -> {"idle", "drain", "wait", "check", "grace"}]
  /\ step \in [Runner -> Step]
  /\ child \in [Runner -> Pid \cup {NoPid}]
  /\ exit \in [Runner -> Ended \cup {"none", "runs"}]
  /\ expired \subseteq Runner /\ sent \subseteq expired
  /\ script \subseteq Runner
  /\ pipe \in [Runner -> [Stream -> Seq(Chunk)]]
  /\ rest \in [Runner -> SUBSET Stream]
  /\ eof \in [Runner -> SUBSET Stream]
  /\ result \in [Runner -> {"none", "zero", "nonzero", "error"}]
  /\ procs \subseteq Proc
  /\ \A p, q \in procs : p.pid = q.pid => p = q

Init ==
  /\ pc = [r \in Runner |-> "idle"]
  /\ step \in [Runner -> Step]
  /\ child = [r \in Runner |-> NoPid]
  /\ exit = [r \in Runner |-> "none"]
  /\ expired = {} /\ sent = {} /\ script = {}
  /\ pipe = [r \in Runner |-> [s \in Stream |-> <<>>]]
  /\ rest = [r \in Runner |-> {}]
  /\ eof = [r \in Runner |-> {}]
  /\ result = [r \in Runner |-> "none"]
  /\ procs = {}

-------------------------------------------------------------------------------
(* The operating system.                                                   *)

Unreaped == {r \in Runner : pc[r] \in {"drain", "wait"}}

FreePid == Pid \ ({p.pid : p \in procs} \cup {p.group : p \in procs}
                     \cup {child[r] : r \in Unreaped})

\* The processes kill(-pid) reaches.
Group(pid) == {p \in procs : p.group = pid}

\* The processes of D end, a runner's direct child with one of hows.
End(D, hows) ==
  /\ procs' = procs \ D
  /\ exit' \in {e \in [Runner -> Ended \cup {"none", "runs"}] :
                  \A r \in Runner :
                    IF exit[r] = "runs" /\ (\E p \in D : p.pid = child[r])
                    THEN e[r] \in hows ELSE e[r] = exit[r]}

Exit(p) ==
  /\ End({p}, {"zero", "nonzero"})
  /\ UNCHANGED <<pc, stepVars, sent, streamVars>>

Fork(p) ==
  /\ \E pid \in FreePid, holds \in BOOLEAN :
       /\ IF holds THEN "inherit" \in Does /\ p.holds ELSE "daemon" \in Does
       /\ procs' = procs \cup {[p EXCEPT !.pid = pid, !.holds = holds]}
  /\ UNCHANGED <<pc, stepVars, exit, sent, streamVars>>

Emit(r, p) ==
  /\ "write" \in Does
  /\ pc[r] = "drain" /\ p.step = step[r] /\ p.holds
  /\ \E s \in Stream, c \in Chunk :
       /\ Len(pipe[r][s]) < MaxPipe
       /\ pipe' = [pipe EXCEPT ![r][s] = Append(@, c)]
  /\ UNCHANGED <<pc, stepVars, exit, sent, rest, eof, procs>>

-------------------------------------------------------------------------------
(* runStep.                                                                *)

\* buildArgv removes the file that it could not write, make executable or close, and
\* makes none for a command, which may be missing, empty or of an unsupported type;
\* after later errors runStep's deferred call removes it.
BuildFailed(r) == script \ {r}

\* The script file, the pipes and the child, in a group of its own; if one of
\* these fails, runStep returns at once and the deferred calls clean up.
Begin(r) ==
  /\ pc[r] = "idle"
  /\ \E n \in Step :
       /\ \A p \in procs : p.step # n
       /\ \A q \in Runner : pc[q] # "idle" => step[q] # n
       /\ step' = [step EXCEPT ![r] = n]
       /\ \/ \E pid \in FreePid :
               /\ pc' = [pc EXCEPT ![r] = "drain"]
               /\ child' = [child EXCEPT ![r] = pid]
               /\ exit' = [exit EXCEPT ![r] = "runs"]
               /\ script' = script \cup {r}
               /\ result' = [result EXCEPT ![r] = "none"]
               /\ procs' = procs \cup
                    {[pid |-> pid, group |-> pid, step |-> n, holds |-> TRUE]}
          \/ /\ child' = [child EXCEPT ![r] = NoPid]
             /\ exit' = [exit EXCEPT ![r] = "none"]
             /\ result' = [result EXCEPT ![r] = "error"]
             /\ script' = BuildFailed(r)
             /\ UNCHANGED <<pc, procs>>
  /\ expired' = expired \ {r} /\ sent' = sent \ {r}
  /\ eof' = [eof EXCEPT ![r] = {}]
  /\ UNCHANGED <<pipe, rest>>

\* The timeout of the step, or the end of the worker's context.
Expire(r) ==
  /\ pc[r] # "idle" /\ r \notin expired
  /\ expired' = expired \cup {r}
  /\ UNCHANGED <<pc, step, child, script, result, exit, sent, streamVars, procs>>

\* Mutant of Victim: exec.Command, which does not look at the context.
VictimNone(r) == {}

\* exec.CommandContext: SIGKILL to the direct child, as long as it is not
\* reaped; a zombie takes it without effect.
Victim(r) == {p \in procs : p.pid = child[r]}

SendKill(r) ==
  /\ r \in expired \ sent
  /\ pc[r] \in {"drain", "wait"}
  /\ sent' = sent \cup {r}
  /\ End(Victim(r), {"signal"})
  /\ UNCHANGED <<pc, stepVars, streamVars>>

\* io.Copy reads and Writer.Write keeps what does not end in a newline.
Copy(r, s) ==
  /\ pc[r] = "drain" /\ pipe[r][s] # <<>>
  /\ pipe' = [pipe EXCEPT ![r][s] = Tail(@)]
  /\ rest' = [rest EXCEPT ![r] = IF Head(pipe[r][s]) = "line" THEN @ \ {s}
                                                              ELSE @ \cup {s}]
  /\ UNCHANGED <<pc, stepVars, exit, sent, eof, procs>>

\* Nobody can write to the pipe any more, and it is empty.
Eof(r, s) ==
  /\ pc[r] = "drain" /\ s \notin eof[r]
  /\ pipe[r][s] = <<>>
  /\ \A p \in procs : p.step = step[r] => ~p.holds
  /\ eof' = [eof EXCEPT ![r] = @ \cup {s}]
  /\ UNCHANGED <<pc, stepVars, exit, sent, pipe, rest, procs>>

\* Mutant of Drained: one result of streamErrCh is taken for both.
DrainedEarly(r) == eof[r] # {}

\* Both goroutines have sent to streamErrCh.
Drained(r) == eof[r] = Stream

\* Both Writers write out what they keep.
Flush(r) ==
  /\ pc[r] = "drain"
  /\ Drained(r)
  /\ rest' = [rest EXCEPT ![r] = {}]
  /\ pc' = [pc EXCEPT ![r] = "wait"]
  /\ UNCHANGED <<stepVars, exit, sent, pipe, eof, procs>>

\* Mutant of Answer: an error of the context hides how the child ended.
AnswerOfContext(r) == IF r \in expired THEN "error"
                      ELSE IF exit[r] = "zero" THEN "zero" ELSE "nonzero"

\* cmd.Wait reports an exit code other than 0, or the signal, before the error
\* of the context, which it reports if the SIGKILL was sent.
Answer(r) == CASE exit[r] # "zero" -> "nonzero"
               [] exit[r] = "zero" /\ r \in sent -> "error"
               [] OTHER -> "zero"

\* cmd.Wait reaps the child.
Wait(r) ==
  /\ pc[r] = "wait" /\ exit[r] \in Ended
  /\ pc' = [pc EXCEPT ![r] = "check"]
  /\ result' = [result EXCEPT ![r] = Answer(r)]
  /\ UNCHANGED <<step, child, expired, script, exit, sent, streamVars, procs>>

\* Mutant of Return: the script file is not removed.
ReturnKeeps(r) ==
  /\ pc' = [pc EXCEPT ![r] = "idle"]
  /\ UNCHANGED script

\* The deferred calls.
Return(r) ==
  /\ pc' = [pc EXCEPT ![r] = "idle"]
  /\ script' = script \ {r}

\* killProcessGroup is called if the context has ended by now.  It returns at
\* once when its SIGTERM finds no process.
Check(r) ==
  LET G == Group(child[r]) IN
  /\ pc[r] = "check"
  /\ IF r \in expired /\ G # {}
     THEN /\ \E D \in SUBSET G :
               /\ "ignore_term" \in Does \/ D = G
               /\ End(D, {"signal"})
          /\ pc' = [pc EXCEPT ![r] = "grace"]
          /\ UNCHANGED script
     ELSE Return(r) /\ UNCHANGED <<exit, procs>>
  /\ UNCHANGED <<step, child, expired, result, sent, streamVars>>

\* Signal 0 finds no process of the group.
GroupGone(r) ==
  /\ pc[r] = "grace" /\ Group(child[r]) = {}
  /\ Return(r)
  /\ UNCHANGED <<step, child, expired, result, exit, sent, streamVars, procs>>

\* killGracePeriod is over for the polling goroutine, that closes done, and
\* for time.After: select takes either.
GraceOver(r) ==
  /\ pc[r] = "grace"
  /\ \/ End(Group(child[r]), {"signal"})
     \/ UNCHANGED <<exit, procs>>
  /\ Return(r)
  /\ UNCHANGED <<step, child, expired, result, sent, streamVars>>

RunnerStep(r) ==
  \/ Begin(r) \/ Expire(r) \/ SendKill(r) \/ Flush(r) \/ Wait(r) \/ Check(r)
  \/ GroupGone(r) \/ GraceOver(r)
  \/ \E s \in Stream : Copy(r, s) \/ Eof(r, s)

Next == \/ \E r \in Runner : RunnerStep(r)
        \/ \E p \in procs : Exit(p) \/ Fork(p) \/ \E r \in Runner : Emit(r, p)

Spec == Init /\ [][Next]_vars

(* The worker's goroutines run and every context has a deadline.  Nothing  *)
(* makes a process exit, write or fork, and no step has to begin.          *)
FairSpec ==
  /\ Spec
  /\ \A r \in Runner :
       /\ WF_vars(Expire(r)) /\ WF_vars(SendKill(r))
       /\ WF_vars(Flush(r)) /\ WF_vars(Wait(r)) /\ WF_vars(Check(r))
       /\ WF_vars(GroupGone(r) \/ GraceOver(r))
       /\ \A s \in Stream : WF_vars(Copy(r, s)) /\ WF_vars(Eof(r, s))

-------------------------------------------------------------------------------
\* When runStep goes on to wait for the child, all that the step's processes
\* wrote has been through the log writers, incomplete last lines included, and
\* nothing can be written any more: no output is lost to the end of a step.
OutputIsLogged ==
  \A r \in Runner : pc[r] # "drain" =>
    /\ rest[r] = {}
    /\ \A s \in Stream : pipe[r][s] = <<>>
    /\ pc[r] # "idle" => \A p \in procs : p.step = step[r] => ~p.holds

\* runStep returns 0 only when the child itself exited with 0 and no SIGKILL
\* was sent to it, and an exit code, rather than an error, whenever the child
\* did not exit with 0.
ResultIsHonest ==
  \A r \in Runner :
    /\ result[r] = "zero" => exit[r] = "zero" /\ r \notin sent
    /\ exit[r] \in {"nonzero", "signal"} /\ pc[r] = "idle" => result[r] = "nonzero"

\* The script file is there as long as the child runs, and goes with the step.
ScriptLivesWithChild ==
  \A r \in Runner : /\ exit[r] = "runs" => r \in script
                    /\ r \in script => pc[r] # "idle"

\* The argv of a shell_command is what its user wrote.  splitCommand keeps no state,
\* so all command lines are tried once, while no runner has begun a step.
CommandsAreSplit ==
  (\A r \in Runner : pc[r] = "idle" /\ result[r] = "none") => WordsSurvive

\* A step whose context has ended returns, unless a descendant of its child
\* holds a pipe open.
DeadlineEndsStep ==
  \A r \in Runner :
    r \in expired /\ pc[r] # "idle" ~>
      \/ pc[r] = "idle"
      \/ \E p \in procs : p.step = step[r] /\ p.pid # child[r] /\ p.holds

===============================================================================
