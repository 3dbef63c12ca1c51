----------------------------- MODULE MCExecutions -----------------------------
(***************************************************************************)
(* Small instances of Executions for TLC.                                  *)
(***************************************************************************)
EXTENDS Executions

CONSTANTS e1, e2, p1, p2, c1, c2

MCExecution == {e1, e2}
MCProcess == {p1, p2}
MCConsumer == {c1, c2}

\* One goroutine in each of two processes.
MCHost == [c \in MCConsumer |-> IF c = c1 THEN p1 ELSE p2]

\* The two processes, each with its goroutine, are interchangeable.
ProcessSymmetry ==
  {[x \in {c1, c2, p1, p2} |->
      CASE x = c1 -> c2 [] x = c2 -> c1 [] x = p1 -> p2 [] OTHER -> p1]}

\* Two goroutines in the process p1.
SharedHost == [c \in MCConsumer |-> p1]

MCOnFailure == [e \in MCExecution |-> IF e = e1 THEN "stop" ELSE "continue"]
OneStop == [e \in {e1} |-> "stop"]
OneContinue == [e \in {e1} |-> "continue"]

\* Once e1 is overdue no property looks at the rows of its steps or at the errors
\* met, and no action's guard ever does: states that differ in nothing else are one.
UnlessOverdue == <<row, IF e1 \in overdue THEN <<>> ELSE <<steps, rowErr, stepErr>>,
                   streamVars, apiVars, workerVars>>

\* What parseDispatch's comment asks for, and what Execute's XADD sends.
AgreedFields == [e \in {e1, e2} |-> {"execution_id", "job_id", "project_id"}]
SentFields == [e \in {e1, e2} |-> {"payload"}]

===============================================================================
