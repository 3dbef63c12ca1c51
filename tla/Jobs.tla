---------------------------------- MODULE Jobs ----------------------------------
(***************************************************************************)
(* Jobs and the steps that are made of their workflows: CreateJob and      *)
(* UpdateJob, the transactions of their repository, and what reads the     *)
(* result, the executor's loadJob and loadSteps.  Projects, which extends  *)
(* this module, adds the rest of the tables and puts all of it together.   *)
(*                                                                         *)
(* A statement is one step.  Transactions are READ COMMITTED, the default: *)
(* a statement sees what is committed when it starts, and waits for a row  *)
(* that another open transaction has changed.  Of a workflow the nodes,    *)
(* their heights, their definitions and the edges are kept; of a job, its  *)
(* workflow.                                                               *)
(***************************************************************************)
EXTENDS Integers, Sequences, FiniteSets

CONSTANTS
  Job,        \* IDs of jobs
  Def,        \* IDs of node definitions
  NilDef,     \* what a node without a node_def_id has (uuid.Nil)
  Workflow,   \* the workflows that clients send
  Request,    \* CreateJob and UpdateJob requests, numbered as they arrive
  Execution,  \* dispatches
  Outcomes,   \* of a statement: "ok", "lost" or "unknown" (done, yet an error)
  NoRow       \* no row of jobs

\* A workflow: node IDs (strings of the client), for each the Y of its position
\* and its definition, and edges <<source, target>>, whose ends may be missing.
IsWorkflow(w) ==
  /\ IsFiniteSet(w.nodes)
  /\ w.y \in [w.nodes -> Int]
  /\ w.def \in [w.nodes -> Def \cup {NilDef}]

ASSUME WorkflowAssumption == \A w \in Workflow : IsWorkflow(w)
ASSUME OutcomesAssumption ==
         "ok" \in Outcomes /\ Outcomes \subseteq {"ok", "lost", "unknown"}
ASSUME RequestAssumption == Request \subseteq Nat
ASSUME NilDefAssumption == NilDef \notin Def
ASSUME NoRowAssumption == NoRow \notin [spec : Workflow, by : Request]

VARIABLES
  job,    \* the row of a job: its workflow and the request that wrote it
  steps,  \* the rows of job_steps
  defs,   \* the rows of node_definitions
  req,    \* requests: what comes next, and what their transaction has done
  exec    \* dispatches: what the executor has loaded of the job

jobVars == <<job, steps, defs, req, exec>>

Writing == {"row", "clear", "clearing", "insert"}
Answered == {"ok", "refused", "unanswered"}
Nowhere == [pc |-> "idle"]

\* Rows, and what is known of a request while it is served and afterwards.
JobRow == [spec : Workflow, by : Request]
StepRow == [id : Request \X Nat, job : Job, node : UNION {w.nodes : w \in Workflow},
            def : Def \cup {NilDef}, order : Nat, deps : SUBSET (Request \X Nat)]
Busy == [pc : {"create", "find"} \cup Writing, job : Job, spec : Workflow,
         matched : BOOLEAN, seen : SUBSET StepRow, dels : SUBSET StepRow,
         ins : SUBSET StepRow, rest : Seq(StepRow)]
Ended == [pc : Answered, job : Job, spec : Workflow, matched : BOOLEAN]
Dispatched == [pc : {"queued", "steps", "loaded", "nojob"}, job : Job,
               manual : BOOLEAN, run : Seq(StepRow)]

-------------------------------------------------------------------------------
(* materializeSteps.                                                       *)

\* Mutant of Orders: sorted from the bottom up.
OrdersUpward(w) ==
  {s \in [1..Cardinality(w.nodes) -> w.nodes] :
     \A i, k \in DOMAIN s : i < k => s[i] # s[k] /\ w.y[s[i]] >= w.y[s[k]]}

\* sort.Slice by Y is not stable: nodes of one height come in any order.
Orders(w) ==
  {s \in [1..Cardinality(w.nodes) -> w.nodes] :
     \A i, k \in DOMAIN s : i < k => s[i] # s[k] /\ w.y[s[i]] =< w.y[s[k]]}

\* The steps of the nodes an edge leads from; an edge with a missing end has none.
DependsOn(r, w, s, i) ==
  {<<r, k>> : k \in {k \in DOMAIN s : <<s[k], s[i]>> \in w.edges}}

\* The rows to insert for nodes in the order s.  stepIDs[i], a new UUID, is <<r, i>>.
Materialized(r, j, w, s) ==
  [i \in DOMAIN s |-> [id |-> <<r, i>>, job |-> j, node |-> s[i],
                       def |-> w.def[s[i]], order |-> i,
                       deps |-> DependsOn(r, w, s, i)]]

-------------------------------------------------------------------------------
(* CreateJob and UpdateJob.                                                *)

\* Mutant of HoldsRow: nothing rolls back after an error.
HoldsRowAfterError(r) == req[r].pc \in Writing \cup {"refused"} /\ req[r].matched

\* Mutant of HoldsRow: the UPDATE is not run in the transaction.
HoldsRowNever(r) == FALSE

\* A row's update is locked until its transaction ends.
HoldsRow(r) == req[r].pc \in Writing /\ req[r].matched

RowIsFree(j) == \A q \in Request : HoldsRow(q) => req[q].job # j

\* Mutant of StepsRolledBack: the deferred call is a Commit.
StepsKept(r) == (steps \ req[r].dels) \cup req[r].ins

\* The deferred Rollback leaves the steps that were committed before.
StepsRolledBack(r) == steps

\* Mutant of StepsCommitted: the old steps are not deleted.
StepsAdded(r) == steps \cup req[r].ins

StepsCommitted(r) == (steps \ req[r].dels) \cup req[r].ins

Ends(r, pc) ==
  req' = [req EXCEPT ![r] = [pc |-> pc, job |-> @.job, spec |-> @.spec,
                             matched |-> @.matched]]

\* The error of a statement, and the answer 500.
Refuse(r) ==
  /\ Ends(r, "refused")
  /\ steps' = StepsRolledBack(r)
  /\ UNCHANGED <<job, defs, exec>>

\* Mutant of Following: Update deletes the old steps before it updates the job.
FollowingSwapped == [find |-> "clear", clear |-> "clearing", clearing |-> "row",
                     row |-> "insert"]

\* The statement that comes after the one at pc.
Following == [find |-> "row", row |-> "clear", clear |-> "clearing",
              clearing |-> "insert"]

\* A request arrives, the next one. What materializeSteps computes depends on it only.
Begin(r, j, pc, w) ==
  /\ req[r].pc = "idle" /\ \A q \in Request : q < r => req[q].pc # "idle"
  /\ \E s \in Orders(w) :
       req' = [req EXCEPT ![r] =
                 [pc |-> pc, job |-> j, spec |-> w, matched |-> FALSE, seen |-> {},
                  dels |-> {}, ins |-> {}, rest |-> Materialized(r, j, w, s)]]
  /\ UNCHANGED <<job, steps, defs, exec>>

\* uuid.New: no other job has this ID.
IsNew(j) == job[j] = NoRow /\ \A q \in Request : req[q].pc # "idle" => req[q].job # j

CreateJob(r, j, w) == IsNew(j) /\ Begin(r, j, "create", w)

\* INSERT INTO jobs: nobody else sees the row before the commit.
InsertJob(r) ==
  /\ req[r].pc = "create"
  /\ \/ /\ req' = [req EXCEPT ![r].pc = "insert", ![r].matched = TRUE]
        /\ UNCHANGED <<job, steps, defs, exec>>
     \/ "lost" \in Outcomes /\ Refuse(r)

UpdateJob(r, j, w) == ~IsNew(j) /\ Begin(r, j, "find", w)

Goes(r, matched, seen, dels) ==
  /\ req' = [req EXCEPT ![r].pc = Following[@], ![r].matched = matched,
                        ![r].seen = seen, ![r].dels = dels]
  /\ UNCHANGED <<job, steps, defs, exec>>

\* FindByID: 404 without a row.
Find(r) ==
  /\ req[r].pc = "find"
  /\ \/ job[req[r].job] # NoRow /\ Goes(r, FALSE, {}, {})
     \/ (job[req[r].job] = NoRow \/ "lost" \in Outcomes) /\ Refuse(r)

\* UPDATE jobs waits for the row; a row that was deleted since is not matched,
\* which is no error.
UpdateRow(r) ==
  /\ req[r].pc = "row" /\ RowIsFree(req[r].job)
  /\ \/ Goes(r, job[req[r].job] # NoRow, req[r].seen, req[r].dels)
     \/ "lost" \in Outcomes /\ Refuse(r)

\* DELETE FROM job_steps starts with the rows that are committed now ...
ClearSteps(r) ==
  /\ req[r].pc = "clear"
  /\ \/ Goes(r, req[r].matched, {s \in steps : s.job = req[r].job}, {})
     \/ "lost" \in Outcomes /\ Refuse(r)

\* ... waits for those that another transaction is deleting, and deletes the rest.
StepsCleared(r) ==
  /\ req[r].pc = "clearing"
  /\ \A q \in Request \ {r} :
       req[q].pc \in Writing => req[q].dels \cap req[r].seen = {}
  /\ Goes(r, req[r].matched, {}, req[r].seen \cap steps)

\* INSERT INTO job_steps needs the job and the node definition (foreign keys).
MayInsert(r, row) ==
  /\ row.def \in defs
  /\ req[r].matched \/ job[row.job] # NoRow

InsertStep(r) ==
  /\ req[r].pc = "insert" /\ req[r].rest # <<>>
  /\ \/ /\ MayInsert(r, Head(req[r].rest))
        /\ req' = [req EXCEPT ![r].ins = @ \cup {Head(req[r].rest)},
                              ![r].rest = Tail(@)]
        /\ UNCHANGED <<job, steps, defs, exec>>
     \/ /\ MayInsert(r, Head(req[r].rest)) => "lost" \in Outcomes
        /\ Refuse(r)

\* Commit; an UPDATE that matched no row has nothing to commit.
Commit(r) ==
  /\ req[r].pc = "insert" /\ req[r].rest = <<>>
  /\ \/ \E o \in Outcomes \ {"lost"} :
          /\ job' = IF req[r].matched
                    THEN [job EXCEPT ![req[r].job] = [spec |-> req[r].spec, by |-> r]]
                    ELSE job
          /\ steps' = StepsCommitted(r)
          /\ Ends(r, IF o = "ok" THEN "ok" ELSE "unanswered")
          /\ UNCHANGED <<defs, exec>>
     \/ "lost" \in Outcomes /\ Refuse(r)

-------------------------------------------------------------------------------
(* Dispatches.                                                             *)

\* What the worker is sent; only a manual dispatch has a row of executions.
Dispatch(e, j, manual) ==
  /\ exec[e].pc = "idle"
  /\ exec' = [exec EXCEPT ![e] = [pc |-> "queued", job |-> j, manual |-> manual,
                                  run |-> <<>>]]
  /\ UNCHANGED <<job, steps, defs, req>>

\* loadJob fails without a row.
LoadJob(e) ==
  /\ exec[e].pc = "queued"
  /\ exec' = [exec EXCEPT ![e].pc = IF job[exec[e].job] # NoRow THEN "steps"
                                                              ELSE "nojob"]
  /\ UNCHANGED <<job, steps, defs, req>>

\* ORDER BY step_order; the executor runs them in this order.
Ordered(S) ==
  {s \in [1..Cardinality(S) -> S] :
     \A i, k \in DOMAIN s : i < k => s[i] # s[k] /\ s[i].order =< s[k].order}

\* loadSteps, joined with the definitions.
LoadSteps(e) ==
  /\ exec[e].pc = "steps"
  /\ \E s \in Ordered({t \in steps : t.job = exec[e].job /\ t.def \in defs}) :
       exec' = [exec EXCEPT ![e].pc = "loaded", ![e].run = s]
  /\ UNCHANGED <<job, steps, defs, req>>

-------------------------------------------------------------------------------

RequestStep(r) ==
  \/ InsertJob(r) \/ Find(r) \/ UpdateRow(r) \/ ClearSteps(r) \/ StepsCleared(r)
  \/ InsertStep(r) \/ Commit(r)

-------------------------------------------------------------------------------
(* Properties.                                                             *)

\* What the rows made of a workflow are to be: a row for each node, numbered from
\* the top of the canvas down, that depends on the rows an edge comes from.
IsMaterialization(S, w) ==
  /\ {s.node : s \in S} = w.nodes
  /\ Cardinality(S) = Cardinality(w.nodes)
  /\ {s.order : s \in S} = 1..Cardinality(S)
  /\ \A s \in S :
       /\ s.def = w.def[s.node]
       /\ s.deps = {t.id : t \in {t \in S : <<t.node, s.node>> \in w.edges}}
  /\ \A s, t \in S : w.y[s.node] < w.y[t.node] => s.order < t.order

\* At every moment the rows of job_steps of a job are those of the workflow in
\* its row, however saves of it overlap and whichever statement of one fails
\* (Create, Update, materializeSteps).
StepsMatchWorkflow ==
  \A j \in Job : job[j] # NoRow =>
    IsMaterialization({s \in steps : s.job = j}, job[j].spec)

\* Nothing of a save that was refused is in the tables: a node whose definition
\* is missing, or a statement that fails, undoes the statements before it.
RefusedLeavesNothing ==
  \A r \in Request : req[r].pc = "refused" =>
    /\ \A s \in steps : s.id[1] # r
    /\ \A j \in Job : job[j] # NoRow => job[j].by # r

\* The executor runs steps one by one in the order they were loaded in and does
\* not look at depends_on: when every edge of the workflow leads downward, a step
\* has all steps it depends on before it.
DependenciesRunFirst ==
  \A e \in Execution : exec[e].pc = "loaded" =>
    \A i \in DOMAIN exec[e].run :
      LET s == exec[e].run[i]
          w == req[s.id[1]].spec
      IN (\A g \in w.edges \cap (w.nodes \X w.nodes) : w.y[g[1]] < w.y[g[2]])
           => s.deps \subseteq {exec[e].run[k].id : k \in 1..(i - 1)}
===============================================================================
