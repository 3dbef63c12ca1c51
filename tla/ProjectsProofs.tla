---------------------------- MODULE ProjectsProofs ----------------------------
(***************************************************************************)
(* Theorems about Projects, and with it about the transactions of Jobs,    *)
(* for any projects, jobs, workflows and overlapping requests: the tables  *)
(* and who waits for whom, JobStore, and the orders of steps.              *)
(***************************************************************************)
EXTENDS Projects, FiniteSetTheorems, SequenceTheorems, WellFoundedInduction, TLAPS

-------------------------------------------------------------------------------
(* What materializeSteps computes.                                         *)

\* A list of all of a finite set without repetition.
LEMMA Enumerates ==
  ASSUME NEW S, IsFiniteSet(S), NEW s \in [1..Cardinality(S) -> S],
         \A i, k \in 1..Cardinality(S) : i < k => s[i] # s[k]
  PROVE  /\ Cardinality(S) \in Nat
         /\ \A i, k \in 1..Cardinality(S) : s[i] = s[k] => i = k
         /\ \A x \in S : \E i \in 1..Cardinality(S) : s[i] = x
<1> DEFINE n == Cardinality(S)
<1>1. n \in Nat
  BY FS_CardinalityType
<1>2. \A i, k \in 1..n : s[i] = s[k] => i = k
  <2> SUFFICES ASSUME NEW i \in 1..n, NEW k \in 1..n, s[i] = s[k] PROVE i = k
    OBVIOUS
  <2>1. i < k \/ k < i \/ i = k
    BY <1>1
  <2>2. QED
    BY <2>1
<1>3. s \in Injection(1..n, S)
  BY <1>2 DEF Injection, IsInjective
<1>4. IsFiniteSet(1..n) /\ Cardinality(1..n) = n
  BY <1>1, FS_Interval
<1>5. s \in Surjection(1..n, S)
  BY <1>3, <1>4, FS_Injection
<1>6. QED
  BY <1>1, <1>2, <1>5 DEF Surjection

RowsOf(m) == {m[i] : i \in DOMAIN m}

\* The rows stand for the workflow, and are the request's own.
LEMMA MaterializedIs ==
  ASSUME NEW r \in Request, NEW j \in Job, NEW w \in Workflow, NEW s \in Orders(w),
         NEW m, m = Materialized(r, j, w, s)
  PROVE  /\ m \in Seq(StepRow)
         /\ IsMaterialization(RowsOf(m), w) /\ IsFiniteSet(RowsOf(m))
         /\ \A row \in RowsOf(m) : row.job = j /\ row.id[1] = r
<1> DEFINE n == Cardinality(w.nodes)
           S == RowsOf(m)
<1>1. IsFiniteSet(w.nodes) /\ w.y \in [w.nodes -> Int] /\ w.def \in [w.nodes -> Def \cup {NilDef}]
  BY WorkflowAssumption DEF IsWorkflow
<1>2. s \in [1..n -> w.nodes] /\ \A i, k \in 1..n : i < k => s[i] # s[k] /\ w.y[s[i]] =< w.y[s[k]]
  BY DEF Orders
<1>3. /\ n \in Nat /\ \A i, k \in 1..n : s[i] = s[k] => i = k
      /\ \A x \in w.nodes : \E i \in 1..n : s[i] = x
  <2>1. \A i, k \in 1..n : i < k => s[i] # s[k]
    BY <1>2
  <2>2. s \in [1..Cardinality(w.nodes) -> w.nodes] /\ IsFiniteSet(w.nodes)
    BY <1>1, <1>2
  <2>3. \A i, k \in 1..Cardinality(w.nodes) : i < k => s[i] # s[k]
    BY <2>1
  <2> HIDE DEF S
  <2>4. /\ Cardinality(w.nodes) \in Nat
        /\ \A i, k \in 1..Cardinality(w.nodes) : s[i] = s[k] => i = k
        /\ \A x \in w.nodes : \E i \in 1..Cardinality(w.nodes) : s[i] = x
    BY ONLY <2>2, <2>3, Enumerates, ZenonT(60)
  <2>5. QED
    BY <2>4
<1>4. DOMAIN s = 1..n /\ DOMAIN m = 1..n
  BY <1>2 DEF Materialized
<1>5. ASSUME NEW i \in 1..n
      PROVE  /\ m[i].id = <<r, i>> /\ m[i].job = j /\ m[i].node = s[i] /\ m[i].order = i
             /\ m[i].def = w.def[s[i]] /\ m[i].deps = DependsOn(r, w, s, i)
  BY <1>4, <1>5 DEF Materialized
<1>6. ASSUME NEW i \in 1..n PROVE m[i] \in StepRow
  <2>1. s[i] \in w.nodes /\ s[i] \in UNION {v.nodes : v \in Workflow} /\ i \in Nat
    BY <1>2, <1>3
  <2>2. DependsOn(r, w, s, i) \in SUBSET (Request \X Nat)
    <3>1. \A k \in 1..n : <<r, k>> \in Request \X Nat
      BY <1>3
    <3>2. DependsOn(r, w, s, i) = {<<r, k>> : k \in {k \in 1..n : <<s[k], s[i]>> \in w.edges}}
      BY <1>4 DEF DependsOn
    <3>3. QED
      BY <3>1, <3>2
  <2>3. <<r, i>> \in Request \X Nat /\ w.def[s[i]] \in Def \cup {NilDef}
    BY <1>1, <2>1
  <2>4. m[i] = [id |-> <<r, i>>, job |-> j, node |-> s[i], def |-> w.def[s[i]],
                order |-> i, deps |-> DependsOn(r, w, s, i)]
    BY <1>4 DEF Materialized
  <2>5. QED
    BY <2>1, <2>2, <2>3, <2>4 DEF StepRow
<1>7. m \in Seq(StepRow)
  <2>1. m \in [1..n -> StepRow]
    BY <1>4, <1>6 DEF Materialized
  <2>2. QED
    BY <1>3, <2>1
<1>8. S = {m[i] : i \in 1..n}
  BY <1>4 DEF RowsOf
<1>9. {t.node : t \in S} = w.nodes
  BY <1>2, <1>3, <1>5, <1>8
<1>10. Cardinality(S) = n /\ IsFiniteSet(S)
  <2>1. [i \in 1..n |-> m[i]] \in Bijection(1..n, S)
    BY <1>3, <1>5, <1>8 DEF Bijection, Injection, Surjection, IsInjective
  <2>2. ExistsBijection(1..n, S)
    BY <2>1 DEF ExistsBijection
  <2>3. QED
    BY <1>3, <2>2, FS_CountingElements, FS_NatBijection
<1>11. {t.order : t \in S} = 1..n
  BY <1>5, <1>8
<1>12. ASSUME NEW a \in S
       PROVE  /\ a.def = w.def[a.node]
              /\ a.deps = {t.id : t \in {t \in S : <<t.node, a.node>> \in w.edges}}
  <2>1. PICK i \in 1..n : a = m[i]
    BY <1>8
  <2>2. a.deps = {<<r, k>> : k \in {k \in 1..n : <<s[k], s[i]>> \in w.edges}}
    BY <1>4, <1>5, <2>1 DEF DependsOn
  <2>3. a.node = s[i] /\ a.def = w.def[s[i]]
    BY <1>5, <2>1
  <2> DEFINE D == {t.id : t \in {t \in S : <<t.node, a.node>> \in w.edges}}
  <2>4. ASSUME NEW x PROVE x \in a.deps <=> x \in D
    <3>1. ASSUME NEW k \in 1..n, <<s[k], s[i]>> \in w.edges, x = <<r, k>>
          PROVE  m[k] \in S /\ <<m[k].node, a.node>> \in w.edges /\ x = m[k].id
      BY <1>5, <1>8, <2>3, <3>1
    <3>2. ASSUME NEW t \in S, <<t.node, a.node>> \in w.edges, x = t.id
          PROVE  \E k \in 1..n : <<s[k], s[i]>> \in w.edges /\ x = <<r, k>>
      <4>1. PICK k \in 1..n : t = m[k]
        BY <1>8
      <4>2. QED
        BY <1>5, <2>3, <3>2, <4>1
    <3>3. x \in a.deps <=> \E k \in 1..n : <<s[k], s[i]>> \in w.edges /\ x = <<r, k>>
      BY <2>2
    <3>4. x \in D <=> \E t \in S : <<t.node, a.node>> \in w.edges /\ x = t.id
      OBVIOUS
    <3>5. QED
      BY <3>1, <3>2, <3>3, <3>4
  <2>5. a.deps = D
    <3>1. a.deps \subseteq D /\ D \subseteq a.deps
      BY <2>4
    <3>2. QED
      BY <3>1
  <2>6. QED
    BY <2>3, <2>5
<1>13. ASSUME NEW a \in S, NEW b \in S, w.y[a.node] < w.y[b.node] PROVE a.order < b.order
  <2>1. PICK i \in 1..n, k \in 1..n : a = m[i] /\ b = m[k]
    BY <1>8, <1>13
  <2>2. a.node = s[i] /\ b.node = s[k] /\ a.order = i /\ b.order = k
    BY <1>5, <2>1
  <2>3. w.y[s[i]] \in Int /\ w.y[s[k]] \in Int
    BY <1>1, <1>2
  <2>4. ~(k < i) /\ k # i
    BY <1>2, <1>13, <2>2, <2>3
  <2>5. QED
    BY <1>3, <2>2, <2>4
<1>14. \A row \in S : row.job = j /\ row.id[1] = r
  BY <1>5, <1>8
<1>15. QED
  BY <1>7, <1>9, <1>10, <1>11, <1>12, <1>13, <1>14 DEF IsMaterialization
-------------------------------------------------------------------------------
(* The inductive invariant.                                                *)

Serving == {"create", "find"} \cup Writing
Done == {"ok", "unanswered"}

StepsOf(j) == {s \in steps : s.job = j}

\* A job that a request is making: nobody else sees it yet.
Making(r) == req[r].pc = "create" \/ (HoldsRow(r) /\ job[req[r].job] = NoRow)

\* Another request for the same job.
Beside(q, r) == q # r /\ req[q].pc # "idle" /\ req[q].job = req[r].job

\* Row locks, and what transactions know of the row of their job.
Locks(r) ==
  /\ HoldsRow(r) => /\ req[r].pc # "row" /\ req[r].job \notin gone
                    /\ \A q \in Request : Beside(q, r) => ~HoldsRow(q)
  /\ Making(r) => /\ job[req[r].job] = NoRow /\ req[r].job \notin gone
                  /\ \A q \in Request : Beside(q, r) => req[q].pc \in {"find", "refused"}
  /\ HoldsRow(r) /\ job[req[r].job] = NoRow => Home[req[r].job] \in projects
  /\ req[r].pc \in Writing /\ ~req[r].matched =>
       req[r].job \in gone \/ (req[r].pc = "row" /\ req[r].job \in Jobs)
  /\ \A x \in Held : ~Uses(r, x)

\* The rows that a request has inserted or has yet to insert.
Carried(r) == req[r].ins \cup RowsOf(req[r].rest)

\* What a transaction has in hand: the steps of its workflow, and from the row lock on
\* all steps that are to be replaced.
Content(r) ==
  req[r].pc \in Serving =>
    /\ IsMaterialization(Carried(r), req[r].spec) /\ IsFiniteSet(Carried(r))
    /\ \A s \in Carried(r) : s.job = req[r].job /\ s.id[1] = r
    /\ req[r].pc \in {"create", "find"} => ~req[r].matched
    /\ req[r].pc # "insert" => req[r].ins = {} /\ req[r].dels = {}
    /\ ~req[r].matched => req[r].ins = {} /\ req[r].dels = {} /\ req[r].seen = {}
    /\ req[r].matched /\ req[r].pc = "clearing" => req[r].seen = StepsOf(req[r].job)
    /\ req[r].matched /\ req[r].pc = "insert" => req[r].dels = StepsOf(req[r].job)
    /\ \A s \in req[r].ins : s.def \in defs

\* A job's row and its steps come from one request, which is over.
Saved(j) ==
  job[j] # NoRow =>
    /\ IsMaterialization(StepsOf(j), job[j].spec) /\ IsFiniteSet(StepsOf(j))
    /\ \A s \in StepsOf(j) : s.id[1] = job[j].by
    /\ req[job[j].by].pc \in Done /\ req[job[j].by].spec = job[j].spec

\* What an executor has loaded comes from requests that are over.
Loaded(e) ==
  exec[e].pc = "loaded" =>
    \A i \in DOMAIN exec[e].run : req[exec[e].run[i].id[1]].pc \in Done

IInv ==
  /\ TypeOK /\ TreeIsWhole /\ GoneStaysGone /\ HistoryStays /\ DependenciesRunFirst
  /\ \A r \in Request : Locks(r) /\ Content(r)
  /\ \A j \in Job : Saved(j)
  /\ \A e \in Execution : Loaded(e)

-------------------------------------------------------------------------------
(* Types.                                                                  *)

LEMMA ReqKind ==
  ASSUME TypeOK, NEW r \in Request
  PROVE  /\ req[r].pc \in Serving => req[r] \in Busy
         /\ req[r].pc \in Answered => req[r] \in Ended
         /\ req[r].pc \notin Serving \cup Answered => req[r] = Nowhere
         /\ req[r].pc # "idle" => req[r].job \in Job /\ req[r].spec \in Workflow
                                  /\ req[r].matched \in BOOLEAN
BY DEF TypeOK, Serving, Writing, Answered, Busy, Ended, Nowhere

LEMMA Kinds ==
  /\ \A pc : pc \in Serving <=> pc \in {"create", "find", "row", "clear", "clearing", "insert"}
  /\ \A pc : pc \in Writing <=> pc \in {"row", "clear", "clearing", "insert"}
  /\ \A pc : pc \in Answered <=> pc \in {"ok", "refused", "unanswered"}
  /\ \A pc : pc \in Done <=> pc \in {"ok", "unanswered"}
BY DEF Serving, Writing, Answered, Done

LEMMA BusyFields ==
  ASSUME NEW q \in Busy
  PROVE  /\ q.pc \in Serving /\ q.job \in Job /\ q.spec \in Workflow /\ q.matched \in BOOLEAN
         /\ q.seen \subseteq StepRow /\ q.dels \subseteq StepRow /\ q.ins \subseteq StepRow
         /\ q.rest \in Seq(StepRow)
BY DEF Busy, Serving

LEMMA InitInv == Init => IInv
<1> SUFFICES ASSUME Init PROVE IInv
  OBVIOUS
<1>1. \A r \in Request : req[r] = Nowhere /\ req[r].pc = "idle"
  BY DEF Init, Nowhere
<1>2. \A e \in Execution : exec[e] = Nowhere /\ exec[e].pc = "idle"
  BY DEF Init, Nowhere
<1>3. \A j \in Job : job[j] = NoRow
  BY DEF Init
<1>4. Jobs = {} /\ Held = {} /\ deletion.what = None
  BY <1>3 DEF Jobs, Held, Init, NoDeletion
<1>5. TypeOK
  BY <1>4 DEF Init, TypeOK, NoDeletion
<1>6. TreeIsWhole /\ GoneStaysGone
  BY <1>4 DEF Init, TreeIsWhole, GoneStaysGone
<1>7. HistoryStays /\ DependenciesRunFirst /\ \A e \in Execution : Loaded(e)
  BY <1>2 DEF HistoryStays, DependenciesRunFirst, Loaded
<1>8. \A r \in Request : Locks(r) /\ Content(r)
  BY <1>1, <1>4 DEF Locks, Content, HoldsRow, Making, Writing, Serving
<1>9. \A j \in Job : Saved(j)
  BY <1>3 DEF Saved
<1>10. QED
  BY <1>5, <1>6, <1>7, <1>8, <1>9 DEF IInv
-------------------------------------------------------------------------------
(* Steps of which requests notice nothing.                                 *)

TableTypes ==
  /\ job \in [Job -> JobRow \cup {NoRow}] /\ steps \subseteq StepRow
  /\ projects \subseteq Project /\ defs \subseteq Def /\ rules \subseteq Rule
  /\ gone \subseteq Project \cup Def \cup Job
ReqTypes == req \in [Request -> Busy \cup Ended \cup {Nowhere}]
ExecTypes == /\ exec \in [Execution -> Dispatched \cup {Nowhere}]
             /\ under \in [Execution -> Project \cup {None}]
DeletionTypes ==
  /\ deletion \in [what : projects \cup defs \cup {None},
                   held : SUBSET (projects \cup defs \cup Jobs)]
  /\ \A x \in Held \ {deletion.what} : x \in Job \cup Def /\ Home[x] = deletion.what

LEMMA Parts == TypeOK <=> TableTypes /\ ReqTypes /\ ExecTypes /\ DeletionTypes
BY DEF TypeOK, TableTypes, ReqTypes, ExecTypes, DeletionTypes

LEMMA Whole ==
  ASSUME TableTypes', ReqTypes', ExecTypes', DeletionTypes'
  PROVE  TypeOK'
BY DEF TypeOK, TableTypes, ReqTypes, ExecTypes, DeletionTypes

LEMMA QuietRequest ==
  ASSUME NEW r \in Request, Locks(r), Content(r), UNCHANGED <<job, steps, req, gone>>,
         defs \subseteq defs', projects \subseteq projects', \A x \in Held' : ~Uses(r, x)
  PROVE  Locks(r)' /\ Content(r)'
<1>1. \A x : Uses(r, x)' <=> Uses(r, x)
  BY DEF Uses, Jobs
<1>2. Locks(r)'
  <2>1. HoldsRow(r)' <=> HoldsRow(r)
    BY DEF HoldsRow
  <2>2. Making(r)' <=> Making(r)
    BY DEF Making, HoldsRow
  <2>3. \A q \in Request : Beside(q, r)' <=> Beside(q, r)
    BY DEF Beside
  <2>4. \A q \in Request : HoldsRow(q)' <=> HoldsRow(q)
    BY DEF HoldsRow
  <2>5. Jobs' = Jobs
    BY DEF Jobs
  <2>6. QED
    BY <1>1, <2>1, <2>2, <2>3, <2>4, <2>5 DEF Locks
<1>3. Content(r)'
  BY DEF Content, Carried, StepsOf
<1>4. QED
  BY <1>2, <1>3

\* A step of a run has all it depends on before it, if no edge leads upward.
RunsFirst(run, i, w) ==
  (\A g \in w.edges \cap (w.nodes \X w.nodes) : w.y[g[1]] < w.y[g[2]])
    => run[i].deps \subseteq {run[k].id : k \in 1..(i - 1)}

LEMMA RunIs ==
  ASSUME ExecTypes, NEW e \in Execution, exec[e].pc = "loaded"
  PROVE  /\ exec[e].run \in Seq(StepRow)
         /\ \A i \in DOMAIN exec[e].run : exec[e].run[i].id[1] \in Request
<1>1. exec[e] \in Dispatched
  BY DEF ExecTypes, Nowhere
<1>2. exec[e].run \in Seq(StepRow)
  BY <1>1 DEF Dispatched
<1>3. \A i \in DOMAIN exec[e].run : exec[e].run[i] \in StepRow
  BY <1>2
<1>4. \A s \in StepRow : s.id[1] \in Request
  BY DEF StepRow
<1>5. QED
  BY <1>2, <1>3, <1>4

LEMMA LoadedStays ==
  ASSUME ExecTypes, DependenciesRunFirst, NEW e \in Execution, Loaded(e),
         UNCHANGED exec, \A q \in Request : req[q].pc \in Done => req'[q] = req[q]
  PROVE  Loaded(e)' /\ (exec'[e].pc = "loaded" =>
           \A i \in DOMAIN exec'[e].run :
             RunsFirst(exec'[e].run, i, req'[exec'[e].run[i].id[1]].spec))
<1>1. SUFFICES ASSUME exec[e].pc = "loaded", NEW i \in DOMAIN exec[e].run
               PROVE  LET q == exec[e].run[i].id[1]
                      IN req'[q].pc \in Done /\ RunsFirst(exec[e].run, i, req'[q].spec)
  BY DEF Loaded
<1> DEFINE q == exec[e].run[i].id[1]
<1>2. q \in Request /\ req[q].pc \in Done
  BY <1>1, RunIs DEF Loaded
<1>3. RunsFirst(exec[e].run, i, req[q].spec)
  BY <1>1 DEF DependenciesRunFirst, RunsFirst
<1>4. QED
  BY <1>2, <1>3

LEMMA QuietExec ==
  ASSUME IInv, UNCHANGED <<exec, under>>,
         \A q \in Request : req[q].pc \in Done => req'[q] = req[q],
         \A e \in Execution : exec[e].pc # "idle" /\ exec[e].manual =>
           exec[e].job \in Jobs' /\ under[e] \in projects'
  PROVE  /\ ExecTypes' /\ HistoryStays' /\ DependenciesRunFirst'
         /\ \A e \in Execution : Loaded(e)'
<1>1. ExecTypes' /\ HistoryStays'
  BY Parts DEF IInv, ExecTypes, HistoryStays
<1>2. \A e \in Execution : Loaded(e)' /\ (exec'[e].pc = "loaded" =>
           \A i \in DOMAIN exec'[e].run :
             RunsFirst(exec'[e].run, i, req'[exec'[e].run[i].id[1]].spec))
  BY LoadedStays, Parts DEF IInv
<1>3. DependenciesRunFirst'
  BY <1>2 DEF DependenciesRunFirst, RunsFirst
<1>4. QED
  BY <1>1, <1>2, <1>3

\* Rows come, and a deletion locks rows that no request uses.
LEMMA QuietInv ==
  ASSUME IInv, UNCHANGED <<job, steps, req, exec, under, gone>>,
         defs \subseteq defs', projects \subseteq projects', TableTypes', DeletionTypes',
         TreeIsWhole', GoneStaysGone', \A r \in Request, x \in Held' : ~Uses(r, x)
  PROVE  IInv'
<1>1. Jobs' = Jobs
  BY DEF Jobs
<1>2. /\ ExecTypes' /\ HistoryStays' /\ DependenciesRunFirst'
      /\ \A e \in Execution : Loaded(e)'
  BY <1>1, QuietExec DEF IInv, HistoryStays
<1>3. \A r \in Request : Locks(r)' /\ Content(r)'
  BY QuietRequest DEF IInv
<1>4. \A j \in Job : Saved(j)'
  BY DEF IInv, Saved, StepsOf
<1>5. ReqTypes'
  BY Parts DEF IInv, ReqTypes
<1>6. TypeOK'
  BY <1>2, <1>5, Whole
<1>7. QED
  BY <1>2, <1>3, <1>4, <1>6 DEF IInv

LEMMA Distinct ==
  ASSUME TypeOK
  PROVE  /\ projects \cap defs = {} /\ projects \cap Jobs = {} /\ defs \cap Jobs = {}
         /\ projects \subseteq Project /\ defs \subseteq Def /\ Jobs \subseteq Job
         /\ \A x \in Job \cup Def : Home[x] \in Project /\ Home[x] \notin defs \cup Jobs
         /\ \A x \in Rule : JobOf[x] \in Job /\ JobOf[x] \notin defs \cup projects
         /\ rules \cap (projects \cup defs \cup Jobs \cup gone) = {}
         /\ None \notin projects \cup defs \cup Jobs
BY DistinctAssumption, HomeAssumption, JobOfAssumption, NoneAssumption DEF TypeOK, Jobs

LEMMA CreateProjectInv ==
  ASSUME IInv, NEW p \in Project, CreateProject(p)
  PROVE  IInv'
<1>1. /\ p \notin gone /\ projects' = projects \cup {p}
      /\ UNCHANGED <<job, steps, defs, req, exec, rules, gone, deletion, under>>
  BY DEF CreateProject, jobVars
<1>2. TypeOK /\ Jobs' = Jobs /\ Held' = Held
  BY <1>1 DEF IInv, Jobs, Held
<1>3. TableTypes'
  BY <1>1, <1>2, Parts DEF TableTypes
<1>4. DeletionTypes'
  BY <1>1, <1>2, Parts DEF DeletionTypes
<1>5. TreeIsWhole'
  BY <1>1, <1>2 DEF IInv, TreeIsWhole
<1>6. GoneStaysGone'
  BY <1>1, <1>2 DEF IInv, GoneStaysGone
<1>7. QED
  BY <1>1, <1>2, <1>3, <1>4, <1>5, <1>6, QuietInv DEF IInv, Locks

LEMMA CreateNodeInv ==
  ASSUME IInv, NEW d \in Def, CreateNode(d)
  PROVE  IInv'
<1>1. /\ d \notin gone /\ MayRefer(Home[d]) /\ defs' = defs \cup {d}
      /\ UNCHANGED <<job, steps, req, exec, projects, rules, gone, deletion, under>>
  BY DEF CreateNode, rowVars
<1>2. TypeOK /\ Jobs' = Jobs /\ Held' = Held
  BY <1>1 DEF IInv, Jobs, Held
<1>3. TableTypes'
  BY <1>1, <1>2, Parts DEF TableTypes
<1>4. DeletionTypes'
  BY <1>1, <1>2, Parts DEF DeletionTypes
<1>5. Home[d] \in projects
  BY <1>1, <1>2, Distinct DEF MayRefer
<1>6. TreeIsWhole'
  BY <1>1, <1>2, <1>5 DEF IInv, TreeIsWhole
<1>7. GoneStaysGone'
  BY <1>1, <1>2 DEF IInv, GoneStaysGone
<1>8. QED
  BY <1>1, <1>2, <1>3, <1>4, <1>6, <1>7, QuietInv DEF IInv, Locks

LEMMA RuleInv ==
  ASSUME IInv, NEW x \in Rule, CreateRule(x) \/ DeleteRule(x)
  PROVE  IInv'
<1>1. /\ UNCHANGED <<job, steps, defs, req, exec, projects, gone, deletion, under>>
      /\ rules' \subseteq rules \cup {x}
  BY DEF CreateRule, DeleteRule, jobVars
<1>2. TypeOK /\ Jobs' = Jobs /\ Held' = Held
  BY <1>1 DEF IInv, Jobs, Held
<1>3. x \in rules' /\ x \notin rules => JobOf[x] \in Jobs
  BY <1>2, Distinct DEF CreateRule, DeleteRule, MayRefer
<1>4. TableTypes'
  BY <1>1, <1>2, Parts DEF TableTypes
<1>5. DeletionTypes'
  BY <1>1, <1>2, Parts DEF DeletionTypes
<1>6. TreeIsWhole'
  BY <1>1, <1>2, <1>3 DEF IInv, TreeIsWhole
<1>7. GoneStaysGone'
  BY <1>1, <1>2, DistinctAssumption, Parts DEF IInv, GoneStaysGone, TableTypes
<1>8. QED
  BY <1>1, <1>2, <1>4, <1>5, <1>6, <1>7, QuietInv DEF IInv, Locks

LEMMA DeletionBeginsInv ==
  ASSUME IInv, NEW x, DeleteProject(x) \/ DeleteNode(x)
  PROVE  IInv'
<1>1. /\ UNCHANGED <<job, steps, defs, req, exec, projects, rules, gone, under>>
      /\ deletion = NoDeletion /\ deletion' = [deletion EXCEPT !.what = x]
      /\ x \in projects \cup defs
  BY DEF DeleteProject, DeleteNode, jobVars, rowVars
<1>2. TypeOK /\ Jobs' = Jobs
  BY <1>1 DEF IInv, Jobs
<1>3. deletion' = [what |-> x, held |-> {}] /\ Held' = {}
  BY <1>1 DEF NoDeletion, Held
<1>4. TableTypes'
  BY <1>1, <1>2, Parts DEF TableTypes
<1>5. DeletionTypes'
  <2>1. x \in projects' \cup defs' \cup {None} /\ Held' = {}
    BY <1>1, <1>3
  <2>2. deletion' \in [what : projects' \cup defs' \cup {None},
                      held : SUBSET (projects' \cup defs' \cup Jobs')]
    BY <1>3, <2>1
  <2>3. QED
    BY <2>1, <2>2 DEF DeletionTypes
<1>6. TreeIsWhole' /\ GoneStaysGone'
  BY <1>1, <1>2 DEF IInv, TreeIsWhole, GoneStaysGone
<1>7. QED
  BY <1>1, <1>2, <1>3, <1>4, <1>5, <1>6, QuietInv

LEMMA GiveUpInv ==
  ASSUME IInv, GiveUp
  PROVE  IInv'
<1>1. /\ UNCHANGED <<job, steps, defs, req, exec, projects, rules, gone, under>>
      /\ deletion' = [what |-> None, held |-> {}]
  BY DEF GiveUp, jobVars, rowVars, NoDeletion
<1>2. TypeOK /\ Jobs' = Jobs /\ Held' = {}
  BY <1>1 DEF IInv, Jobs, Held
<1>3. TableTypes'
  BY <1>1, <1>2, Parts DEF TableTypes
<1>4. DeletionTypes'
  BY <1>1, <1>2 DEF DeletionTypes
<1>5. TreeIsWhole' /\ GoneStaysGone'
  BY <1>1, <1>2 DEF IInv, TreeIsWhole, GoneStaysGone
<1>6. QED
  BY <1>1, <1>2, <1>3, <1>4, <1>5, QuietInv

LEMMA NextRowsAre ==
  ASSUME NEW x \in NextRows
  PROVE  /\ x \in projects \cup defs \cup Jobs
         /\ x # deletion.what => x \in defs \cup Jobs /\ Home[x] = deletion.what
BY DEF NextRows

LEMMA LockRowInv ==
  ASSUME IInv, NEW x \in NextRows, LockRow(x)
  PROVE  IInv'
<1>1. /\ UNCHANGED <<job, steps, defs, req, exec, projects, rules, gone, under>>
      /\ deletion' = [deletion EXCEPT !.held = @ \cup {x}]
      /\ \A r \in Request : ~Uses(r, x)
  BY DEF LockRow, jobVars, rowVars
<1>2. TypeOK /\ Jobs' = Jobs
  BY <1>1 DEF IInv, Jobs
<1>3. deletion \in [what : projects \cup defs \cup {None},
                    held : SUBSET (projects \cup defs \cup Jobs)]
  BY <1>2, Parts DEF DeletionTypes
<1>4. deletion' = [what |-> deletion.what, held |-> Held \cup {x}]
      /\ Held' = Held \cup {x} /\ deletion'.what = deletion.what
  BY <1>1, <1>3 DEF Held
<1>5. TableTypes'
  BY <1>1, <1>2, Parts DEF TableTypes
<1>6. DeletionTypes'
  <2>1. x \in projects \cup defs \cup Jobs
    BY NextRowsAre
  <2>2. Held \subseteq projects \cup defs \cup Jobs
    BY <1>3 DEF Held
  <2>3. x # deletion.what => x \in Job \cup Def /\ Home[x] = deletion.what
    BY <1>2, NextRowsAre, Distinct
  <2>4. \A y \in Held \ {deletion.what} : y \in Job \cup Def /\ Home[y] = deletion.what
    BY <1>2, Parts DEF DeletionTypes
  <2>5. QED
    BY <1>1, <1>2, <1>3, <1>4, <2>1, <2>2, <2>3, <2>4 DEF DeletionTypes
<1>7. TreeIsWhole' /\ GoneStaysGone'
  BY <1>1, <1>2 DEF IInv, TreeIsWhole, GoneStaysGone
<1>8. \A r \in Request, y \in Held' : ~Uses(r, y)
  BY <1>1, <1>4 DEF IInv, Locks
<1>9. QED
  BY <1>1, <1>2, <1>5, <1>6, <1>7, <1>8, QuietInv

LEMMA UpdateContentsInv ==
  ASSUME IInv, NEW x, UpdateContents(x)
  PROVE  IInv'
<1>1. UNCHANGED <<job, steps, defs, req, exec, projects, rules, gone, deletion, under>>
  BY DEF UpdateContents, Updated
<1>2. TypeOK /\ Jobs' = Jobs /\ Held' = Held
  BY <1>1 DEF IInv, Jobs, Held
<1>3. TableTypes' /\ DeletionTypes'
  BY <1>1, <1>2, Parts DEF TableTypes, DeletionTypes
<1>4. TreeIsWhole' /\ GoneStaysGone'
  BY <1>1, <1>2 DEF IInv, TreeIsWhole, GoneStaysGone
<1>5. QED
  BY <1>1, <1>2, <1>3, <1>4, QuietInv DEF IInv, Locks

-------------------------------------------------------------------------------
(* Rows go: a set of them with all that refers to one, and none of them in *)
(* use by a request or pinned by an execution.                             *)

Removes(D) ==
  /\ projects' = projects \ D /\ defs' = defs \ D /\ gone' = gone \cup D
  /\ job' = [j \in Job |-> IF j \in D THEN NoRow ELSE job[j]]
  /\ steps' = {s \in steps : s.job \notin D} /\ rules' = rules \ RulesOf(D)
  /\ UNCHANGED <<req, exec, under>>

Removable(D) ==
  /\ D \subseteq projects \cup defs \cup Jobs /\ ~Pinned(D)
  /\ \A r \in Request, x \in D : ~Uses(r, x)
  /\ \A x \in Jobs \cup defs : Home[x] \in D => x \in D
  /\ \A s \in steps : s.def \in D => s.job \in D

LEMMA RemainingTables ==
  ASSUME IInv, NEW D, Removable(D), Removes(D)
  PROVE  /\ Jobs' = Jobs \ D /\ TableTypes' /\ TreeIsWhole' /\ GoneStaysGone'
         /\ \A j \in Job \ D : StepsOf(j)' = StepsOf(j) /\ job'[j] = job[j]
         /\ \A j \in Job \cap D : job'[j] = NoRow
<1>1. TypeOK
  BY DEF IInv
<1>2. \A j \in Job \ D : StepsOf(j)' = StepsOf(j) /\ job'[j] = job[j]
  BY DEF Removes, StepsOf
<1>3. \A j \in Job \cap D : job'[j] = NoRow
  BY DEF Removes
<1>4. Jobs' = Jobs \ D
  BY <1>2, <1>3 DEF Jobs
<1>5. D \subseteq Project \cup Def \cup Job
  BY <1>1, Distinct DEF Removable
<1>6. TableTypes'
  <2>1. TableTypes
    BY <1>1, Parts
  <2>2. job' \in [Job -> JobRow \cup {NoRow}]
    BY <2>1 DEF TableTypes, Removes
  <2>3. steps' \subseteq StepRow /\ rules' \subseteq Rule
    BY <2>1 DEF TableTypes, Removes
  <2>4. QED
    BY <2>1, <2>2, <2>3, <1>5 DEF TableTypes, Removes
<1>7. TreeIsWhole'
  <2>1. TreeIsWhole
    BY DEF IInv
  <2>2. \A x \in Jobs' \cup defs' : Home[x] \in projects'
    BY <1>4, <2>1 DEF TreeIsWhole, Removes, Removable
  <2>3. \A x \in rules' : JobOf[x] \in Jobs'
    BY <1>4, <2>1 DEF TreeIsWhole, Removes, RulesOf
  <2>4. \A s \in steps' : s.job \in Jobs' /\ s.def \in defs'
    BY <1>4, <2>1 DEF TreeIsWhole, Removes, Removable
  <2>5. QED
    BY <2>2, <2>3, <2>4 DEF TreeIsWhole
<1>8. GoneStaysGone'
  <2>1. rules \cap D = {}
    BY <1>1, Distinct DEF Removable
  <2>2. rules' \subseteq rules
    BY DEF Removes
  <2>3. QED
    BY <1>4, <2>1, <2>2 DEF IInv, GoneStaysGone, Removes
<1>9. QED
  BY <1>2, <1>3, <1>4, <1>6, <1>7, <1>8

LEMMA RemainingRequests ==
  ASSUME IInv, NEW D, Removable(D), Removes(D), Held' \subseteq Held, NEW r \in Request
  PROVE  Locks(r)' /\ Content(r)'
<1> DEFINE j == req[r].job
<1>1. TypeOK /\ Locks(r) /\ Content(r) /\ req' = req
  BY DEF IInv, Removes
<1>2. /\ Jobs' = Jobs \ D
      /\ \A k \in Job \ D : StepsOf(k)' = StepsOf(k) /\ job'[k] = job[k]
      /\ \A k \in Job \cap D : job'[k] = NoRow
  BY RemainingTables
<1>3. /\ gone' = gone \cup D /\ projects' = projects \ D /\ defs' = defs \ D
      /\ D \subseteq projects \cup defs \cup Jobs /\ \A x \in D : ~Uses(r, x)
  BY DEF Removes, Removable
<1>4. req[r].pc # "idle" => j \in Job
  BY <1>1, ReqKind
<1>5. HoldsRow(r) => j \in Job \ D /\ job'[j] = job[j]
  BY <1>2, <1>3, <1>4, Kinds DEF HoldsRow, Uses
<1>6. \A q \in Request : /\ HoldsRow(q)' <=> HoldsRow(q)
                         /\ Beside(q, r)' <=> Beside(q, r)
  BY <1>1 DEF HoldsRow, Beside
<1>7. Making(r)' <=> Making(r)
  BY <1>1, <1>5, <1>6 DEF Making
<1>8. Making(r) => j \in Job \ D /\ job[j] = NoRow
  <2>1. Making(r) => j \in Job /\ job[j] = NoRow
    BY <1>1, <1>4, Kinds DEF Locks, Making, HoldsRow
  <2>2. QED
    BY <1>1, <1>3, <2>1, Distinct, DistinctAssumption DEF Jobs
<1>9. \A x : Uses(r, x)' => Uses(r, x)
  BY <1>1, <1>2, <1>3, <1>5 DEF Uses, HoldsRow
<1>10. Locks(r)'
  <2>1. HoldsRow(r) => req[r].pc # "row" /\ j \notin gone'
                       /\ \A q \in Request : Beside(q, r) => ~HoldsRow(q)
    BY <1>1, <1>3, <1>5 DEF Locks
  <2>2. Making(r) => /\ job'[j] = NoRow /\ j \notin gone'
                     /\ \A q \in Request : Beside(q, r) => req[q].pc \in {"find", "refused"}
    BY <1>1, <1>2, <1>3, <1>8 DEF Locks
  <2>3. HoldsRow(r) /\ job'[j] = NoRow => Home[j] \in projects'
    <3>1. SUFFICES ASSUME HoldsRow(r), job'[j] = NoRow PROVE Home[j] \in projects'
      OBVIOUS
    <3>2. Home[j] \in projects
      BY <1>1, <1>5, <3>1 DEF Locks
    <3>3. Uses(r, Home[j])
      BY <1>5, <3>1 DEF Uses, HoldsRow, Jobs
    <3>4. QED
      BY <1>3, <3>2, <3>3
  <2>4. req[r].pc \in Writing /\ ~req[r].matched =>
          j \in gone' \/ (req[r].pc = "row" /\ j \in Jobs')
    BY <1>1, <1>2, <1>3 DEF Locks
  <2>5. \A x \in Held' : ~Uses(r, x)'
    BY <1>1, <1>9 DEF Locks
  <2>6. QED
    BY <1>1, <1>6, <1>7, <2>1, <2>2, <2>3, <2>4, <2>5 DEF Locks
<1>11. Content(r)'
  <2>1. req[r].matched /\ req[r].pc \in {"clearing", "insert"} => StepsOf(j)' = StepsOf(j)
    <3>1. \A k \in Job \ D : {s \in steps' : s.job = k} = {s \in steps : s.job = k}
      BY <1>2 DEF StepsOf
    <3>2. QED
      BY <1>1, <1>5, <3>1, Kinds DEF HoldsRow, StepsOf
  <2>2. req[r].pc \in Serving => \A s \in req[r].ins : s.def \in defs'
    <3>1. SUFFICES ASSUME req[r].pc \in Serving, NEW s \in req[r].ins PROVE s.def \in defs'
      OBVIOUS
    <3>2. s.def \in defs /\ req[r].pc \in Writing
      BY <1>1, <3>1, Kinds DEF Content
    <3>3. Uses(r, s.def)
      BY <3>1, <3>2 DEF Uses
    <3>4. QED
      BY <1>3, <3>2, <3>3
  <2>3. QED
    BY <1>1, <2>1, <2>2 DEF Content, Carried
<1>12. QED
  BY <1>10, <1>11

LEMMA RemoveInv ==
  ASSUME IInv, NEW D, Removable(D), Removes(D), Held' \subseteq Held, DeletionTypes'
  PROVE  IInv'
<1>1. TypeOK /\ UNCHANGED <<req, exec, under>>
  BY DEF IInv, Removes
<1>2. /\ Jobs' = Jobs \ D /\ TableTypes' /\ TreeIsWhole' /\ GoneStaysGone'
      /\ \A j \in Job \ D : StepsOf(j)' = StepsOf(j) /\ job'[j] = job[j]
      /\ \A j \in Job \cap D : job'[j] = NoRow
  BY RemainingTables
<1>3. \A e \in Execution : exec[e].pc # "idle" /\ exec[e].manual =>
        exec[e].job \in Jobs' /\ under[e] \in projects'
  BY <1>2 DEF IInv, HistoryStays, Removable, Removes, Pinned
<1>4. /\ ExecTypes' /\ HistoryStays' /\ DependenciesRunFirst'
      /\ \A e \in Execution : Loaded(e)'
  BY <1>1, <1>3, QuietExec
<1>5. \A r \in Request : Locks(r)' /\ Content(r)'
  BY RemainingRequests
<1>6. \A j \in Job : Saved(j)'
  <2>1. \A j \in Job \ D : Saved(j)'
    BY <1>1, <1>2 DEF IInv, Saved
  <2>2. \A j \in Job \cap D : Saved(j)'
    BY <1>2 DEF Saved
  <2>3. QED
    BY <2>1, <2>2
<1>7. ReqTypes'
  BY <1>1, Parts DEF ReqTypes
<1>8. TypeOK'
  BY <1>2, <1>4, <1>7, Whole
<1>9. QED
  BY <1>2, <1>4, <1>5, <1>6, <1>8 DEF IInv

LEMMA DeleteJobInv ==
  ASSUME IInv, NEW j \in Job, DeleteJob(j)
  PROVE  IInv'
<1>1. /\ j \in Jobs \ Held /\ RowIsFree(j) /\ ~Pinned({j})
      /\ job' = [job EXCEPT ![j] = NoRow] /\ steps' = {s \in steps : s.job # j}
      /\ rules' = rules \ RulesOf({j}) /\ gone' = gone \cup {j}
      /\ UNCHANGED <<defs, req, exec, projects, deletion, under>>
  BY DEF DeleteJob
<1>2. TypeOK
  BY DEF IInv
<1>3. j \notin projects \cup defs
  BY <1>1, <1>2, Distinct
<1>4. Removes({j})
  <2>1. job' = [k \in Job |-> IF k \in {j} THEN NoRow ELSE job[k]]
    <3>1. DOMAIN job = Job
      BY <1>2 DEF TypeOK
    <3>2. QED
      BY <1>1, <3>1
  <2>2. steps' = {s \in steps : s.job \notin {j}} /\ defs' = defs \ {j}
        /\ projects' = projects \ {j}
    BY <1>1, <1>3
  <2>3. QED
    BY <1>1, <2>1, <2>2 DEF Removes
<1>5. Removable({j})
  <2>1. \A r \in Request : ~Uses(r, j)
    <3>1. SUFFICES ASSUME NEW r \in Request, Uses(r, j) PROVE FALSE
      OBVIOUS
    <3>2. req[r].pc \in Writing /\ req[r].job \in Job
      BY <1>2, <3>1, ReqKind, Kinds DEF Uses
    <3>3. ~\E s \in req[r].ins : s.def = j
      BY <1>3, <3>2, Kinds DEF IInv, Content
    <3>4. j # Home[req[r].job]
      BY <1>1, <1>2, <3>2, Distinct
    <3>5. req[r].matched /\ j = req[r].job
      BY <3>1, <3>3, <3>4 DEF Uses
    <3>6. QED
      BY <1>1, <3>2, <3>5 DEF RowIsFree, HoldsRow
  <2>2. \A x \in Jobs \cup defs : Home[x] # j
    BY <1>1, <1>2, Distinct DEF TypeOK
  <2>3. \A s \in steps : s.def # j
    BY <1>3 DEF IInv, TreeIsWhole
  <2>4. QED
    BY <1>1, <2>1, <2>2, <2>3 DEF Removable
<1>6. Held' = Held
  BY <1>1 DEF Held
<1>7. DeletionTypes'
  <2>1. Jobs' = Jobs \ {j}
    BY <1>4, <1>5, RemainingTables
  <2>2. DeletionTypes
    BY <1>2, Parts
  <2>3. deletion \in [what : projects \cup defs \cup {None},
                      held : SUBSET (projects \cup defs \cup Jobs')]
    BY <1>1, <2>1, <2>2 DEF DeletionTypes, Held
  <2>4. QED
    BY <1>1, <1>6, <2>2, <2>3 DEF DeletionTypes
<1>8. QED
  BY <1>4, <1>5, <1>6, <1>7, RemoveInv

LEMMA FinishDeletionInv ==
  ASSUME IInv, FinishDeletion
  PROVE  IInv'
<1>1. /\ AllLocked /\ ~Pinned(Held) /\ Referring = {}
      /\ deletion' = [what |-> None, held |-> {}]
  BY DEF FinishDeletion, NoDeletion
<1>2. TypeOK /\ DeletionTypes
  BY Parts DEF IInv
<1>3. Held' = {}
  BY <1>1 DEF Held
<1>4. Removes(Held)
  BY DEF FinishDeletion, Removes, Removed
<1>5. Removable(Held)
  <2>1. Held \subseteq projects \cup defs \cup Jobs
    BY <1>2 DEF DeletionTypes, Held
  <2>2. \A r \in Request, x \in Held : ~Uses(r, x)
    BY DEF IInv, Locks
  <2>3. \A x \in Jobs \cup defs : Home[x] \in Held => x \in Held
    <3>1. SUFFICES ASSUME NEW x \in Jobs \cup defs, Home[x] \in Held PROVE x \in Held
      OBVIOUS
    <3>2. Home[x] \in projects
      BY DEF IInv, TreeIsWhole
    <3>3. Home[x] \notin Job \cup Def
      BY <1>2, <3>2, DistinctAssumption DEF TypeOK
    <3>4. Home[x] = deletion.what
      BY <1>2, <3>1, <3>3 DEF DeletionTypes
    <3>5. NextRows = {}
      BY <1>1 DEF AllLocked
    <3>6. {d \in defs : Home[d] = deletion.what} \ Held = {}
          /\ {k \in Jobs : Home[k] = deletion.what} \ Held = {}
      BY <3>5 DEF NextRows
    <3>7. QED
      BY <3>4, <3>6
  <2>4. \A s \in steps : s.def \in Held => s.job \in Held
    BY <1>1 DEF Referring
  <2>5. QED
    BY <1>1, <2>1, <2>2, <2>3, <2>4 DEF Removable
<1>6. DeletionTypes'
  BY <1>1, <1>3 DEF DeletionTypes
<1>7. QED
  BY <1>3, <1>4, <1>5, <1>6, RemoveInv

-------------------------------------------------------------------------------
(* Steps of a request that change nothing but what is known of it.         *)

OthersMay(r, rec, q) ==
  rec.job = req[q].job =>
    /\ HoldsRow(q) => ~(rec.pc \in Writing /\ rec.matched)
    /\ Making(q) => rec.pc \in {"find", "refused"}

LEMMA OtherRequests ==
  ASSUME UNCHANGED <<job, steps, defs, projects, gone, deletion>>,
         NEW r \in Request, NEW rec, ReqTypes, req' = [req EXCEPT ![r] = rec],
         NEW q \in Request \ {r}, Locks(q), Content(q), OthersMay(r, rec, q)
  PROVE  Locks(q)' /\ Content(q)'
<1>1. req'[r] = rec /\ \A p \in Request \ {r} : req'[p] = req[p]
  BY DEF ReqTypes
<1>2. Jobs' = Jobs /\ Held' = Held
  BY DEF Jobs, Held
<1>3. \A p \in Request \ {r} : HoldsRow(p)' <=> HoldsRow(p)
  BY <1>1 DEF HoldsRow
<1>4. Making(q)' <=> Making(q)
  BY <1>1, <1>3 DEF Making
<1>5. \A p \in Request \ {r} : Beside(p, q)' <=> Beside(p, q)
  BY <1>1 DEF Beside
<1>6. HoldsRow(r)' <=> rec.pc \in Writing /\ rec.matched
  BY <1>1 DEF HoldsRow
<1>7. Beside(r, q)' => rec.job = req[q].job
  BY <1>1 DEF Beside
<1>8. \A x : Uses(q, x)' <=> Uses(q, x)
  BY <1>1, <1>2 DEF Uses
<1>9. Locks(q)'
  <2>1. HoldsRow(q) => \A p \in Request : Beside(p, q)' => ~HoldsRow(p)'
    BY <1>3, <1>5, <1>6, <1>7 DEF Locks, OthersMay
  <2>2. Making(q) => \A p \in Request : Beside(p, q)' => req'[p].pc \in {"find", "refused"}
    BY <1>1, <1>4, <1>5, <1>7 DEF Locks, OthersMay
  <2>3. HoldsRow(q) => req'[q].pc # "row" /\ req'[q].job \notin gone'
    BY <1>1 DEF Locks
  <2>4. Making(q) => job'[req'[q].job] = NoRow /\ req'[q].job \notin gone'
    BY <1>1 DEF Locks
  <2>5. HoldsRow(q) /\ job'[req'[q].job] = NoRow => Home[req'[q].job] \in projects'
    BY <1>1 DEF Locks
  <2>6. req'[q].pc \in Writing /\ ~req'[q].matched =>
          req'[q].job \in gone' \/ (req'[q].pc = "row" /\ req'[q].job \in Jobs')
    BY <1>1, <1>2 DEF Locks
  <2>7. \A x \in Held' : ~Uses(q, x)'
    BY <1>2, <1>8 DEF Locks
  <2>8. QED
    BY <1>3, <1>4, <2>1, <2>2, <2>3, <2>4, <2>5, <2>6, <2>7 DEF Locks
<1>10. Content(q)'
  BY <1>1 DEF Content, Carried, StepsOf
<1>11. QED
  BY <1>9, <1>10

LEMMA RequestOnly ==
  ASSUME IInv, NEW r \in Request, NEW rec \in Busy \cup Ended,
         UNCHANGED <<job, steps, defs, exec, projects, rules, gone, deletion, under>>,
         req' = [req EXCEPT ![r] = rec], req[r].pc \notin Done,
         \A q \in Request \ {r} : OthersMay(r, rec, q), Locks(r)', Content(r)'
  PROVE  IInv'
<1>1. TypeOK /\ Jobs' = Jobs /\ Held' = Held
  BY DEF IInv, Jobs, Held
<1>2. TableTypes' /\ DeletionTypes'
  BY <1>1, Parts DEF TableTypes, DeletionTypes
<1>3. ReqTypes /\ ReqTypes'
  BY <1>1, Parts DEF ReqTypes
<1>4. TreeIsWhole' /\ GoneStaysGone'
  BY <1>1 DEF IInv, TreeIsWhole, GoneStaysGone
<1>5. \A q \in Request : Locks(q)' /\ Content(q)'
  <2>1. \A q \in Request \ {r} : Locks(q)' /\ Content(q)'
    BY <1>3, OtherRequests DEF IInv
  <2>2. QED
    BY <2>1
<1>6. \A q \in Request : req[q].pc \in Done => req'[q] = req[q]
  BY <1>3 DEF ReqTypes
<1>7. /\ ExecTypes' /\ HistoryStays' /\ DependenciesRunFirst'
      /\ \A e \in Execution : Loaded(e)'
  BY <1>1, <1>6, QuietExec DEF IInv, HistoryStays
<1>8. \A j \in Job : Saved(j)'
  <2>1. SUFFICES ASSUME NEW j \in Job, job[j] # NoRow PROVE Saved(j)'
    BY DEF Saved
  <2>2. Saved(j) /\ job[j].by \in Request
    BY <1>1, <2>1 DEF IInv, TypeOK, JobRow
  <2>3. req'[job[j].by] = req[job[j].by]
    BY <1>6, <2>1, <2>2 DEF Saved
  <2>4. QED
    BY <2>2, <2>3 DEF Saved, StepsOf
<1>9. TypeOK'
  BY <1>2, <1>3, <1>7, Whole
<1>10. QED
  BY <1>4, <1>5, <1>7, <1>8, <1>9 DEF IInv

LEMMA RefuseInv ==
  ASSUME IInv, NEW r \in Request, req[r].pc \in Serving, Refuse(r),
         UNCHANGED <<rowVars, deletion, under>>
  PROVE  IInv'
<1> DEFINE rec == [pc |-> "refused", job |-> req[r].job, spec |-> req[r].spec,
                   matched |-> req[r].matched]
<1>1. TypeOK /\ ReqTypes
  BY Parts DEF IInv
<1>2. req' = [req EXCEPT ![r] = rec]
      /\ UNCHANGED <<job, steps, defs, exec, projects, rules, gone, deletion, under>>
  BY DEF Refuse, Ends, StepsRolledBack, rowVars
<1>3. req[r].job \in Job /\ req[r].spec \in Workflow /\ req[r].matched \in BOOLEAN
  BY <1>1, ReqKind, Kinds
<1>4. rec \in Ended
  BY <1>3, Kinds DEF Ended
<1>5. req'[r] = rec /\ req'[r].pc = "refused"
  BY <1>1, <1>2 DEF ReqTypes
<1>6. Locks(r)' /\ Content(r)'
  BY <1>5, Kinds DEF Locks, Content, HoldsRow, Making, Uses
<1>7. \A q \in Request \ {r} : OthersMay(r, rec, q)
  BY Kinds DEF OthersMay
<1>8. req[r].pc \notin Done
  BY Kinds
<1> HIDE DEF rec
<1>9. QED
  BY <1>2, <1>4, <1>6, <1>7, <1>8, RequestOnly

\* What a statement of a transaction leaves in hand when it is done.
InHand(r, rec) ==
  /\ rec.pc \in Writing /\ rec.job = req[r].job /\ rec.spec = req[r].spec
  /\ rec.ins \cup RowsOf(rec.rest) = Carried(r)
  /\ \A q \in Request : Beside(q, r) => ~Making(q)
  /\ rec.matched => /\ rec.pc # "row" /\ rec.job \notin gone /\ rec.job \notin Held
                    /\ \A q \in Request : Beside(q, r) => ~HoldsRow(q)
  /\ rec.matched /\ job[rec.job] = NoRow =>
       /\ Home[rec.job] \in projects /\ Home[rec.job] \notin Held
       /\ \A q \in Request : Beside(q, r) => req[q].pc \in {"find", "refused"}
  /\ ~rec.matched => /\ rec.job \in gone \/ (rec.pc = "row" /\ rec.job \in Jobs)
                     /\ rec.ins = {} /\ rec.dels = {} /\ rec.seen = {}
  /\ rec.pc # "insert" => rec.ins = {} /\ rec.dels = {}
  /\ rec.matched /\ rec.pc = "clearing" => rec.seen = StepsOf(rec.job)
  /\ rec.matched /\ rec.pc = "insert" => rec.dels = StepsOf(rec.job)
  /\ \A s \in rec.ins : s.def \in defs /\ s.def \notin Held

LEMMA StatementInv ==
  ASSUME IInv, NEW r \in Request, req[r].pc \in Serving, NEW rec \in Busy,
         InHand(r, rec), req' = [req EXCEPT ![r] = rec],
         UNCHANGED <<job, steps, defs, exec, rowVars, deletion, under>>
  PROVE  IInv'
<1>1. TypeOK /\ ReqTypes /\ Locks(r) /\ Content(r)
  BY Parts DEF IInv
<1>2. UNCHANGED <<job, steps, defs, exec, projects, rules, gone, deletion, under>>
  BY DEF rowVars
<1>3. req'[r] = rec /\ \A q \in Request \ {r} : req'[q] = req[q]
  BY <1>1 DEF ReqTypes
<1>4. Jobs' = Jobs /\ Held' = Held
  BY <1>2 DEF Jobs, Held
<1>5. rec.job = req[r].job /\ rec.pc \in Writing /\ rec.pc # "create" /\ rec.pc # "find"
  BY Kinds DEF InHand
<1>6. ASSUME NEW q \in Request
      PROVE  /\ Beside(q, r)' <=> Beside(q, r)
             /\ Beside(q, r) => (HoldsRow(q)' <=> HoldsRow(q)) /\ req'[q] = req[q]
  BY <1>3, <1>5 DEF Beside, HoldsRow
<1>7. HoldsRow(r)' <=> rec.matched
  BY <1>3, <1>5 DEF HoldsRow
<1>8. Making(r)' <=> rec.matched /\ job[rec.job] = NoRow
  BY <1>2, <1>3, <1>5, <1>7 DEF Making
<1>9. Locks(r)'
  <2>1. HoldsRow(r)' => /\ req'[r].pc # "row" /\ req'[r].job \notin gone'
                        /\ \A q \in Request : Beside(q, r)' => ~HoldsRow(q)'
    BY <1>2, <1>3, <1>6, <1>7 DEF InHand
  <2>2. Making(r)' => /\ job'[req'[r].job] = NoRow /\ req'[r].job \notin gone'
                      /\ \A q \in Request : Beside(q, r)' => req'[q].pc \in {"find", "refused"}
    BY <1>2, <1>3, <1>6, <1>8 DEF InHand
  <2>3. HoldsRow(r)' /\ job'[req'[r].job] = NoRow => Home[req'[r].job] \in projects'
    BY <1>2, <1>3, <1>7 DEF InHand
  <2>4. req'[r].pc \in Writing /\ ~req'[r].matched =>
          req'[r].job \in gone' \/ (req'[r].pc = "row" /\ req'[r].job \in Jobs')
    BY <1>2, <1>3, <1>4 DEF InHand
  <2>5. \A x \in Held' : ~Uses(r, x)'
    <3>1. rec.job \in Job /\ req'[r] = rec /\ Held' = Held /\ Jobs' = Jobs
      BY <1>3, <1>4, BusyFields
    <3>2. rec.job \notin Jobs => job[rec.job] = NoRow
      BY <3>1 DEF Jobs
    <3>3. \A x \in Held : /\ ~(rec.matched /\ x = rec.job) /\ ~\E s \in rec.ins : s.def = x
                         /\ ~(rec.matched /\ rec.job \notin Jobs /\ x = Home[rec.job])
      BY <3>2 DEF InHand
    <3>4. QED
      BY <3>1, <3>3 DEF Uses
  <2>6. QED
    BY <2>1, <2>2, <2>3, <2>4, <2>5 DEF Locks
<1>10. Content(r)'
  <2>1. Carried(r)' = Carried(r)
    BY <1>3 DEF InHand, Carried
  <2>2. {s \in steps' : s.job = req'[r].job} = {s \in steps : s.job = rec.job}
    BY <1>2, <1>3
  <2>3. req'[r].spec = req[r].spec /\ req'[r].job = req[r].job
    BY <1>3 DEF InHand
  <2>4. /\ IsMaterialization(Carried(r), req[r].spec) /\ IsFiniteSet(Carried(r))
        /\ \A s \in Carried(r) : s.job = req[r].job /\ s.id[1] = r
    BY <1>1 DEF Content
  <2>5. /\ ~(req'[r].pc \in {"create", "find"})
        /\ req'[r].pc # "insert" => req'[r].ins = {} /\ req'[r].dels = {}
        /\ ~req'[r].matched => req'[r].ins = {} /\ req'[r].dels = {} /\ req'[r].seen = {}
        /\ req'[r].matched /\ req'[r].pc = "clearing" => req'[r].seen = StepsOf(rec.job)
        /\ req'[r].matched /\ req'[r].pc = "insert" => req'[r].dels = StepsOf(rec.job)
        /\ \A s \in req'[r].ins : s.def \in defs'
    BY <1>2, <1>3, <1>5 DEF InHand
  <2>6. QED
    BY <2>1, <2>2, <2>3, <2>4, <2>5 DEF Content, StepsOf
<1>11. \A q \in Request \ {r} : OthersMay(r, rec, q)
  <2>1. SUFFICES ASSUME NEW q \in Request \ {r}, rec.job = req[q].job,
                        HoldsRow(q) \/ Making(q)
                 PROVE  HoldsRow(q) /\ ~rec.matched /\ ~Making(q)
    BY DEF OthersMay
  <2>2. Beside(q, r)
    BY <1>5, <2>1, Kinds DEF Beside, HoldsRow, Making
  <2>3. QED
    BY <2>1, <2>2 DEF InHand
<1>12. req[r].pc \notin Done
  BY Kinds
<1>13. QED
  BY <1>2, <1>9, <1>10, <1>11, <1>12, RequestOnly

LEMMA BeginInv ==
  ASSUME IInv, NEW r \in Request, NEW j \in Job, NEW w \in Workflow,
         Save(r, j, w)
  PROVE  IInv'
<1>1. PICK pc \in {"create", "find"} :
        /\ Begin(r, j, pc, w) /\ UNCHANGED <<rowVars, deletion, under>>
        /\ pc = "create" => j \notin gone /\ IsNew(j)
  BY DEF Save, CreateJob, UpdateJob
<1>2. PICK s \in Orders(w) :
        req' = [req EXCEPT ![r] =
                 [pc |-> pc, job |-> j, spec |-> w, matched |-> FALSE, seen |-> {},
                  dels |-> {}, ins |-> {}, rest |-> Materialized(r, j, w, s)]]
  BY <1>1 DEF Begin
<1> DEFINE m == Materialized(r, j, w, s)
           rec == [pc |-> pc, job |-> j, spec |-> w, matched |-> FALSE, seen |-> {},
                   dels |-> {}, ins |-> {}, rest |-> m]
<1>3. /\ m \in Seq(StepRow) /\ IsMaterialization(RowsOf(m), w) /\ IsFiniteSet(RowsOf(m))
      /\ \A row \in RowsOf(m) : row.job = j /\ row.id[1] = r
  BY MaterializedIs
<1>4. req[r].pc = "idle"
      /\ UNCHANGED <<job, steps, defs, exec, projects, rules, gone, deletion, under>>
  BY <1>1 DEF Begin, rowVars
<1>5. TypeOK /\ ReqTypes /\ req' = [req EXCEPT ![r] = rec]
  BY <1>2, Parts DEF IInv
<1> HIDE DEF m
<1>6. rec \in Busy
  BY <1>3 DEF Busy
<1>7. req'[r] = rec /\ \A q \in Request \ {r} : req'[q] = req[q]
  BY <1>5 DEF ReqTypes
<1>8. req'[r].pc = pc /\ pc \in {"create", "find"} /\ req'[r].job = j /\ req'[r].spec = w
      /\ req'[r].matched = FALSE /\ req'[r].ins = {} /\ req'[r].dels = {}
      /\ req'[r].seen = {} /\ req'[r].rest = m
  BY <1>7
<1> HIDE DEF rec
<1>9. pc = "create" => \A q \in Request \ {r} : req[q].pc # "idle" => req[q].job # j
  BY <1>1 DEF IsNew
<1>10. pc = "create" => \A q \in Request : ~Beside(q, r)'
  BY <1>7, <1>8, <1>9 DEF Beside
<1>11. Locks(r)'
  <2>1. ~HoldsRow(r)' /\ ~(req'[r].pc \in Writing) /\ \A x : ~Uses(r, x)'
    BY <1>8, Kinds DEF HoldsRow, Uses
  <2>2. Making(r)' => pc = "create"
    BY <1>8, <2>1 DEF Making
  <2>3. pc = "create" => job'[j] = NoRow /\ j \notin gone'
    BY <1>1, <1>4 DEF IsNew
  <2>4. QED
    BY <1>8, <1>10, <2>1, <2>2, <2>3 DEF Locks
<1>12. Content(r)'
  <2>1. Carried(r)' = RowsOf(m)
    BY <1>8 DEF Carried
  <2>2. QED
    BY <1>3, <1>8, <2>1 DEF Content
<1>13. \A q \in Request \ {r} : OthersMay(r, rec, q)
  <2>1. rec.pc = pc /\ rec.job = j
    BY <1>7, <1>8
  <2>2. QED
    BY <1>8, <1>9, <2>1, Kinds DEF OthersMay, HoldsRow, Making
<1>14. req[r].pc \notin Done
  BY <1>4, Kinds
<1>15. QED
  BY <1>4, <1>5, <1>6, <1>11, <1>12, <1>13, <1>14, RequestOnly

LEMMA GoesIs ==
  ASSUME TypeOK, NEW r \in Request, req[r].pc \in {"find", "row", "clear", "clearing"},
         NEW matched \in BOOLEAN, NEW seen \in SUBSET StepRow, NEW dels \in SUBSET StepRow,
         Goes(r, matched, seen, dels)
  PROVE  \E rec \in Busy :
           /\ req' = [req EXCEPT ![r] = rec]
           /\ rec.pc = Following[req[r].pc] /\ rec.pc \in Writing
           /\ rec.job = req[r].job /\ rec.spec = req[r].spec /\ rec.ins = req[r].ins
           /\ rec.rest = req[r].rest /\ rec.matched = matched /\ rec.seen = seen
           /\ rec.dels = dels
<1> DEFINE old == req[r]
           rec == [old EXCEPT !.pc = Following[@], !.matched = matched, !.seen = seen,
                              !.dels = dels]
<1>1. old \in Busy
  BY ReqKind, Kinds
<1>2. Following[old.pc] \in {"row", "clear", "clearing", "insert"}
  BY DEF Following
<1>3. rec \in Busy
  BY <1>1, <1>2, Kinds DEF Busy
<1>4. /\ rec.pc = Following[req[r].pc] /\ rec.job = req[r].job /\ rec.spec = req[r].spec
      /\ rec.ins = req[r].ins /\ rec.rest = req[r].rest /\ rec.matched = matched
      /\ rec.seen = seen /\ rec.dels = dels
  BY <1>1 DEF Busy
<1>5. req' = [req EXCEPT ![r] = rec]
  <2>1. req' = [req EXCEPT ![r].pc = Following[@], ![r].matched = matched,
                           ![r].seen = seen, ![r].dels = dels]
    BY DEF Goes
  <2>2. req \in [Request -> Busy \cup Ended \cup {Nowhere}]
    BY DEF TypeOK
  <2>3. QED
    BY <2>1, <2>2
<1> HIDE DEF rec
<1>6. QED
  BY <1>2, <1>3, <1>4, <1>5, Kinds

\* What holds of any request before a statement.
LEMMA Before ==
  ASSUME IInv, NEW r \in Request, req[r].pc \in Serving
  PROVE  /\ TypeOK /\ Locks(r) /\ Content(r) /\ req[r] \in Busy /\ req[r].job \in Job
         /\ req[r].matched \in BOOLEAN
         /\ job[req[r].job] = NoRow => StepsOf(req[r].job) = {}
         /\ job[req[r].job] # NoRow => req[r].job \notin gone
         /\ job[req[r].job] # NoRow <=> req[r].job \in Jobs
         /\ \A q \in Request : Beside(q, r) => Locks(q) /\ (Making(q) => Beside(r, q))
<1>1. TypeOK /\ Locks(r) /\ Content(r) /\ req[r] \in Busy
  BY ReqKind DEF IInv
<1>2. req[r].job \in Job /\ req[r].matched \in BOOLEAN
  BY <1>1, BusyFields
<1>3. job[req[r].job] # NoRow <=> req[r].job \in Jobs
  BY <1>2 DEF Jobs
<1>4. job[req[r].job] = NoRow => StepsOf(req[r].job) = {}
  BY <1>3 DEF IInv, TreeIsWhole, StepsOf
<1>5. job[req[r].job] # NoRow => req[r].job \notin gone
  BY <1>3 DEF IInv, GoneStaysGone
<1>6. \A q \in Request : Beside(q, r) => Locks(q) /\ (Making(q) => Beside(r, q))
  BY Kinds DEF IInv, Beside
<1>7. QED
  BY <1>1, <1>2, <1>3, <1>4, <1>5, <1>6

\* Beside a transaction that is writing, nobody is making its job.
LEMMA NobodyMakes ==
  ASSUME IInv, NEW r \in Request, req[r].pc \in Writing \cup {"create"},
         NEW q \in Request, Beside(q, r)
  PROVE  ~Making(q)
<1>1. Making(q) => req[r].pc \in {"find", "refused"}
  BY Before, Kinds DEF Locks
<1>2. QED
  BY <1>1, Kinds

LEMMA InsertJobInv ==
  ASSUME IInv, NEW r \in Request, InsertJob(r), req[r].pc = "create",
         MayRefer(Home[req[r].job]), UNCHANGED <<rowVars, deletion, under>>
  PROVE  IInv'
<1>1. CASE Refuse(r)
  BY <1>1, RefuseInv, Kinds
<1>2. CASE /\ req' = [req EXCEPT ![r].pc = "insert", ![r].matched = TRUE]
           /\ UNCHANGED <<job, steps, defs, exec>>
  <2> DEFINE old == req[r]
             rec == [old EXCEPT !.pc = "insert", !.matched = TRUE]
  <2>1. /\ TypeOK /\ Locks(r) /\ Content(r) /\ old \in Busy /\ old.job \in Job
        /\ job[old.job] = NoRow => StepsOf(old.job) = {}
    BY Before, Kinds
  <2>2. rec \in Busy
    BY <2>1, Kinds DEF Busy
  <2>3. /\ rec.pc = "insert" /\ rec.matched = TRUE /\ rec.job = old.job
        /\ rec.spec = old.spec /\ rec.ins = old.ins /\ rec.dels = old.dels
        /\ rec.seen = old.seen /\ rec.rest = old.rest
    BY <2>1 DEF Busy
  <2>4. req' = [req EXCEPT ![r] = rec]
    BY <1>2
  <2> HIDE DEF rec
  <2>5. Making(r)
    BY DEF Making
  <2>6. job[old.job] = NoRow /\ old.job \notin gone
        /\ \A q \in Request : Beside(q, r) => req[q].pc \in {"find", "refused"}
    BY <2>1, <2>5 DEF Locks
  <2>7. \A q \in Request : Beside(q, r) => ~HoldsRow(q) /\ ~Making(q)
    BY <2>6, Kinds DEF HoldsRow, Making
  <2>8. old.job \notin Held
    <3>1. DeletionTypes
      BY <2>1, Parts
    <3>2. Held \subseteq projects \cup defs \cup Jobs
      BY <3>1 DEF DeletionTypes, Held
    <3>3. old.job \notin projects \cup defs
      BY <2>1, DistinctAssumption DEF TypeOK
    <3>4. old.job \notin Jobs
      BY <2>6 DEF Jobs
    <3>5. QED
      BY <3>2, <3>3, <3>4
  <2>9. Home[old.job] \in projects /\ Home[old.job] \notin Held
    BY <2>1, Distinct DEF MayRefer
  <2>10. old.ins = {} /\ old.dels = {}
    BY <2>1, Kinds DEF Content
  <2>11. InHand(r, rec)
    BY <2>1, <2>3, <2>6, <2>7, <2>8, <2>9, <2>10, Kinds DEF InHand, Carried
  <2>12. QED
    BY <1>2, <2>2, <2>4, <2>11, StatementInv, Kinds
<1>3. QED
  BY <1>1, <1>2 DEF InsertJob

LEMMA FindInv ==
  ASSUME IInv, NEW r \in Request, Find(r), UNCHANGED <<rowVars, deletion, under>>
  PROVE  IInv'
<1>1. CASE Refuse(r)
  BY <1>1, RefuseInv, Kinds DEF Find
<1>2. CASE job[req[r].job] # NoRow /\ Goes(r, FALSE, {}, {})
  <2>1. req[r].pc = "find"
    BY DEF Find
  <2>2. /\ TypeOK /\ Content(r) /\ req[r].job \in Jobs
        /\ \A q \in Request : Beside(q, r) => Locks(q)
    BY <1>2, <2>1, Before, Kinds
  <2>3. PICK rec \in Busy :
           /\ req' = [req EXCEPT ![r] = rec]
           /\ rec.pc = Following[req[r].pc] /\ rec.pc \in Writing
           /\ rec.job = req[r].job /\ rec.spec = req[r].spec /\ rec.ins = req[r].ins
           /\ rec.rest = req[r].rest /\ ~rec.matched /\ rec.seen = {}
           /\ rec.dels = {}
    <3> DEFINE no == FALSE
    <3>1. {} \in SUBSET StepRow /\ no \in BOOLEAN /\ ~no /\ Goes(r, no, {}, {})
      BY <1>2
    <3>2. req[r].pc \in {"find", "row", "clear", "clearing"}
      BY <2>1
    <3> HIDE DEF no
    <3>3. QED
      BY <2>2, <3>1, <3>2, GoesIs
  <2>4. rec.pc = "row"
    BY <2>1, <2>3 DEF Following
  <2>5. rec.ins = {}
    BY <2>1, <2>2, <2>3, Kinds DEF Content
  <2>6. \A q \in Request : Beside(q, r) => ~Making(q)
    BY <1>2, <2>2 DEF Locks, Beside
  <2>7. InHand(r, rec)
    BY <2>2, <2>3, <2>4, <2>5, <2>6, Kinds DEF InHand, Carried
  <2>8. UNCHANGED <<job, steps, defs, exec>>
    BY <1>2 DEF Goes
  <2>9. QED
    BY <2>1, <2>3, <2>7, <2>8, StatementInv, Kinds
<1>3. QED
  BY <1>1, <1>2 DEF Find

LEMMA UpdateRowInv ==
  ASSUME IInv, NEW r \in Request, UpdateRow(r), ~AwaitsDeletion(r),
         UNCHANGED <<rowVars, deletion, under>>
  PROVE  IInv'
<1>1. req[r].pc = "row" /\ RowIsFree(req[r].job)
  BY DEF UpdateRow
<1>2. CASE Refuse(r)
  BY <1>1, <1>2, RefuseInv, Kinds
<1>3. CASE Goes(r, job[req[r].job] # NoRow, req[r].seen, req[r].dels)
  <2>1. /\ TypeOK /\ Locks(r) /\ Content(r) /\ req[r] \in Busy
        /\ job[req[r].job] # NoRow => req[r].job \notin gone
    BY <1>1, Before, Kinds
  <2> DEFINE there == job[req[r].job] # NoRow
  <2>2. PICK rec \in Busy :
           /\ req' = [req EXCEPT ![r] = rec]
           /\ rec.pc = Following[req[r].pc] /\ rec.pc \in Writing
           /\ rec.job = req[r].job /\ rec.spec = req[r].spec /\ rec.ins = req[r].ins
           /\ rec.rest = req[r].rest /\ rec.matched = there /\ rec.seen = req[r].seen
           /\ rec.dels = req[r].dels
    <3>1. req[r].seen \in SUBSET StepRow /\ req[r].dels \in SUBSET StepRow
          /\ there \in BOOLEAN /\ Goes(r, there, req[r].seen, req[r].dels)
      BY <1>3, <2>1, BusyFields
    <3>2. req[r].pc \in {"find", "row", "clear", "clearing"}
      BY <1>1
    <3> HIDE DEF there
    <3>3. QED
      BY <2>1, <3>1, <3>2, GoesIs
  <2>3. rec.pc = "clear"
    BY <1>1, <2>2 DEF Following
  <2>4. ~req[r].matched
    BY <1>1, <2>1, Kinds DEF Locks, HoldsRow
  <2>5. req[r].ins = {} /\ req[r].dels = {} /\ req[r].seen = {}
    BY <1>1, <2>1, <2>4, Kinds DEF Content
  <2>6. job[req[r].job] = NoRow => req[r].job \in gone
    BY <1>1, <2>1, <2>4, Kinds DEF Locks, Jobs
  <2>7. req[r].job \notin Held
    BY <1>1 DEF AwaitsDeletion
  <2>8. \A q \in Request : Beside(q, r) => ~HoldsRow(q) /\ ~Making(q)
    BY <1>1, NobodyMakes, Kinds DEF RowIsFree, Beside
  <2>9. InHand(r, rec)
    BY <2>1, <2>2, <2>3, <2>5, <2>6, <2>7, <2>8 DEF InHand, Carried
  <2>10. UNCHANGED <<job, steps, defs, exec>>
    BY <1>3 DEF Goes
  <2>11. QED
    BY <1>1, <2>2, <2>9, <2>10, StatementInv, Kinds
<1>4. QED
  BY <1>2, <1>3 DEF UpdateRow

\* A transaction that has written keeps what it holds.
LEMMA StillHeld ==
  ASSUME IInv, NEW r \in Request, req[r].pc \in Writing \ {"row"}
  PROVE  /\ \A q \in Request : Beside(q, r) => ~Making(q)
         /\ req[r].matched =>
              /\ req[r].job \notin gone /\ req[r].job \notin Held
              /\ \A q \in Request : Beside(q, r) => ~HoldsRow(q)
         /\ req[r].matched /\ job[req[r].job] = NoRow =>
              /\ Home[req[r].job] \in projects /\ Home[req[r].job] \notin Held
              /\ \A q \in Request : Beside(q, r) => req[q].pc \in {"find", "refused"}
         /\ ~req[r].matched => /\ req[r].job \in gone /\ StepsOf(req[r].job) = {}
                               /\ job[req[r].job] = NoRow
                               /\ req[r].ins = {} /\ req[r].dels = {} /\ req[r].seen = {}
         /\ \A s \in req[r].ins : s.def \in defs /\ s.def \notin Held
<1>1. /\ TypeOK /\ Locks(r) /\ Content(r) /\ req[r].job \in Job
      /\ job[req[r].job] = NoRow => StepsOf(req[r].job) = {}
      /\ job[req[r].job] # NoRow => req[r].job \notin gone
      /\ job[req[r].job] # NoRow <=> req[r].job \in Jobs
  BY Before, Kinds
<1>2. \A q \in Request : Beside(q, r) => ~Making(q)
  BY NobodyMakes
<1>3. req[r].matched <=> HoldsRow(r)
  BY DEF HoldsRow
<1>4. \A x \in Held : ~Uses(r, x)
  BY <1>1 DEF Locks
<1>5. req[r].matched => /\ req[r].job \notin gone /\ req[r].job \notin Held
                        /\ \A q \in Request : Beside(q, r) => ~HoldsRow(q)
  BY <1>1, <1>3, <1>4 DEF Locks, Uses
<1>6. req[r].matched /\ job[req[r].job] = NoRow =>
        /\ Home[req[r].job] \in projects /\ Home[req[r].job] \notin Held
        /\ \A q \in Request : Beside(q, r) => req[q].pc \in {"find", "refused"}
  BY <1>1, <1>3, <1>4 DEF Locks, Uses, Making
<1>7. ~req[r].matched => /\ req[r].job \in gone /\ job[req[r].job] = NoRow
                         /\ req[r].ins = {} /\ req[r].dels = {} /\ req[r].seen = {}
  BY <1>1, Kinds DEF Locks, Content
<1>8. \A s \in req[r].ins : s.def \in defs /\ s.def \notin Held
  BY <1>1, <1>4, Kinds DEF Content, Uses
<1>9. QED
  BY <1>1, <1>2, <1>5, <1>6, <1>7, <1>8

LEMMA ClearStepsInv ==
  ASSUME IInv, NEW r \in Request, ClearSteps(r), UNCHANGED <<rowVars, deletion, under>>
  PROVE  IInv'
<1>1. req[r].pc = "clear"
  BY DEF ClearSteps
<1>2. CASE Refuse(r)
  BY <1>1, <1>2, RefuseInv, Kinds
<1>3. CASE Goes(r, req[r].matched, {s \in steps : s.job = req[r].job}, {})
  <2>1. TypeOK /\ Content(r) /\ req[r] \in Busy
    BY <1>1, Before, Kinds
  <2>2. PICK rec \in Busy :
           /\ req' = [req EXCEPT ![r] = rec]
           /\ rec.pc = Following[req[r].pc] /\ rec.pc \in Writing
           /\ rec.job = req[r].job /\ rec.spec = req[r].spec /\ rec.ins = req[r].ins
           /\ rec.rest = req[r].rest /\ rec.matched = req[r].matched
           /\ rec.seen = StepsOf(req[r].job) /\ rec.dels = {}
    <3>1. StepsOf(req[r].job) \in SUBSET StepRow /\ {} \in SUBSET StepRow
          /\ req[r].matched \in BOOLEAN /\ Goes(r, req[r].matched, StepsOf(req[r].job), {})
      BY <1>3, <2>1, BusyFields DEF StepsOf, TypeOK
    <3>2. req[r].pc \in {"find", "row", "clear", "clearing"}
      BY <1>1
    <3>3. QED
      BY <2>1, <3>1, <3>2, GoesIs
  <2>3. rec.pc = "clearing"
    BY <1>1, <2>2 DEF Following
  <2>4. req[r].ins = {}
    BY <1>1, <2>1, Kinds DEF Content
  <2>5. InHand(r, rec)
    BY <1>1, <2>2, <2>3, <2>4, StillHeld, Kinds DEF InHand, Carried
  <2>6. UNCHANGED <<job, steps, defs, exec>>
    BY <1>3 DEF Goes
  <2>7. QED
    BY <1>1, <2>2, <2>5, <2>6, StatementInv, Kinds
<1>4. QED
  BY <1>2, <1>3 DEF ClearSteps

LEMMA StepsClearedInv ==
  ASSUME IInv, NEW r \in Request, StepsCleared(r), UNCHANGED <<rowVars, deletion, under>>
  PROVE  IInv'
<1>1. req[r].pc = "clearing" /\ Goes(r, req[r].matched, {}, req[r].seen \cap steps)
  BY DEF StepsCleared
<1>2. TypeOK /\ Content(r) /\ req[r] \in Busy
  BY <1>1, Before, Kinds
<1>3. PICK rec \in Busy :
         /\ req' = [req EXCEPT ![r] = rec]
         /\ rec.pc = Following[req[r].pc] /\ rec.pc \in Writing
         /\ rec.job = req[r].job /\ rec.spec = req[r].spec /\ rec.ins = req[r].ins
         /\ rec.rest = req[r].rest /\ rec.matched = req[r].matched
         /\ rec.seen = {} /\ rec.dels = req[r].seen \cap steps
  <2>1. req[r].seen \cap steps \in SUBSET StepRow /\ {} \in SUBSET StepRow
        /\ req[r].matched \in BOOLEAN
    BY <1>2, BusyFields
  <2>2. req[r].pc \in {"find", "row", "clear", "clearing"}
    BY <1>1
  <2>3. QED
    BY <1>1, <1>2, <2>1, <2>2, GoesIs
<1>4. rec.pc = "insert"
  BY <1>1, <1>3 DEF Following
<1>5. req[r].ins = {}
  BY <1>1, <1>2, Kinds DEF Content
<1>6. req[r].matched => rec.dels = StepsOf(req[r].job)
  <2>1. req[r].matched => req[r].seen = StepsOf(req[r].job)
    BY <1>1, <1>2, Kinds DEF Content
  <2>2. QED
    BY <1>3, <2>1 DEF StepsOf
<1>7. ~req[r].matched => rec.dels = {}
  BY <1>1, <1>3, StillHeld, Kinds
<1>8. InHand(r, rec)
  BY <1>1, <1>3, <1>4, <1>5, <1>6, <1>7, StillHeld, Kinds DEF InHand, Carried
<1>9. UNCHANGED <<job, steps, defs, exec>>
  BY <1>1 DEF Goes
<1>10. QED
  BY <1>1, <1>3, <1>8, <1>9, StatementInv, Kinds

LEMMA HeadAndTail ==
  ASSUME NEW S, NEW m \in Seq(S), m # <<>>
  PROVE  /\ Tail(m) \in Seq(S) /\ Head(m) \in S
         /\ RowsOf(m) = {Head(m)} \cup RowsOf(Tail(m))
<1>1. /\ Len(m) \in Nat /\ Len(m) > 0 /\ DOMAIN m = 1..Len(m) /\ Head(m) = m[1]
      /\ Tail(m) \in Seq(S) /\ Len(Tail(m)) = Len(m) - 1 /\ DOMAIN Tail(m) = 1..(Len(m) - 1)
      /\ \A i \in 1..(Len(m) - 1) : Tail(m)[i] = m[i + 1]
      /\ Head(m) \in S
  OBVIOUS
<1>2. \A x \in RowsOf(m) : x \in {Head(m)} \cup RowsOf(Tail(m))
  <2>1. SUFFICES ASSUME NEW i \in 1..Len(m) PROVE m[i] = Head(m) \/ m[i] \in RowsOf(Tail(m))
    BY <1>1 DEF RowsOf
  <2>2. CASE i = 1
    BY <1>1, <2>2
  <2>3. CASE i # 1
    <3>1. i - 1 \in 1..(Len(m) - 1) /\ Tail(m)[i - 1] = m[i]
      BY <1>1, <2>3
    <3>2. QED
      BY <1>1, <3>1 DEF RowsOf
  <2>4. QED
    BY <2>2, <2>3
<1>3. Head(m) \in RowsOf(m)
  BY <1>1 DEF RowsOf
<1>4. \A x \in RowsOf(Tail(m)) : x \in RowsOf(m)
  <2>1. SUFFICES ASSUME NEW i \in 1..(Len(m) - 1) PROVE Tail(m)[i] \in RowsOf(m)
    BY <1>1 DEF RowsOf
  <2>2. i + 1 \in 1..Len(m) /\ Tail(m)[i] = m[i + 1]
    BY <1>1
  <2>3. QED
    BY <1>1, <2>2 DEF RowsOf
<1>5. QED
  <2>1. RowsOf(m) \subseteq {Head(m)} \cup RowsOf(Tail(m))
    BY <1>2
  <2>2. {Head(m)} \cup RowsOf(Tail(m)) \subseteq RowsOf(m)
    BY <1>3, <1>4
  <2>3. QED
    BY <1>1, <2>1, <2>2

LEMMA InsertStepInv ==
  ASSUME IInv, NEW r \in Request, InsertStep(r), ~AwaitsDeletion(r),
         UNCHANGED <<rowVars, deletion, under>>
  PROVE  IInv'
<1>1. req[r].pc = "insert" /\ req[r].rest # <<>>
  BY DEF InsertStep
<1>2. CASE Refuse(r)
  BY <1>1, <1>2, RefuseInv, Kinds
<1>3. CASE /\ MayInsert(r, Head(req[r].rest))
           /\ req' = [req EXCEPT ![r].ins = @ \cup {Head(req[r].rest)},
                                 ![r].rest = Tail(@)]
           /\ UNCHANGED <<job, steps, defs, exec>>
  <2> DEFINE old == req[r]
             row == Head(old.rest)
             rec == [old EXCEPT !.ins = @ \cup {row}, !.rest = Tail(@)]
  <2>1. TypeOK /\ Content(r) /\ old \in Busy /\ old.rest \in Seq(StepRow)
        /\ old.ins \subseteq StepRow
    BY <1>1, Before, BusyFields, Kinds
  <2>2. /\ Tail(old.rest) \in Seq(StepRow) /\ row \in StepRow
        /\ RowsOf(old.rest) = {row} \cup RowsOf(Tail(old.rest))
    BY <1>1, <2>1, HeadAndTail
  <2>3. req' = [req EXCEPT ![r] = rec]
    <3>1. req \in [Request -> Busy \cup Ended \cup {Nowhere}]
      BY <2>1 DEF TypeOK
    <3>2. QED
      BY <1>3, <3>1
  <2>4. row.def \in defs /\ row.def \notin Held
    BY <1>1, <1>3 DEF MayInsert, AwaitsDeletion
  <2>5. row.job = old.job
    BY <1>1, <2>1, <2>2, Kinds DEF Content, Carried
  <2>6. old.matched
    BY <1>1, <1>3, <2>5, StillHeld, Kinds DEF MayInsert
  <2> HIDE DEF row
  <2>7. /\ rec.pc = "insert" /\ rec.matched = old.matched /\ rec.job = old.job
        /\ rec.spec = old.spec /\ rec.ins = old.ins \cup {row} /\ rec.dels = old.dels
        /\ rec.seen = old.seen /\ rec.rest = Tail(old.rest)
    BY <1>1, <2>1 DEF Busy
  <2>8. rec \in Busy
    BY <2>1, <2>2 DEF Busy
  <2> HIDE DEF rec
  <2>9. rec.ins \cup RowsOf(rec.rest) = Carried(r)
    BY <2>2, <2>7 DEF Carried
  <2>10. old.dels = StepsOf(old.job)
    BY <1>1, <2>1, <2>6, Kinds DEF Content
  <2>11. InHand(r, rec)
    BY <1>1, <2>4, <2>6, <2>7, <2>9, <2>10, StillHeld, Kinds DEF InHand
  <2>12. QED
    BY <1>1, <1>3, <2>3, <2>8, <2>11, StatementInv, Kinds
<1>4. QED
  BY <1>2, <1>3 DEF InsertStep

-------------------------------------------------------------------------------
(* The commit.                                                             *)

\* A commit of a row: the job and all its steps are replaced at once.
Commits(r, rec) ==
  /\ rec \in Ended /\ rec.pc \in Done
  /\ rec.job = req[r].job /\ rec.spec = req[r].spec
  /\ req' = [req EXCEPT ![r] = rec]
  /\ job' = [job EXCEPT ![req[r].job] = [spec |-> req[r].spec, by |-> r]]
  /\ steps' = (steps \ req[r].dels) \cup req[r].ins
  /\ UNCHANGED <<defs, exec, projects, rules, gone, deletion, under>>

LEMMA CommittedTables ==
  ASSUME IInv, NEW r \in Request, req[r].pc = "insert", req[r].rest = <<>>,
         req[r].matched, NEW rec, Commits(r, rec)
  PROVE  /\ TableTypes' /\ DeletionTypes' /\ TreeIsWhole' /\ GoneStaysGone'
         /\ Jobs \subseteq Jobs'
         /\ job'[req[r].job] = [spec |-> req[r].spec, by |-> r]
         /\ {s \in steps' : s.job = req[r].job} = Carried(r)
         /\ \A k \in Job \ {req[r].job} :
              StepsOf(k)' = StepsOf(k) /\ job'[k] = job[k]
         /\ req'[r] = rec /\ \A q \in Request \ {r} : req'[q] = req[q]
<1> DEFINE j == req[r].job
<1>1. /\ TypeOK /\ Locks(r) /\ Content(r) /\ req[r] \in Busy /\ j \in Job
      /\ job[j] # NoRow <=> j \in Jobs
  BY Before, Kinds
<1>2. req[r].spec \in Workflow /\ req[r].ins \subseteq StepRow
  BY <1>1, BusyFields
<1>3. /\ TableTypes /\ DeletionTypes /\ ReqTypes /\ TreeIsWhole /\ GoneStaysGone
  BY <1>1, Parts DEF IInv
<1>4. req'[r] = rec /\ \A q \in Request \ {r} : req'[q] = req[q]
  BY <1>3 DEF Commits, ReqTypes
<1>5. /\ job' = [job EXCEPT ![j] = [spec |-> req[r].spec, by |-> r]]
      /\ steps' = (steps \ req[r].dels) \cup req[r].ins
      /\ UNCHANGED <<defs, projects, rules, gone, deletion>>
  BY DEF Commits
<1>6. req[r].dels = StepsOf(j) /\ \A s \in req[r].ins : s.job = j /\ s.def \in defs
  BY <1>1, Kinds DEF Content, Carried
<1>7. Carried(r) = req[r].ins
  BY DEF Carried, RowsOf
<1>8. [spec |-> req[r].spec, by |-> r] \in JobRow
      /\ [spec |-> req[r].spec, by |-> r] # NoRow
  BY <1>2, NoRowAssumption DEF JobRow
<1>9. job \in [Job -> JobRow \cup {NoRow}]
  BY <1>3 DEF TableTypes
<1>10. /\ job'[j] = [spec |-> req[r].spec, by |-> r]
       /\ \A k \in Job \ {j} : job'[k] = job[k]
       /\ job' \in [Job -> JobRow \cup {NoRow}]
  BY <1>1, <1>5, <1>8, <1>9
<1>11. Jobs' = Jobs \cup {j}
  BY <1>1, <1>8, <1>10 DEF Jobs
<1>12. {s \in steps' : s.job = j} = Carried(r)
  BY <1>5, <1>6, <1>7 DEF StepsOf
<1>13. \A k \in Job \ {j} : StepsOf(k)' = StepsOf(k)
  BY <1>5, <1>6 DEF StepsOf
<1>14. TableTypes'
  <2>1. steps' \subseteq StepRow
    BY <1>2, <1>3, <1>5 DEF TableTypes
  <2>2. QED
    BY <1>3, <1>5, <1>10, <2>1 DEF TableTypes
<1>15. DeletionTypes'
  <2>1. Held' = Held
    BY <1>5 DEF Held
  <2>2. deletion \in [what : projects \cup defs \cup {None},
                      held : SUBSET (projects \cup defs \cup Jobs')]
    BY <1>3, <1>11 DEF DeletionTypes
  <2>3. QED
    BY <1>3, <1>5, <2>1, <2>2 DEF DeletionTypes
<1>16. j \notin gone /\ Home[j] \in projects
  BY <1>1, <1>3, StillHeld, Kinds DEF TreeIsWhole
<1>17. TreeIsWhole'
  <2>1. \A x \in Jobs' \cup defs' : Home[x] \in projects'
    BY <1>3, <1>5, <1>11, <1>16 DEF TreeIsWhole
  <2>2. \A x \in rules' : JobOf[x] \in Jobs'
    BY <1>3, <1>5, <1>11 DEF TreeIsWhole
  <2>3. \A s \in steps' : s.job \in Jobs' /\ s.def \in defs'
    BY <1>3, <1>5, <1>6, <1>11 DEF TreeIsWhole
  <2>4. QED
    BY <2>1, <2>2, <2>3 DEF TreeIsWhole
<1>18. GoneStaysGone'
  BY <1>3, <1>5, <1>11, <1>16 DEF GoneStaysGone
<1>19. QED
  BY <1>4, <1>10, <1>11, <1>12, <1>13, <1>14, <1>15, <1>17, <1>18

LEMMA CommittedRequests ==
  ASSUME IInv, NEW r \in Request, req[r].pc = "insert", req[r].rest = <<>>,
         req[r].matched, NEW rec, Commits(r, rec), NEW q \in Request
  PROVE  Locks(q)' /\ Content(q)'
<1> DEFINE j == req[r].job
<1>1. /\ Jobs \subseteq Jobs' /\ job'[j] # NoRow
      /\ \A k \in Job \ {j} : StepsOf(k)' = StepsOf(k) /\ job'[k] = job[k]
      /\ req'[r] = rec /\ \A p \in Request \ {r} : req'[p] = req[p]
  <2>1. [spec |-> req[r].spec, by |-> r] # NoRow
    BY NoRowAssumption, Before, BusyFields, Kinds
  <2>2. QED
    BY <2>1, CommittedTables
<1>2. UNCHANGED <<defs, projects, gone, deletion>> /\ Held' = Held /\ rec.pc \in Done
  BY DEF Commits, Held
<1>3. ~HoldsRow(r)' /\ ~Making(r)' /\ ~(rec.pc \in Writing) /\ ~(rec.pc \in Serving)
  BY <1>1, <1>2, Kinds DEF HoldsRow, Making
<1>4. CASE q = r
  BY <1>1, <1>3, <1>4 DEF Locks, Content, Uses
<1>5. CASE q # r
  <2>1. TypeOK /\ Locks(q) /\ Content(q) /\ req'[q] = req[q]
    BY <1>1, <1>5 DEF IInv
  <2>2. req[q].pc # "idle" => req[q].job \in Job
    BY <2>1, ReqKind
  <2>3. req[q].pc # "idle" /\ req[q].job = j => Beside(q, r)
    BY <1>5 DEF Beside
  <2>4. HoldsRow(q) \/ Making(q) => req[q].job \in Job \ {j}
    <3>1. HoldsRow(q) \/ Making(q) => req[q].pc # "idle"
      BY Kinds DEF HoldsRow, Making
    <3>2. QED
      BY <2>2, <2>3, <3>1, StillHeld, Kinds
  <2>5. HoldsRow(q)' <=> HoldsRow(q)
    BY <2>1 DEF HoldsRow
  <2>6. Making(q)' => Making(q) /\ req[q].job \in Job \ {j}
    BY <1>1, <2>1, <2>4, <2>5 DEF Making
  <2>7. \A p \in Request \ {r} : /\ Beside(p, q)' <=> Beside(p, q)
                                 /\ HoldsRow(p)' <=> HoldsRow(p)
    BY <1>1, <2>1 DEF Beside, HoldsRow
  <2>8. Beside(r, q)' => Beside(r, q)
    <3>1. req'[r].job = j /\ j = req[r].job
      BY <1>1 DEF Commits
    <3>2. QED
      BY <2>1, <3>1 DEF Beside
  <2>9. Locks(q)'
    <3>1. HoldsRow(q) => /\ req[q].pc # "row" /\ req[q].job \notin gone
                         /\ \A p \in Request : Beside(p, q)' => ~HoldsRow(p)'
      BY <1>3, <2>1, <2>7 DEF Locks
    <3>2. Making(q)' => /\ job'[req[q].job] = NoRow /\ req[q].job \notin gone
      BY <1>1, <2>1, <2>6 DEF Locks
    <3>3. Making(q)' => \A p \in Request : Beside(p, q)' => req'[p].pc \in {"find", "refused"}
      <4>1. SUFFICES ASSUME Making(q)', NEW p \in Request, Beside(p, q)'
                     PROVE  req'[p].pc \in {"find", "refused"}
        OBVIOUS
      <4>2. p # r
        BY <2>6, <2>8, <4>1 DEF Beside
      <4>3. QED
        BY <1>1, <2>1, <2>6, <2>7, <4>1, <4>2 DEF Locks
    <3>4. HoldsRow(q) /\ job'[req[q].job] = NoRow => Home[req[q].job] \in projects
      BY <1>1, <2>1, <2>4 DEF Locks
    <3>5. req[q].pc \in Writing /\ ~req[q].matched =>
            req[q].job \in gone \/ (req[q].pc = "row" /\ req[q].job \in Jobs')
      BY <1>1, <2>1 DEF Locks
    <3>6. \A x \in Held : ~Uses(q, x)'
      BY <1>1, <2>1 DEF Locks, Uses
    <3>7. QED
      BY <1>2, <2>1, <2>5, <3>1, <3>2, <3>3, <3>4, <3>5, <3>6 DEF Locks
  <2>10. Content(q)'
    <3>1. req[q].matched /\ req[q].pc \in {"clearing", "insert"} =>
            {s \in steps' : s.job = req[q].job} = {s \in steps : s.job = req[q].job}
      BY <1>1, <2>4, Kinds DEF HoldsRow, StepsOf
    <3>2. Carried(q)' = Carried(q)
      BY <2>1 DEF Carried
    <3>3. QED
      BY <1>2, <2>1, <3>1, <3>2 DEF Content, StepsOf
  <2>11. QED
    BY <2>9, <2>10
<1>6. QED
  BY <1>4, <1>5

LEMMA CommitsInv ==
  ASSUME IInv, NEW r \in Request, req[r].pc = "insert", req[r].rest = <<>>,
         req[r].matched, NEW rec, Commits(r, rec)
  PROVE  IInv'
<1>0. PICK j \in Job : j = req[r].job
  BY Before, Kinds
<1>1. /\ TableTypes' /\ DeletionTypes' /\ TreeIsWhole' /\ GoneStaysGone'
      /\ Jobs \subseteq Jobs' /\ job'[j] = [spec |-> req[r].spec, by |-> r]
      /\ {s \in steps' : s.job = j} = Carried(r)
      /\ \A k \in Job \ {j} : StepsOf(k)' = StepsOf(k) /\ job'[k] = job[k]
      /\ req'[r] = rec /\ \A q \in Request \ {r} : req'[q] = req[q]
  BY <1>0, CommittedTables
<1>2. /\ rec \in Ended /\ rec.pc \in Done /\ rec.spec = req[r].spec
      /\ req' = [req EXCEPT ![r] = rec] /\ UNCHANGED <<exec, under, projects>>
  BY DEF Commits
<1>3. TypeOK /\ Content(r)
  BY Before, Kinds
<1>4. \A q \in Request : Locks(q)' /\ Content(q)'
  BY CommittedRequests
<1>5. \A q \in Request : req[q].pc \in Done => q # r /\ req'[q] = req[q]
  BY <1>1, Kinds
<1>6. /\ ExecTypes' /\ HistoryStays' /\ DependenciesRunFirst'
      /\ \A e \in Execution : Loaded(e)'
  BY <1>1, <1>2, <1>5, QuietExec DEF IInv, HistoryStays
<1>7. \A k \in Job : Saved(k)'
  <2>1. Saved(j)'
    <3>1. /\ IsMaterialization(Carried(r), req[r].spec) /\ IsFiniteSet(Carried(r))
          /\ \A s \in Carried(r) : s.id[1] = r
      BY <1>3, Kinds DEF Content
    <3>2. job'[j].spec = req[r].spec /\ job'[j].by = r
      BY <1>1
    <3>3. req'[r].pc \in Done /\ req'[r].spec = req[r].spec
      BY <1>1, <1>2
    <3>4. StepsOf(j)' = Carried(r)
      BY <1>1 DEF StepsOf
    <3>5. QED
      BY <3>1, <3>2, <3>3, <3>4 DEF Saved
  <2>2. ASSUME NEW k \in Job \ {j}, job[k] # NoRow PROVE Saved(k)'
    <3>1. Saved(k) /\ job[k].by \in Request
      BY <1>3, <2>2 DEF IInv, TypeOK, JobRow
    <3>2. req'[job[k].by] = req[job[k].by]
      BY <1>5, <2>2, <3>1 DEF Saved
    <3>3. QED
      BY <1>1, <2>2, <3>1, <3>2 DEF Saved
  <2>3. ASSUME NEW k \in Job \ {j}, job[k] = NoRow PROVE Saved(k)'
    BY <1>1, <2>3 DEF Saved
  <2>4. QED
    BY <2>1, <2>2, <2>3
<1>8. ReqTypes'
  BY <1>2, <1>3 DEF TypeOK, ReqTypes
<1>9. TypeOK'
  BY <1>1, <1>6, <1>8, Whole
<1>10. QED
  BY <1>1, <1>4, <1>6, <1>7, <1>9 DEF IInv

LEMMA CommitInv ==
  ASSUME IInv, NEW r \in Request, Commit(r), UNCHANGED <<rowVars, deletion, under>>
  PROVE  IInv'
<1>1. req[r].pc = "insert" /\ req[r].rest = <<>>
  BY DEF Commit
<1>2. CASE Refuse(r)
  BY <1>1, <1>2, RefuseInv, Kinds
<1>3. ASSUME NEW o \in Outcomes \ {"lost"},
             /\ job' = IF req[r].matched
                       THEN [job EXCEPT ![req[r].job] = [spec |-> req[r].spec, by |-> r]]
                       ELSE job
             /\ steps' = StepsCommitted(r)
             /\ Ends(r, IF o = "ok" THEN "ok" ELSE "unanswered")
             /\ UNCHANGED <<defs, exec>>
      PROVE  IInv'
  <2> DEFINE pc == IF o = "ok" THEN "ok" ELSE "unanswered"
             rec == [pc |-> pc, job |-> req[r].job, spec |-> req[r].spec,
                     matched |-> req[r].matched]
  <2>1. TypeOK /\ Locks(r) /\ req[r] \in Busy
    BY <1>1, Before, Kinds
  <2>2. rec \in Ended /\ rec.pc \in Done
    BY <2>1, BusyFields, Kinds DEF Ended
  <2>3. req' = [req EXCEPT ![r] = rec]
    BY <1>3 DEF Ends
  <2>4. rec.job = req[r].job /\ rec.spec = req[r].spec
    OBVIOUS
  <2> HIDE DEF rec
  <2>5. UNCHANGED <<defs, exec, projects, rules, gone, deletion, under>>
    BY <1>3 DEF rowVars
  <2>6. CASE req[r].matched
    <3>1. Commits(r, rec)
      BY <1>3, <2>2, <2>3, <2>4, <2>5, <2>6 DEF Commits, StepsCommitted
    <3>2. QED
      BY <1>1, <2>6, <3>1, CommitsInv
  <2>7. CASE ~req[r].matched
    <3>1. UNCHANGED <<job, steps>>
      BY <1>1, <1>3, <2>7, StillHeld, Kinds DEF StepsCommitted
    <3>2. req'[r] = rec
      BY <2>1, <2>3 DEF TypeOK
    <3>3. Locks(r)' /\ Content(r)'
      BY <2>2, <3>2, Kinds DEF Locks, Content, HoldsRow, Making, Uses
    <3>4. \A q \in Request \ {r} : OthersMay(r, rec, q)
      <4>1. SUFFICES ASSUME NEW q \in Request \ {r}, rec.job = req[q].job, Making(q)
                     PROVE  FALSE
        BY <2>2, Kinds DEF OthersMay
      <4>2. Beside(q, r)
        BY <2>4, <4>1, Kinds DEF Beside, Making, HoldsRow
      <4>3. QED
        BY <1>1, <4>1, <4>2, NobodyMakes, Kinds
    <3>5. req[r].pc \notin Done
      BY <1>1, Kinds
    <3>6. QED
      BY <2>2, <2>3, <2>5, <3>1, <3>3, <3>4, <3>5, RequestOnly
  <2>8. QED
    BY <2>6, <2>7
<1>4. QED
  BY <1>2, <1>3 DEF Commit

LEMMA SaveStepInv ==
  ASSUME IInv, NEW r \in Request, SaveStep(r)
  PROVE  IInv'
<1>1. ~AwaitsDeletion(r) /\ UNCHANGED <<rowVars, deletion, under>>
  BY DEF SaveStep
<1>2. CASE req[r].pc = "create" /\ Refuse(r)
  BY <1>1, <1>2, RefuseInv, Kinds
<1>3. CASE RequestStep(r) /\ (req[r].pc = "create" => MayRefer(Home[req[r].job]))
  <2>1. CASE InsertJob(r)
    BY <1>1, <1>3, <2>1, InsertJobInv DEF InsertJob
  <2>2. CASE Find(r)
    BY <1>1, <2>2, FindInv
  <2>3. CASE UpdateRow(r)
    BY <1>1, <2>3, UpdateRowInv
  <2>4. CASE ClearSteps(r)
    BY <1>1, <2>4, ClearStepsInv
  <2>5. CASE StepsCleared(r)
    BY <1>1, <2>5, StepsClearedInv
  <2>6. CASE InsertStep(r)
    BY <1>1, <2>6, InsertStepInv
  <2>7. CASE Commit(r)
    BY <1>1, <2>7, CommitInv
  <2>8. QED
    BY <1>3, <2>1, <2>2, <2>3, <2>4, <2>5, <2>6, <2>7 DEF RequestStep
<1>4. QED
  BY <1>2, <1>3 DEF SaveStep

LEMMA BreakDeadlockInv ==
  ASSUME IInv, NEW r \in Request, BreakDeadlock(r)
  PROVE  IInv'
<1>1. CASE GiveUp
  BY <1>1, GiveUpInv
<1>2. CASE Refuse(r) /\ UNCHANGED <<rowVars, deletion, under>>
  <2>1. req[r].pc \in Serving
    BY Kinds DEF BreakDeadlock, Deadlocked, AwaitsDeletion
  <2>2. QED
    BY <1>2, <2>1, RefuseInv
<1>3. QED
  BY <1>1, <1>2 DEF BreakDeadlock

-------------------------------------------------------------------------------
(* Dispatches.                                                             *)

\* A step of one execution, which may load a run.
LEMMA ExecOnly ==
  ASSUME IInv, NEW e \in Execution, NEW rec \in Dispatched, NEW p \in Project \cup {None},
         UNCHANGED <<job, steps, defs, req, projects, rules, gone, deletion>>,
         exec' = [exec EXCEPT ![e] = rec], under' = [under EXCEPT ![e] = p],
         rec.manual => rec.job \in Jobs /\ p \in projects /\ rec.pc # "nojob",
         rec.pc = "loaded" =>
           \A i \in DOMAIN rec.run : /\ req[rec.run[i].id[1]].pc \in Done
                                     /\ RunsFirst(rec.run, i, req[rec.run[i].id[1]].spec)
  PROVE  IInv'
<1>1. TypeOK /\ ExecTypes /\ ReqTypes
  BY Parts DEF IInv
<1>2. Jobs' = Jobs /\ Held' = Held
  BY DEF Jobs, Held
<1>3. /\ exec'[e] = rec /\ \A f \in Execution \ {e} : exec'[f] = exec[f]
      /\ under'[e] = p /\ \A f \in Execution \ {e} : under'[f] = under[f]
  BY <1>1 DEF ExecTypes
<1>4. TableTypes' /\ DeletionTypes' /\ ReqTypes'
  BY <1>1, <1>2, Parts DEF TableTypes, DeletionTypes, ReqTypes
<1>5. ExecTypes'
  BY <1>1 DEF ExecTypes
<1>6. TreeIsWhole' /\ GoneStaysGone'
  BY <1>2 DEF IInv, TreeIsWhole, GoneStaysGone
<1>7. HistoryStays'
  BY <1>2, <1>3 DEF IInv, HistoryStays
<1>8. \A r \in Request : Locks(r)' /\ Content(r)'
  <2>1. \A r \in Request, x \in Held' : ~Uses(r, x)
    BY <1>2 DEF IInv, Locks
  <2>2. QED
    BY <1>2, <2>1, QuietRequest DEF IInv
<1>9. \A j \in Job : Saved(j)'
  BY DEF IInv, Saved, StepsOf
<1>10. ASSUME NEW f \in Execution, exec'[f].pc = "loaded", NEW i \in DOMAIN exec'[f].run
       PROVE  LET q == exec'[f].run[i].id[1]
              IN req'[q].pc \in Done /\ RunsFirst(exec'[f].run, i, req'[q].spec)
  <2>1. CASE f = e
    BY <1>3, <1>10, <2>1
  <2>2. CASE f # e
    <3>1. exec'[f] = exec[f]
      BY <1>3, <2>2
    <3>2. Loaded(f) /\ RunsFirst(exec[f].run, i, req[exec[f].run[i].id[1]].spec)
      BY <1>10, <3>1 DEF IInv, DependenciesRunFirst, RunsFirst
    <3>3. QED
      BY <1>10, <3>1, <3>2 DEF Loaded
  <2>3. QED
    BY <2>1, <2>2
<1>11. DependenciesRunFirst' /\ \A f \in Execution : Loaded(f)'
  BY <1>10 DEF DependenciesRunFirst, RunsFirst, Loaded
<1>12. TypeOK'
  BY <1>4, <1>5, Whole
<1>13. QED
  BY <1>6, <1>7, <1>8, <1>9, <1>11, <1>12 DEF IInv

\* The executor's run of the rows of a workflow.
LEMMA RunOfSteps ==
  ASSUME NEW S, IsFiniteSet(S), S \subseteq StepRow, NEW w \in Workflow,
         IsMaterialization(S, w), NEW s \in Ordered(S), NEW i \in DOMAIN s
  PROVE  RunsFirst(s, i, w)
<1> DEFINE n == Cardinality(S)
<1>1. s \in [1..n -> S] /\ \A k, l \in 1..n : k < l => s[k] # s[l] /\ s[k].order =< s[l].order
  BY DEF Ordered
<1>2. n \in Nat /\ \A x \in S : \E k \in 1..n : s[k] = x
  <2>1. \A k, l \in 1..n : k < l => s[k] # s[l]
    BY <1>1
  <2>2. s \in [1..Cardinality(S) -> S]
    BY <1>1
  <2> HIDE DEF n
  <2>3. QED
    BY <2>1, <2>2, Enumerates, ZenonT(60) DEF n
<1>3. i \in 1..n
  BY <1>1
<1>4. SUFFICES ASSUME \A g \in w.edges \cap (w.nodes \X w.nodes) : w.y[g[1]] < w.y[g[2]],
                      NEW d \in s[i].deps
               PROVE  \E k \in 1..(i - 1) : d = s[k].id
  BY DEF RunsFirst
<1>5. PICK t \in S : <<t.node, s[i].node>> \in w.edges /\ d = t.id
  <2>1. s[i].deps = {t.id : t \in {t \in S : <<t.node, s[i].node>> \in w.edges}}
    BY <1>1, <1>3 DEF IsMaterialization
  <2>2. QED
    BY <1>4, <2>1
<1>6. t.node \in w.nodes /\ s[i].node \in w.nodes
  BY <1>1, <1>3 DEF IsMaterialization
<1>7. w.y[t.node] < w.y[s[i].node]
  <2>1. <<t.node, s[i].node>> \in w.edges \cap (w.nodes \X w.nodes)
    BY <1>5, <1>6
  <2>2. QED
    BY <1>4, <2>1
<1>8. t.order < s[i].order /\ t.order \in Nat /\ s[i].order \in Nat
  BY <1>1, <1>3, <1>7 DEF IsMaterialization, StepRow
<1>9. PICK k \in 1..n : s[k] = t
  BY <1>2
<1>10. ~(i < k) /\ i # k
  BY <1>1, <1>3, <1>8, <1>9
<1>11. k \in 1..(i - 1)
  BY <1>2, <1>3, <1>9, <1>10
<1>12. QED
  BY <1>5, <1>9, <1>11

LEMMA LoadStepsInv ==
  ASSUME IInv, NEW e \in Execution, LoadSteps(e), UNCHANGED <<rowVars, deletion, under>>
  PROVE  IInv'
<1>1. PICK s \in Ordered({t \in steps : t.job = exec[e].job /\ t.def \in defs}) :
        exec' = [exec EXCEPT ![e].pc = "loaded", ![e].run = s]
  BY DEF LoadSteps
<1>2. exec[e].pc = "steps" /\ UNCHANGED <<job, steps, defs, req, projects, rules, gone, deletion>>
      /\ UNCHANGED under
  BY DEF LoadSteps, rowVars
<1>3. TypeOK /\ exec[e] \in Dispatched /\ under[e] \in Project \cup {None}
      /\ under' = [under EXCEPT ![e] = under[e]]
  <2>1. TypeOK
    BY DEF IInv
  <2>2. QED
    BY <1>2, <2>1 DEF TypeOK, Nowhere
<1> DEFINE old == exec[e]
           j == old.job
           S == StepsOf(j)
           rec == [old EXCEPT !.pc = "loaded", !.run = s]
<1>4. {t \in steps : t.job = exec[e].job /\ t.def \in defs} = S
  BY DEF IInv, TreeIsWhole, StepsOf
<1>5. s \in Ordered(S) /\ j \in Job /\ S \subseteq StepRow
  BY <1>1, <1>3, <1>4 DEF Dispatched, TypeOK, StepsOf
<1>6. ASSUME job[j] # NoRow
      PROVE  /\ s \in Seq(StepRow)
             /\ \A i \in DOMAIN s : /\ req[s[i].id[1]].pc \in Done
                                    /\ RunsFirst(s, i, req[s[i].id[1]].spec)
  <2>1. /\ IsMaterialization(S, job[j].spec) /\ IsFiniteSet(S)
        /\ \A x \in S : x.id[1] = job[j].by
        /\ req[job[j].by].pc \in Done /\ req[job[j].by].spec = job[j].spec
    BY <1>5, <1>6 DEF IInv, Saved
  <2>2. job[j].spec \in Workflow
    BY <1>3, <1>5, <1>6 DEF TypeOK, JobRow
  <2>3. s \in [1..Cardinality(S) -> S] /\ Cardinality(S) \in Nat
    BY <1>5, <2>1, FS_CardinalityType DEF Ordered
  <2> HIDE DEF S
  <2>4. \A i \in DOMAIN s : s[i] \in S
    BY <2>3
  <2>5. \A i \in DOMAIN s : RunsFirst(s, i, job[j].spec)
    BY <1>5, <2>1, <2>2, RunOfSteps
  <2>6. \A i \in DOMAIN s : s[i].id[1] = job[j].by
    BY <2>1, <2>4
  <2>7. s \in Seq(StepRow)
    BY <1>5, <2>3
  <2>8. QED
    BY <2>1, <2>5, <2>6, <2>7
<1>7. ASSUME job[j] = NoRow
      PROVE  s \in Seq(StepRow) /\ DOMAIN s = {}
  <2>1. S = {}
    BY <1>5, <1>7 DEF IInv, TreeIsWhole, StepsOf, Jobs
  <2>2. s \in [1..0 -> StepRow]
    <3>1. Cardinality({}) = 0
      BY FS_EmptySet
    <3>2. s \in [1..0 -> {}]
      BY <1>5, <2>1, <3>1 DEF Ordered
    <3>3. QED
      BY <3>2
  <2>3. 1..0 = {} /\ 0 \in Nat
    OBVIOUS
  <2>4. QED
    BY <2>2, <2>3
<1>8. s \in Seq(StepRow)
  BY <1>6, <1>7
<1> HIDE DEF S
<1>9. /\ rec \in Dispatched /\ rec.pc = "loaded" /\ rec.run = s /\ rec.job = old.job
      /\ rec.manual = old.manual
  BY <1>3, <1>8 DEF Dispatched
<1>10. exec' = [exec EXCEPT ![e] = rec]
  <2>1. exec \in [Execution -> Dispatched \cup {Nowhere}]
    BY <1>3 DEF TypeOK
  <2>2. QED
    BY <1>1, <2>1
<1>11. old.manual => old.job \in Jobs /\ under[e] \in projects
  BY <1>2 DEF IInv, HistoryStays
<1> HIDE DEF rec
<1>12. rec.manual => rec.job \in Jobs /\ under[e] \in projects /\ rec.pc # "nojob"
  BY <1>9, <1>11
<1>13. \A i \in DOMAIN rec.run : /\ req[rec.run[i].id[1]].pc \in Done
                                 /\ RunsFirst(rec.run, i, req[rec.run[i].id[1]].spec)
  BY <1>6, <1>7, <1>9
<1>14. QED
  BY <1>2, <1>3, <1>9, <1>10, <1>12, <1>13, ExecOnly

LEMMA LoadJobInv ==
  ASSUME IInv, NEW e \in Execution, LoadJob(e), UNCHANGED <<rowVars, deletion, under>>
  PROVE  IInv'
<1> DEFINE old == exec[e]
           rec == [old EXCEPT !.pc = IF job[old.job] # NoRow THEN "steps" ELSE "nojob"]
<1>1. /\ old.pc = "queued" /\ exec' = [exec EXCEPT ![e] = rec]
      /\ UNCHANGED <<job, steps, defs, req, projects, rules, gone, deletion, under>>
  BY DEF LoadJob, rowVars
<1>2. old \in Dispatched /\ under[e] \in Project \cup {None}
      /\ under' = [under EXCEPT ![e] = under[e]]
  <2>1. TypeOK
    BY DEF IInv
  <2>2. QED
    BY <1>1, <2>1 DEF TypeOK, Nowhere
<1>3. /\ rec \in Dispatched /\ rec.manual = old.manual /\ rec.job = old.job
      /\ rec.pc = IF job[old.job] # NoRow THEN "steps" ELSE "nojob"
  BY <1>2 DEF Dispatched
<1>4. old.manual => old.job \in Jobs /\ under[e] \in projects
  BY <1>1 DEF IInv, HistoryStays
<1>5. rec.manual => rec.job \in Jobs /\ under[e] \in projects /\ rec.pc # "nojob"
  BY <1>3, <1>4 DEF Jobs
<1>6. rec.pc # "loaded"
  BY <1>3
<1> HIDE DEF rec
<1>7. QED
  BY <1>1, <1>2, <1>3, <1>5, <1>6, ExecOnly

LEMMA DispatchInv ==
  ASSUME IInv, NEW e \in Execution, NEW j \in Job,
         FireJob(e, j) \/ \E p \in Project : Execute(e, j, p)
  PROVE  IInv'
<1>1. PICK manual \in BOOLEAN, p \in Project \cup {None} :
        /\ Dispatch(e, j, manual) /\ UNCHANGED <<rowVars, deletion>>
        /\ manual => MayRefer(j) /\ MayRefer(p) /\ p \in Project
        /\ under' = [under EXCEPT ![e] = p]
  <2>1. CASE FireJob(e, j)
    <3>1. Dispatch(e, j, FALSE) /\ UNCHANGED <<rowVars, deletion, under>>
      BY <2>1 DEF FireJob
    <3>2. under[e] \in Project \cup {None} /\ under' = [under EXCEPT ![e] = under[e]]
      BY <3>1 DEF IInv, TypeOK
    <3>3. QED
      BY <3>1, <3>2
  <2>2. CASE \E p \in Project : Execute(e, j, p)
    <3>1. PICK p \in Project : Execute(e, j, p)
      BY <2>2
    <3>2. /\ Dispatch(e, j, TRUE) /\ UNCHANGED <<rowVars, deletion>>
          /\ MayRefer(j) /\ MayRefer(p) /\ under' = [under EXCEPT ![e] = p]
      BY <3>1 DEF Execute
    <3>3. QED
      BY <3>2
  <2>3. QED
    BY <2>1, <2>2
<1> DEFINE rec == [pc |-> "queued", job |-> j, manual |-> manual, run |-> <<>>]
<1>2. exec' = [exec EXCEPT ![e] = rec]
      /\ UNCHANGED <<job, steps, defs, req, projects, rules, gone, deletion>>
  BY <1>1 DEF Dispatch, rowVars
<1>3. rec \in Dispatched
  BY DEF Dispatched
<1>4. manual => j \in Jobs /\ p \in projects
  <2>1. TypeOK
    BY DEF IInv
  <2>2. manual => MayRefer(j) /\ MayRefer(p) /\ p \in Project
    BY <1>1
  <2>3. j \notin projects \cup defs /\ (p \in Project => p \notin defs \cup Jobs)
    BY <2>1, DistinctAssumption DEF TypeOK, Jobs
  <2>4. QED
    BY <2>2, <2>3 DEF MayRefer
<1>5. rec.manual => rec.job \in Jobs /\ p \in projects /\ rec.pc # "nojob"
  BY <1>4
<1>6. rec.pc # "loaded"
  OBVIOUS
<1> HIDE DEF rec
<1>7. QED
  BY <1>1, <1>2, <1>3, <1>5, <1>6, ExecOnly

-------------------------------------------------------------------------------
(* The invariant, and what it says.                                        *)

LEMMA DeletionStepInv ==
  ASSUME IInv, DeletionStep
  PROVE  IInv'
<1>1. CASE FinishDeletion
  BY <1>1, FinishDeletionInv
<1>2. CASE RefuseDeletion
  BY <1>2, GiveUpInv DEF RefuseDeletion
<1>3. CASE \E x \in NextRows : LockRow(x)
  BY <1>3, LockRowInv
<1>4. QED
  BY <1>1, <1>2, <1>3 DEF DeletionStep

LEMMA StutterInv == IInv /\ UNCHANGED vars => IInv'
<1> SUFFICES ASSUME IInv, UNCHANGED vars PROVE IInv'
  OBVIOUS
<1>1. UNCHANGED <<job, steps, defs, req, exec, projects, rules, gone, deletion, under>>
  BY DEF vars, jobVars, rowVars
<1>2. TypeOK /\ Jobs' = Jobs /\ Held' = Held
  BY <1>1 DEF IInv, Jobs, Held
<1>3. TableTypes' /\ DeletionTypes'
  BY <1>1, <1>2, Parts DEF TableTypes, DeletionTypes
<1>4. TreeIsWhole' /\ GoneStaysGone'
  BY <1>1, <1>2 DEF IInv, TreeIsWhole, GoneStaysGone
<1>5. QED
  BY <1>1, <1>2, <1>3, <1>4, QuietInv DEF IInv, Locks

LEMMA NextInv == IInv /\ [Next]_vars => IInv'
<1> SUFFICES ASSUME IInv, [Next]_vars PROVE IInv'
  OBVIOUS
<1>1. ASSUME NEW r \in Request, SaveStep(r) PROVE IInv'
  BY <1>1, SaveStepInv
<1>2. ASSUME NEW r \in Request, BreakDeadlock(r) PROVE IInv'
  BY <1>2, BreakDeadlockInv
<1>3. ASSUME NEW r \in Request, NEW j \in Job, NEW w \in Workflow, Save(r, j, w) PROVE IInv'
  BY <1>3, BeginInv
<1>4. ASSUME NEW j \in Job, DeleteJob(j) PROVE IInv'
  BY <1>4, DeleteJobInv
<1>5. ASSUME NEW p \in Project, CreateProject(p) \/ DeleteProject(p) PROVE IInv'
  BY <1>5, CreateProjectInv, DeletionBeginsInv
<1>6. ASSUME NEW d \in Def, CreateNode(d) \/ DeleteNode(d) PROVE IInv'
  BY <1>6, CreateNodeInv, DeletionBeginsInv
<1>7. ASSUME NEW x \in Rule, CreateRule(x) \/ DeleteRule(x) PROVE IInv'
  BY <1>7, RuleInv
<1>8. ASSUME NEW x, UpdateContents(x) PROVE IInv'
  BY <1>8, UpdateContentsInv
<1>9. CASE DeletionStep
  BY <1>9, DeletionStepInv
<1>10. ASSUME NEW e \in Execution, Load(e) PROVE IInv'
  BY <1>10, LoadJobInv, LoadStepsInv DEF Load
<1>11. ASSUME NEW e \in Execution, NEW j \in Job,
              FireJob(e, j) \/ \E p \in Project : Execute(e, j, p)
       PROVE  IInv'
  BY <1>11, DispatchInv
<1>12. CASE UNCHANGED vars
  BY <1>12, StutterInv
<1>13. QED
  BY <1>1, <1>2, <1>3, <1>4, <1>5, <1>6, <1>7, <1>8, <1>9, <1>10, <1>11, <1>12 DEF Next

LEMMA Inductive == Spec => []IInv
BY InitInv, NextInv, PTL DEF Spec

\* Rows, requests and the locks of a deletion keep their types, and a deletion
\* locks only what belongs to what it deletes.
THEOREM ProjectsTypeCorrect == Spec => []TypeOK
<1>1. IInv => TypeOK
  BY DEF IInv
<1>2. QED
  BY <1>1, Inductive, PTL

\* A job's steps are those of its workflow, however saves of it overlap, fail, or
\* meet a deletion (Create, Update, materializeSteps).
THEOREM StepsFollow == Spec => []StepsMatchWorkflow
<1>1. IInv => StepsMatchWorkflow
  BY DEF IInv, Saved, StepsMatchWorkflow, StepsOf
<1>2. QED
  BY <1>1, Inductive, PTL

\* A save that was refused leaves neither a job nor a step (the deferred Rollback).
THEOREM RefusalsLeaveNothing == Spec => []RefusedLeavesNothing
<1>1. IInv => RefusedLeavesNothing
  <2> SUFFICES ASSUME IInv, NEW r \in Request, req[r].pc = "refused"
               PROVE  /\ \A s \in steps : s.id[1] # r
                      /\ \A j \in Job : job[j] # NoRow => job[j].by # r
    BY DEF RefusedLeavesNothing
  <2>1. \A j \in Job : job[j] # NoRow => job[j].by # r
    BY Kinds DEF IInv, Saved
  <2>2. \A s \in steps : s.job \in Job /\ job[s.job] # NoRow /\ s \in StepsOf(s.job)
    BY DEF IInv, TreeIsWhole, Jobs, StepsOf
  <2>3. \A s \in steps : s.id[1] = job[s.job].by
    BY <2>2 DEF IInv, Saved
  <2>4. QED
    BY <2>1, <2>2, <2>3
<1>2. QED
  BY <1>1, Inductive, PTL

\* The executor, which goes by step_order, never runs a step before one it depends
\* on, if the workflow's edges lead downward (materializeSteps, loadSteps).
THEOREM RunsKeepDependencies == Spec => []DependenciesRunFirst
<1>1. IInv => DependenciesRunFirst
  BY DEF IInv
<1>2. QED
  BY <1>1, Inductive, PTL

\* Definitions, jobs, steps and rules never lose their parents, whatever is made
\* beside a deletion (the foreign keys and the cascades).
THEOREM TreeStaysWhole == Spec => []TreeIsWhole
<1>1. IInv => TreeIsWhole
  BY DEF IInv
<1>2. QED
  BY <1>1, Inductive, PTL

\* No save, update or cascade brings a deleted row back.
THEOREM NothingReturns == Spec => []GoneStaysGone
<1>1. IInv => GoneStaysGone
  BY DEF IInv
<1>2. QED
  BY <1>1, Inductive, PTL

\* What has run by hand cannot be deleted (executions.job_id and project_id).
THEOREM HistoryIsKept == Spec => []HistoryStays
<1>1. IInv => HistoryStays
  BY DEF IInv
<1>2. QED
  BY <1>1, Inductive, PTL
\* A save that waits for another has no row and has touched no step: it waits at its
\* UPDATE of the job's row, never at its DELETE of steps.
LEMMA WaitsAtTheRow ==
  ASSUME IInv, NEW r \in Request, NEW q \in Request, Awaits(r, q)
  PROVE  req[r].pc = "row" /\ ~req[r].matched /\ req[r].ins = {} /\ req[r].dels = {}
<1>1. req[r].pc \in Serving /\ req[q].pc \in Serving /\ req[q].pc \in Writing
  BY Kinds DEF Awaits
<1>2. /\ Locks(r) /\ Content(r) /\ req[r].matched \in BOOLEAN /\ Locks(q) /\ Content(q)
  BY <1>1, Before
<1>3. req[r].pc # "clearing"
  <2>1. SUFFICES ASSUME req[r].pc = "clearing", req[q].dels \cap req[r].seen # {}
                 PROVE  FALSE
    BY DEF Awaits
  <2>2. req[r].matched /\ req[r].seen = StepsOf(req[r].job)
    BY <1>1, <1>2, <2>1 DEF Content
  <2>3. req[q].matched /\ req[q].dels = StepsOf(req[q].job)
    BY <1>1, <1>2, <2>1, Kinds DEF Content
  <2>4. req[q].job = req[r].job
    BY <2>1, <2>2, <2>3 DEF StepsOf
  <2>5. Beside(q, r) /\ HoldsRow(q) /\ HoldsRow(r)
    BY <1>1, <2>1, <2>2, <2>3, <2>4, Kinds DEF Beside, HoldsRow, Awaits
  <2>6. QED
    BY <1>2, <2>5 DEF Locks
<1>4. req[r].pc = "row"
  BY <1>3 DEF Awaits
<1>5. ~req[r].matched
  BY <1>2, <1>4, Kinds DEF Locks, HoldsRow
<1>6. QED
  BY <1>1, <1>2, <1>4, <1>5 DEF Content

\* However many saves of however many jobs overlap with each other and with a deletion,
\* the only ones that wait for each other are one save and the deletion (Update locks
\* the job's row first).
THEOREM SavesQueueUp == Spec => []WaitersHoldNothing
<1>1. ASSUME IInv PROVE WaitersHoldNothing
  <2>1. SUFFICES ASSUME NEW r \in Request, NEW q \in Request, Awaits(r, q)
                 PROVE  ~DeletionAwaits(r) /\ \A p \in Request : ~Awaits(p, r)
    BY DEF WaitersHoldNothing
  <2>2. req[r].pc = "row" /\ ~req[r].matched /\ req[r].ins = {} /\ req[r].dels = {}
    BY <1>1, <2>1, WaitsAtTheRow
  <2>3. ~DeletionAwaits(r)
    BY <2>2 DEF DeletionAwaits, Uses, Clears
  <2>4. QED
    BY <2>2, <2>3 DEF Awaits
<1>2. QED
  BY <1>1, Inductive, PTL
-------------------------------------------------------------------------------
(* The refinement of JobStore.                                             *)

LEMMA StoredIs ==
  /\ \A k \in Job : Stored[k] = IF job[k] = NoRow THEN NoRow
                                 ELSE [by |-> job[k].by, rows |-> StepsOf(k)]
  /\ TypeOK => \A k \in Job : Stored[k] = NoRow <=> job[k] = NoRow
<1>1. \A k \in Job : Stored[k] = IF job[k] = NoRow THEN NoRow
                                 ELSE [by |-> job[k].by, rows |-> StepsOf(k)]
  BY DEF Stored, StepsOf
<1>2. ASSUME TypeOK, NEW k \in Job, job[k] # NoRow PROVE Stored[k] # NoRow
  <2>1. job[k].by \in Request /\ StepsOf(k) \in SUBSET StepRow
    BY <1>2 DEF TypeOK, JobRow, StepsOf
  <2>2. [by |-> job[k].by, rows |-> StepsOf(k)] \in [by : Request, rows : SUBSET StepRow]
    BY <2>1
  <2>3. QED
    BY <1>1, <1>2, <2>2, StoredAssumption
<1>3. QED
  BY <1>1, <1>2

LEMMA StoredNext ==
  \A k \in Job : Stored'[k] = IF job'[k] = NoRow THEN NoRow
                              ELSE [by |-> job'[k].by, rows |-> StepsOf(k)']
BY DEF Stored, StepsOf

LEMMA InitStore == Init => Store!Init
<1> SUFFICES ASSUME Init PROVE Store!Init
  OBVIOUS
<1>1. Stored = [j \in Job |-> NoRow] /\ gone \cap Job = {}
  BY DEF Init, Stored
<1>2. Saves = [r \in Request |-> [st |-> "unsent"]]
  BY DEF Init, Saves, Nowhere
<1>3. Seen = [e \in Execution |-> None]
  BY DEF Init, Seen, Nowhere
<1>4. QED
  BY <1>1, <1>2, <1>3 DEF Store!Init

LEMMA StoreStutters ==
  ASSUME UNCHANGED <<job, steps, req, exec, gone>>
  PROVE  UNCHANGED Store!vars
BY DEF Store!vars, Stored, Saves, Seen

\* A statement of a save that has not ended tells its client nothing; the end of one
\* tells it how.
LEMMA Tells ==
  ASSUME TypeOK, NEW r \in Request, req[r].pc \in Serving,
         \A q \in Request \ {r} : req'[q] = req[q],
         req'[r].job = req[r].job, req'[r].spec = req[r].spec
  PROVE  /\ Saves[r].st = "open"
         /\ Saves[r].job = req[r].job /\ Saves[r].spec = req[r].spec
         /\ req'[r].pc \in Serving => Saves' = Saves
         /\ req'[r].pc \in Answered => Saves' = [Saves EXCEPT ![r].st = req'[r].pc]
<1>1. Saves[r] = [st |-> "open", job |-> req[r].job, spec |-> req[r].spec]
  BY Kinds DEF Saves
<1>2. \A q \in Request \ {r} : Saves'[q] = Saves[q]
  BY DEF Saves
<1>3. ASSUME req'[r].pc \in Serving PROVE Saves' = Saves
  <2>1. Saves'[r] = Saves[r]
    BY <1>1, <1>3, Kinds DEF Saves
  <2>2. QED
    BY <1>2, <2>1 DEF Saves
<1>4. ASSUME req'[r].pc \in Answered
      PROVE  Saves' = [Saves EXCEPT ![r].st = req'[r].pc]
  <2>1. Saves'[r] = [st |-> req'[r].pc, job |-> req[r].job, spec |-> req[r].spec]
    BY <1>4, Kinds DEF Saves
  <2>2. Saves'[r] = [Saves[r] EXCEPT !.st = req'[r].pc]
    BY <1>1, <2>1
  <2>3. Saves' = [q \in Request |-> Saves'[q]] /\ Saves = [q \in Request |-> Saves[q]]
    BY DEF Saves
  <2>4. QED
    BY <1>2, <2>2, <2>3
<1>5. QED
  BY <1>1, <1>3, <1>4

LEMMA RefuseStore ==
  ASSUME IInv, NEW r \in Request, req[r].pc \in Serving, Refuse(r),
         UNCHANGED <<rowVars, deletion, under>>
  PROVE  Store!Refuse(r)
<1>1. TypeOK
  BY DEF IInv
<1>2. /\ \A q \in Request \ {r} : req'[q] = req[q]
      /\ req'[r].job = req[r].job /\ req'[r].spec = req[r].spec
      /\ req'[r].pc = "refused"
  BY <1>1 DEF Refuse, Ends, TypeOK
<1>3. UNCHANGED <<job, steps, exec, gone>>
  BY DEF Refuse, StepsRolledBack, rowVars
<1>4. UNCHANGED <<Stored, gone \cap Job, Seen>>
  BY <1>3 DEF Stored, Seen
<1>5. Saves[r].st = "open" /\ Saves' = [Saves EXCEPT ![r].st = "refused"]
  BY <1>1, <1>2, Tells, Kinds
<1>6. QED
  BY <1>4, <1>5 DEF Store!Refuse, Store!Ends

\* The statements before the commit.
LEMMA StatementStore ==
  ASSUME IInv, NEW r \in Request, RequestStep(r), ~Commit(r),
         UNCHANGED <<rowVars, deletion, under>>
  PROVE  Store!Refuse(r) \/ UNCHANGED Store!vars
<1>1. req[r].pc \in Serving
  BY Kinds DEF RequestStep, InsertJob, Find, UpdateRow, ClearSteps, StepsCleared, InsertStep
<1>2. CASE Refuse(r)
  BY <1>1, <1>2, RefuseStore
<1>3. CASE ~Refuse(r)
  <2>1. TypeOK /\ req[r] \in Busy
    BY <1>1, Before
  <2>2. UNCHANGED <<job, steps, exec, gone>>
    BY <1>3
    DEF RequestStep, InsertJob, Find, UpdateRow, ClearSteps, StepsCleared, InsertStep,
        Goes, rowVars
  <2>3. /\ \A q \in Request \ {r} : req'[q] = req[q]
        /\ req'[r].job = req[r].job /\ req'[r].spec = req[r].spec
        /\ req'[r].pc \in Serving
    <3>1. CASE InsertJob(r)
      BY <1>3, <2>1, <3>1, Kinds DEF InsertJob, TypeOK, Busy
    <3>2. CASE InsertStep(r)
      BY <1>1, <1>3, <2>1, <3>2, Kinds DEF InsertStep, TypeOK, Busy
    <3>3. ASSUME NEW matched, NEW seen, NEW dels, Goes(r, matched, seen, dels),
                 req[r].pc \in {"find", "row", "clear", "clearing"}
          PROVE  /\ \A q \in Request \ {r} : req'[q] = req[q]
                 /\ req'[r].job = req[r].job /\ req'[r].spec = req[r].spec
                 /\ req'[r].pc \in Serving
      <4>1. Following[req[r].pc] \in Serving
        BY <3>3, Kinds DEF Following
      <4>2. QED
        BY <2>1, <3>3, <4>1 DEF Goes, TypeOK, Busy
    <3>4. QED
      BY <1>3, <3>1, <3>2, <3>3
      DEF RequestStep, Find, UpdateRow, ClearSteps, StepsCleared
  <2>4. Saves' = Saves
    BY <1>1, <2>1, <2>3, Tells
  <2>5. QED
    BY <2>2, <2>4 DEF Store!vars, Stored, Seen
<1>4. QED
  BY <1>2, <1>3

\* The commit: the job and all its steps are the save's, or the job was deleted.
LEMMA CommitStore ==
  ASSUME IInv, NEW r \in Request, Commit(r), UNCHANGED <<rowVars, deletion, under>>
  PROVE  Store!Put(r) \/ Store!Miss(r) \/ Store!Refuse(r)
<1>1. req[r].pc = "insert" /\ req[r].rest = <<>> /\ req[r].pc \in Serving
  BY Kinds DEF Commit
<1>2. CASE Refuse(r)
  BY <1>1, <1>2, RefuseStore
<1>3. ASSUME NEW o \in Outcomes \ {"lost"},
             /\ job' = IF req[r].matched
                       THEN [job EXCEPT ![req[r].job] = [spec |-> req[r].spec, by |-> r]]
                       ELSE job
             /\ steps' = StepsCommitted(r)
             /\ Ends(r, IF o = "ok" THEN "ok" ELSE "unanswered")
             /\ UNCHANGED <<defs, exec>>
      PROVE  Store!Put(r) \/ Store!Miss(r)
  <2> DEFINE pc == IF o = "ok" THEN "ok" ELSE "unanswered"
             rec == [pc |-> pc, job |-> req[r].job, spec |-> req[r].spec,
                     matched |-> req[r].matched]
  <2>1. /\ TypeOK /\ Content(r) /\ req[r] \in Busy /\ req[r].job \in Job
        /\ req[r].spec \in Workflow
    BY <1>1, Before, BusyFields
  <2>2. rec \in Ended /\ rec.pc \in Done
    BY <2>1, BusyFields, Kinds DEF Ended
  <2>3. req' = [req EXCEPT ![r] = rec]
    BY <1>3 DEF Ends
  <2>4. rec.job = req[r].job /\ rec.spec = req[r].spec /\ rec.pc \in {"ok", "unanswered"}
    OBVIOUS
  <2> HIDE DEF rec
  <2>5. UNCHANGED <<defs, exec, projects, rules, gone, deletion, under>>
    BY <1>3 DEF rowVars
  <2>6. /\ \A q \in Request \ {r} : req'[q] = req[q]
        /\ req'[r] = rec
    BY <2>1, <2>3 DEF TypeOK
  <2>7. /\ Store!Ends(r, {"ok", "unanswered"})
        /\ Saves[r].job = req[r].job /\ Saves[r].spec = req[r].spec
    BY <1>1, <2>1, <2>4, <2>6, Tells, Kinds DEF Store!Ends
  <2>8. UNCHANGED <<gone \cap Job, Seen>>
    BY <2>5 DEF Seen
  <2>9. CASE req[r].matched
    <3>. PICK j \in Job : j = req[r].job
      BY <2>1
    <3>1. Commits(r, rec)
      BY <1>3, <2>2, <2>3, <2>4, <2>5, <2>9 DEF Commits, StepsCommitted
    <3>2. /\ job'[j] = [spec |-> req[r].spec, by |-> r]
          /\ {s \in steps' : s.job = j} = Carried(r)
          /\ \A k \in Job \ {j} : StepsOf(k)' = StepsOf(k) /\ job'[k] = job[k]
      BY <1>1, <2>9, <3>1, CommittedTables
    <3>3. [spec |-> req[r].spec, by |-> r] # NoRow
      BY <2>1, NoRowAssumption
    <3>4. Stored'[j] = [by |-> r, rows |-> Carried(r)]
      <4>1. StepsOf(j)' = Carried(r)
        BY <3>2 DEF StepsOf
      <4>2. Stored'[j] = [by |-> job'[j].by, rows |-> StepsOf(j)']
        BY <2>1, <3>2, <3>3, StoredNext
      <4>3. QED
        BY <3>2, <4>1, <4>2
    <3>5. \A k \in Job \ {j} : Stored'[k] = Stored[k]
      <4>1. SUFFICES ASSUME NEW k \in Job \ {j} PROVE Stored'[k] = Stored[k]
        OBVIOUS
      <4>2. StepsOf(k)' = StepsOf(k) /\ job'[k] = job[k]
        BY <3>2
      <4>3. Stored[k] = IF job[k] = NoRow THEN NoRow
                        ELSE [by |-> job[k].by, rows |-> StepsOf(k)]
        BY StoredIs
      <4>4. Stored'[k] = IF job'[k] = NoRow THEN NoRow
                         ELSE [by |-> job'[k].by, rows |-> StepsOf(k)']
        BY StoredNext
      <4>5. QED
        BY <4>2, <4>3, <4>4
    <3>6. Stored' = [Stored EXCEPT ![j] = Stored'[j]]
      <4>1. /\ Stored' = [k \in Job |-> Stored'[k]] /\ Stored = [k \in Job |-> Stored[k]]
        BY DEF Stored
      <4>2. QED
        BY <3>5, <4>1
    <3>7. IsMaterialization(Carried(r), req[r].spec)
      BY <1>1, <2>1, Kinds DEF Content
    <3>8. j \notin gone
      BY <1>1, <2>9, StillHeld, Kinds
    <3>9. Stored[j] = NoRow =>
            \A q \in Request : Saves[q].st \in {"ok", "unanswered"} => Saves[q].job # j
      <4>1. SUFFICES ASSUME Stored[j] = NoRow, NEW q \in Request,
                            Saves[q].st \in {"ok", "unanswered"}, Saves[q].job = j
                     PROVE  FALSE
        OBVIOUS
      <4>2. job[j] = NoRow
        BY <2>1, <4>1, StoredIs
      <4>3. req[q].pc \in {"ok", "unanswered"} /\ req[q].job = j
        BY <4>1, Kinds DEF Saves
      <4>4. Beside(q, r)
        BY <1>1, <4>3 DEF Beside
      <4>5. QED
        BY <1>1, <2>9, <4>2, <4>3, <4>4, StillHeld, Kinds
    <3>10. Store!Put(r)
      BY <2>7, <2>8, <3>4, <3>6, <3>7, <3>8, <3>9 DEF Store!Put
    <3>11. QED
      BY <3>10
  <2>10. CASE ~req[r].matched
    <3>1. UNCHANGED <<job, steps>>
      BY <1>1, <1>3, <2>10, StillHeld, Kinds DEF StepsCommitted
    <3>2. req[r].job \in gone
      BY <1>1, <2>10, StillHeld, Kinds
    <3>3. Stored' = Stored
      BY <3>1 DEF Stored
    <3>4. QED
      BY <2>1, <2>7, <2>8, <3>2, <3>3 DEF Store!Miss
  <2>11. QED
    BY <2>9, <2>10
<1>4. QED
  BY <1>2, <1>3 DEF Commit

LEMMA SendStore ==
  ASSUME IInv, NEW r \in Request, NEW j \in Job, NEW w \in Workflow, Save(r, j, w)
  PROVE  Store!Send(r, j, w)
<1>1. PICK pc \in {"create", "find"} :
        Begin(r, j, pc, w) /\ UNCHANGED <<rowVars, deletion, under>>
  BY DEF Save, CreateJob, UpdateJob
<1>2. req[r].pc = "idle" /\ UNCHANGED <<job, steps, exec, gone>>
  BY <1>1 DEF Begin, rowVars
<1>3. /\ \A q \in Request \ {r} : req'[q] = req[q]
      /\ req'[r].pc = pc /\ req'[r].job = j /\ req'[r].spec = w
  BY <1>1 DEF Begin, IInv, TypeOK
<1>4. Saves[r] = [st |-> "unsent"]
  BY <1>2 DEF Saves
<1>5. Saves' = [Saves EXCEPT ![r] = [st |-> "open", job |-> j, spec |-> w]]
  <2>1. Saves'[r] = [st |-> "open", job |-> j, spec |-> w]
    BY <1>1, <1>3, Kinds DEF Saves
  <2>2. \A q \in Request \ {r} : Saves'[q] = Saves[q]
    BY <1>3 DEF Saves
  <2>3. Saves' = [q \in Request |-> Saves'[q]] /\ Saves = [q \in Request |-> Saves[q]]
    BY DEF Saves
  <2>4. QED
    BY <2>1, <2>2, <2>3
<1>6. UNCHANGED <<Stored, gone \cap Job, Seen>>
  BY <1>2 DEF Stored, Seen
<1>7. QED
  BY <1>4, <1>5, <1>6 DEF Store!Send

\* Jobs that are deleted go with their steps, alone or with their project.
LEMMA DeleteStore ==
  ASSUME IInv, NEW D \in SUBSET Jobs, UNCHANGED <<req, exec>>,
         job' = [j \in Job |-> IF j \in D THEN NoRow ELSE job[j]],
         steps' = {s \in steps : s.job \notin D}, gone' \cap Job = (gone \cap Job) \cup D
  PROVE  Store!Delete(D)
<1>1. \A j \in D : Stored[j] # NoRow
  BY StoredIs DEF IInv, Jobs
<1>2. Stored' = [j \in Job |-> IF j \in D THEN NoRow ELSE Stored[j]]
  <2>1. \A j \in D : Stored'[j] = NoRow
    BY StoredNext DEF Jobs
  <2>2. \A j \in Job \ D : Stored'[j] = Stored[j]
    <3>1. SUFFICES ASSUME NEW j \in Job \ D PROVE Stored'[j] = Stored[j]
      OBVIOUS
    <3>2. job'[j] = job[j]
      OBVIOUS
    <3>3. StepsOf(j)' = StepsOf(j)
      BY DEF StepsOf
    <3>4. Stored[j] = IF job[j] = NoRow THEN NoRow
                      ELSE [by |-> job[j].by, rows |-> StepsOf(j)]
      BY StoredIs
    <3>5. Stored'[j] = IF job'[j] = NoRow THEN NoRow
                       ELSE [by |-> job'[j].by, rows |-> StepsOf(j)']
      BY StoredNext
    <3>6. QED
      BY <3>2, <3>3, <3>4, <3>5
  <2>3. Stored' = [j \in Job |-> Stored'[j]]
    BY DEF Stored
  <2>4. QED
    BY <2>1, <2>2, <2>3
<1>3. UNCHANGED <<Saves, Seen>>
  BY DEF Saves, Seen
<1>4. QED
  BY <1>1, <1>2, <1>3 DEF Store!Delete

LEMMA DeleteJobStore ==
  ASSUME IInv, NEW j \in Job, DeleteJob(j)
  PROVE  \E D \in SUBSET Job : Store!Delete(D)
<1>1. j \in Jobs /\ UNCHANGED <<req, exec>> /\ {j} \in SUBSET Jobs /\ {j} \in SUBSET Job
  BY DEF DeleteJob
<1>2. job' = [k \in Job |-> IF k \in {j} THEN NoRow ELSE job[k]]
  BY DEF DeleteJob, IInv, TypeOK
<1>3. steps' = {s \in steps : s.job \notin {j}}
      /\ gone' \cap Job = (gone \cap Job) \cup {j}
  BY DEF DeleteJob
<1>4. Store!Delete({j})
  BY <1>1, <1>2, <1>3, DeleteStore
<1>5. QED
  BY <1>1, <1>4

LEMMA FinishDeletionStore ==
  ASSUME IInv, FinishDeletion
  PROVE  \E D \in SUBSET Job : Store!Delete(D)
<1> DEFINE D == Held \cap Job
<1>1. TypeOK /\ Held \subseteq projects \cup defs \cup Jobs
  BY DEF IInv, TypeOK, Held
<1>2. D \in SUBSET Jobs /\ D \in SUBSET Job
  BY <1>1, DistinctAssumption DEF TypeOK
<1>3. UNCHANGED <<req, exec>>
  BY DEF FinishDeletion
<1>4. job' = [j \in Job |-> IF j \in D THEN NoRow ELSE job[j]]
  BY DEF FinishDeletion, Removed
<1>5. steps' = {s \in steps : s.job \notin D}
  <2>1. \A s \in steps : s.job \in Job
    BY <1>1 DEF TypeOK, StepRow
  <2>2. QED
    BY <2>1 DEF FinishDeletion
<1>6. gone' \cap Job = (gone \cap Job) \cup D
  BY DEF FinishDeletion
<1> HIDE DEF D
<1>7. Store!Delete(D)
  BY <1>2, <1>3, <1>4, <1>5, <1>6, DeleteStore
<1>8. QED
  BY <1>2, <1>7

\* What the executor gets: its steps in some order, all of them.
LEMMA ReadStore ==
  ASSUME IInv, NEW e \in Execution, LoadSteps(e), UNCHANGED <<rowVars, deletion, under>>
  PROVE  \E j \in Job : Store!Read(e, j)
<1>1. PICK s \in Ordered({t \in steps : t.job = exec[e].job /\ t.def \in defs}) :
        exec' = [exec EXCEPT ![e].pc = "loaded", ![e].run = s]
  BY DEF LoadSteps
<1>2. /\ exec[e].pc = "steps" /\ UNCHANGED <<job, steps, req, gone>>
      /\ TypeOK /\ exec[e] \in Dispatched /\ exec[e].job \in Job
  <2>1. exec[e].pc = "steps" /\ UNCHANGED <<job, steps, req, gone>> /\ TypeOK
    BY DEF LoadSteps, rowVars, IInv
  <2>2. exec[e] \in Dispatched
    BY <2>1 DEF TypeOK, Nowhere
  <2>3. QED
    BY <2>1, <2>2 DEF Dispatched
<1>3. PICK j \in Job : j = exec[e].job
  BY <1>2
<1> DEFINE S == StepsOf(j)
           n == Cardinality(S)
<1>4. {t \in steps : t.job = exec[e].job /\ t.def \in defs} = S
  BY <1>3 DEF IInv, TreeIsWhole, StepsOf
<1>5. s \in Ordered(S)
  BY <1>1, <1>4
<1>6. IsFiniteSet(S) /\ (job[j] = NoRow => S = {})
  <2>1. CASE job[j] = NoRow
    <3>1. S = {}
      BY <2>1 DEF IInv, TreeIsWhole, StepsOf, Jobs
    <3>2. QED
      BY <3>1, FS_EmptySet
  <2>2. CASE job[j] # NoRow
    BY <2>2 DEF IInv, Saved
  <2>3. QED
    BY <2>1, <2>2
<1> HIDE DEF S
<1>7. s \in [1..n -> S] /\ \A i, k \in 1..n : i < k => s[i] # s[k]
  BY <1>5 DEF Ordered
<1>8. \A x \in S : \E i \in 1..n : s[i] = x
  <2> HIDE DEF n
  <2>1. s \in [1..Cardinality(S) -> S] /\ \A i, k \in 1..Cardinality(S) : i < k => s[i] # s[k]
    BY <1>7 DEF n
  <2>2. QED
    BY <1>6, <2>1, Enumerates, ZenonT(60) DEF n
<1>9. {s[i] : i \in DOMAIN s} = S
  BY <1>7, <1>8
<1>10. /\ \A f \in Execution \ {e} : exec'[f] = exec[f]
       /\ exec'[e].pc = "loaded" /\ exec'[e].run = s
  BY <1>1, <1>2 DEF TypeOK, Dispatched
<1>11. Seen[e] = None
  BY <1>2 DEF Seen
<1>12. Seen' = [Seen EXCEPT ![e] = S]
  <2>1. Seen'[e] = S
    BY <1>9, <1>10 DEF Seen
  <2>2. \A f \in Execution \ {e} : Seen'[f] = Seen[f]
    BY <1>10 DEF Seen
  <2>3. Seen' = [f \in Execution |-> Seen'[f]] /\ Seen = [f \in Execution |-> Seen[f]]
    BY DEF Seen
  <2>4. QED
    BY <2>1, <2>2, <2>3
<1>13. S = IF Stored[j] = NoRow THEN {} ELSE Stored[j].rows
  <2>1. Stored[j] = NoRow <=> job[j] = NoRow
    BY <1>2, StoredIs
  <2>2. job[j] # NoRow => Stored[j] = [by |-> job[j].by, rows |-> S]
    BY StoredIs DEF S
  <2>3. QED
    BY <1>6, <2>1, <2>2
<1>14. UNCHANGED <<Stored, gone \cap Job, Saves>>
  BY <1>2 DEF Stored, Saves
<1>15. Store!Read(e, j)
  BY <1>11, <1>12, <1>13, <1>14 DEF Store!Read
<1>16. QED
  BY <1>15

\* The other steps of a dispatch: nothing is loaded before or after.
LEMMA ExecStutters ==
  ASSUME TypeOK, NEW e \in Execution, NEW rec, rec.pc # "loaded",
         exec[e].pc # "loaded", exec' = [exec EXCEPT ![e] = rec],
         UNCHANGED <<job, steps, req, gone>>
  PROVE  UNCHANGED Store!vars
<1>1. exec'[e] = rec /\ \A f \in Execution \ {e} : exec'[f] = exec[f]
  BY DEF TypeOK
<1>2. Seen' = Seen
  <2>1. \A f \in Execution : Seen'[f] = Seen[f]
    BY <1>1 DEF Seen
  <2>2. Seen' = [f \in Execution |-> Seen'[f]] /\ Seen = [f \in Execution |-> Seen[f]]
    BY DEF Seen
  <2>3. QED
    BY <2>1, <2>2
<1>3. QED
  BY <1>2 DEF Store!vars, Stored, Saves

LEMMA LoadJobStutters ==
  ASSUME IInv, NEW e \in Execution, LoadJob(e), UNCHANGED <<rowVars, deletion, under>>
  PROVE  UNCHANGED Store!vars
<1> DEFINE rec == [exec[e] EXCEPT !.pc = IF job[exec[e].job] # NoRow THEN "steps"
                                                                     ELSE "nojob"]
<1>1. exec[e].pc = "queued" /\ UNCHANGED <<job, steps, req, gone>> /\ TypeOK
  BY DEF LoadJob, rowVars, IInv
<1>2. exec' = [exec EXCEPT ![e] = rec]
  BY DEF LoadJob
<1>3. rec.pc # "loaded"
  <2>1. exec[e] \in Dispatched
    BY <1>1 DEF TypeOK, Nowhere
  <2>2. QED
    BY <2>1 DEF Dispatched
<1> HIDE DEF rec
<1>4. QED
  BY <1>1, <1>2, <1>3, ExecStutters

LEMMA DispatchStutters ==
  ASSUME IInv, NEW e \in Execution, NEW j, NEW manual, Dispatch(e, j, manual),
         UNCHANGED rowVars
  PROVE  UNCHANGED Store!vars
<1> DEFINE rec == [pc |-> "queued", job |-> j, manual |-> manual, run |-> <<>>]
<1>1. exec[e].pc = "idle" /\ UNCHANGED <<job, steps, req, gone>> /\ TypeOK
  BY DEF Dispatch, rowVars, IInv
<1>2. exec' = [exec EXCEPT ![e] = rec] /\ rec.pc # "loaded"
  BY DEF Dispatch
<1> HIDE DEF rec
<1>3. QED
  BY <1>1, <1>2, ExecStutters

LEMMA SaveStepStore ==
  ASSUME IInv, NEW r \in Request, SaveStep(r) \/ BreakDeadlock(r)
  PROVE  Store!Put(r) \/ Store!Miss(r) \/ Store!Refuse(r) \/ UNCHANGED Store!vars
<1>1. CASE UNCHANGED <<rowVars, deletion, under>> /\ Commit(r)
  BY <1>1, CommitStore
<1>2. CASE UNCHANGED <<rowVars, deletion, under>> /\ RequestStep(r) /\ ~Commit(r)
  BY <1>2, StatementStore
<1>3. CASE UNCHANGED <<rowVars, deletion, under>> /\ Refuse(r) /\ req[r].pc \in Serving
  BY <1>3, RefuseStore
<1>4. CASE GiveUp
  BY <1>4, StoreStutters DEF GiveUp, jobVars, rowVars
<1>5. AwaitsDeletion(r) => req[r].pc \in Serving
  BY Kinds DEF AwaitsDeletion
<1>6. QED
  BY <1>1, <1>2, <1>3, <1>4, <1>5, Kinds DEF SaveStep, BreakDeadlock, Deadlocked, RequestStep

\* Every step is one of the store, or none.
LEMMA NextStore == IInv /\ [Next]_vars => [Store!Next]_(Store!vars)
<1> SUFFICES ASSUME IInv, [Next]_vars PROVE Store!Next \/ UNCHANGED Store!vars
  OBVIOUS
<1>1. ASSUME NEW r \in Request, SaveStep(r) \/ BreakDeadlock(r)
      PROVE  Store!Next \/ UNCHANGED Store!vars
  BY <1>1, SaveStepStore DEF Store!Next
<1>2. ASSUME NEW r \in Request, NEW j \in Job, NEW w \in Workflow, Save(r, j, w)
      PROVE  Store!Next
  BY <1>2, SendStore DEF Store!Next
<1>3. ASSUME NEW j \in Job, DeleteJob(j) PROVE Store!Next
  BY <1>3, DeleteJobStore DEF Store!Next
<1>4. ASSUME FinishDeletion PROVE Store!Next
  BY <1>4, FinishDeletionStore DEF Store!Next
<1>5. ASSUME NEW x, LockRow(x) \/ DeleteProject(x) \/ DeleteNode(x) PROVE UNCHANGED Store!vars
  BY <1>5, StoreStutters DEF LockRow, DeleteProject, DeleteNode, jobVars, rowVars
<1>6. ASSUME RefuseDeletion PROVE UNCHANGED Store!vars
  BY <1>6, StoreStutters DEF RefuseDeletion, GiveUp, jobVars, rowVars
<1>7. ASSUME NEW x, CreateProject(x) \/ CreateNode(x) \/ CreateRule(x) \/ DeleteRule(x)
      PROVE  UNCHANGED Store!vars
  BY <1>7, StoreStutters DEF CreateProject, CreateNode, CreateRule, DeleteRule, jobVars, rowVars
<1>8. ASSUME NEW x, UpdateContents(x) PROVE UNCHANGED Store!vars
  BY <1>8, StoreStutters DEF UpdateContents
<1>9. ASSUME NEW e \in Execution, Load(e) PROVE Store!Next \/ UNCHANGED Store!vars
  BY <1>9, ReadStore, LoadJobStutters DEF Load, Store!Next
<1>10. ASSUME NEW e \in Execution, NEW j \in Job,
              FireJob(e, j) \/ \E p \in Project : Execute(e, j, p)
       PROVE  UNCHANGED Store!vars
  BY <1>10, DispatchStutters DEF FireJob, Execute
<1>11. CASE UNCHANGED vars
  BY <1>11, StoreStutters DEF vars, jobVars, rowVars
<1>12. QED
  BY <1>1, <1>2, <1>3, <1>4, <1>5, <1>6, <1>7, <1>8, <1>9, <1>10, <1>11
  DEF Next, DeletionStep

\* However statements interleave, wait and fail, each save is one change of a job with
\* all its steps or none, what is deleted stays deleted, and an executor loads the steps
\* of one save (Create, Update, loadSteps).
THEOREM StoreImplemented == Spec => ImplementsJobStore
BY InitStore, NextStore, Inductive, PTL DEF Spec, ImplementsJobStore, Store!Spec

-------------------------------------------------------------------------------
(* Sorting: what sort.Slice and ORDER BY return exists, and rows that have *)
(* different orders come in one order only.                                *)

\* s lists n different elements of S by rising y; with n elements in S, all of them.
Sorts(s, S, n, y) ==
  /\ s \in [1..n -> S]
  /\ \A i, k \in 1..n : i < k => s[i] # s[k] /\ y[s[i]] =< y[s[k]]

LEMMA SortsAll ==
  ASSUME NEW S, IsFiniteSet(S), NEW y, NEW s, Sorts(s, S, Cardinality(S), y)
  PROVE  /\ Cardinality(S) \in Nat
         /\ \A x \in S : \E i \in 1..Cardinality(S) : s[i] = x
<1>1. s \in [1..Cardinality(S) -> S] /\ IsFiniteSet(S)
  BY DEF Sorts
<1>2. \A i, k \in 1..Cardinality(S) : i < k => s[i] # s[k]
  BY DEF Sorts
<1>3. /\ Cardinality(S) \in Nat
      /\ \A i, k \in 1..Cardinality(S) : s[i] = s[k] => i = k
      /\ \A x \in S : \E i \in 1..Cardinality(S) : s[i] = x
  BY ONLY <1>1, <1>2, Enumerates, ZenonT(60)
<1>4. QED
  BY <1>3

LEMMA Largest ==
  ASSUME NEW S, IsFiniteSet(S), NEW y \in [S -> Int], NEW x \in S, NEW n \in Nat,
         Cardinality(S) = n + 1, NEW s, Sorts(s, S \ {x}, n, y)
  PROVE  \E z \in S : \A u \in S : y[u] =< y[z]
<1>1. IsFiniteSet(S \ {x}) /\ Cardinality(S \ {x}) = n
  BY FS_RemoveElement
<1>2. \A u \in S \ {x} : \E i \in 1..n : s[i] = u
  <2>1. Sorts(s, S \ {x}, Cardinality(S \ {x}), y)
    BY <1>1
  <2>2. \A u \in S \ {x} : \E i \in 1..Cardinality(S \ {x}) : s[i] = u
    BY <1>1, <2>1, SortsAll
  <2>3. QED
    BY <1>1, <2>2
<1>3. CASE n = 0
  BY <1>2, <1>3
<1>4. CASE n # 0
  <2>1. s[n] \in S /\ y[s[n]] \in Int /\ y[x] \in Int
    BY <1>4 DEF Sorts
  <2>2. ASSUME NEW u \in S \ {x} PROVE y[u] =< y[s[n]]
    <3>1. PICK i \in 1..n : s[i] = u
      BY <1>2
    <3>2. CASE i = n
      BY <2>1, <3>1, <3>2
    <3>3. CASE i < n
      BY <1>4, <3>1, <3>3 DEF Sorts
    <3>4. QED
      BY <3>2, <3>3
  <2>3. CASE y[x] =< y[s[n]]
    BY <2>1, <2>2, <2>3
  <2>4. CASE y[s[n]] < y[x]
    <3>1. ASSUME NEW u \in S PROVE y[u] =< y[x]
      BY <2>1, <2>2, <2>4
    <3>2. QED
      BY <3>1
  <2>5. QED
    BY <2>1, <2>3, <2>4
<1>5. QED
  BY <1>3, <1>4

LEMMA SortedLast ==
  ASSUME NEW S, NEW y \in [S -> Int], NEW z \in S, \A u \in S : y[u] =< y[z],
         NEW n \in Nat, NEW s, Sorts(s, S \ {z}, n, y)
  PROVE  \E t : Sorts(t, S, n + 1, y)
<1> DEFINE t == [i \in 1..(n + 1) |-> IF i = n + 1 THEN z ELSE s[i]]
<1>1. \A i \in 1..n : s[i] \in S \ {z} /\ t[i] = s[i]
  BY DEF Sorts
<1>2. t[n + 1] = z /\ \A i \in 1..(n + 1) : i \in 1..n \/ i = n + 1
  OBVIOUS
<1>3. t \in [1..(n + 1) -> S]
  <2>1. ASSUME NEW i \in 1..(n + 1) PROVE (IF i = n + 1 THEN z ELSE s[i]) \in S
    BY <1>1, <1>2
  <2>2. QED
    BY <2>1
<1> HIDE DEF t
<1>4. ASSUME NEW i \in 1..(n + 1), NEW k \in 1..(n + 1), i < k
      PROVE  t[i] # t[k] /\ y[t[i]] =< y[t[k]]
  <2>1. i \in 1..n
    BY <1>4
  <2>2. CASE k = n + 1
    BY <1>1, <1>2, <2>1, <2>2
  <2>3. CASE k \in 1..n
    BY <1>1, <1>4, <2>1, <2>3 DEF Sorts
  <2>4. QED
    BY <1>2, <2>2, <2>3
<1>5. QED
  BY <1>3, <1>4 DEF Sorts

\* Induction up to n, from the well-foundedness of the numbers.
LEMMA UpTo ==
  ASSUME NEW n \in Nat, NEW S,
         \A k \in 0..n : 0..(k - 1) \subseteq S => k \in S
  PROVE  0..n \subseteq S
<1> DEFINE R == OpToRel(<, Nat)
           T == (0..n) \ S
<1>1. SUFFICES ASSUME T # {} PROVE FALSE
  OBVIOUS
<1>2. IsWellFoundedOn(R, Nat)
  BY NatLessThanWellFounded
<1>3. \A x, y \in Nat : x < y => <<x, y>> \in R
  BY DEF OpToRel
<1>4. T \subseteq Nat
  OBVIOUS
<1> HIDE DEF R, T
<1>5. PICK k \in T : \A x \in T : ~ (<<x, k>> \in R)
  BY <1>1, <1>2, <1>4, WFMin
<1>6. \A x \in T : ~ (x < k)
  BY <1>3, <1>4, <1>5
<1>7. k \in 0..n /\ k \notin S
  BY DEF T
<1>8. 0..(k - 1) \subseteq S
  BY <1>6, <1>7 DEF T
<1>9. QED
  BY <1>7, <1>8

LEMMA Sortable ==
  ASSUME NEW S, IsFiniteSet(S), NEW y \in [S -> Int]
  PROVE  \E s : Sorts(s, S, Cardinality(S), y)
<1> DEFINE n == Cardinality(S)
           CanSort(k) == \A T \in SUBSET S : Cardinality(T) = k => \E s : Sorts(s, T, k, y)
           Good == {k \in 0..n : CanSort(k)}
<1>1. n \in Nat
  BY FS_CardinalityType
<1>2. ASSUME NEW T \in SUBSET S, NEW k \in Nat
      PROVE  \A s : Sorts(s, T, k, y) <=> Sorts(s, T, k, [u \in T |-> y[u]])
  BY DEF Sorts
<1>3. ASSUME NEW k \in 0..n, 0..(k - 1) \subseteq Good PROVE CanSort(k)
  <2> SUFFICES ASSUME NEW T \in SUBSET S, Cardinality(T) = k
               PROVE  \E s : Sorts(s, T, k, y)
    OBVIOUS
  <2> DEFINE v == [u \in T |-> y[u]]
  <2>1. IsFiniteSet(T) /\ v \in [T -> Int]
    BY FS_Subset
  <2>2. CASE k = 0
    <3>1. Sorts([i \in 1..0 |-> i], T, 0, y)
      BY DEF Sorts
    <3>2. QED
      BY <2>2, <3>1
  <2>3. CASE k # 0
    <3>1. T # {}
      BY <2>1, <2>3, FS_EmptySet
    <3>2. ASSUME NEW x \in T PROVE \E s : Sorts(s, T \ {x}, k - 1, y)
      <4>1. Cardinality(T \ {x}) = k - 1 /\ T \ {x} \in SUBSET S
        BY <2>1, FS_RemoveElement
      <4>2. CanSort(k - 1)
        BY <1>3, <2>3
      <4>3. QED
        BY <4>1, <4>2
    <3>3. PICK x \in T : TRUE
      BY <3>1
    <3>4. \A u \in T : \A s : Sorts(s, T \ {u}, k - 1, y) => Sorts(s, T \ {u}, k - 1, v)
      BY <2>3 DEF Sorts
    <3>5. k - 1 \in Nat /\ k = (k - 1) + 1
      BY <2>3
    <3> HIDE DEF v
    <3>6. PICK z \in T : \A u \in T : v[u] =< v[z]
      <4>1. PICK s : Sorts(s, T \ {x}, k - 1, v)
        BY <3>2, <3>4
      <4>2. QED
        BY <2>1, <3>5, <4>1, Largest
    <3>7. \E s : Sorts(s, T, k, v)
      <4>1. PICK s : Sorts(s, T \ {z}, k - 1, v)
        BY <3>2, <3>4
      <4>2. \E t : Sorts(t, T, (k - 1) + 1, v)
        BY <2>1, <3>5, <3>6, <4>1, SortedLast
      <4>3. QED
        BY <3>5, <4>2
    <3>8. QED
      BY <1>2, <3>7 DEF v
  <2>4. QED
    BY <2>2, <2>3
<1>4. 0..n \subseteq Good
  <2>1. \A k \in 0..n : 0..(k - 1) \subseteq Good => k \in Good
    BY <1>3
  <2> HIDE DEF Good
  <2>2. QED
    BY <1>1, <2>1, UpTo
<1>5. QED
  BY <1>1, <1>4

LEMMA OneOrderOnly ==
  ASSUME NEW S, IsFiniteSet(S), NEW y \in [S -> Int],
         \A u, v \in S : y[u] = y[v] => u = v,
         NEW s, Sorts(s, S, Cardinality(S), y), NEW t, Sorts(t, S, Cardinality(S), y)
  PROVE  s = t
<1> DEFINE n == Cardinality(S)
           Same == {i \in 0..n : i = 0 \/ s[i] = t[i]}
<1>1. /\ n \in Nat /\ s \in [1..n -> S] /\ t \in [1..n -> S]
      /\ \A x \in S : \E i \in 1..n : s[i] = x
      /\ \A x \in S : \E i \in 1..n : t[i] = x
  <2>1. s \in [1..n -> S] /\ t \in [1..n -> S]
    BY DEF Sorts
  <2>2. n \in Nat /\ \A x \in S : \E i \in 1..n : s[i] = x
    BY SortsAll
  <2>3. \A x \in S : \E i \in 1..n : t[i] = x
    BY SortsAll
  <2>4. QED
    BY <2>1, <2>2, <2>3
<1>2. ASSUME NEW k \in 0..n, 0..(k - 1) \subseteq Same PROVE k \in Same
  <2> SUFFICES ASSUME k # 0, s[k] # t[k] PROVE FALSE
    OBVIOUS
  <2>1. k \in 1..n /\ \A i \in 1..(k - 1) : s[i] = t[i]
    BY <1>1, <1>2
  <2>2. PICK a \in 1..n : t[a] = s[k]
    BY <1>1, <2>1
  <2>3. PICK b \in 1..n : s[b] = t[k]
    BY <1>1, <2>1
  <2>4. k < a
    <3>1. CASE a < k
      <4>1. s[a] = s[k]
        BY <2>1, <2>2, <3>1
      <4>2. QED
        BY <2>1, <3>1, <4>1 DEF Sorts
    <3>2. QED
      BY <2>1, <2>2, <3>1
  <2>5. k < b
    <3>1. CASE b < k
      <4>1. t[b] = t[k]
        BY <2>1, <2>3, <3>1
      <4>2. QED
        BY <2>1, <3>1, <4>1 DEF Sorts
    <3>2. QED
      BY <2>1, <2>3, <3>1
  <2>6. y[t[k]] =< y[s[k]] /\ y[s[k]] =< y[t[k]]
    BY <2>1, <2>2, <2>3, <2>4, <2>5 DEF Sorts
  <2>7. s[k] \in S /\ t[k] \in S /\ y[s[k]] \in Int /\ y[t[k]] \in Int
    BY <1>1, <2>1
  <2>8. QED
    BY <2>6, <2>7
<1>3. 0..n \subseteq Same
  <2>1. \A k \in 0..n : 0..(k - 1) \subseteq Same => k \in Same
    BY <1>2
  <2> HIDE DEF Same
  <2>2. QED
    BY <1>1, <2>1, UpTo
<1>4. \A i \in 1..n : s[i] = t[i]
  BY <1>1, <1>3
<1>5. QED
  BY <1>1, <1>4

\* The rows that loadSteps reads of a job.
Loadable(j) == {t \in steps : t.job = j /\ t.def \in defs}

\* There is one order to run a job's steps in.
RunsInOneOrder == \A j \in Job : \E s : Ordered(Loadable(j)) = {s}

\* At every moment, whatever saves, deletions and failures went before, the steps
\* of a job can be loaded, and in one order only: two executors that load them at
\* that moment run them alike (ORDER BY step_order, loadSteps).
THEOREM RunsAlike == Spec => []RunsInOneOrder
<1>1. IInv => RunsInOneOrder
  <2> SUFFICES ASSUME IInv, NEW j \in Job PROVE \E s : Ordered(Loadable(j)) = {s}
    BY DEF RunsInOneOrder
  <2> DEFINE S == Loadable(j)
             y == [t \in S |-> t.order]
  <2>1. /\ IsFiniteSet(S) /\ y \in [S -> Int]
        /\ \A u, v \in S : y[u] = y[v] => u = v
    <3>1. CASE job[j] = NoRow
      <4>1. S = {}
        BY <3>1 DEF IInv, TreeIsWhole, Jobs, Loadable
      <4>2. QED
        BY <4>1, FS_EmptySet
    <3>2. CASE job[j] # NoRow
      <4>1. S = {s \in steps : s.job = j}
        BY DEF IInv, TreeIsWhole, Loadable
      <4>2. IsFiniteSet(S) /\ IsMaterialization(S, job[j].spec)
        BY <3>2, <4>1 DEF IInv, Saved, StepsOf
      <4>3. {s.order : s \in S} = 1..Cardinality(S) /\ Cardinality(S) \in Nat
        BY <4>2, FS_CardinalityType DEF IsMaterialization
      <4> HIDE DEF S
      <4>4. y \in Surjection(S, 1..Cardinality(S))
        BY <4>3 DEF Surjection
      <4>5. y \in Injection(S, 1..Cardinality(S))
        BY <4>2, <4>3, <4>4, FS_Surjection, FS_Interval
      <4>6. ASSUME NEW u \in S PROVE u.order \in Int
        BY <4>3
      <4>7. ASSUME NEW u \in S, NEW v \in S, y[u] = y[v] PROVE u = v
        BY <4>5, <4>7 DEF Injection, IsInjective
      <4>8. QED
        BY <4>2, <4>6, <4>7
    <3>3. QED
      BY <3>1, <3>2
  <2>2. \A s : s \in Ordered(S) <=> Sorts(s, S, Cardinality(S), y)
    BY DEF Ordered, Sorts
  <2> HIDE DEF S, y
  <2>3. PICK s : Sorts(s, S, Cardinality(S), y)
    BY <2>1, Sortable
  <2>4. \A t : Sorts(t, S, Cardinality(S), y) => t = s
    BY <2>1, <2>3, OneOrderOnly
  <2>5. Ordered(S) = {s}
    BY <2>2, <2>3, <2>4
  <2>6. QED
    BY <2>5 DEF S
<1>2. QED
  BY <1>1, Inductive, PTL

===============================================================================
