---------------------------- MODULE SchedulesProofs ----------------------------
(***************************************************************************)
(* Theorems about Schedules, for any instances, requests, jobs and         *)
(* expressions: however many requests overlap on however many instances.   *)
(***************************************************************************)
EXTENDS Schedules, TLAPS

\* A place where a schedule ID stands for a job: the table, the memory of a
\* request, the entries of an instance, a run that is yet to be recorded.
RowUses(id, j) == row[j] # NoRow /\ row[j].id = id
ReqUses(id, j) == \E r \in Request : req[r] # Idle /\ req[r].sc.id = id
                                                  /\ req[r].sc.job = j
EntryUses(id, j) == \E i \in Instance : \E x \in entries[i] : x.id = id /\ x.job = j
RunUses(id, j) == \E i \in Instance : \E f \in firing[i] : f[1] = id /\ runs[f[2]] = j
Uses(id, j) == RowUses(id, j) \/ ReqUses(id, j) \/ EntryUses(id, j) \/ RunUses(id, j)

\* An ID is one job's, in all places and for ever.
Owned == \A id \in Id : \A j, k \in Job :
           Uses(id, j) => id =< ids /\ (Uses(id, k) => j = k)

\* The last run of a Schedule is a run of its job.
Genuine(sc) == sc.last =< Len(runs) /\ (sc.last > 0 => runs[sc.last] = sc.job)

Recorded ==
  /\ \A j \in Job : row[j] # NoRow => Genuine(row[j])
  /\ \A r \in Request : req[r] # Idle => Genuine(req[r].sc)
  /\ \A i \in Instance : \A f \in firing[i] : f[2] =< Len(runs)

IInv == TypeOK /\ Owned /\ Recorded

-------------------------------------------------------------------------------
\* A step that uses no ID anew keeps the owners.
LEMMA OwnedStable ==
  ASSUME TypeOK, Owned, ids' = ids,
         \A id \in Id : \A j \in Job : Uses(id, j)' => Uses(id, j)
  PROVE  Owned'
BY DEF Owned

\* A busy request.
LEMMA ReqType ==
  ASSUME TypeOK, NEW r \in Request, req[r] # Idle
  PROVE  /\ req[r] \in Busy /\ req[r].sc \in Row /\ req[r].at \in Instance
         /\ req[r].sc.job \in Job /\ req[r].sc.id \in Id
BY DEF TypeOK, Busy, Row

\* A row with a request's values over it.
LEMMA RowRequested ==
  ASSUME NEW s \in Row, NEW expr \in Expr, NEW on \in BOOLEAN
  PROVE  LET u == [s EXCEPT !.expr = expr, !.on = on]
         IN u \in Row /\ u.id = s.id /\ u.job = s.job /\ u.last = s.last
BY DEF Row

\* A row with another ID.
LEMMA RowWithId ==
  ASSUME NEW s \in Row, NEW id \in Id
  PROVE  LET u == [s EXCEPT !.id = id]
         IN u \in Row /\ u.id = id /\ u.job = s.job /\ u.last = s.last
BY DEF Row

\* What Goes and Answer leave behind.
LEMMA GoesType ==
  ASSUME TypeOK, NEW r \in Request, NEW i \in Instance, NEW sc \in Row,
         NEW pc \in {"upsert", "register", "delete", "unregister"},
         Goes(r, pc, i, sc)
  PROVE  /\ req' \in [Request -> Busy \cup {Idle}]
         /\ req'[r].sc = sc
         /\ \A q \in Request : q # r => req'[q] = req[q]
BY DEF TypeOK, Goes, Busy

LEMMA AnswerType ==
  ASSUME TypeOK, NEW r \in Request, Answer(r)
  PROVE  /\ req' \in [Request -> Busy \cup {Idle}]
         /\ req'[r] = Idle
         /\ \A q \in Request : q # r => req'[q] = req[q]
BY DEF TypeOK, Answer

\* A request that goes on with a Schedule that has its ID, or ends, uses no ID anew.
LEMMA ReqUsesStable ==
  ASSUME NEW r \in Request, NEW id, NEW j,
         \A q \in Request : q # r => req'[q] = req[q],
         \/ req'[r] = Idle
         \/ req[r] # Idle /\ req'[r].sc = req[r].sc
  PROVE  ReqUses(id, j)' => ReqUses(id, j)
BY DEF ReqUses

\* The history keeps its type.
LEMMA LosesType ==
  ASSUME TypeOK, NEW S, NEW j \in Job, Loses(S, j)
  PROVE  stale' \in [Instance -> SUBSET Job]
BY DEF TypeOK, Loses

LEMMA InHandType ==
  ASSUME TypeOK
  PROVE  InHand \subseteq Job
BY ReqType DEF InHand

\* The rows as the type invariant has them.
RowType ==
  /\ row \in [Job -> Row \cup {NoRow}]
  /\ \A j \in Job : row[j] # NoRow => row[j].job = j /\ job[j] # "deleted"

EntryType ==
  /\ entries \in [Instance -> SUBSET Entry]
  /\ \A i \in Instance : \A x, y \in entries[i] : x.id = y.id => x = y

LEMMA InitInv == Init => IInv
<1> SUFFICES ASSUME Init PROVE IInv
  OBVIOUS
<1> USE BoundsAssumption DEF Init
<1>1. TypeOK
  <2>1. RowType
    BY NoRowAssumption DEF RowType
  <2>2. EntryType
    BY DEF EntryType
  <2>3. runs \in Seq(Job) /\ Len(runs) =< MaxRuns
    OBVIOUS
  <2>4. firing \in [Instance -> SUBSET (Id \X (1..MaxRuns))]
    OBVIOUS
  <2>5. QED
    BY <2>1, <2>2, <2>3, <2>4 DEF TypeOK, RowType, EntryType
<1>2. Owned
  BY DEF Owned, Uses, RowUses, ReqUses, EntryUses, RunUses
<1>3. Recorded
  BY DEF Recorded
<1>4. QED
  BY <1>1, <1>2, <1>3 DEF IInv

-------------------------------------------------------------------------------
(* Instances.                                                              *)

LEMMA EnabledRow ==
  ASSUME NEW sc \in Enabled, TypeOK
  PROVE  /\ sc \in Row /\ EntryOf(sc) \in Entry /\ sc.job \in Job
         /\ row[sc.job] = sc /\ sc # NoRow
<1>1. PICK j \in Job : row[j] # NoRow /\ sc = row[j]
  BY DEF Enabled
<1>2. sc \in Row /\ sc.job = j
  BY <1>1 DEF TypeOK
<1>3. QED
  BY <1>1, <1>2 DEF Row, Entry, EntryOf

LEMMA StartInv ==
  ASSUME IInv, NEW i \in Instance, Start(i)
  PROVE  IInv'
<1> USE DEF IInv, Start, tableVars
<1> DEFINE new == {EntryOf(sc) : sc \in Enabled}
<1>0. TypeOK /\ entries \in [Instance -> SUBSET Entry] /\ entries' = [entries EXCEPT ![i] = new]
  BY DEF TypeOK
<1>1. ASSUME NEW x \in new
      PROVE  x \in Entry /\ x.job \in Job /\ x.id \in Id /\ RowUses(x.id, x.job)
             /\ x = EntryOf(row[x.job])
  <2>1. PICK sc \in Enabled : x = EntryOf(sc)
    OBVIOUS
  <2>2. QED
    BY <1>0, <2>1, EnabledRow DEF EntryOf, RowUses, Row
<1>2. EntryType'
  <2>1. entries' \in [Instance -> SUBSET Entry]
    BY <1>0, <1>1
  <2>2. ASSUME NEW k \in Instance, NEW x \in entries'[k], NEW y \in entries'[k],
               x.id = y.id
        PROVE  x = y
    <3>1. CASE k = i
      <4>1. x \in new /\ y \in new
        BY <1>0, <3>1
      <4>2. RowUses(x.id, x.job) /\ RowUses(x.id, y.job) /\ x.id \in Id
            /\ x.job \in Job /\ y.job \in Job
        BY <1>1, <2>2, <4>1
      <4>3. x.job = y.job
        BY <4>2 DEF Owned, Uses
      <4>4. QED
        BY <1>1, <4>1, <4>3
    <3>2. CASE k # i
      BY <1>0, <2>2, <3>2 DEF TypeOK
    <3>3. QED
      BY <3>1, <3>2
  <2>3. QED
    BY <2>1, <2>2 DEF EntryType
<1>3. TypeOK'
  <2>1. stale' \in [Instance -> SUBSET Job]
    BY InHandType DEF TypeOK
  <2>2. QED
    BY <1>2, <2>1 DEF TypeOK, EntryType
<1>4. ASSUME NEW id \in Id, NEW j \in Job, Uses(id, j)' PROVE Uses(id, j)
  <2>1. CASE EntryUses(id, j)'
    <3>1. PICK k \in Instance : \E x \in entries'[k] : x.id = id /\ x.job = j
      BY <2>1 DEF EntryUses
    <3>2. PICK x \in entries'[k] : x.id = id /\ x.job = j
      BY <3>1
    <3>3. CASE k = i
      BY <1>0, <1>1, <3>2, <3>3 DEF Uses
    <3>4. CASE k # i
      BY <1>0, <3>2, <3>4 DEF Uses, EntryUses
    <3>5. QED
      BY <3>3, <3>4
  <2>2. CASE RowUses(id, j)' \/ ReqUses(id, j)' \/ RunUses(id, j)'
    BY <2>2 DEF Uses, RowUses, ReqUses, RunUses
  <2>3. QED
    BY <1>4, <2>1, <2>2 DEF Uses
<1>5. Owned'
  BY <1>4, OwnedStable
<1>6. Recorded'
  BY DEF Recorded, Genuine
<1>7. QED
  BY <1>3, <1>5, <1>6

LEMMA StopInv ==
  ASSUME IInv, NEW i \in Instance, Stop(i)
  PROVE  IInv'
<1> USE DEF IInv, Stop, tableVars
<1>0. /\ entries' = [entries EXCEPT ![i] = {}] /\ entries \in [Instance -> SUBSET Entry]
      /\ firing' = [firing EXCEPT ![i] = {}]
      /\ firing \in [Instance -> SUBSET (Id \X (1..MaxRuns))]
      /\ UNCHANGED <<job, row, ids, runs, stale>>
  BY DEF TypeOK
<1>1. \A k \in Instance : entries'[k] \subseteq entries[k] /\ firing'[k] \subseteq firing[k]
  BY <1>0
<1>2. \A r \in Request : req'[r] \in {Idle, req[r]}
  OBVIOUS
<1>3. TypeOK'
  <2>1. req' \in [Request -> Busy \cup {Idle}]
    BY DEF TypeOK
  <2>2. EntryType'
    BY <1>0, <1>1 DEF TypeOK, EntryType
  <2>3. firing' \in [Instance -> SUBSET (Id \X (1..MaxRuns))]
    BY <1>0
  <2>4. QED
    BY <1>0, <2>1, <2>2, <2>3 DEF TypeOK, EntryType
<1>4. ASSUME NEW id \in Id, NEW j \in Job, Uses(id, j)' PROVE Uses(id, j)
  <2>1. CASE RowUses(id, j)'
    BY <1>0, <2>1 DEF Uses, RowUses
  <2>2. CASE ReqUses(id, j)'
    BY <1>2, <2>2 DEF Uses, ReqUses
  <2>3. CASE EntryUses(id, j)'
    BY <1>1, <2>3 DEF Uses, EntryUses
  <2>4. CASE RunUses(id, j)'
    BY <1>0, <1>1, <2>4 DEF Uses, RunUses
  <2>5. QED
    BY <1>4, <2>1, <2>2, <2>3, <2>4 DEF Uses
<1>5. Owned'
  BY <1>0, <1>4, OwnedStable
<1>6. Recorded'
  BY <1>0, <1>1, <1>2 DEF Recorded, Genuine
<1>7. QED
  BY <1>3, <1>5, <1>6

-------------------------------------------------------------------------------
(* Requests.                                                               *)

LEMMA UpsertFindInv ==
  ASSUME IInv, NEW r \in Request, NEW i \in Instance, NEW j \in Job,
         UpsertFind(r, i, j)
  PROVE  IInv'
<1> USE DEF IInv, UpsertFind, memoryVars
<1>0. /\ UNCHANGED <<job, row, runs, up, entries, firing>> /\ req[r] = Idle
      /\ stale' \in [Instance -> SUBSET Job]
  BY LosesType DEF Begins
<1> PICK expr \in Expr, on \in BOOLEAN :
       IF row[j] # NoRow
       THEN /\ Goes(r, "upsert", i, [row[j] EXCEPT !.expr = expr, !.on = on])
            /\ UNCHANGED ids
       ELSE /\ ids < MaxId
            /\ ids' = ids + 1
            /\ Goes(r, "upsert", i, [id |-> ids + 1, job |-> j, on |-> on,
                                      expr |-> expr, last |-> 0])
  OBVIOUS
<1>1. CASE row[j] # NoRow
  <2> DEFINE sc == [row[j] EXCEPT !.expr = expr, !.on = on]
  <2>1. sc \in Row /\ sc.id = row[j].id /\ sc.job = row[j].job /\ sc.last = row[j].last
    <3>1. row[j] \in Row
      BY <1>1 DEF TypeOK
    <3>2. QED
      BY <3>1, RowRequested, ZenonT(60)
  <2>2. Goes(r, "upsert", i, sc) /\ ids' = ids
    BY <1>1
  <2>3. /\ req' \in [Request -> Busy \cup {Idle}] /\ req'[r].sc = sc
        /\ \A q \in Request : q # r => req'[q] = req[q]
    BY <2>1, <2>2, GoesType
  <2>4. TypeOK'
    BY <1>0, <2>2, <2>3 DEF TypeOK
  <2>5. ASSUME NEW id \in Id, NEW k \in Job, Uses(id, k)' PROVE Uses(id, k)
    <3>1. CASE ReqUses(id, k)'
      <4>1. PICK q \in Request : req'[q] # Idle /\ req'[q].sc.id = id /\ req'[q].sc.job = k
        BY <3>1 DEF ReqUses
      <4>2. CASE q = r
        BY <1>1, <2>1, <2>3, <4>1, <4>2 DEF Uses, RowUses, TypeOK
      <4>3. CASE q # r
        BY <2>3, <4>1, <4>3 DEF Uses, ReqUses
      <4>4. QED
        BY <4>2, <4>3
    <3>2. CASE ~ReqUses(id, k)'
      BY <1>0, <2>5, <3>2 DEF Uses, RowUses, EntryUses, RunUses
    <3>3. QED
      BY <3>1, <3>2
  <2>6. Owned'
    BY <2>2, <2>5, OwnedStable
  <2>7. Recorded'
    <3>1. Genuine(sc)
      <4>1. Genuine(row[j])
        BY <1>1 DEF Recorded
      <4>2. QED
        BY <2>1, <4>1 DEF Genuine
    <3> HIDE DEF sc
    <3>2. \A q \in Request : req'[q] # Idle => Genuine(req'[q].sc)
      BY <2>3, <3>1 DEF Recorded
    <3>3. QED
      BY <1>0, <3>2 DEF Recorded, Genuine
  <2>8. QED
    BY <2>4, <2>6, <2>7
<1>2. CASE row[j] = NoRow
  <2> DEFINE sc == [id |-> ids + 1, job |-> j, on |-> on, expr |-> expr, last |-> 0]
  <2>1. ids \in Int /\ ids + 1 \in Id /\ ids' = ids + 1
    BY <1>2, BoundsAssumption DEF TypeOK, Id
  <2>2. sc \in Row
    BY <2>1, BoundsAssumption DEF Row
  <2>3. Goes(r, "upsert", i, sc)
    BY <1>2
  <2>4. /\ req' \in [Request -> Busy \cup {Idle}] /\ req'[r].sc = sc
        /\ \A q \in Request : q # r => req'[q] = req[q]
    BY <2>2, <2>3, GoesType
  <2>5. TypeOK'
    BY <1>0, <2>1, <2>4 DEF TypeOK, Id
  <2>6. ASSUME NEW id \in Id, NEW k \in Job, Uses(id, k)'
        PROVE  Uses(id, k) \/ (id = ids + 1 /\ k = j)
    <3>1. CASE ReqUses(id, k)'
      <4>1. PICK q \in Request : req'[q] # Idle /\ req'[q].sc.id = id /\ req'[q].sc.job = k
        BY <3>1 DEF ReqUses
      <4>2. QED
        BY <2>4, <4>1 DEF Uses, ReqUses
    <3>2. CASE ~ReqUses(id, k)'
      BY <1>0, <2>6, <3>2 DEF Uses, RowUses, EntryUses, RunUses
    <3>3. QED
      BY <3>1, <3>2
  <2>7. \A id \in Id : \A k \in Job : Uses(id, k) => id =< ids
    BY DEF Owned
  <2>8. \A id \in Id : id \in Int
    BY DEF Id
  <2>9. ASSUME NEW id \in Id, NEW k \in Job, NEW l \in Job, Uses(id, k)'
        PROVE  id =< ids + 1 /\ (Uses(id, l)' => k = l)
    <3>1. CASE id = ids + 1
      <4>1. ~Uses(id, k) /\ ~Uses(id, l)
        BY <2>1, <2>7, <3>1
      <4>2. QED
        BY <2>1, <2>6, <2>9, <3>1, <4>1
    <3>2. CASE id # ids + 1
      <4>1. Uses(id, k) /\ (Uses(id, l)' => Uses(id, l))
        BY <2>6, <2>9, <3>2
      <4>2. id =< ids /\ (Uses(id, l) => k = l)
        BY <4>1 DEF Owned
      <4>3. QED
        BY <2>1, <2>8, <4>1, <4>2
    <3>3. QED
      BY <3>1, <3>2
  <2>10. Owned'
    BY <2>1, <2>9 DEF Owned
  <2>11. Recorded'
    <3>1. Genuine(sc)'
      BY <1>0 DEF Genuine, TypeOK
    <3>2. QED
      BY <1>0, <2>4, <3>1 DEF Recorded, Genuine
  <2>12. QED
    BY <2>5, <2>10, <2>11
<1>3. QED
  BY <1>1, <1>2

LEMMA UpsertWriteInv ==
  ASSUME IInv, NEW r \in Request, UpsertWrite(r)
  PROVE  IInv'
<1> USE DEF IInv, UpsertWrite, memoryVars
<1> DEFINE sc == req[r].sc
           new == Upserted(sc)
<1>0. UNCHANGED <<job, ids, runs, up, entries, firing>> /\ req[r].pc = "upsert"
  OBVIOUS
<1>1. req[r] # Idle
  BY <1>0 DEF Idle
<1>2. sc \in Row /\ req[r].at \in Instance /\ sc.job \in Job /\ sc.id \in Id
  BY <1>1, ReqType
<1> PICK o \in Outcomes :
       /\ job[sc.job] = "deleted" => o = "lost"
       /\ row' = IF Applied(o) THEN [row EXCEPT ![sc.job] = new] ELSE row
       /\ IF o = "ok" THEN Goes(r, "register", req[r].at, sc) ELSE Answer(r)
       /\ Loses(IF o = "unknown" THEN Instance ELSE {}, sc.job)
  OBVIOUS
<1>3. /\ new \in Row /\ new # NoRow /\ new.job = sc.job /\ new.last = sc.last
      /\ new.id = sc.id \/ (row[sc.job] # NoRow /\ new.id = row[sc.job].id)
  <2>1. CASE row[sc.job] = NoRow
    BY <1>2, <2>1, NoRowAssumption DEF Upserted
  <2>2. CASE row[sc.job] # NoRow
    <3>1. row[sc.job].id \in Id
      BY <1>2, <2>2 DEF TypeOK, Row
    <3>2. QED
      BY <1>2, <2>2, <3>1, RowWithId, NoRowAssumption DEF Upserted
  <2>3. QED
    BY <2>1, <2>2
<1>4. /\ req' \in [Request -> Busy \cup {Idle}]
      /\ req'[r] = Idle \/ req'[r].sc = sc
      /\ \A q \in Request : q # r => req'[q] = req[q]
  BY <1>2, GoesType, AnswerType
<1>5. \/ row' = row
      \/ row' = [row EXCEPT ![sc.job] = new] /\ job[sc.job] # "deleted"
  BY DEF Applied
<1>6. RowType'
  BY <1>0, <1>2, <1>3, <1>5 DEF TypeOK, RowType
<1>7. TypeOK'
  <2>1. stale' \in [Instance -> SUBSET Job]
    BY <1>2, LosesType
  <2>2. QED
    BY <1>0, <1>4, <1>6, <2>1 DEF TypeOK, RowType
<1>8. ASSUME NEW id \in Id, NEW j \in Job, Uses(id, j)' PROVE Uses(id, j)
  <2>1. CASE RowUses(id, j)'
    <3>1. CASE row'[j] = row[j]
      BY <2>1, <3>1 DEF RowUses, Uses
    <3>2. CASE row'[j] # row[j]
      <4>1. j = sc.job /\ row'[j] = new
        BY <1>2, <1>5, <3>2 DEF TypeOK
      <4>2. CASE new.id = sc.id
        BY <1>1, <2>1, <4>1, <4>2 DEF RowUses, ReqUses, Uses
      <4>3. CASE row[j] # NoRow /\ new.id = row[j].id
        BY <2>1, <4>1, <4>3 DEF RowUses, Uses
      <4>4. QED
        BY <1>3, <4>1, <4>2, <4>3
    <3>3. QED
      BY <3>1, <3>2
  <2>2. CASE ReqUses(id, j)'
    BY <1>1, <1>4, <2>2, ReqUsesStable DEF Uses
  <2>3. CASE EntryUses(id, j)' \/ RunUses(id, j)'
    BY <1>0, <2>3 DEF Uses, EntryUses, RunUses
  <2>4. QED
    BY <1>8, <2>1, <2>2, <2>3 DEF Uses
<1>9. Owned'
  BY <1>0, <1>8, OwnedStable
<1>10. Recorded'
  <2>1. Genuine(sc) /\ Genuine(new)
    BY <1>1, <1>3 DEF Recorded, Genuine
  <2>2. \A j \in Job : row'[j] # NoRow => Genuine(row'[j])
    BY <1>2, <1>5, <2>1 DEF Recorded, TypeOK
  <2>3. \A q \in Request : req'[q] # Idle => Genuine(req'[q].sc)
    BY <1>4, <2>1 DEF Recorded
  <2>4. QED
    BY <1>0, <2>2, <2>3 DEF Recorded, Genuine
<1>11. QED
  BY <1>7, <1>9, <1>10

\* The end of a request that changes the entries of its instance: what it puts
\* there bears the ID it has in memory.
LEMMA EntriesChanged ==
  ASSUME IInv, NEW r \in Request, NEW i \in Instance, req[r] # Idle, Answer(r),
         UNCHANGED <<job, row, ids, up, runs, firing, stale>>,
         NEW S, entries' = [entries EXCEPT ![i] = S],
         \/ S = Unregistered(i, req[r].sc)
         \/ S = Unregistered(i, req[r].sc) \cup {EntryOf(req[r].sc)}
  PROVE  IInv'
<1> USE DEF IInv
<1> DEFINE sc == req[r].sc
<1>0. sc \in Row /\ sc.job \in Job /\ sc.id \in Id
  BY ReqType
<1>1. EntryOf(sc) \in Entry /\ EntryOf(sc).id = sc.id /\ EntryOf(sc).job = sc.job
  BY <1>0 DEF EntryOf, Entry, Row
<1>2. entries \in [Instance -> SUBSET Entry]
      /\ \A k \in Instance : \A x, y \in entries[k] : x.id = y.id => x = y
  BY DEF TypeOK
<1>3. S \subseteq entries[i] \cup {EntryOf(sc)}
      /\ \A x \in S : x = EntryOf(sc) \/ (x \in entries[i] /\ x.id # sc.id)
  BY DEF Unregistered
<1>4. EntryType'
  <2>1. S \subseteq Entry
    BY <1>1, <1>2, <1>3
  <2>2. entries' \in [Instance -> SUBSET Entry]
    BY <1>2, <2>1
  <2>3. \A x, y \in S : x.id = y.id => x = y
    BY <1>1, <1>2, <1>3
  <2>4. QED
    BY <1>2, <2>2, <2>3 DEF EntryType
<1>5. /\ req' \in [Request -> Busy \cup {Idle}] /\ req'[r] = Idle
      /\ \A q \in Request : q # r => req'[q] = req[q]
  BY AnswerType
<1>6. TypeOK'
  BY <1>4, <1>5 DEF TypeOK, EntryType
<1>7. ASSUME NEW id \in Id, NEW j \in Job, Uses(id, j)' PROVE Uses(id, j)
  <2>1. CASE EntryUses(id, j)'
    <3>1. PICK k \in Instance : \E x \in entries'[k] : x.id = id /\ x.job = j
      BY <2>1 DEF EntryUses
    <3>2. PICK x \in entries'[k] : x.id = id /\ x.job = j
      BY <3>1
    <3>3. CASE x \in entries[k]
      BY <3>2, <3>3 DEF Uses, EntryUses
    <3>4. CASE x \notin entries[k]
      <4>1. x = EntryOf(sc)
        BY <1>2, <1>3, <3>4
      <4>2. QED
        BY <1>1, <3>2, <4>1 DEF Uses, ReqUses
    <3>5. QED
      BY <3>3, <3>4
  <2>2. CASE ReqUses(id, j)'
    BY <1>5, <2>2, ReqUsesStable DEF Uses
  <2>3. CASE RowUses(id, j)' \/ RunUses(id, j)'
    BY <2>3 DEF Uses, RowUses, RunUses
  <2>4. QED
    BY <1>7, <2>1, <2>2, <2>3 DEF Uses
<1>8. Owned'
  BY <1>7, OwnedStable
<1>9. Recorded'
  BY <1>5 DEF Recorded, Genuine
<1>10. QED
  BY <1>6, <1>8, <1>9

LEMMA UpsertRegisterInv ==
  ASSUME IInv, NEW r \in Request, UpsertRegister(r)
  PROVE  IInv'
<1> DEFINE i == req[r].at
           S == IF req[r].sc.on THEN Registered(i, req[r].sc)
                                ELSE Unregistered(i, req[r].sc)
<1>1. req[r] # Idle
  BY DEF UpsertRegister, Idle
<1>2. i \in Instance
  BY <1>1, ReqType DEF IInv
<1>3. entries' = [entries EXCEPT ![i] = S] /\ Answer(r)
      /\ UNCHANGED <<job, row, ids, up, runs, firing, stale>>
  BY DEF UpsertRegister, tableVars
<1>4. \/ S = Unregistered(i, req[r].sc)
      \/ S = Unregistered(i, req[r].sc) \cup {EntryOf(req[r].sc)}
  BY DEF Registered
<1> HIDE DEF i, S
<1>5. QED
  BY <1>1, <1>2, <1>3, <1>4, EntriesChanged DEF i

LEMMA DeleteUnregisterInv ==
  ASSUME IInv, NEW r \in Request, DeleteUnregister(r)
  PROVE  IInv'
<1>1. req[r] # Idle
  BY DEF DeleteUnregister, Idle
<1>2. req[r].at \in Instance
  BY <1>1, ReqType DEF IInv
<1>3. QED
  BY <1>1, <1>2, EntriesChanged DEF DeleteUnregister, tableVars

LEMMA DeleteFindInv ==
  ASSUME IInv, NEW r \in Request, NEW i \in Instance, NEW j \in Job,
         DeleteFind(r, i, j)
  PROVE  IInv'
<1> USE DEF IInv, DeleteFind, tableVars, memoryVars
<1>0. /\ UNCHANGED <<job, row, ids, runs, up, entries, firing>>
      /\ Goes(r, "delete", i, row[j]) /\ row[j] # NoRow
      /\ stale' \in [Instance -> SUBSET Job]
  BY LosesType DEF Begins
<1>1. row[j] \in Row /\ row[j].job = j
  BY <1>0 DEF TypeOK
<1>2. /\ req' \in [Request -> Busy \cup {Idle}] /\ req'[r].sc = row[j]
      /\ \A q \in Request : q # r => req'[q] = req[q]
  BY <1>0, <1>1, GoesType
<1>3. TypeOK'
  BY <1>0, <1>2 DEF TypeOK
<1>4. ASSUME NEW id \in Id, NEW k \in Job, Uses(id, k)' PROVE Uses(id, k)
  <2>1. CASE ReqUses(id, k)'
    <3>1. PICK q \in Request : req'[q] # Idle /\ req'[q].sc.id = id /\ req'[q].sc.job = k
      BY <2>1 DEF ReqUses
    <3>2. CASE q = r
      BY <1>0, <1>1, <1>2, <3>1, <3>2 DEF Uses, RowUses
    <3>3. CASE q # r
      BY <1>2, <3>1, <3>3 DEF Uses, ReqUses
    <3>4. QED
      BY <3>2, <3>3
  <2>2. CASE ~ReqUses(id, k)'
    BY <1>0, <1>4, <2>2 DEF Uses, RowUses, EntryUses, RunUses
  <2>3. QED
    BY <2>1, <2>2
<1>5. Owned'
  BY <1>0, <1>4, OwnedStable
<1>6. Recorded'
  BY <1>0, <1>2 DEF Recorded, Genuine
<1>7. QED
  BY <1>3, <1>5, <1>6

\* A step of a request, or none, that at most drops rows.
LEMMA RowsDropped ==
  ASSUME IInv, NEW r,
         \A j \in Job : row'[j] = row[j] \/ row'[j] = NoRow,
         RowType', job' \in [Job -> {"active", "inactive", "deleted"}],
         stale' \in [Instance -> SUBSET Job],
         req' \in [Request -> Busy \cup {Idle}],
         \A q \in Request : q # r => req'[q] = req[q],
         r \in Request => \/ req'[r] = Idle
                          \/ req[r] # Idle /\ req'[r].sc = req[r].sc,
         UNCHANGED <<ids, up, entries, runs, firing>>
  PROVE  IInv'
<1> USE DEF IInv
<1>1. TypeOK'
  BY DEF TypeOK, RowType
<1>2. ASSUME NEW id \in Id, NEW j \in Job, Uses(id, j)' PROVE Uses(id, j)
  <2>1. CASE RowUses(id, j)'
    BY <2>1 DEF Uses, RowUses
  <2>2. CASE ReqUses(id, j)'
    BY <2>2 DEF ReqUses, Uses
  <2>3. CASE EntryUses(id, j)' \/ RunUses(id, j)'
    BY <2>3 DEF Uses, EntryUses, RunUses
  <2>4. QED
    BY <1>2, <2>1, <2>2, <2>3 DEF Uses
<1>3. Owned'
  BY <1>2, OwnedStable
<1>4. Recorded'
  BY DEF Recorded, Genuine
<1>5. QED
  BY <1>1, <1>3, <1>4

LEMMA DeleteWriteInv ==
  ASSUME IInv, NEW r \in Request, DeleteWrite(r)
  PROVE  IInv'
<1> USE DEF IInv
<1>0. UNCHANGED <<job, ids, runs, up, entries, firing>> /\ req[r].pc = "delete"
  BY DEF DeleteWrite, memoryVars
<1>1. req[r] # Idle
  BY <1>0 DEF Idle
<1>2. req[r].sc \in Row /\ req[r].at \in Instance /\ req[r].sc.job \in Job
  BY <1>1, ReqType
<1>3. row' = row \/ row' = [row EXCEPT ![req[r].sc.job] = NoRow]
  BY DEF DeleteWrite
<1>4. \A j \in Job : row'[j] = row[j] \/ row'[j] = NoRow
  BY <1>3 DEF TypeOK
<1>5. RowType'
  BY <1>0, <1>2, <1>3 DEF TypeOK, RowType
<1>6. /\ req' \in [Request -> Busy \cup {Idle}]
      /\ req'[r] = Idle \/ req'[r].sc = req[r].sc
      /\ \A q \in Request : q # r => req'[q] = req[q]
  <2>1. Goes(r, "unregister", req[r].at, req[r].sc) \/ Answer(r)
    BY DEF DeleteWrite
  <2>2. QED
    BY <1>2, <2>1, GoesType, AnswerType
<1>7. stale' \in [Instance -> SUBSET Job]
  BY <1>2, LosesType DEF DeleteWrite
<1>8. QED
  BY <1>0, <1>1, <1>4, <1>5, <1>6, <1>7, RowsDropped DEF TypeOK

-------------------------------------------------------------------------------
(* Runs, and the job handlers.                                             *)

\* What a sequence holds is not changed by an Append.
LEMMA AppendKeeps ==
  ASSUME NEW s \in Seq(Job), NEW e \in Job
  PROVE  /\ Append(s, e) \in Seq(Job) /\ Len(Append(s, e)) = Len(s) + 1
         /\ Append(s, e)[Len(s) + 1] = e
         /\ \A n \in 1..Len(s) : Append(s, e)[n] = s[n]
OBVIOUS

LEMMA FireInv ==
  ASSUME IInv, NEW i \in Instance, Fire(i)
  PROVE  IInv'
<1> USE DEF IInv
<1> PICK x \in entries[i] :
       /\ runs' = Append(runs, x.job)
       /\ firing' = [firing EXCEPT ![i] = @ \cup {<<x.id, Len(runs) + 1>>}]
  BY DEF Fire
<1>0. UNCHANGED <<job, row, ids, up, entries, req, stale>> /\ Len(runs) < MaxRuns
  BY DEF Fire, tableVars
<1>1. x.job \in Job /\ x.id \in Id
  BY DEF TypeOK, Entry
<1>2. runs \in Seq(Job) /\ Len(runs) \in Nat
  BY DEF TypeOK
<1>3. /\ runs' \in Seq(Job) /\ Len(runs') = Len(runs) + 1
      /\ runs'[Len(runs) + 1] = x.job
      /\ \A n \in 1..Len(runs) : runs'[n] = runs[n]
  BY <1>1, <1>2, AppendKeeps
<1>4. Len(runs') =< MaxRuns /\ Len(runs) + 1 \in 1..MaxRuns
  BY <1>0, <1>2, <1>3, BoundsAssumption
<1>5. /\ firing' \in [Instance -> SUBSET (Id \X (1..MaxRuns))]
      /\ \A k \in Instance : \A f \in firing'[k] :
           f \in firing[k] \/ (k = i /\ f = <<x.id, Len(runs) + 1>>)
  BY <1>1, <1>4 DEF TypeOK
<1>6. TypeOK'
  BY <1>0, <1>3, <1>4, <1>5 DEF TypeOK
<1>7. \A k \in Instance : \A f \in firing[k] : f[2] \in 1..Len(runs)
  <2>1. \A k \in Instance : \A f \in firing[k] : f[2] \in 1..MaxRuns /\ f[2] =< Len(runs)
    BY DEF TypeOK, Recorded
  <2>2. QED
    BY <1>2, <2>1
<1>8. ASSUME NEW id \in Id, NEW j \in Job, Uses(id, j)' PROVE Uses(id, j)
  <2>1. CASE RunUses(id, j)'
    <3>1. PICK k \in Instance : \E f \in firing'[k] : f[1] = id /\ runs'[f[2]] = j
      BY <2>1 DEF RunUses
    <3>2. PICK f \in firing'[k] : f[1] = id /\ runs'[f[2]] = j
      BY <3>1
    <3>3. CASE f \in firing[k]
      BY <1>3, <1>7, <3>2, <3>3 DEF Uses, RunUses
    <3>4. CASE f = <<x.id, Len(runs) + 1>>
      BY <1>3, <3>2, <3>4 DEF Uses, EntryUses
    <3>5. QED
      BY <1>5, <3>3, <3>4
  <2>2. CASE ~RunUses(id, j)'
    BY <1>0, <1>8, <2>2 DEF Uses, RowUses, ReqUses, EntryUses
  <2>3. QED
    BY <2>1, <2>2
<1>9. Owned'
  BY <1>0, <1>8, OwnedStable
<1>10. Recorded'
  <2>1. ASSUME NEW sc \in Row, Genuine(sc) PROVE Genuine(sc)'
    <3>1. sc.last \in Nat /\ sc.last =< Len(runs)
      BY <2>1 DEF Row, Genuine
    <3>2. sc.last =< Len(runs')
      BY <1>2, <1>3, <3>1
    <3>3. sc.last > 0 => runs'[sc.last] = sc.job
      BY <1>2, <1>3, <2>1, <3>1 DEF Genuine
    <3>4. QED
      BY <3>2, <3>3 DEF Genuine
  <2>2. \A j \in Job : row[j] # NoRow => row[j] \in Row /\ Genuine(row[j])
    BY DEF TypeOK, Recorded
  <2>3. \A r \in Request : req[r] # Idle => req[r].sc \in Row /\ Genuine(req[r].sc)
    BY ReqType DEF Recorded
  <2>4. ASSUME NEW k \in Instance, NEW f \in firing'[k] PROVE f[2] =< Len(runs')
    BY <1>2, <1>3, <1>5, <1>7
  <2>5. QED
    BY <1>0, <2>1, <2>2, <2>3, <2>4 DEF Recorded
<1>11. QED
  BY <1>6, <1>9, <1>10

LEMMA RecordRunInv ==
  ASSUME IInv, NEW i \in Instance, RecordRun(i)
  PROVE  IInv'
<1> USE DEF IInv
<1>0. UNCHANGED <<job, ids, up, entries, req, runs, stale>>
  BY DEF RecordRun
<1> PICK f \in firing[i], o \in Outcomes :
       /\ firing' = [firing EXCEPT ![i] = @ \ {f}]
       /\ row' = [j \in Job |-> IF Applied(o) /\ j \in Ran(f[1], f[2])
                                THEN [row[j] EXCEPT !.last = f[2]] ELSE row[j]]
  BY DEF RecordRun
<1>1. f[1] \in Id /\ f[2] \in 1..MaxRuns /\ f[2] =< Len(runs)
  BY DEF TypeOK, Recorded
<1>2. /\ firing' \in [Instance -> SUBSET (Id \X (1..MaxRuns))]
      /\ \A k \in Instance : firing'[k] \subseteq firing[k]
  BY DEF TypeOK
<1>3. ASSUME NEW j \in Job, row'[j] # row[j]
      PROVE  /\ row[j] # NoRow /\ row[j].id = f[1] /\ row'[j] \in Row
             /\ row'[j] = [row[j] EXCEPT !.last = f[2]]
             /\ row'[j].job = j /\ row'[j].id = row[j].id /\ row'[j].last = f[2]
  <2>1. row'[j] = [row[j] EXCEPT !.last = f[2]] /\ j \in Ran(f[1], f[2])
    BY <1>3
  <2>2. row[j] \in Row /\ row[j] # NoRow /\ row[j].job = j /\ row[j].id = f[1]
    BY <2>1 DEF Ran, TypeOK
  <2>3. [row[j] EXCEPT !.last = f[2]] \in Row
    BY <1>1, <2>2 DEF Row
  <2>4. QED
    BY <2>1, <2>2, <2>3 DEF Row
<1>4. RowType'
  <2>1. \A j \in Job : row'[j] \in Row \cup {NoRow}
    BY <1>3 DEF TypeOK
  <2>2. row' \in [Job -> Row \cup {NoRow}]
    BY <2>1
  <2>3. ASSUME NEW j \in Job, row'[j] # NoRow PROVE row'[j].job = j /\ job[j] # "deleted"
    BY <1>3, <2>3 DEF TypeOK
  <2>4. QED
    BY <1>0, <2>2, <2>3 DEF RowType
<1>5. TypeOK'
  BY <1>0, <1>2, <1>4 DEF TypeOK, RowType
<1>6. ASSUME NEW id \in Id, NEW j \in Job, Uses(id, j)' PROVE Uses(id, j)
  <2>1. CASE RowUses(id, j)'
    BY <1>3, <2>1 DEF Uses, RowUses
  <2>2. CASE ReqUses(id, j)' \/ EntryUses(id, j)'
    BY <1>0, <2>2 DEF Uses, ReqUses, EntryUses
  <2>3. CASE RunUses(id, j)'
    BY <1>0, <1>2, <2>3 DEF Uses, RunUses
  <2>4. QED
    BY <1>6, <2>1, <2>2, <2>3 DEF Uses
<1>7. Owned'
  BY <1>0, <1>6, OwnedStable
<1>8. Recorded'
  <2>1. ASSUME NEW j \in Job, row'[j] # NoRow PROVE Genuine(row'[j])
    <3>1. CASE row'[j] = row[j]
      BY <2>1, <3>1 DEF Recorded
    <3>2. CASE row'[j] # row[j]
      <4>1. runs[f[2]] \in Job
        BY <1>1 DEF TypeOK
      <4>2. Uses(f[1], runs[f[2]]) /\ Uses(f[1], j)
        BY <1>3, <3>2 DEF Uses, RunUses, RowUses
      <4>3. runs[f[2]] = j
        BY <1>1, <4>1, <4>2 DEF Owned
      <4>4. QED
        BY <1>1, <1>3, <3>2, <4>3, ZenonT(60) DEF Genuine
    <3>3. QED
      BY <3>1, <3>2
  <2>2. QED
    BY <1>0, <1>2, <2>1 DEF Recorded, Genuine
<1>9. QED
  BY <1>5, <1>7, <1>8

LEMMA JobInv ==
  ASSUME IInv, NEW j \in Job, DeleteJob(j) \/ SetActive(j)
  PROVE  IInv'
<1> USE DEF IInv, memoryVars
<1>1. UNCHANGED <<ids, req, runs, up, entries, firing>> /\ stale' \in [Instance -> SUBSET Job]
  BY LosesType DEF DeleteJob, SetActive
<1>2. job' \in [Job -> {"active", "inactive", "deleted"}]
  BY ZenonT(60) DEF DeleteJob, SetActive, TypeOK
<1>3. row' = row \/ row' = [row EXCEPT ![j] = NoRow]
  BY DEF DeleteJob, SetActive
<1>4. RowType'
  <2>1. CASE DeleteJob(j)
    BY <2>1 DEF DeleteJob, TypeOK, RowType
  <2>2. CASE SetActive(j)
    BY <2>2 DEF SetActive, TypeOK, RowType
  <2>3. QED
    BY <2>1, <2>2
<1>5. \A k \in Job : row'[k] = row[k] \/ row'[k] = NoRow
  BY <1>3 DEF TypeOK
<1>6. req' \in [Request -> Busy \cup {Idle}]
  BY <1>1 DEF TypeOK
<1>7. PICK r : r \notin Request
  BY NoSetContainsEverything
<1>8. QED
  BY <1>1, <1>2, <1>4, <1>5, <1>6, <1>7, RowsDropped

-------------------------------------------------------------------------------
LEMMA NextInv == IInv /\ [Next]_vars => IInv'
<1> SUFFICES ASSUME IInv, [Next]_vars PROVE IInv'
  OBVIOUS
<1>1. ASSUME NEW i \in Instance, Start(i) \/ Stop(i) \/ Fire(i) \/ RecordRun(i)
      PROVE  IInv'
  BY <1>1, StartInv, StopInv, FireInv, RecordRunInv
<1>2. ASSUME NEW r \in Request, NEW i \in Instance, NEW j \in Job,
             UpsertFind(r, i, j) \/ DeleteFind(r, i, j)
      PROVE  IInv'
  BY <1>2, UpsertFindInv, DeleteFindInv
<1>3. ASSUME NEW r \in Request,
             \/ UpsertWrite(r) \/ UpsertRegister(r)
             \/ DeleteWrite(r) \/ DeleteUnregister(r)
      PROVE  IInv'
  BY <1>3, UpsertWriteInv, UpsertRegisterInv, DeleteWriteInv, DeleteUnregisterInv
<1>4. ASSUME NEW j \in Job, DeleteJob(j) \/ SetActive(j) PROVE IInv'
  BY <1>4, JobInv
<1>5. CASE UNCHANGED vars
  <2>1. TypeOK'
    BY <1>5 DEF IInv, TypeOK, vars, tableVars, memoryVars
  <2>2. Owned'
    BY <1>5 DEF IInv, Owned, Uses, RowUses, ReqUses, EntryUses, RunUses,
                vars, tableVars, memoryVars
  <2>3. Recorded'
    BY <1>5 DEF IInv, Recorded, Genuine, vars, tableVars, memoryVars
  <2>4. QED
    BY <2>1, <2>2, <2>3 DEF IInv
<1>6. QED
  BY <1>1, <1>2, <1>3, <1>4, <1>5 DEF Next

LEMMA Inductive == Spec => []IInv
BY InitInv, NextInv, PTL DEF Spec

-------------------------------------------------------------------------------
\* The types; a job's row is the job's own and goes with it, and an instance has
\* at most one cron entry for a schedule ID (entryIDs), whatever overlaps.
THEOREM SchedulesTypeCorrect == Spec => []TypeOK
<1>1. IInv => TypeOK
  BY DEF IInv
<1>2. QED
  BY <1>1, Inductive, PTL

\* fireJob and UpdateLastRun: the last run recorded for a schedule is a run of its
\* job, for any number of instances and overlapping requests.
THEOREM RunsOwn == Spec => []RunsAreOwn
<1>1. ASSUME IInv PROVE RunsAreOwn
  BY <1>1 DEF IInv, Recorded, Genuine, TypeOK, RunsAreOwn
<1>2. QED
  BY <1>1, Inductive, PTL

-------------------------------------------------------------------------------
(* EntriesMatch.                                                           *)

\* A request for the schedule of j is under way.
On(r, j) == req[r] # Idle /\ req[r].sc.job = j

EntriesOf(i, j) == {x \in entries[i] : x.job = j}

\* What the entries are to be.
RowEntries(j) ==
  IF job[j] = "active" /\ row[j] # NoRow /\ row[j].on THEN {EntryOf(row[j])} ELSE {}

\* All entries of j have the ID of sc.
Under(i, j, sc) == \A x \in EntriesOf(i, j) : x.id = sc.id

\* What is known of entries and row before each step of the request.
Expects(i, j, r) == LET pc == req[r].pc  sc == req[r].sc IN
  /\ pc = "upsert" => /\ EntriesOf(i, j) = RowEntries(j) /\ job[j] = "active"
                      /\ row[j] # NoRow => row[j].id = sc.id
  /\ pc = "register" => /\ Under(i, j, sc) /\ job[j] = "active" /\ row[j] # NoRow
                        /\ row[j].on = sc.on /\ EntryOf(row[j]) = EntryOf(sc)
  /\ pc = "delete" => /\ EntriesOf(i, j) = RowEntries(j)
                      /\ row[j] # NoRow /\ row[j].id = sc.id
  /\ pc = "unregister" => Under(i, j, sc) /\ row[j] = NoRow

\* At most one request is about j; i serves it; and without one the entries match.
Follows(i, j) ==
  /\ \A r, q \in Request : On(r, j) /\ On(q, j) => r = q
  /\ \A r \in Request : On(r, j) => req[r].at = i /\ Expects(i, j, r)
  /\ (\A r \in Request : ~On(r, j)) => EntriesOf(i, j) = RowEntries(j)

Following == \A i \in up, j \in Job : j \notin stale[i] => Follows(i, j)

\* For the job's schedule the step changes nothing but the last run.
Same(i, j) ==
  /\ EntriesOf(i, j)' = EntriesOf(i, j) /\ job'[j] = job[j]
  /\ row'[j] = NoRow <=> row[j] = NoRow
  /\ row[j] # NoRow => row'[j].on = row[j].on /\ EntryOf(row'[j]) = EntryOf(row[j])
                       /\ row'[j].id = row[j].id
  /\ \A r \in Request : req'[r] = req[r] \/ (~On(r, j) /\ ~On(r, j)')

LEMMA SameFollows ==
  ASSUME NEW i, NEW j, Follows(i, j), Same(i, j)
  PROVE  Follows(i, j)'
<1>1. RowEntries(j)' = RowEntries(j)
  BY DEF Same, RowEntries, EntryOf
<1>2. EntriesOf(i, j)' = EntriesOf(i, j)
  BY DEF Same
<1>3. \A r \in Request : On(r, j)' => req'[r] = req[r] /\ On(r, j)
  BY DEF Same, On
<1>4. \A r \in Request : On(r, j) => On(r, j)'
  BY DEF Same, On
<1>5. ASSUME NEW r \in Request, On(r, j)' PROVE req'[r].at = i /\ Expects(i, j, r)'
  <2>1. req'[r] = req[r] /\ req[r].at = i /\ Expects(i, j, r)
    BY <1>3, <1>5 DEF Follows
  <2> DEFINE sc == req[r].sc
  <2>2. Under(i, j, sc)' <=> Under(i, j, sc)
    BY <1>2, <2>1 DEF Under
  <2>3. EntryOf(sc)' = EntryOf(sc)
    BY <2>1 DEF EntryOf
  <2>4. QED
    BY <1>1, <1>2, <2>1, <2>2, <2>3 DEF Same, Expects, EntryOf
<1>6. QED
  BY <1>1, <1>2, <1>3, <1>4, <1>5 DEF Follows

\* EntriesMatch says the same of entries and row.
LEMMA RowEntriesEnabled ==
  ASSUME TypeOK, NEW j \in Job
  PROVE  {EntryOf(sc) : sc \in {x \in Enabled : x.job = j}} = RowEntries(j)
<1>1. \A sc \in Enabled : sc.job = j => sc = row[j] /\ job[j] = "active" /\ row[j] # NoRow
                                        /\ row[j].on
  BY DEF Enabled, TypeOK
<1>2. ASSUME job[j] = "active", row[j] # NoRow, row[j].on
      PROVE  row[j] \in Enabled /\ row[j].job = j
  BY <1>2 DEF Enabled, TypeOK
<1>3. QED
  BY <1>1, <1>2 DEF RowEntries

\* A request for another job leaves the entries of j alone: IDs are not shared.
LEMMA OthersEntries ==
  ASSUME IInv, NEW r \in Request, req[r] # Idle, NEW j \in Job, req[r].sc.job # j,
         NEW i \in Instance
  PROVE  \A x \in EntriesOf(i, j) : x.id # req[r].sc.id
<1> SUFFICES ASSUME NEW x \in EntriesOf(i, j), x.id = req[r].sc.id PROVE FALSE
  OBVIOUS
<1>1. req[r].sc.id \in Id /\ req[r].sc.job \in Job
  BY ReqType DEF IInv
<1>2. EntryUses(req[r].sc.id, j) /\ ReqUses(req[r].sc.id, req[r].sc.job)
  BY DEF EntriesOf, EntryUses, ReqUses
<1>3. QED
  BY <1>1, <1>2 DEF IInv, Owned, Uses

\* Steps by which nothing changes for the instances that follow.
LEMMA QuietFollowing ==
  ASSUME Following, up' \subseteq up,
         \A i \in up', j \in Job : j \notin stale'[i] =>
           j \notin stale[i] /\ (Follows(i, j) => Same(i, j))
  PROVE  Following'
BY SameFollows DEF Following

LEMMA StartFollowing ==
  ASSUME IInv, Following, NEW i \in Instance, Start(i)
  PROVE  Following'
<1>1. /\ entries \in [Instance -> SUBSET Entry] /\ stale \in [Instance -> SUBSET Job]
      /\ TypeOK
  BY DEF IInv, TypeOK
<1>2. /\ entries' = [entries EXCEPT ![i] = {EntryOf(sc) : sc \in Enabled}]
      /\ stale' = [stale EXCEPT ![i] = InHand] /\ up' = up \cup {i}
      /\ UNCHANGED <<job, row, req>>
  BY DEF Start, tableVars
<1> SUFFICES ASSUME NEW k \in up', NEW j \in Job, j \notin stale'[k]
             PROVE  Follows(k, j)'
  BY DEF Following
<1>3. CASE k = i
  <2>1. j \notin InHand
    BY <1>1, <1>2, <1>3
  <2>2. \A r \in Request : ~On(r, j)'
    BY <1>2, <2>1 DEF InHand, On
  <2>3. EntriesOf(k, j)' = {x \in {EntryOf(sc) : sc \in Enabled} : x.job = j}
    BY <1>1, <1>2, <1>3 DEF EntriesOf
  <2>4. EntriesOf(k, j)' = {EntryOf(sc) : sc \in {x \in Enabled : x.job = j}}
    BY <2>3 DEF EntryOf
  <2>5. EntriesOf(k, j)' = RowEntries(j)
    BY <1>1, <2>4, RowEntriesEnabled
  <2>6. RowEntries(j)' = RowEntries(j)
    BY <1>2 DEF RowEntries, EntryOf
  <2>7. QED
    BY <2>2, <2>5, <2>6 DEF Follows
<1>4. CASE k # i
  <2>1. k \in up /\ stale'[k] = stale[k] /\ entries'[k] = entries[k] /\ k \in Instance
    BY <1>1, <1>2, <1>4 DEF TypeOK
  <2>2. Same(k, j)
    BY <1>2, <2>1 DEF Same, EntriesOf
  <2>3. QED
    BY <2>1, <2>2, SameFollows DEF Following
<1>5. QED
  BY <1>3, <1>4

LEMMA StopFollowing ==
  ASSUME IInv, Following, NEW i \in Instance, Stop(i)
  PROVE  Following'
<1>1. /\ up' = up \ {i} /\ entries' = [entries EXCEPT ![i] = {}]
      /\ req' = [r \in Request |-> IF req[r] # Idle /\ req[r].at = i THEN Idle ELSE req[r]]
      /\ UNCHANGED <<job, row, stale>> /\ entries \in [Instance -> SUBSET Entry]
      /\ up \subseteq Instance
  BY DEF Stop, tableVars, IInv, TypeOK
<1>2. ASSUME NEW k \in up', NEW j \in Job, Follows(k, j) PROVE Same(k, j)
  <2>1. entries'[k] = entries[k] /\ k # i
    BY <1>1
  <2>2. \A r \in Request : req'[r] = req[r] \/ (~On(r, j) /\ ~On(r, j)')
    BY <1>1, <1>2, <2>1 DEF Follows, On
  <2>3. QED
    BY <1>1, <2>1, <2>2 DEF Same, EntriesOf
<1>3. QED
  BY <1>1, <1>2, QuietFollowing

\* A request begins, and the instance that serves it is the only one to follow.
LEMMA BeginFollowing ==
  ASSUME IInv, Following, NEW r \in Request, NEW i \in Instance, NEW j \in Job,
         Begins(i, j), req[r] = Idle, UNCHANGED <<job, row, up, entries>>,
         \A q \in Request : q # r => req'[q] = req[q],
         req'[r] # Idle, req'[r].sc.job = j, req'[r].at = i,
         EntriesOf(i, j) = RowEntries(j) /\ job[j] = "active" => Expects(i, j, r)'
  PROVE  Following'
<1> SUFFICES ASSUME NEW k \in up, NEW l \in Job, l \notin stale'[k] PROVE Follows(k, l)'
  BY DEF Following
<1>1. k \in Instance /\ stale[k] \subseteq Job
  BY DEF IInv, TypeOK
<1>2. /\ l \notin stale[k]
      /\ l = j => k = i /\ j \notin InHand /\ job[j] = "active"
  BY <1>1 DEF Begins, Loses
<1>3. Follows(k, l)
  BY <1>2 DEF Following
<1>4. CASE l # j
  <2>1. Same(k, l)
    BY <1>4 DEF Same, On, EntriesOf
  <2>2. QED
    BY <1>3, <2>1, SameFollows
<1>5. CASE l = j
  <2>1. \A q \in Request : ~On(q, j)
    BY <1>2, <1>5 DEF InHand, On
  <2>2. EntriesOf(i, j) = RowEntries(j)
    BY <1>2, <1>3, <1>5, <2>1 DEF Follows
  <2>3. Expects(i, j, r)' /\ On(r, j)'
    BY <1>2, <1>5, <2>2 DEF On
  <2>4. \A q \in Request : On(q, j)' => q = r
    BY <2>1 DEF On
  <2>5. QED
    BY <1>2, <1>5, <2>3, <2>4 DEF Follows
<1>6. QED
  BY <1>4, <1>5

LEMMA UpsertFindFollowing ==
  ASSUME IInv, Following, NEW r \in Request, NEW i \in Instance, NEW j \in Job,
         UpsertFind(r, i, j)
  PROVE  Following'
<1>1. PICK sc \in Row : /\ Goes(r, "upsert", i, sc) /\ sc.job = j
                        /\ row[j] # NoRow => row[j].id = sc.id
  <2>1. PICK expr \in Expr, on \in BOOLEAN :
          IF row[j] # NoRow
          THEN /\ Goes(r, "upsert", i, [row[j] EXCEPT !.expr = expr, !.on = on])
               /\ UNCHANGED ids
          ELSE /\ ids < MaxId
               /\ ids' = ids + 1
               /\ Goes(r, "upsert", i, [id |-> ids + 1, job |-> j, on |-> on,
                                        expr |-> expr, last |-> 0])
    BY DEF UpsertFind
  <2>2. CASE row[j] = NoRow
    <3> DEFINE new == [id |-> ids + 1, job |-> j, on |-> on, expr |-> expr, last |-> 0]
    <3>1. ids + 1 \in Id /\ 0 \in 0..MaxRuns
      BY <2>1, <2>2, BoundsAssumption DEF IInv, TypeOK, Id
    <3>2. new \in Row /\ new.job = j
      BY <3>1 DEF Row
    <3>3. Goes(r, "upsert", i, new)
      BY <2>1, <2>2
    <3>4. QED
      BY <2>2, <3>2, <3>3
  <2>3. CASE row[j] # NoRow
    <3> DEFINE new == [row[j] EXCEPT !.expr = expr, !.on = on]
    <3>1. row[j] \in Row /\ row[j].job = j
      BY <2>3 DEF IInv, TypeOK
    <3>2. new \in Row /\ new.job = j /\ new.id = row[j].id
      BY <3>1, RowRequested
    <3>3. Goes(r, "upsert", i, new)
      BY <2>1, <2>3
    <3> HIDE DEF new
    <3>4. QED
      BY <3>2, <3>3
  <2>4. QED
    BY <2>2, <2>3
<1>2. req[r] = Idle /\ Begins(i, j) /\ UNCHANGED <<job, row, up, entries>>
  BY DEF UpsertFind, memoryVars
<1>0. req \in [Request -> Busy \cup {Idle}]
  BY DEF IInv, TypeOK
<1>3. /\ req'[r] = [pc |-> "upsert", at |-> i, sc |-> sc]
      /\ \A q \in Request : q # r => req'[q] = req[q]
  BY <1>0, <1>1 DEF Goes
<1>4. req'[r].pc = "upsert" /\ req'[r].at = i /\ req'[r].sc = sc /\ req'[r] # Idle
  BY <1>3 DEF Idle
<1>5. ASSUME EntriesOf(i, j) = RowEntries(j), job[j] = "active" PROVE Expects(i, j, r)'
  <2>1. EntriesOf(i, j)' = RowEntries(j)' /\ job'[j] = "active" /\ row'[j] = row[j]
    BY <1>2, <1>5 DEF EntriesOf, RowEntries, EntryOf
  <2>2. row'[j] # NoRow => row'[j].id = sc.id
    BY <1>1, <2>1
  <2>3. QED
    BY <1>4, <2>1, <2>2 DEF Expects
<1>6. req'[r].sc.job = j
  BY <1>1, <1>4
<1>7. QED
  BY <1>2, <1>3, <1>4, <1>5, <1>6, BeginFollowing

LEMMA DeleteFindFollowing ==
  ASSUME IInv, Following, NEW r \in Request, NEW i \in Instance, NEW j \in Job,
         DeleteFind(r, i, j)
  PROVE  Following'
<1>1. /\ req[r] = Idle /\ Begins(i, j) /\ UNCHANGED <<job, row, up, entries>>
      /\ req' = [req EXCEPT ![r] = [pc |-> "delete", at |-> i, sc |-> row[j]]]
      /\ row[j] # NoRow
  BY DEF DeleteFind, tableVars, memoryVars, Goes
<1>2. /\ req'[r].pc = "delete" /\ req'[r].at = i /\ req'[r].sc = row[j] /\ req'[r] # Idle
      /\ \A q \in Request : q # r => req'[q] = req[q]
  BY <1>1 DEF IInv, TypeOK, Idle
<1>3. row[j].job = j
  BY <1>1 DEF IInv, TypeOK
<1>4. ASSUME EntriesOf(i, j) = RowEntries(j) PROVE Expects(i, j, r)'
  BY <1>1, <1>2, <1>4 DEF Expects, EntriesOf, RowEntries, EntryOf
<1>5. QED
  BY <1>1, <1>2, <1>3, <1>4, BeginFollowing

\* The statement of a request: done, failed without a trace, or of unknown outcome.
LEMMA WriteFollowing ==
  ASSUME IInv, Following, NEW r \in Request, req[r] # Idle,
         req[r].pc \in {"upsert", "delete"},
         NEW o, Loses(IF o = "unknown" THEN Instance ELSE {}, req[r].sc.job),
         UNCHANGED <<job, up, entries>>,
         \A q \in Request : q # r => req'[q] = req[q],
         \A l \in Job : l # req[r].sc.job => row'[l] = row[l],
         req'[r] # Idle => req'[r].sc = req[r].sc /\ req'[r].at = req[r].at,
         \/ o = "unknown"
         \/ req'[r] = Idle /\ row' = row
         \/ req'[r] # Idle /\ (Expects(req[r].at, req[r].sc.job, r)
                                 => Expects(req[r].at, req[r].sc.job, r)')
  PROVE  Following'
<1> DEFINE j == req[r].sc.job
<1> SUFFICES ASSUME NEW k \in up, NEW l \in Job, l \notin stale'[k] PROVE Follows(k, l)'
  BY DEF Following
<1>1. k \in Instance /\ stale[k] \subseteq Job
  BY DEF IInv, TypeOK
<1>2. l \notin stale[k] /\ (l = j => o # "unknown")
  BY <1>1 DEF Loses
<1>3. Follows(k, l)
  BY <1>2 DEF Following
<1>4. CASE l # j
  <2>1. ~On(r, l) /\ ~On(r, l)'
    BY <1>4 DEF On
  <2>2. Same(k, l)
    BY <1>4, <2>1 DEF Same, EntriesOf
  <2>3. QED
    BY <1>3, <2>2, SameFollows
<1>5. CASE l = j
  <2>1. On(r, l)
    BY <1>5 DEF On
  <2>2. \A q \in Request : On(q, l) => q = r
    BY <1>3, <2>1 DEF Follows
  <2>3. req[r].at = k /\ Expects(k, l, r)
    BY <1>3, <2>1 DEF Follows
  <2>4. \A q \in Request : On(q, l)' => q = r
    BY <2>2 DEF On
  <2>5. CASE req'[r] = Idle /\ row' = row
    <3>1. \A q \in Request : ~On(q, l)'
      BY <2>4, <2>5 DEF On
    <3>2. EntriesOf(k, l) = RowEntries(l)
      BY <2>3 DEF Expects
    <3>3. EntriesOf(k, l)' = RowEntries(l)'
      BY <2>5, <3>2 DEF EntriesOf, RowEntries, EntryOf
    <3>4. QED
      BY <3>1, <3>3 DEF Follows
  <2>6. CASE req'[r] # Idle /\ (Expects(k, l, r) => Expects(k, l, r)')
    <3>1. On(r, l)' /\ req'[r].at = k /\ Expects(k, l, r)'
      BY <1>5, <2>3, <2>6 DEF On
    <3>2. QED
      BY <2>4, <3>1 DEF Follows
  <2>7. QED
    BY <1>2, <1>5, <2>3, <2>5, <2>6
<1>6. QED
  BY <1>4, <1>5

\* A Schedule with another ID has the same entry but for it.
LEMMA WithId ==
  ASSUME NEW s \in Row, NEW id
  PROVE  LET u == [s EXCEPT !.id = id]
         IN u.id = id /\ u.job = s.job /\ u.on = s.on /\ u.expr = s.expr
BY DEF Row

LEMMA UpsertWriteFollowing ==
  ASSUME IInv, Following, NEW r \in Request, UpsertWrite(r)
  PROVE  Following'
<1> DEFINE sc == req[r].sc
           j == sc.job
           new == Upserted(sc)
<1>1. PICK o \in Outcomes :
        /\ job[j] = "deleted" => o = "lost"
        /\ row' = IF Applied(o) THEN [row EXCEPT ![j] = new] ELSE row
        /\ IF o = "ok" THEN Goes(r, "register", req[r].at, sc) ELSE Answer(r)
        /\ Loses(IF o = "unknown" THEN Instance ELSE {}, j)
  BY DEF UpsertWrite
<1>2. req[r].pc = "upsert" /\ req[r] # Idle /\ UNCHANGED <<job, up, entries>>
  BY DEF UpsertWrite, memoryVars, Idle
<1>3. sc \in Row /\ j \in Job /\ req[r].at \in Instance /\ TypeOK
  BY <1>2, ReqType DEF IInv
<1>4. \A q \in Request : q # r => req'[q] = req[q]
  BY <1>1, <1>3, AnswerType DEF Goes, TypeOK
<1>5. \A l \in Job : l # j => row'[l] = row[l]
  BY <1>1, <1>3 DEF TypeOK
<1>6. CASE o = "ok"
  <2>1. /\ req'[r].pc = "register" /\ req'[r].sc = sc /\ req'[r].at = req[r].at
        /\ req'[r] # Idle
    BY <1>1, <1>3, <1>6 DEF Goes, TypeOK, Idle
  <2>2. row'[j] = new /\ job'[j] = job[j]
    BY <1>1, <1>2, <1>3, <1>6 DEF Applied, TypeOK
  <2>3. ASSUME Expects(req[r].at, j, r) PROVE Expects(req[r].at, j, r)'
    <3>1. EntriesOf(req[r].at, j) = RowEntries(j) /\ job[j] = "active"
          /\ (row[j] # NoRow => row[j].id = sc.id)
      BY <1>2, <2>3 DEF Expects
    <3>2. new.id = sc.id /\ new.job = sc.job /\ new.on = sc.on /\ new.expr = sc.expr
          /\ new # NoRow
      <4>1. CASE row[j] = NoRow
        BY <1>3, <4>1, NoRowAssumption DEF Upserted
      <4>2. CASE row[j] # NoRow
        <5>1. sc.id \in Id /\ new = [sc EXCEPT !.id = sc.id]
          BY <1>3, <3>1, <4>2 DEF Upserted, Row
        <5>2. QED
          BY <1>3, <5>1, WithId, RowWithId, NoRowAssumption
      <4>3. QED
        BY <4>1, <4>2
    <3>3. Under(req[r].at, j, sc)
      BY <3>1 DEF Under, RowEntries, EntryOf
    <3>4. Under(req[r].at, j, sc)'
      BY <1>2, <2>1, <3>3 DEF Under, EntriesOf
    <3> HIDE DEF new
    <3>5. QED
      BY <2>1, <2>2, <3>1, <3>2, <3>4 DEF Expects, EntryOf
  <2>4. QED
    BY <1>1, <1>2, <1>4, <1>5, <2>1, <2>3, WriteFollowing
<1>7. CASE o # "ok"
  <2>1. req'[r] = Idle
    BY <1>1, <1>3, <1>7, AnswerType
  <2>2. o = "unknown" \/ row' = row
    BY <1>1, <1>7 DEF Applied
  <2>3. QED
    BY <1>1, <1>2, <1>4, <1>5, <2>1, <2>2, WriteFollowing
<1>8. QED
  BY <1>6, <1>7

LEMMA DeleteWriteFollowing ==
  ASSUME IInv, Following, NEW r \in Request, DeleteWrite(r)
  PROVE  Following'
<1> DEFINE sc == req[r].sc
           j == sc.job
<1>1. PICK o \in Outcomes :
        /\ row' = IF Applied(o) /\ row[j] # NoRow /\ row[j].id = sc.id
                  THEN [row EXCEPT ![j] = NoRow] ELSE row
        /\ IF o = "ok" THEN Goes(r, "unregister", req[r].at, sc) ELSE Answer(r)
        /\ Loses(IF o = "unknown" THEN Instance ELSE {}, j)
  BY DEF DeleteWrite
<1>2. req[r].pc = "delete" /\ req[r] # Idle /\ UNCHANGED <<job, up, entries>>
  BY DEF DeleteWrite, memoryVars, Idle
<1>3. sc \in Row /\ j \in Job /\ req[r].at \in Instance /\ TypeOK
  BY <1>2, ReqType DEF IInv
<1>4. \A q \in Request : q # r => req'[q] = req[q]
  BY <1>1, <1>3, AnswerType DEF Goes, TypeOK
<1>5. \A l \in Job : l # j => row'[l] = row[l]
  BY <1>1, <1>3 DEF TypeOK
<1>6. CASE o = "ok"
  <2>1. /\ req'[r].pc = "unregister" /\ req'[r].sc = sc /\ req'[r].at = req[r].at
        /\ req'[r] # Idle
    BY <1>1, <1>3, <1>6 DEF Goes, TypeOK, Idle
  <2>2. ASSUME Expects(req[r].at, j, r) PROVE Expects(req[r].at, j, r)'
    <3>1. EntriesOf(req[r].at, j) = RowEntries(j) /\ row[j] # NoRow /\ row[j].id = sc.id
      BY <1>2, <2>2 DEF Expects
    <3>2. row'[j] = NoRow
      BY <1>1, <1>3, <1>6, <3>1 DEF Applied, TypeOK
    <3>3. Under(req[r].at, j, sc)
      BY <3>1 DEF Under, RowEntries, EntryOf
    <3>4. Under(req[r].at, j, sc)'
      BY <1>2, <2>1, <3>3 DEF Under, EntriesOf
    <3>5. QED
      BY <2>1, <3>2, <3>4 DEF Expects
  <2>3. QED
    BY <1>1, <1>2, <1>4, <1>5, <2>1, <2>2, WriteFollowing
<1>7. CASE o # "ok"
  <2>1. req'[r] = Idle
    BY <1>1, <1>3, <1>7, AnswerType
  <2>2. o = "unknown" \/ row' = row
    BY <1>1, <1>7 DEF Applied
  <2>3. QED
    BY <1>1, <1>2, <1>4, <1>5, <2>1, <2>2, WriteFollowing
<1>8. QED
  BY <1>6, <1>7

\* The scheduler is told: the entries with the schedule's ID become those of the row.
LEMMA RegisterFollowing ==
  ASSUME IInv, Following, NEW r \in Request, req[r] # Idle, NEW S, Answer(r),
         entries' = [entries EXCEPT ![req[r].at] = S],
         UNCHANGED <<job, row, up, stale>>,
         \A x \in S : x.id # req[r].sc.id => x \in entries[req[r].at],
         \A x \in entries[req[r].at] : x.id # req[r].sc.id => x \in S,
         \A x \in S : x.id = req[r].sc.id => x.job = req[r].sc.job,
         Expects(req[r].at, req[r].sc.job, r)
           => {x \in S : x.job = req[r].sc.job} = RowEntries(req[r].sc.job)
  PROVE  Following'
<1> DEFINE i == req[r].at
           j == req[r].sc.job
<1> SUFFICES ASSUME NEW k \in up, NEW l \in Job, l \notin stale[k] PROVE Follows(k, l)'
  BY DEF Following
<1>1. k \in Instance /\ i \in Instance /\ j \in Job /\ Follows(k, l)
  BY ReqType DEF IInv, TypeOK, Following
<1>2. req'[r] = Idle /\ \A q \in Request : q # r => req'[q] = req[q]
  BY AnswerType DEF IInv
<1>3. entries'[i] = S /\ \A n \in Instance : n # i => entries'[n] = entries[n]
  BY <1>1 DEF IInv, TypeOK
<1>4. CASE l # j
  <2>1. ~On(r, l) /\ ~On(r, l)'
    BY <1>2, <1>4 DEF On
  <2>2. EntriesOf(k, l)' = EntriesOf(k, l)
    <3>1. CASE k = i
      <4>1. \A x \in entries[i] : x.job = l => x.id # req[r].sc.id
        BY <1>1, <1>4, OthersEntries DEF EntriesOf
      <4>2. QED
        BY <1>3, <1>4, <3>1, <4>1 DEF EntriesOf
    <3>2. CASE k # i
      BY <1>1, <1>3, <3>2 DEF EntriesOf
    <3>3. QED
      BY <3>1, <3>2
  <2>3. Same(k, l)
    BY <1>2, <2>1, <2>2 DEF Same
  <2>4. QED
    BY <1>1, <2>3, SameFollows
<1>5. CASE l = j
  <2>1. On(r, l)
    BY <1>5 DEF On
  <2>2. k = i /\ Expects(i, j, r) /\ \A q \in Request : On(q, l) => q = r
    BY <1>1, <1>5, <2>1 DEF Follows
  <2>3. \A q \in Request : ~On(q, l)'
    BY <1>2, <2>2 DEF On
  <2>4. EntriesOf(k, l)' = RowEntries(l)
    BY <1>3, <1>5, <2>2 DEF EntriesOf
  <2>5. RowEntries(l)' = RowEntries(l)
    BY DEF RowEntries, EntryOf
  <2>6. QED
    BY <2>3, <2>4, <2>5 DEF Follows
<1>6. QED
  BY <1>4, <1>5

LEMMA UpsertRegisterFollowing ==
  ASSUME IInv, Following, NEW r \in Request, UpsertRegister(r)
  PROVE  Following'
<1> DEFINE i == req[r].at
           sc == req[r].sc
           S == IF sc.on THEN Registered(i, sc) ELSE Unregistered(i, sc)
<1>1. /\ req[r].pc = "register" /\ req[r] # Idle /\ Answer(r)
      /\ entries' = [entries EXCEPT ![i] = S]
      /\ UNCHANGED <<job, row, up, stale>>
  BY DEF UpsertRegister, tableVars, Idle
<1>2. EntryOf(sc).id = sc.id /\ EntryOf(sc).job = sc.job
  BY DEF EntryOf
<1>3. /\ \A x \in S : x.id # sc.id => x \in entries[i]
      /\ \A x \in entries[i] : x.id # sc.id => x \in S
      /\ \A x \in S : x.id = sc.id => x.job = sc.job
  BY <1>2 DEF Registered, Unregistered
<1>4. ASSUME Expects(i, sc.job, r) PROVE {x \in S : x.job = sc.job} = RowEntries(sc.job)
  <2>1. /\ Under(i, sc.job, sc) /\ job[sc.job] = "active" /\ row[sc.job] # NoRow
        /\ row[sc.job].on = sc.on /\ EntryOf(row[sc.job]) = EntryOf(sc)
    BY <1>1, <1>4 DEF Expects
  <2>2. \A x \in entries[i] : x.job = sc.job => x.id = sc.id
    BY <2>1 DEF Under, EntriesOf
  <2>3. CASE sc.on
    <3>1. {x \in S : x.job = sc.job} = {EntryOf(sc)}
      BY <1>2, <2>2, <2>3 DEF Registered, Unregistered
    <3>2. QED
      BY <2>1, <2>3, <3>1 DEF RowEntries
  <2>4. CASE ~sc.on
    <3>1. {x \in S : x.job = sc.job} = {}
      BY <2>2, <2>4 DEF Unregistered
    <3>2. QED
      BY <2>1, <2>4, <3>1 DEF RowEntries
  <2>5. QED
    BY <2>3, <2>4
<1> HIDE DEF S
<1>5. QED
  BY <1>1, <1>3, <1>4, RegisterFollowing

LEMMA DeleteUnregisterFollowing ==
  ASSUME IInv, Following, NEW r \in Request, DeleteUnregister(r)
  PROVE  Following'
<1> DEFINE i == req[r].at
           sc == req[r].sc
           S == Unregistered(i, sc)
<1>1. /\ req[r].pc = "unregister" /\ req[r] # Idle /\ Answer(r)
      /\ entries' = [entries EXCEPT ![i] = S]
      /\ UNCHANGED <<job, row, up, stale>>
  BY DEF DeleteUnregister, tableVars, Idle
<1>2. /\ \A x \in S : x.id # sc.id => x \in entries[i]
      /\ \A x \in entries[i] : x.id # sc.id => x \in S
      /\ \A x \in S : x.id = sc.id => x.job = sc.job
  BY DEF Unregistered
<1>3. ASSUME Expects(i, sc.job, r) PROVE {x \in S : x.job = sc.job} = RowEntries(sc.job)
  <2>1. Under(i, sc.job, sc) /\ row[sc.job] = NoRow
    BY <1>1, <1>3 DEF Expects
  <2>2. \A x \in entries[i] : x.job = sc.job => x.id = sc.id
    BY <2>1 DEF Under, EntriesOf
  <2>3. QED
    BY <2>1, <2>2 DEF RowEntries, Unregistered
<1> HIDE DEF S
<1>4. QED
  BY <1>1, <1>2, <1>3, RegisterFollowing

-------------------------------------------------------------------------------
LEMMA FireFollowing ==
  ASSUME IInv, Following, NEW i \in Instance, Fire(i)
  PROVE  Following'
<1>1. UNCHANGED <<job, row, up, entries, req, stale>>
  BY DEF Fire, tableVars
<1>2. \A k, j : Same(k, j)
  BY <1>1 DEF Same, EntriesOf
<1>3. QED
  BY <1>1, <1>2, QuietFollowing

\* The run that is recorded changes nothing else of a row.
LEMMA LastKeeps ==
  ASSUME NEW s \in Row, NEW n \in 0..MaxRuns
  PROVE  LET u == [s EXCEPT !.last = n]
         IN u \in Row /\ u.id = s.id /\ u.job = s.job /\ u.on = s.on /\ u.expr = s.expr
BY DEF Row

LEMMA RecordRunFollowing ==
  ASSUME IInv, Following, NEW i \in Instance, RecordRun(i)
  PROVE  Following'
<1>1. PICK f \in firing[i], o \in Outcomes :
        row' = [j \in Job |-> IF Applied(o) /\ j \in Ran(f[1], f[2])
                              THEN [row[j] EXCEPT !.last = f[2]] ELSE row[j]]
  BY DEF RecordRun
<1>2. UNCHANGED <<job, up, entries, req, stale>>
  BY DEF RecordRun
<1>3. TypeOK /\ TypeOK'
  BY RecordRunInv DEF IInv
<1>4. ASSUME NEW j \in Job
      PROVE  /\ row'[j] = NoRow <=> row[j] = NoRow
             /\ row[j] # NoRow => row'[j].on = row[j].on /\ row'[j].id = row[j].id
                                  /\ EntryOf(row'[j]) = EntryOf(row[j])
  <2>1. CASE row[j] = NoRow
    BY <1>1, <2>1 DEF Ran
  <2>2. CASE row[j] # NoRow
    <3>1. row[j] \in Row
      BY <1>3, <2>2 DEF TypeOK
    <3>2. row'[j] = row[j] \/ row'[j] = [row[j] EXCEPT !.last = f[2]]
      BY <1>1
    <3>3. f[2] \in 0..MaxRuns
      BY <1>3, BoundsAssumption DEF TypeOK
    <3>4. /\ row'[j].id = row[j].id /\ row'[j].job = row[j].job /\ row'[j] \in Row
          /\ row'[j].on = row[j].on /\ row'[j].expr = row[j].expr
      <4>1. CASE row'[j] = row[j]
        BY <3>1, <4>1
      <4>2. CASE row'[j] = [row[j] EXCEPT !.last = f[2]]
        BY <3>1, <3>3, <4>2, LastKeeps
      <4>3. QED
        BY <3>2, <4>1, <4>2
    <3>5. EntryOf(row'[j]) = EntryOf(row[j])
      BY <3>4 DEF EntryOf
    <3>6. QED
      BY <2>2, <3>4, <3>5, NoRowAssumption
  <2>3. QED
    BY <2>1, <2>2
<1>5. \A k \in Instance, j \in Job : Same(k, j)
  BY <1>2, <1>4 DEF Same, EntriesOf
<1>6. QED
  BY <1>2, <1>3, <1>5, QuietFollowing DEF TypeOK

LEMMA JobFollowing ==
  ASSUME IInv, Following, NEW j \in Job, DeleteJob(j) \/ SetActive(j)
  PROVE  Following'
<1>1. /\ UNCHANGED <<up, entries, req>> /\ Loses(Instance, j)
      /\ \A l \in Job : l # j => job'[l] = job[l] /\ row'[l] = row[l]
  BY DEF DeleteJob, SetActive, memoryVars, IInv, TypeOK
<1>2. ASSUME NEW k \in Instance, NEW l \in Job, l \notin stale'[k]
      PROVE  l \notin stale[k] /\ Same(k, l)
  <2>1. l # j /\ l \notin stale[k]
    BY <1>1, <1>2 DEF Loses
  <2>2. QED
    BY <1>1, <2>1 DEF Same, EntriesOf
<1>3. QED
  BY <1>1, <1>2, QuietFollowing DEF IInv, TypeOK

LEMMA NextFollowing == IInv /\ Following /\ [Next]_vars => Following'
<1> SUFFICES ASSUME IInv, Following, [Next]_vars PROVE Following'
  OBVIOUS
<1>1. ASSUME NEW i \in Instance, Start(i) \/ Stop(i) \/ Fire(i) \/ RecordRun(i)
      PROVE  Following'
  BY <1>1, StartFollowing, StopFollowing, FireFollowing, RecordRunFollowing
<1>2. ASSUME NEW r \in Request, NEW i \in Instance, NEW j \in Job,
             UpsertFind(r, i, j) \/ DeleteFind(r, i, j)
      PROVE  Following'
  BY <1>2, UpsertFindFollowing, DeleteFindFollowing
<1>3. ASSUME NEW r \in Request,
             \/ UpsertWrite(r) \/ UpsertRegister(r)
             \/ DeleteWrite(r) \/ DeleteUnregister(r)
      PROVE  Following'
  BY <1>3, UpsertWriteFollowing, UpsertRegisterFollowing,
     DeleteWriteFollowing, DeleteUnregisterFollowing
<1>4. ASSUME NEW j \in Job, DeleteJob(j) \/ SetActive(j) PROVE Following'
  BY <1>4, JobFollowing
<1>5. CASE UNCHANGED vars
  <2>1. UNCHANGED <<job, row, up, entries, req, stale>>
    BY <1>5 DEF vars, tableVars, memoryVars
  <2>2. \A k, j : Same(k, j)
    BY <2>1 DEF Same, EntriesOf
  <2>3. QED
    BY <2>1, <2>2, QuietFollowing
<1>6. QED
  BY <1>1, <1>2, <1>3, <1>4, <1>5 DEF Next

\* UpsertSchedule, DeleteSchedule and Start: an instance that can follow a job's
\* schedule has the cron entries the table says, for any number of requests.
THEOREM EntriesFollow == Spec => []EntriesMatch
<1>1. Init => Following
  BY DEF Init, Following
<1>2. ASSUME IInv, Following PROVE EntriesMatch
  <2>1. ASSUME NEW i \in up, NEW j \in Job, j \notin stale[i] \cup InHand
        PROVE  EntriesOf(i, j) = RowEntries(j)
    <3>1. \A r \in Request : ~On(r, j)
      BY <2>1 DEF InHand, On
    <3>2. QED
      BY <1>2, <2>1, <3>1 DEF Following, Follows
  <2>2. QED
    BY <1>2, <2>1, RowEntriesEnabled DEF IInv, EntriesOf, EntriesMatch
<1>3. QED
  BY <1>1, <1>2, NextFollowing, Inductive, PTL DEF Spec

===============================================================================
