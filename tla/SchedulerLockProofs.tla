-------------------------- MODULE SchedulerLockProofs --------------------------
(***************************************************************************)
(* Theorems about SchedulerLock, for any number of instances and schedules *)
(* and any times that satisfy LagAssumption.                               *)
(***************************************************************************)
EXTENDS SchedulerLock, TLAPS

\* The calls that have passed isLeader at the latest instant.
Chosen == leading \cup dispatched

\* While calls of the latest instant are still to come, the key outlives the
\* time they have left; so nobody finds it free after somebody has.
Guarded ==
  /\ waiting # {} /\ Chosen # {} => ttl + age > Lag
  /\ waiting \cup leading # {} => age =< Lag
  /\ \A f, g \in Chosen : f = g

IInv == TypeOK /\ Guarded

LEMMA InitInv == Init => IInv
<1> SUFFICES ASSUME Init PROVE IInv
  OBVIOUS
<1>1. failed \in BOOLEAN
  BY DEF Init
<1>2. TypeOK
  BY <1>1, TimesAssumption, LockAssumption DEF Init, TypeOK
<1>3. Guarded
  BY DEF Init, Guarded, Chosen
<1>4. QED
  BY <1>2, <1>3 DEF IInv

LEMMA TickInv == IInv /\ Tick => IInv'
<1> SUFFICES ASSUME IInv, Tick PROVE IInv'
  OBVIOUS
<1> USE TimesAssumption, LagAssumption DEF IInv, Guarded, Chosen
<1>1. TypeOK'
  <2>1. ttl' \in 0..TTL /\ holder' \in Instance \cup {NoInstance}
    BY DEF Tick, Remaining, TypeOK
  <2>2. renewIn' \in [Instance -> 0..RenewEvery]
    BY DEF Tick, TypeOK
  <2>3. age' \in 0..(Period - 1) /\ waiting' \subseteq Firing /\ dispatched' \subseteq Firing
    BY DEF Tick, TypeOK, Firing
  <2>4. failed' \in BOOLEAN
    BY DEF Tick, TypeOK
  <2>5. QED
    BY <2>1, <2>2, <2>3, <2>4 DEF Tick, TypeOK
<1>2. CASE age + 1 = Period
  <2>1. leading = {} /\ leading' = {} /\ dispatched' = {} /\ age' = 0
    BY <1>2 DEF Tick, TypeOK
  <2>2. QED
    BY <1>1, <2>1
<1>3. CASE age + 1 # Period
  <2>1. UNCHANGED <<waiting, leading, dispatched>> /\ age' = age + 1
    BY <1>3 DEF Tick
  <2>2. waiting \cup leading # {} => age' =< Lag
    BY <2>1 DEF Tick, TypeOK
  <2>3. ASSUME waiting # {}, Chosen # {} PROVE ttl' + age' > Lag
    <3>1. age < Lag /\ ttl > 0 /\ ttl' = ttl - 1
      BY <2>3 DEF Tick, Remaining, TypeOK
    <3>2. QED
      BY <2>1, <2>3, <3>1 DEF TypeOK
  <2>4. QED
    BY <1>1, <2>1, <2>2, <2>3
<1>4. QED
  BY <1>2, <1>3

\* Arithmetic of the guard.
LEMMA SumGrows ==
  ASSUME NEW k \in Int, NEW k0 \in Int, NEW a \in Int, NEW l \in Int,
         k >= k0, k0 + a > l
  PROVE  k + a > l
  OBVIOUS

\* A step that takes no time, lets nobody through and leaves the key its life
\* keeps the guard.
LEMMA GuardedStable ==
  ASSUME IInv, TypeOK', age' = age, ttl' >= ttl,
         waiting' \subseteq waiting, leading' \subseteq leading,
         Chosen' \subseteq Chosen
  PROVE  IInv'
<1> USE TimesAssumption DEF IInv, Guarded, TypeOK
<1>1. ASSUME waiting' # {}, Chosen' # {} PROVE ttl' + age' > Lag
  <2>1. waiting # {} /\ Chosen # {}
    BY <1>1
  <2>2. ttl + age' > Lag
    BY <2>1
  <2>3. ttl \in Int /\ ttl' \in Int /\ age' \in Int /\ Lag \in Int
    OBVIOUS
  <2>4. QED
    BY <2>2, <2>3, SumGrows
<1>2. ASSUME waiting' \cup leading' # {} PROVE age' =< Lag
  <2>1. PICK f : f \in waiting' \cup leading'
    BY <1>2
  <2>2. f \in waiting \cup leading
    BY <2>1
  <2>3. QED
    BY <2>2
<1>3. \A f, g \in Chosen' : f = g
  OBVIOUS
<1>4. QED
  BY <1>1, <1>2, <1>3

\* A disjunction is a Boolean.
LEMMA FailedType ==
  ASSUME NEW o PROVE (failed \/ o # "ok") \in BOOLEAN
  OBVIOUS

LEMMA NextInv == IInv /\ [Next]_vars => IInv'
<1> SUFFICES ASSUME IInv, [Next]_vars PROVE IInv'
  OBVIOUS
<1> USE TimesAssumption, LagAssumption
<1>1. CASE Tick
  BY <1>1, TickInv
<1>2. ASSUME NEW i \in Instance, Start(i) PROVE IInv'
  BY <1>2, GuardedStable DEF Start, IInv, TypeOK, Chosen
<1>3. ASSUME NEW i \in Instance, Crash(i) PROVE IInv'
  BY <1>3, GuardedStable DEF Crash, IInv, TypeOK, Chosen
<1>4. ASSUME NEW i \in Instance, Renew(i) PROVE IInv'
  <2>1. ttl' \in 0..TTL /\ ttl' >= ttl
    BY <1>4 DEF Renew, IInv, TypeOK
  <2>2. renewIn' \in [Instance -> 0..RenewEvery]
    BY <1>4 DEF Renew, IInv, TypeOK
  <2>3. QED
    BY <1>4, <2>1, <2>2, GuardedStable DEF Renew, IInv, TypeOK, Chosen
<1>5. ASSUME NEW i \in Instance, NEW s \in Schedule, IsLeader(i, s) PROVE IInv'
  <2>1. /\ waiting # {} /\ waiting' \subseteq waiting /\ age' = age
        /\ UNCHANGED <<dispatched, up, renewIn>>
    BY <1>5 DEF IsLeader
  <2>2. CASE Acquires
    <3>1. Chosen = {}
      BY <2>1, <2>2 DEF Acquires, IInv, Guarded, TypeOK
    <3>2. /\ leading' \subseteq {<<i, s>>} /\ Chosen' = leading'
          /\ ttl' \in {ttl, TTL} /\ (leading' # {} => ttl' = TTL)
          /\ holder' \in {holder, i}
      BY <1>5, <2>2, <3>1 DEF IsLeader, Applied, Chosen
    <3>3. TypeOK'
      BY <1>5, <2>1, <3>2, FailedType DEF IsLeader, IInv, TypeOK, Firing
    <3>4. Guarded'
      <4>1. ASSUME Chosen' # {} PROVE ttl' + age' > Lag
        <5>1. ttl' = TTL /\ age' = age /\ age \in Nat
          BY <2>1, <3>2, <4>1 DEF IInv, TypeOK
        <5>2. TTL + age > Lag
          BY <5>1
        <5>3. QED
          BY <5>1, <5>2
      <4>2. age' =< Lag
        <5>1. waiting \cup leading # {}
          BY <2>1
        <5>2. QED
          BY <2>1, <5>1 DEF IInv, Guarded
      <4>3. \A f, g \in Chosen' : f = g
        BY <3>2
      <4>4. QED
        BY <4>1, <4>2, <4>3 DEF Guarded
    <3>5. QED
      BY <3>3, <3>4 DEF IInv
  <2>3. CASE ~Acquires
    <3>1. failed' \in BOOLEAN
      BY <1>5, FailedType DEF IsLeader
    <3>2. UNCHANGED <<ttl, holder, leading>>
      BY <1>5, <2>3 DEF IsLeader
    <3>3. QED
      BY <2>1, <3>1, <3>2, GuardedStable DEF IInv, TypeOK, Chosen
  <2>4. QED
    BY <2>2, <2>3
<1>6. ASSUME NEW i \in Instance, NEW s \in Schedule, FireJob(i, s) PROVE IInv'
  <2>1. /\ UNCHANGED <<up, ttl, holder, renewIn, age, waiting>>
        /\ leading' \subseteq leading /\ Chosen' \subseteq Chosen
        /\ dispatched' \subseteq dispatched \cup {<<i, s>>}
    BY <1>6 DEF FireJob, Chosen
  <2>2. failed' \in BOOLEAN
    BY <1>6, FailedType DEF FireJob
  <2>3. TypeOK'
    BY <2>1, <2>2 DEF IInv, TypeOK, Firing
  <2>4. QED
    BY <2>1, <2>3, GuardedStable DEF IInv, TypeOK
<1>7. CASE UNCHANGED vars
  BY <1>7, GuardedStable DEF vars, IInv, TypeOK, Chosen
<1>8. QED
  BY <1>1, <1>2, <1>3, <1>4, <1>5, <1>6, <1>7 DEF Next

\* Every variable keeps its type, for any number of instances and schedules.
THEOREM LockTypeCorrect == Spec => []TypeOK
<1>1. IInv => TypeOK
  BY DEF IInv
<1>2. QED
  BY <1>1, InitInv, NextInv, PTL DEF Spec

\* At one instant no two instances dispatch a schedule, for any number of
\* instances and any TTL that exceeds the lateness of a cron job.
THEOREM DispatchedOnce == Spec => []OneDispatch
<1>1. IInv => OneDispatch
  BY DEF IInv, Guarded, Chosen, OneDispatch
<1>2. QED
  BY <1>1, InitInv, NextInv, PTL DEF Spec

-------------------------------------------------------------------------------
(* What the lock does if no instance goes down and no command fails.       *)

Calm == Happens = {} /\ RenewEvery < TTL

\* Some leader loop extends the key before it would expire, and the calls are those of
\* instances that run.
Extended ==
  /\ ttl > 0 => \E i \in up : renewIn[i] < ttl
  /\ waiting \subseteq up \X Schedule

LEMMA NextExtended ==
  ASSUME Calm, TypeOK, Extended, [Next]_vars
  PROVE  Extended' /\ (ttl > 0 => ttl' > 0)
<1> USE TimesAssumption DEF TypeOK, Extended, Calm
<1>1. CASE Tick
  <2>1. waiting' \subseteq up' \X Schedule
    BY <1>1 DEF Tick
  <2>2. ASSUME ttl > 0 PROVE ttl' > 0 /\ \E i \in up' : renewIn'[i] < ttl'
    <3>1. PICK i \in up : renewIn[i] < ttl
      BY <2>2
    <3>2. i \in Instance /\ renewIn[i] > 0 /\ renewIn'[i] = renewIn[i] - 1
      BY <1>1 DEF Tick
    <3>3. ttl' = ttl - 1 /\ up' = up
      BY <1>1, <2>2 DEF Tick, Remaining
    <3>4. QED
      BY <3>1, <3>2, <3>3
  <2>3. ttl' > 0 => ttl > 0
    BY <1>1 DEF Tick, Remaining
  <2>4. QED
    BY <2>1, <2>2, <2>3
<1>2. ASSUME NEW i \in Instance, Start(i) PROVE Extended' /\ (ttl > 0 => ttl' > 0)
  <2>1. \A k \in up : k \in up' /\ renewIn'[k] = renewIn[k]
    BY <1>2 DEF Start
  <2>2. QED
    BY <1>2, <2>1 DEF Start
<1>3. \A i \in Instance : ~Crash(i)
  BY DEF Crash
<1>4. ASSUME NEW i \in Instance, Renew(i) PROVE Extended' /\ (ttl > 0 => ttl' > 0)
  <2>1. /\ ttl' = IF ttl > 0 THEN TTL ELSE ttl
        /\ UNCHANGED <<up, waiting>> /\ i \in up
    BY <1>4 DEF Renew, Outcome, Applied
  <2>2. renewIn'[i] = RenewEvery
    BY <1>4 DEF Renew
  <2>3. QED
    BY <2>1, <2>2
<1>5. ASSUME NEW i \in Instance, NEW s \in Schedule, IsLeader(i, s)
      PROVE  Extended' /\ (ttl > 0 => ttl' > 0)
  <2>1. i \in up /\ waiting' \subseteq waiting /\ UNCHANGED <<up, renewIn>>
    BY <1>5 DEF IsLeader
  <2>2. ttl' = IF ttl = 0 THEN TTL ELSE ttl
    BY <1>5 DEF IsLeader, Outcome, Applied, Acquires
  <2>3. renewIn[i] < TTL
    BY <2>1
  <2>4. QED
    BY <2>1, <2>2, <2>3
<1>6. ASSUME NEW i \in Instance, NEW s \in Schedule, FireJob(i, s)
      PROVE  Extended' /\ (ttl > 0 => ttl' > 0)
  BY <1>6 DEF FireJob
<1>7. CASE UNCHANGED vars
  BY <1>7 DEF vars
<1>8. QED
  BY <1>1, <1>2, <1>3, <1>4, <1>5, <1>6, <1>7 DEF Next

LEMMA ExtendedCorrect ==
  ASSUME Calm
  PROVE  Spec => [](TypeOK /\ Extended)
<1>1. Init => Extended
  BY DEF Init, Extended
<1>2. TypeOK /\ Extended /\ [Next]_vars => Extended'
  BY NextExtended
<1>3. QED
  BY <1>1, <1>2, LockTypeCorrect, PTL DEF Spec

\* If no instance goes down and no command fails, the key never expires once some
\* fireJob has created it: the leader loops of all instances extend it, whoever created
\* it, and nobody deletes it.
THEOREM KeyIsNeverFreed ==
  ASSUME Calm
  PROVE  Spec => [][ttl > 0 => ttl' > 0]_vars
<1>1. TypeOK /\ Extended /\ [Next]_vars => [ttl > 0 => ttl' > 0]_vars
  BY NextExtended
<1>2. QED
  BY <1>1, ExtendedCorrect, PTL DEF Spec

\* The instant at which the key was created is over.
Silent == ttl > 0 /\ leading = {} /\ dispatched = {}

\* From the instant after the one at which the key was created nothing is dispatched
\* any more, by any instance and for any schedule, if no instance goes down and no
\* command fails: "Only the instance holding the Redis leader lock will fire
\* jobs", but isLeader holds for nobody while the key is there, its creator included.
\* KeepsFiring fails for this reason.
THEOREM NothingFiresAgain ==
  ASSUME Calm
  PROVE  Spec => [](Silent => []Silent)
<1>1. ASSUME TypeOK, Extended, Silent, [Next]_vars PROVE Silent'
  <2>1. ttl > 0 /\ ttl' > 0
    BY <1>1, NextExtended DEF Silent
  <2>2. CASE Tick
    BY <1>1, <2>1, <2>2 DEF Tick, Silent
  <2>3. ASSUME NEW i \in Instance, Start(i) \/ Crash(i) \/ Renew(i) PROVE Silent'
    BY <1>1, <2>1, <2>3 DEF Start, Crash, Renew, Silent
  <2>4. ASSUME NEW i \in Instance, NEW s \in Schedule, IsLeader(i, s) PROVE Silent'
    BY <1>1, <2>1, <2>4 DEF IsLeader, Acquires, Silent
  <2>5. ASSUME NEW i \in Instance, NEW s \in Schedule, FireJob(i, s) PROVE Silent'
    BY <1>1, <2>5 DEF FireJob, Silent
  <2>6. CASE UNCHANGED vars
    BY <1>1, <2>6 DEF vars, Silent
  <2>7. QED
    BY <1>1, <2>2, <2>3, <2>4, <2>5, <2>6 DEF Next
<1>2. QED
  BY <1>1, ExtendedCorrect, PTL DEF Spec

\* Of all the schedules that are due at an instant at most one is dispatched, whatever
\* fails or goes down: SETNX, which isLeader sends for each of them, succeeds once.
THEOREM OneScheduleFires == Spec => [](\A f, g \in dispatched : f = g)
<1>1. IInv => \A f, g \in dispatched : f = g
  BY DEF IInv, Guarded, Chosen
<1>2. QED
  BY <1>1, InitInv, NextInv, PTL DEF Spec

===============================================================================
