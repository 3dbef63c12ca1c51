----------------------------- MODULE SchedulerLock -----------------------------
(***************************************************************************)
(* The Redis key "scheduler:leader" and the API instances that use it:     *)
(* every instance's cron runs fireJob for every schedule, isLeader decides *)
(* with SETNX whether the instance dispatches, and the instance's leader   *)
(* loop extends the key's TTL.                                             *)
(*                                                                         *)
(* Time passes in ticks.  The schedules are due together, at every multiple *)
(* of Period; only the latest instant is kept.  A fireJob is done at most  *)
(* Lag ticks after its instant: the cron library starts it in a goroutine  *)
(* of its own, on clocks that agree that well.                             *)
(***************************************************************************)
EXTENDS Integers

CONSTANTS
  Instance,    \* API server instances
  Schedule,    \* enabled schedules, registered with every instance
  TTL,         \* leaderLockTTL, in ticks
  RenewEvery,  \* leaderRenewEvery, in ticks
  Period,      \* ticks from one instant of the cron expressions to the next
  Lag,         \* bound on how late a fireJob is done
  Happens,     \* what the environment does, see Hazard
  NoInstance   \* not an instance: the key does not exist

Hazard == {"crash",       \* an instance goes down, or shuts down
           "io_error"}    \* a Redis command may fail

ASSUME TimesAssumption ==
         /\ TTL \in Nat \ {0} /\ RenewEvery \in Nat \ {0} /\ Period \in Nat \ {0}
         /\ Lag \in Nat
ASSUME LagAssumption == Lag < TTL /\ Lag < Period
ASSUME LockAssumption == Happens \subseteq Hazard /\ NoInstance \notin Instance

VARIABLES
  up,          \* instances that run
  ttl,         \* remaining life of the key, 0 when it does not exist
  holder,      \* the instance whose SETNX created the key
  renewIn,     \* ticks until the leader loop's ticker fires
  age,         \* ticks since the latest instant
  waiting,     \* <<i, s>>: cron of i is to call fireJob for s
  leading,     \* <<i, s>>: that call has passed isLeader
  dispatched,  \* <<i, s>>: it has added its entry to the stream
  failed       \* history: a command of fireJob has failed since the instant

vars == <<up, ttl, holder, renewIn, age, waiting, leading, dispatched, failed>>

Firing == Instance \X Schedule

TypeOK ==
  /\ up \subseteq Instance
  /\ ttl \in 0..TTL
  /\ holder \in Instance \cup {NoInstance}
  /\ renewIn \in [Instance -> 0..RenewEvery]
  /\ age \in 0..(Period - 1)
  /\ waiting \subseteq Firing
  /\ leading \subseteq Firing
  /\ dispatched \subseteq Firing
  /\ failed \in BOOLEAN

Init ==
  /\ up = {}
  /\ ttl = 0
  /\ holder = NoInstance
  /\ renewIn = [i \in Instance |-> RenewEvery]
  /\ age = 0
  /\ waiting = {}
  /\ leading = {}
  /\ dispatched = {}
  /\ failed = FALSE

Outcome == {"ok"} \cup IF "io_error" \in Happens THEN {"lost", "unknown"} ELSE {}
Applied(outcome) == outcome \in {"ok", "unknown"}

\* Start: the schedules are registered, the leader loop's ticker begins.
Start(i) ==
  /\ i \notin up
  /\ up' = up \cup {i}
  /\ renewIn' = [renewIn EXCEPT ![i] = RenewEvery]
  /\ UNCHANGED <<ttl, holder, age, waiting, leading, dispatched, failed>>

\* The instance is gone, or stops; the key stays.
Crash(i) ==
  /\ "crash" \in Happens
  /\ i \in up
  /\ up' = up \ {i}
  /\ waiting' = {f \in waiting : f[1] # i}
  /\ leading' = {f \in leading : f[1] # i}
  /\ UNCHANGED <<ttl, holder, renewIn, age, dispatched, failed>>

\* Mutants of Acquires: SET without NX, and a test that is the wrong way round.
AcquiresAlways == TRUE
AcquiresHeld == ttl > 0

\* SETNX creates the key only when there is none, whoever asks.
Acquires == ttl = 0

\* fireJob begins with isLeader; an error counts as not being the leader.
IsLeader(i, s) ==
  /\ <<i, s>> \in waiting
  /\ waiting' = waiting \ {<<i, s>>}
  /\ \E o \in Outcome :
       /\ IF Acquires /\ Applied(o) THEN ttl' = TTL /\ holder' = i
                                    ELSE UNCHANGED <<ttl, holder>>
       /\ leading' = IF Acquires /\ o = "ok" THEN leading \cup {<<i, s>>}
                                             ELSE leading
       /\ failed' = (failed \/ o # "ok")
  /\ UNCHANGED <<up, renewIn, age, dispatched>>

\* The leader adds the dispatch to the stream; an error is only logged.
FireJob(i, s) ==
  /\ <<i, s>> \in leading
  /\ leading' = leading \ {<<i, s>>}
  /\ \E o \in Outcome :
       /\ dispatched' = IF Applied(o) THEN dispatched \cup {<<i, s>>} ELSE dispatched
       /\ failed' = (failed \/ o # "ok")
  /\ UNCHANGED <<up, ttl, holder, renewIn, age, waiting>>

\* Mutant of Renew: the TTL is added to what the key has left.
RenewAdds(i) ==
  /\ i \in up
  /\ renewIn[i] = 0
  /\ renewIn' = [renewIn EXCEPT ![i] = RenewEvery]
  /\ ttl' = IF ttl > 0 THEN ttl + TTL ELSE 0
  /\ UNCHANGED <<up, holder, age, waiting, leading, dispatched, failed>>

\* runLeaderLoop: EXPIRE, by any instance, whoever created the key.
Renew(i) ==
  /\ i \in up
  /\ renewIn[i] = 0
  /\ renewIn' = [renewIn EXCEPT ![i] = RenewEvery]
  /\ \E o \in Outcome : ttl' = IF Applied(o) /\ ttl > 0 THEN TTL ELSE ttl
  /\ UNCHANGED <<up, holder, age, waiting, leading, dispatched, failed>>

\* What a tick leaves of the key's life; Redis drops the key at zero.
Remaining == IF ttl > 0 THEN ttl - 1 ELSE 0

\* A tick passes: not over a ticker that is due, nor over a call of fireJob
\* that has used up its Lag.
Tick ==
  /\ \A i \in up : renewIn[i] > 0
  /\ waiting \cup leading # {} => age < Lag
  /\ renewIn' = [i \in Instance |-> IF i \in up THEN renewIn[i] - 1 ELSE renewIn[i]]
  /\ ttl' = Remaining
  /\ holder' = IF ttl > 1 THEN holder ELSE NoInstance
  /\ IF age + 1 = Period
     THEN age' = 0 /\ waiting' = up \X Schedule /\ dispatched' = {} /\ failed' = FALSE
     ELSE age' = age + 1 /\ UNCHANGED <<waiting, dispatched, failed>>
  /\ UNCHANGED <<up, leading>>

Next == \/ Tick
        \/ \E i \in Instance :
             \/ Start(i) \/ Crash(i) \/ Renew(i)
             \/ \E s \in Schedule : IsLeader(i, s) \/ FireJob(i, s)

Spec == Init /\ [][Next]_vars

(* Time passes, tickers and cron jobs run.  Nothing obliges an instance    *)
(* that went down to come back.                                            *)
FairSpec ==
  /\ Spec
  /\ WF_vars(Tick)
  /\ \A i \in Instance :
       /\ WF_vars(Renew(i))
       /\ \A s \in Schedule : WF_vars(IsLeader(i, s)) /\ WF_vars(FireJob(i, s))

-------------------------------------------------------------------------------
\* RedisSchedulerLock is there "so only one API instance fires scheduled jobs
\* at a time": at one instant a schedule is dispatched by one instance at most,
\* even when that instance dies and the others are late.
OneDispatch ==
  \A f, g \in dispatched : f[2] = g[2] => f = g

\* An instant that finds the key free is not missed by everybody, unless an
\* instance goes down or a command fails.
FreeLockFires ==
  (ttl = 0 /\ waiting # {} /\ up = Instance)
    ~> dispatched # {} \/ up # Instance \/ failed

\* "Only the instance holding the Redis leader lock will fire jobs", and it
\* does: while the instances are up, each schedule is dispatched over and over.
KeepsFiring ==
  <>[](up = Instance) =>
    \A s \in Schedule : []<>(\E i \in Instance : <<i, s>> \in dispatched)

===============================================================================
