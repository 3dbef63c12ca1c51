---------------------------- MODULE MCSchedulerLock ----------------------------
(***************************************************************************)
(* Small instances of SchedulerLock for TLC.  A tick stands for ten        *)
(* seconds: TTL is three of them, RenewEvery one.                          *)
(***************************************************************************)
EXTENDS SchedulerLock, TLC

CONSTANTS i1, i2, i3, s1, s2

MCInstance == {i1, i2}
ThreeInstances == {i1, i2, i3}
MCSchedule == {s1, s2}
MCSymmetry == Permutations(ThreeInstances) \cup Permutations(MCSchedule)

===============================================================================
