---------------------------- MODULE MCScheduler -----------------------------
(* A small instance of Scheduler for TLC: a job with a number of runs and one *)
(* that runs for ever.                                                      *)
EXTENDS Scheduler

CONSTANTS j1, j2

MCTimes == [j \in Jobs |-> IF j = j1 THEN 2 ELSE 0]
MCSlots == [j \in Jobs |-> IF j = j1 THEN 1..MaxTime ELSE {2}]
=============================================================================
