------------------------------ MODULE MCScheduler ------------------------------
(* Two jobs, the two workers of the code and a queue of one, which is full *)
(* as soon as one event waits.                                             *)
EXTENDS Scheduler

CONSTANTS web, db, w1, w2
=============================================================================
