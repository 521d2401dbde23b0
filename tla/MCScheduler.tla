---------------------------- MODULE MCScheduler ----------------------------
(***************************************************************************)
(* Small instances of Scheduler for TLC.                                   *)
(***************************************************************************)
EXTENDS Scheduler

CONSTANTS j1, j2, w1, w2

\* The occurrences of every job: the even seconds.
EvenSeconds == [j \in Jobs |-> [s \in Times |-> 2 * (s \div 2) + 2]]

SchedulerFaults == {"db", "broker", "ambiguous", "crash"}
=============================================================================
