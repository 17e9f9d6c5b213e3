---------------------------- MODULE MCBuildQueue ----------------------------
(* The build queue for TLC.                                                *)
EXTENDS QueueHistory

CONSTANTS p1, p2

(* The commands of a parallel group, and one of another process.           *)
Grouped == [r \in Requests |-> IF r = 3 THEN p2 ELSE p1]

(* "auto" on a machine with four processors and 10 GiB, and one slot.      *)
Capacities ==
  {QueueCapacity(setting, 4, 10240, 3) :
     setting \in {[concurrency |-> "auto", slots |-> 0, waitSeconds |-> 900],
                 [concurrency |-> "fixed", slots |-> 1, waitSeconds |-> 60]}}
=============================================================================
