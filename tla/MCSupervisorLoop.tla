---------------------------- MODULE MCSupervisorLoop ----------------------------
(* SupervisorLoop with the small instances that TLC explores.              *)
EXTENDS SupervisorLoop

CONSTANTS j1, j2

Once == [j \in Jobs |-> 1]

(* The client of j1 may send again before its first wake was answered.     *)
AgainForJ1 == [j \in Jobs |-> IF j = j1 THEN 2 ELSE 1]

===============================================================================
