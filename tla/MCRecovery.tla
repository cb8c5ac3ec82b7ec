------------------------------ MODULE MCRecovery ------------------------------
(* Lifecycle with one of two jobs: j1 is one-shot, runs late when missed   *)
(* and is run again, with two faults; j2 is recurring and grows old, with  *)
(* one fault.                                                              *)
EXTENDS MCLifecycle

RecoveryPolicy == [j \in Jobs |-> IF j = j1 THEN "run_latest" ELSE "skip"]

RecoveryDelay == [j \in Jobs |-> IF j = j1 THEN 0 ELSE 1]

(* Bounds on what users, faults and the clock do: one of the jobs is ever  *)
(* submitted, and has its own budget.                                      *)
Within ==
  /\ permits'[j1] > 0 => permits'[j2] = 0 /\ now' <= 1
  /\ permits'[j2] > 0 => permits'[j2] = 1 /\ faults' <= 1

===============================================================================
