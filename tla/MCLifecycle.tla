------------------------------ MODULE MCLifecycle ------------------------------
(* Lifecycle with the small instances that TLC explores.                   *)
EXTENDS Lifecycle

CONSTANTS j1, j2

(* One-shot jobs that are due at once, and hold when missed.               *)
HoldPolicy == [j \in Jobs |-> "hold"]

DueAtOnce == [j \in Jobs |-> 0]

===============================================================================
