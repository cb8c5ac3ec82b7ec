------------------------------ MODULE Invocations ------------------------------
(***************************************************************************)
(* The atx processes a user starts on one machine, as program counters:    *)
(* what Opening, Service and Host have in common.                          *)
(***************************************************************************)
EXTENDS Naturals, FiniteSets

CONSTANTS
  Clis,       \* the atx processes that may run at a time
  None,       \* nobody
  MaxFaults   \* how many steps may fail for outside reasons

VARIABLES
  inv,        \* each process: operation, program counter and local variables
  faults      \* how many faults there have been

(* cur: the schema version as read; created: this process made the file;   *)
(* left: attempts left; fails: the doctor's checks that failed; sure: one  *)
(* more than the faults there were when the process was started after a    *)
(* healthy report, or 0.                                                   *)
NoInvocation == [op |-> "none", pc |-> "idle", cur |-> 0, created |-> FALSE, left |-> 0,
                 fails |-> {}, res |-> "none", sure |-> 0]

Goes(c, pc) == inv' = [inv EXCEPT ![c].pc = pc]

(* A process that is over leaves its result.                               *)
Ends(c, res) ==
  inv' = [inv EXCEPT ![c] = [NoInvocation EXCEPT
                               !.res = res,
                               !.sure = IF inv[c].op = "submit" THEN inv[c].sure ELSE 0]]

At(c, pc) == inv[c].pc = pc

Fault ==
  /\ faults < MaxFaults
  /\ faults' = faults + 1

===============================================================================
