-------------------------------- MODULE Domain --------------------------------
(***************************************************************************)
(* The pure part of atx: the states of jobs and runs, the legal            *)
(* transitions between them, what a command's completion does to its run,  *)
(* and the fixed-rate arithmetic of recurring schedules                    *)
(* (src/domain/state.rs, transition.rs, run.rs, recurrence.rs).            *)
(*                                                                         *)
(* A Result::Err of the Rust code is a FALSE guard here, or the state      *)
(* "illegal" where a function returns the new state.                       *)
(***************************************************************************)
EXTENDS Naturals

(* JobState, without and with the row that is not in the jobs table.       *)
JobState == {"scheduled", "waiting", "starting", "running", "cancel_requested",
             "succeeded", "failed", "cancelled", "interrupted", "missed"}

JobTerminal == {"succeeded", "failed", "cancelled", "interrupted", "missed"}

JobRowState == JobState \cup {"absent"}

(* A job the supervisor still has to start.                                *)
Pending == {"scheduled", "waiting"}

(* A job whose command has been claimed and is not known to be over.       *)
Underway == {"starting", "running", "cancel_requested"}

RunState == {"starting", "running", "cancel_requested",
             "succeeded", "failed", "cancelled", "interrupted"}

RunTerminal == {"succeeded", "failed", "cancelled", "interrupted"}

RunActive == {"starting", "running", "cancel_requested"}

RunRowState == RunState \cup {"absent"}

(* job_transition: the one-shot table, and the steps by which a recurring  *)
(* job alone may return to waiting.                                        *)
OneShotLegal ==
  [scheduled        |-> {"waiting", "cancel_requested", "missed"},
   waiting          |-> {"starting", "cancel_requested", "missed"},
   starting         |-> {"running", "failed", "cancel_requested", "interrupted"},
   running          |-> {"succeeded", "failed", "cancel_requested", "interrupted"},
   cancel_requested |-> {"cancelled", "succeeded", "failed", "interrupted"}]

RecurringLegal ==
  {"starting", "running", "succeeded", "failed", "interrupted", "missed"}

job_transition(from, to, recurring) ==
  \/ from \in DOMAIN OneShotLegal /\ to \in OneShotLegal[from]
  \/ recurring /\ from \in RecurringLegal /\ to = "waiting"

(* run_transition.                                                         *)
RunLegal ==
  [starting         |-> {"running", "failed", "cancel_requested", "interrupted"},
   running          |-> {"succeeded", "failed", "cancel_requested", "interrupted"},
   cancel_requested |-> {"cancelled", "succeeded", "failed", "interrupted"}]

run_transition(from, to) == from \in DOMAIN RunLegal /\ to \in RunLegal[from]

(* RunOutcome.  Exit codes other than 0 and signals are one value: nothing *)
(* in the life cycle tells them apart.                                     *)
RunOutcome == {"exit_zero", "exit_nonzero", "failure", "interrupted", "cancelled"}

(* outcome_state: the run state an outcome stands for.                     *)
outcome_state(outcome) ==
  CASE outcome = "exit_zero"                     -> "succeeded"
    [] outcome \in {"exit_nonzero", "failure"}   -> "failed"
    [] outcome = "interrupted"                   -> "interrupted"
    [] OTHER                                     -> "cancelled"

(* complete_run: a run may only end as cancelled once the cancellation was *)
(* committed; every other target obeys run_transition.                     *)
complete_run(current, outcome) ==
  LET target == outcome_state(outcome)
  IN  IF /\ outcome = "cancelled" => current = "cancel_requested"
         /\ run_transition(current, target)
      THEN target
      ELSE "illegal"

(* completion_outcome: a capture failure wins, success is success even     *)
(* after a cancel request, and only a committed request makes the rest     *)
(* cancelled.                                                              *)
completion_outcome(exit, capture_failed, wait_failed, cancellation_requested) ==
  IF capture_failed THEN "failure"
  ELSE IF wait_failed THEN "interrupted"
  ELSE IF exit = "ok" THEN "exit_zero"
  ELSE IF cancellation_requested THEN "cancelled"
  ELSE "exit_nonzero"

(* next_fixed_rate_utc: the first instant of the schedule after now.       *)
next_fixed_rate_utc(anchor, now, interval) ==
  IF now < anchor THEN anchor
  ELSE anchor + ((now - anchor) \div interval + 1) * interval

===============================================================================
