-------------------------------- MODULE Monitor --------------------------------
(***************************************************************************)
(* The run monitors: one process per claimed run, which starts the         *)
(* command, waits for it, records the run's outcome and finishes the job   *)
(* (src/run_monitor/mod.rs and lifecycle.rs).  A monitor outlives the      *)
(* supervisor that spawned it, and a command outlives a monitor that dies. *)
(***************************************************************************)
EXTENDS Store

VARIABLES
  mon,  \* the monitor of each run
  cmd   \* the command of each run: "none", "alive", "ok" or "bad"

monVars == <<mon, cmd>>

MonPc == {"none", "boot", "spawn", "mark", "wait", "record", "load_job", "finish",
          "wake", "dead"}

(* out: the outcome to record; end: the run state that was recorded;       *)
(* rev, state: the job as finish_job loaded it, and clock: when.           *)
MonState == [pc : MonPc, out : RunOutcome, end : RunRowState, rev : Nat,
             state : JobRowState, clock : Nat]

NoMonitor == [pc |-> "none", out |-> "failure", end |-> "absent", rev |-> 0,
              state |-> "absent", clock |-> 0]

Exited == [NoMonitor EXCEPT !.pc = "dead"]

MonitorTypeOK ==
  /\ mon \in [Runs -> MonState]
  /\ cmd \in [Runs -> {"none", "alive", "ok", "bad"}]

MonitorInit ==
  /\ mon = [r \in Runs |-> NoMonitor]
  /\ cmd = [r \in Runs |-> "none"]

LiveMonitors == {r \in Runs : mon[r].pc \notin {"none", "dead"}}

Exits(r) == mon' = [mon EXCEPT ![r] = Exited]

Goes(r, pc) == mon' = [mon EXCEPT ![r].pc = pc]

(* The command is killed, if it still runs.                                *)
Kill(r) == cmd' = [cmd EXCEPT ![r] = IF @ = "alive" THEN "bad" ELSE @]

-------------------------------------------------------------------------------
(* run_monitor_process and the head of execute: only a run that is still   *)
(* starting, of a job that is still stored, gets a command.                *)
MonLoad(r) ==
  /\ mon[r].pc = "boot"
  /\ IF runs[r].state = "starting" /\ jobs[runs[r].job].state # "absent"
     THEN Goes(r, "spawn")
     ELSE Exits(r)
  /\ UNCHANGED <<storeVars, cmd>>

(* Log files, identity or spawn failed: the run is recorded as failed.  A  *)
(* command that was started and could not be inspected is killed, unless   *)
(* it is over already.                                                     *)
MonSetupError(r) ==
  /\ mon[r].pc = "spawn"
  /\ mon' = [mon EXCEPT ![r].pc = "record", ![r].out = "failure"]
  /\ \E fate \in {"none", "ok", "bad"} : cmd' = [cmd EXCEPT ![r] = fate]
  /\ UNCHANGED storeVars

MonSpawn(r) ==
  /\ mon[r].pc = "spawn"
  /\ Goes(r, "mark")
  /\ cmd' = [cmd EXCEPT ![r] = "alive"]
  /\ UNCHANGED storeVars

(* take_output failed: the command is killed before the run is failed.     *)
MonOutputError_NoKill(r) ==
  /\ mon[r].pc = "mark"
  /\ mon' = [mon EXCEPT ![r].pc = "record", ![r].out = "failure"]
  /\ UNCHANGED <<storeVars, cmd>>

MonOutputError(r) ==
  /\ mon[r].pc = "mark"
  /\ mon' = [mon EXCEPT ![r].pc = "record", ![r].out = "failure"]
  /\ Kill(r)
  /\ UNCHANGED storeVars

MonMark(r) ==
  /\ mon[r].pc = "mark"
  /\ mark_run_running(r)
  /\ Goes(r, "wait")
  /\ UNCHANGED cmd

(* The run is no longer starting: the command must not go on unrecorded.   *)
MonMarkRefused(r) ==
  /\ mon[r].pc = "mark"
  /\ ~CanMark(r)
  /\ Exits(r)
  /\ Kill(r)
  /\ UNCHANGED storeVars

(* Capture both streams, wait for the command, note truncation, and read   *)
(* the run once more for a cancel request.                                 *)
MonReap(r) ==
  /\ mon[r].pc = "wait"
  /\ cmd[r] \in {"ok", "bad"}
  /\ runs[r].state # "absent"
  /\ \E capture_failed, wait_failed \in BOOLEAN :
       mon' = [mon EXCEPT ![r].pc = "record",
                          ![r].out = completion_outcome(cmd[r], capture_failed, wait_failed,
                                        runs[r].state = "cancel_requested")]
  /\ UNCHANGED <<storeVars, cmd>>

(* The run's row is gone, so noting the truncation fails.                  *)
MonReapLost(r) ==
  /\ mon[r].pc = "wait"
  /\ cmd[r] \in {"ok", "bad"}
  /\ runs[r].state = "absent"
  /\ Exits(r)
  /\ UNCHANGED <<storeVars, cmd>>

MonRecord(r) ==
  /\ mon[r].pc = "record"
  /\ record_run_terminal(r, mon[r].out)
  /\ mon' = [mon EXCEPT ![r].pc = "load_job", ![r].end = outcome_state(mon[r].out)]
  /\ UNCHANGED cmd

MonRecordRefused(r) ==
  /\ mon[r].pc = "record"
  /\ ~CanRecord(r, mon[r].out)
  /\ Exits(r)
  /\ UNCHANGED <<storeVars, cmd>>

(* finish_job: load the job; a terminal job is left alone.                 *)
AfterFinish(r) == IF runs[r].job \in Recurring THEN "wake" ELSE "dead"

(* The clock reading matters to a recurring job alone.                     *)
ClockRead(r) == IF runs[r].job \in Recurring THEN now ELSE 0

MonLoadJob_AnyState(r) ==
  LET job == jobs[runs[r].job]
  IN  /\ mon[r].pc = "load_job"
      /\ mon' = [mon EXCEPT ![r].pc = "finish", ![r].rev = job.rev, ![r].state = job.state,
                            ![r].clock = ClockRead(r)]
      /\ UNCHANGED <<storeVars, cmd>>

MonLoadJob(r) ==
  LET job == jobs[runs[r].job]
  IN  /\ mon[r].pc = "load_job"
      /\ IF job.state = "absent" THEN Exits(r)
         ELSE IF job.state \in JobTerminal
              THEN mon' = [mon EXCEPT ![r] = [NoMonitor EXCEPT !.pc = AfterFinish(r)]]
         ELSE mon' = [mon EXCEPT ![r].pc = "finish", ![r].rev = job.rev,
                                 ![r].state = job.state, ![r].clock = ClockRead(r)]
      /\ UNCHANGED <<storeVars, cmd>>

(* ... and the write it leads to, under the revision that was loaded.      *)
FinishAdvances(r) ==
  /\ mon[r].state # "cancel_requested"
  /\ mon[r].end # "cancelled"
  /\ runs[r].job \in Recurring

FinishTarget(r) ==
  IF mon[r].state = "cancel_requested" \/ mon[r].end = "cancelled"
  THEN "cancelled" ELSE mon[r].end

CanFinish(r) ==
  IF FinishAdvances(r) THEN CanAdvance(runs[r].job, mon[r].rev)
  ELSE CanTransition(runs[r].job, mon[r].rev, FinishTarget(r))

MonFinish(r) ==
  /\ mon[r].pc = "finish"
  /\ IF FinishAdvances(r)
     THEN advance_recurring_job(runs[r].job, mon[r].rev, mon[r].clock)
     ELSE transition_job(runs[r].job, mon[r].rev, FinishTarget(r))
  /\ mon' = [mon EXCEPT ![r] = [NoMonitor EXCEPT !.pc = AfterFinish(r)]]
  /\ UNCHANGED cmd

MonFinishRefused(r) ==
  /\ mon[r].pc = "finish"
  /\ ~CanFinish(r)
  /\ Exits(r)
  /\ UNCHANGED <<storeVars, cmd>>

(* A monitor that dies leaves its command running.                         *)
MonCrash(r) ==
  /\ r \in LiveMonitors
  /\ Exits(r)
  /\ UNCHANGED <<storeVars, cmd>>

(* The command ends by itself, or by a signal it does not survive.         *)
CommandExit(r) ==
  /\ cmd[r] = "alive"
  /\ \E exit \in {"ok", "bad"} : cmd' = [cmd EXCEPT ![r] = exit]
  /\ UNCHANGED <<storeVars, mon>>

===============================================================================
