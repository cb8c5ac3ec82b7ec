------------------------------ MODULE Supervisor ------------------------------
(***************************************************************************)
(* The supervisor process: startup recovery (src/application/reconcile.rs, *)
(* src/infrastructure/sqlite/reconcile.rs), the deadline heap, and the due *)
(* execution that takes a job from waiting to a running monitor            *)
(* (src/supervisor/daemon.rs).  One supervisor runs at a time: the runtime *)
(* lock of src/supervisor/ipc.rs sees to that.                             *)
(*                                                                         *)
(* Recovery takes four steps, because the CLI and the monitors that        *)
(* outlived the last supervisor keep writing while it runs: SELECT runs,   *)
(* SELECT jobs and plan, apply the plan in one transaction, clean up.      *)
(***************************************************************************)
EXTENDS Store

CONSTANTS
  Backoff,   \* how long a failed due execution waits before its retry
  Aged       \* the jobs whose terminal rows may be past the retention age

ASSUME BackoffAssumption == Backoff \in Nat \ {0} /\ Aged \subseteq Jobs

VARIABLES
  sup,    \* "down", "jobs", "apply", "clean" (recovery), or "up"
  found,  \* the active runs that recovery's first SELECT returned
  wall,   \* the clock as recovery read it before that SELECT
  plan,   \* the recovery plan: at most one action and deadline per job
  heap,   \* the deadline heap: NoDue, or when to look at the job
  exec    \* the due execution in progress

supVars == <<sup, found, wall, plan, heap, exec>>

NoFound == [r \in Runs |-> [state |-> "absent", job |-> NoJob, slot |-> 0, marked |-> FALSE]]

Leave == [act |-> "none", rev |-> 0, run |-> NoRun, next |-> 0, at |-> NoDue]

NoPlan == [j \in Jobs |-> Leave]

EmptyHeap == [j \in Jobs |-> NoDue]

Idle == [pc |-> "idle", job |-> NoJob, rev |-> 0, due |-> 0, run |-> NoRun,
         batch |-> {}, failed |-> {}]

PlanEntry == [act : {"none", "interrupt", "missed", "advance"}, rev : Nat,
              run : Runs \cup {NoRun}, next : Nat, at : Nat \cup {NoDue}]

ExecPc == {"idle", "batch", "wait", "start", "claim", "mark", "spawn", "fail_run", "fail_job"}

SupervisorTypeOK ==
  /\ sup \in {"down", "jobs", "apply", "clean", "up"}
  /\ found \in [Runs -> RunRow]
  /\ wall \in Nat
  /\ plan \in [Jobs -> PlanEntry]
  /\ heap \in [Jobs -> Nat \cup {NoDue}]
  /\ exec \in [pc : ExecPc, job : Jobs \cup {NoJob}, rev : Nat, due : Nat,
               run : Runs \cup {NoRun}, batch : SUBSET Jobs, failed : SUBSET Jobs]

SupervisorInit ==
  /\ sup = "down"
  /\ found = NoFound
  /\ wall = 0
  /\ plan = NoPlan
  /\ heap = EmptyHeap
  /\ exec = Idle

(* The process is gone: crash, stop signal, or a startup error.            *)
Stopped ==
  /\ sup' = "down"
  /\ found' = NoFound
  /\ wall' = 0
  /\ plan' = NoPlan
  /\ heap' = EmptyHeap
  /\ exec' = Idle

-------------------------------------------------------------------------------
(* Startup recovery.                                                       *)

TwoActiveRuns ==
  \E j \in Jobs : \E r, q \in ActiveRuns(j) : r # q

(* load_nonterminal, first SELECT.  Two active runs of one job are         *)
(* reported as corruption and the supervisor does not come up.             *)
LoadActiveRuns ==
  /\ sup = "down"
  /\ ~TwoActiveRuns
  /\ sup' = "jobs"
  /\ wall' = now
  /\ found' = [r \in Runs |-> IF runs[r].state \in RunActive THEN runs[r] ELSE NoFound[r]]
  /\ UNCHANGED <<plan, heap, exec>>

FoundRuns(j) == {r \in Runs : found[r].state \in RunActive /\ found[r].job = j}

(* An active run of a terminal or missing job (load_nonterminal), or of a  *)
(* job that still waits (plan_recovery), makes the startup fail.           *)
RecoveryRefused ==
  \E j \in Jobs : FoundRuns(j) # {} /\ jobs[j].state \notin Underway

(* The recovery action that ends a job, and its run if it has one.         *)
interrupt_action(j, run) ==
  [Leave EXCEPT !.act = "interrupt", !.rev = jobs[j].rev, !.run = run]

(* An instant put on the deadline heap, with nothing to write.             *)
deadline(at) == [Leave EXCEPT !.at = at]

(* reconcile_active, for the runs alive whose recorded monitor is the      *)
(* process it was: such a run is left to its monitor, any other underway   *)
(* job is interrupted.                                                     *)
reconcile_active_JobOnly(j, alive) ==
  [Leave EXCEPT !.act = "interrupt", !.rev = jobs[j].rev]

reconcile_active(j, alive) ==
  LET act == FoundRuns(j)
      kept == {r \in act : /\ r \in alive
                           /\ found[r].marked
                           /\ found[r].state \in {"running", "cancel_requested"}}
  IN  IF kept # {} THEN Leave
      ELSE interrupt_action(j, IF act = {} THEN NoRun ELSE CHOOSE r \in act : TRUE)

(* reconcile_waiting: a deadline still ahead is queued; one that passed    *)
(* follows the job's missed policy.                                        *)
reconcile_waiting_NotQueued(j) ==
  IF jobs[j].due > wall THEN [Leave EXCEPT !.at = jobs[j].due]
  ELSE [Leave EXCEPT !.act = "advance", !.rev = jobs[j].rev,
                     !.next = next_fixed_rate_utc(jobs[j].anchor, wall, Interval)]

reconcile_waiting(j) ==
  LET due   == jobs[j].due
      after == next_fixed_rate_utc(jobs[j].anchor, wall, Interval)
      advance(at) == [Leave EXCEPT !.act = "advance", !.rev = jobs[j].rev,
                                   !.next = after, !.at = at]
  IN  IF due > wall THEN deadline(due)
      ELSE IF Policy[j] = "run_latest"
           THEN IF j \in Recurring THEN advance(wall) ELSE deadline(wall)
      ELSE IF j \in Recurring /\ Policy[j] = "skip" THEN advance(after)
      ELSE [Leave EXCEPT !.act = "missed", !.rev = jobs[j].rev]

plan_recovery(alive) ==
  [j \in Jobs |-> IF jobs[j].state \in Underway THEN reconcile_active(j, alive)
                  ELSE IF jobs[j].state \in Pending THEN reconcile_waiting(j)
                  ELSE Leave]

(* load_nonterminal, second SELECT, and the plan.                          *)
PlanRecovery(alive) ==
  /\ sup = "jobs"
  /\ ~RecoveryRefused
  /\ sup' = "apply"
  /\ plan' = plan_recovery(alive)
  /\ found' = NoFound
  /\ wall' = 0
  /\ UNCHANGED <<heap, exec>>

RefuseRecovery ==
  /\ sup = "jobs"
  /\ RecoveryRefused
  /\ Stopped

(* apply_recovery: every action of the plan still finds the revision and   *)
(* the state it was made for, or none is applied.                          *)
StillValid(j) ==
  LET p == plan[j]
  IN  /\ p.act # "none" => jobs[j].rev = p.rev
      /\ p.act = "interrupt" => /\ jobs[j].state \in Underway
                                /\ p.run # NoRun => runs[p.run].state \in RunActive
      /\ p.act \in {"missed", "advance"} => jobs[j].state \in Pending

Recovered_Retries(j) ==
  CASE plan[j].act \in {"interrupt", "advance"} ->
         [jobs[j] EXCEPT !.state = "waiting", !.due = now, !.rev = @ + 1]
    [] plan[j].act = "missed" -> [jobs[j] EXCEPT !.state = "missed", !.rev = @ + 1]
    [] OTHER -> jobs[j]

Recovered(j) ==
  CASE plan[j].act = "interrupt" -> [jobs[j] EXCEPT !.state = "interrupted", !.rev = @ + 1]
    [] plan[j].act = "missed"    -> [jobs[j] EXCEPT !.state = "missed", !.rev = @ + 1]
    [] plan[j].act = "advance"   -> [jobs[j] EXCEPT !.due = plan[j].next, !.rev = @ + 1]
    [] OTHER                     -> jobs[j]

apply_recovery ==
  /\ \A j \in Jobs : StillValid(j)
  /\ jobs' = [j \in Jobs |-> Recovered(j)]
  /\ runs' = [r \in Runs |-> IF \E j \in Jobs : plan[j].act = "interrupt" /\ plan[j].run = r
                             THEN [runs[r] EXCEPT !.state = "interrupted"] ELSE runs[r]]
  /\ UNCHANGED <<permits, claims>>

ApplyRecovery ==
  /\ sup = "apply"
  /\ apply_recovery
  /\ sup' = "clean"
  /\ UNCHANGED <<found, wall, plan, heap, exec>>

RecoveryConflict ==
  /\ sup = "apply"
  /\ \E j \in Jobs : ~StillValid(j)
  /\ Stopped
  /\ UNCHANGED storeVars

(* cleanup_recovery, then rebuild_deadline_heap: the supervisor is up.     *)
OldRuns == {r \in Runs : runs[r].job \in Aged /\ runs[r].state \in RunTerminal}
OldJobs == {j \in Aged : jobs[j].state \in JobTerminal}

CleanupRecovery ==
  /\ sup = "clean"
  /\ \E oldRuns \in SUBSET OldRuns, oldJobs \in SUBSET OldJobs :
        cleanup_retention(oldRuns, oldJobs)
  /\ sup' = "up"
  /\ heap' = [j \in Jobs |-> plan[j].at]
  /\ plan' = NoPlan
  /\ UNCHANGED <<found, wall, exec>>

-------------------------------------------------------------------------------
(* A due instant on the clock of the loop, which it has if it has passed.  *)
reconcile_wall_schedule(due) == IF due > now THEN due ELSE now

(* load_wake and the Schedule event: a job that is not terminal is queued. *)
Wake(j) ==
  /\ sup = "up"
  /\ heap' = IF jobs[j].state \in JobTerminal \cup {"absent"} THEN heap
             ELSE [heap EXCEPT ![j] = reconcile_wall_schedule(jobs[j].due)]
  /\ UNCHANGED <<sup, found, wall, plan, exec>>

(* pop_due: the loop hands the whole due batch to the execution.           *)
DueJobs == {j \in Jobs : heap[j] # NoDue /\ heap[j] <= now}

PopDue ==
  /\ sup = "up"
  /\ exec.pc = "idle"
  /\ DueJobs # {}
  /\ heap' = [j \in Jobs |-> IF j \in DueJobs THEN NoDue ELSE heap[j]]
  /\ exec' = [exec EXCEPT !.pc = "batch", !.batch = DueJobs]
  /\ UNCHANGED <<sup, found, wall, plan>>

(* The batch is done: failed jobs are queued again after the backoff.      *)
EndBatch ==
  /\ exec.pc = "batch"
  /\ exec.batch = {}
  /\ heap' = [j \in Jobs |-> IF j \in exec.failed THEN now + Backoff ELSE heap[j]]
  /\ exec' = Idle
  /\ UNCHANGED <<sup, found, wall, plan>>

(* execute_single_due_job, one step per statement.  Done is its Ok(()),    *)
(* Failed an error that execute_due_jobs collects.                         *)
Done == exec' = [Idle EXCEPT !.pc = "batch", !.batch = exec.batch, !.failed = exec.failed]

Failed ==
  exec' = [Idle EXCEPT !.pc = "batch", !.batch = exec.batch,
                       !.failed = exec.failed \cup {exec.job}]

ExecFrame == UNCHANGED <<sup, found, wall, plan, heap>>

ExecLoad(j) ==
  /\ exec.pc = "batch"
  /\ j \in exec.batch
  /\ LET rest == [exec EXCEPT !.batch = @ \ {j}]
         at(pc) == [rest EXCEPT !.pc = pc, !.job = j, !.rev = jobs[j].rev, !.due = jobs[j].due]
     IN  exec' = IF jobs[j].state = "scheduled" THEN at("wait")
                 ELSE IF jobs[j].state = "waiting" THEN at("start")
                 ELSE rest
  /\ ExecFrame

(* The job's next transition, when nobody moved the job since it was read. *)
ExecMove(pc, to, next) ==
  /\ exec.pc = pc
  /\ transition_job(exec.job, exec.rev, to)
  /\ exec' = [exec EXCEPT !.pc = next, !.rev = @ + 1]
  /\ ExecFrame

ExecWait  == ExecMove("wait", "waiting", "start")
ExecStart == ExecMove("start", "starting", "claim")
ExecMark  == ExecMove("mark", "running", "spawn")

ExecClaim ==
  /\ exec.pc = "claim"
  /\ \E r \in NextRun : /\ claim_run(exec.job, exec.due, r)
                        /\ exec' = [exec EXCEPT !.pc = "mark", !.run = r]
  /\ ExecFrame

(* The statement is refused: the job moved on, or its slot was claimed.    *)
ExecRefused ==
  /\ \/ exec.pc = "wait"  /\ ~CanTransition(exec.job, exec.rev, "waiting")
     \/ exec.pc = "start" /\ ~CanTransition(exec.job, exec.rev, "starting")
     \/ exec.pc = "claim" /\ DuplicateClaim(exec.job, exec.due)
     \/ exec.pc = "mark"  /\ ~CanTransition(exec.job, exec.rev, "running")
     \/ exec.pc = "fail_run" /\ ~CanRecord(exec.run, "failure")
     \/ exec.pc = "fail_job" /\ ~CanTransition(exec.job, exec.rev, "failed")
  /\ Failed
  /\ ExecFrame
  /\ UNCHANGED storeVars

(* spawn_run_monitor failed: the run, then the job, is recorded as failed. *)
ExecSpawnError ==
  /\ exec.pc = "spawn"
  /\ exec' = [exec EXCEPT !.pc = "fail_run"]
  /\ ExecFrame
  /\ UNCHANGED storeVars

ExecFailRun ==
  /\ exec.pc = "fail_run"
  /\ record_run_terminal(exec.run, "failure")
  /\ exec' = [exec EXCEPT !.pc = "fail_job"]
  /\ ExecFrame

ExecFailJob ==
  /\ exec.pc = "fail_job"
  /\ transition_job(exec.job, exec.rev, "failed")
  /\ Done
  /\ ExecFrame

(* Any statement may also fail for the database's own reasons (busy, I/O), *)
(* the load included.                                                      *)
ExecStorageError ==
  /\ \/ /\ exec.pc \in {"wait", "start", "claim", "mark", "fail_run", "fail_job"}
        /\ Failed
     \/ /\ exec.pc = "batch"
        /\ \E j \in exec.batch : exec' = [exec EXCEPT !.batch = @ \ {j}, !.failed = @ \cup {j}]
  /\ ExecFrame
  /\ UNCHANGED storeVars

===============================================================================
