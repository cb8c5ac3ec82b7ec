------------------------------- MODULE Lifecycle -------------------------------
(***************************************************************************)
(* The life of jobs and runs: the CLI, the supervisor, the run monitors    *)
(* and the commands they start, all concurrent over one database.          *)
(*                                                                         *)
(* Faults (a crash, a kill, a storage error, a process that cannot be      *)
(* started) may strike at any step; MaxFaults bounds how many do.          *)
(***************************************************************************)
EXTENDS Supervisor, Monitor, Cli

CONSTANTS
  MaxTime,    \* bound: the last instant
  MaxFaults   \* bound: the number of faults

ASSUME FaultsAssumption == MaxTime \in Nat /\ MaxFaults \in Nat

VARIABLES
  faults,   \* how many faults have struck
  dropped   \* history: jobs whose last wake was given up and that no recovery has read since

vars == <<storeVars, now, supVars, monVars, cliVars, faults, dropped>>

TypeOK ==
  /\ StoreTypeOK
  /\ SupervisorTypeOK
  /\ MonitorTypeOK
  /\ CliTypeOK
  /\ faults \in Nat
  /\ dropped \subseteq Jobs

Init ==
  /\ StoreInit
  /\ SupervisorInit
  /\ MonitorInit
  /\ CliInit
  /\ faults = 0
  /\ dropped = {}

Fault ==
  /\ faults < MaxFaults
  /\ faults' = faults + 1

-------------------------------------------------------------------------------
(* The clock moves between any two steps, and never back.                  *)
Tick ==
  /\ now < MaxTime
  /\ now' = now + 1
  /\ UNCHANGED <<storeVars, supVars, monVars, cliVars, faults, dropped>>

(* A user submits, runs again or removes a job.  A bound: only jobs that   *)
(* fall due while the clock still runs are submitted.                      *)
UserStep(j) ==
  /\ \/ now + Delay[j] <= MaxTime /\ Submit(j)
     \/ Rerun(j)
     \/ Remove(j)
  /\ UNCHANGED <<now, supVars, monVars, faults, dropped>>

(* SessionAcknowledger ran into its deadline.                              *)
GiveUpWake(j) ==
  /\ WakeEnds(j)
  /\ dropped' = dropped \cup {j}
  /\ UNCHANGED <<now, supVars, monVars, faults>>

(* A canceller works on the database.                                      *)
CancelStoreStep(c) ==
  /\ \/ \E j \in Jobs : CancelBegin(c, j)
     \/ CancelRequest(c) \/ CancelMoot(c)
     \/ CancelDirect(c) \/ CancelDirectRefused(c)
     \/ CancelCheck(c) \/ CancelLoad(c)
     \/ CancelCommit(c) \/ CancelCommitRefused(c)
     \/ CancelRecord(c) \/ CancelRecordRefused(c)
     \/ CancelPoll(c) \/ CancelTimeout(c)
     \/ CancelFinish(c) \/ CancelFinishMoot(c)
  /\ UNCHANGED <<now, supVars, monVars, faults, dropped>>

(* cancel_validated_group: the recorded process group gets SIGTERM if the  *)
(* command still runs, and SIGKILL if it outlives the grace period.        *)
CancelSignal(c) ==
  LET r == can[c].run
  IN  /\ can[c].pc = "signal"
      /\ IF cmd[r] = "alive"
         THEN /\ signalled' = signalled \cup {r}
              /\ CanGoes(c, "kill")
         ELSE /\ CanGoes(c, "poll")
              /\ UNCHANGED signalled
      /\ UNCHANGED <<storeVars, now, supVars, monVars, wakes, faults, dropped>>

CancelKill(c) ==
  /\ can[c].pc = "kill"
  /\ Kill(can[c].run)
  /\ CanGoes(c, "poll")
  /\ UNCHANGED <<storeVars, now, supVars, mon, wakes, signalled, faults, dropped>>

CancelFault(c) ==
  /\ CancelAbort(c)
  /\ Fault
  /\ UNCHANGED <<now, supVars, monVars, dropped>>

(* Steps of the supervisor.                                                *)
SupervisorStep ==
  /\ \/ /\ \/ LoadActiveRuns \/ RefuseRecovery
           \/ PopDue \/ EndBatch
           \/ \E j \in Jobs : ExecLoad(j)
        /\ UNCHANGED storeVars
     \/ ApplyRecovery \/ RecoveryConflict \/ CleanupRecovery
     \/ ExecWait \/ ExecStart \/ ExecClaim \/ ExecMark \/ ExecRefused
     \/ ExecFailRun \/ ExecFailJob
  /\ UNCHANGED <<now, monVars, cliVars, faults, dropped>>

(* The second SELECT of recovery reads every job that still waits.         *)
RecoveryPlanned ==
  /\ PlanRecovery(LiveMonitors)
  /\ dropped' = {}
  /\ UNCHANGED <<storeVars, now, monVars, cliVars, faults>>

SupervisorFault ==
  /\ \/ ExecSpawnError
     \/ ExecStorageError
     \/ sup # "down" /\ Stopped /\ UNCHANGED storeVars
  /\ Fault
  /\ UNCHANGED <<now, monVars, cliVars, dropped>>

(* run_loop gives up after an idle timeout with nothing queued.  (A stop   *)
(* signal ends it with work queued and counts as a fault above.)           *)
SupervisorStop ==
  /\ sup = "up"
  /\ exec.pc = "idle"
  /\ heap = EmptyHeap
  /\ Stopped
  /\ UNCHANGED <<storeVars, now, monVars, cliVars, faults, dropped>>

(* spawn_run_monitor succeeded.                                            *)
ExecSpawn ==
  /\ exec.pc = "spawn"
  /\ Goes(exec.run, "boot")
  /\ Done
  /\ ExecFrame
  /\ UNCHANGED <<storeVars, now, cmd, cliVars, faults, dropped>>

(* A submitter's wake reaches the supervisor.                              *)
ServeWake(j) ==
  /\ WakeEnds(j)
  /\ Wake(j)
  /\ UNCHANGED <<now, monVars, faults, dropped>>

(* Steps of the monitors and of the commands.                              *)
MonitorStep(r) ==
  /\ \/ MonLoad(r) \/ MonSpawn(r) \/ MonMark(r) \/ MonMarkRefused(r)
     \/ MonReap(r) \/ MonReapLost(r) \/ MonRecord(r) \/ MonRecordRefused(r)
     \/ MonLoadJob(r) \/ MonFinish(r) \/ MonFinishRefused(r)
  /\ UNCHANGED <<now, supVars, cliVars, faults, dropped>>

CommandStep(r) ==
  /\ CommandExit(r)
  /\ UNCHANGED <<now, supVars, cliVars, faults, dropped>>

MonitorFault(r) ==
  /\ MonSetupError(r) \/ MonOutputError(r) \/ MonCrash(r)
  /\ dropped' = dropped \cup IF mon[r].pc = "wake" THEN {runs[r].job} ELSE {}
  /\ Fault
  /\ UNCHANGED <<now, supVars, cliVars>>

(* The monitor of a recurring job wakes the supervisor for the next        *)
(* occurrence.  Its connection waits while the supervisor recovers; with   *)
(* none listening the wake is dropped.                                     *)
MonWake(r) ==
  LET j == runs[r].job
  IN  /\ mon[r].pc = "wake"
      /\ Exits(r)
      /\ IF sup = "up" /\ jobs[j].state = "waiting"
         THEN Wake(j)
         ELSE /\ sup = "down" \/ jobs[j].state # "waiting"
              /\ UNCHANGED supVars
      /\ UNCHANGED <<storeVars, now, cmd, cliVars, faults, dropped>>

CancelStep(c) == CancelStoreStep(c) \/ CancelSignal(c) \/ CancelKill(c)

Supervise == SupervisorStep \/ RecoveryPlanned \/ ExecSpawn

Next ==
  \/ Tick
  \/ \E j \in Jobs : UserStep(j) \/ ServeWake(j) \/ GiveUpWake(j)
  \/ \E c \in Cancellers : CancelStep(c) \/ CancelFault(c)
  \/ Supervise \/ SupervisorFault \/ SupervisorStop
  \/ \E r \in Runs : MonitorStep(r) \/ CommandStep(r) \/ MonWake(r) \/ MonitorFault(r)

Spec == Init /\ [][Next]_vars

(* Fairness: the clock runs; a started process takes its next step; a wake *)
(* that keeps being sent is served; a supervisor is started again when     *)
(* none runs (by the service manager, or by the next submission); and a    *)
(* command ends.  Nothing forces a user, a fault or an idle timeout.       *)
Fairness ==
  /\ WF_vars(Tick)
  /\ WF_vars(Supervise)
  /\ \A j \in Jobs : WF_vars(ServeWake(j))
  /\ \A c \in Cancellers : WF_vars(can[c].pc # "new" /\ CancelStep(c))
  /\ \A r \in Runs : /\ WF_vars(MonitorStep(r) \/ MonWake(r))
                     /\ WF_vars(CommandStep(r))

FairSpec == Spec /\ Fairness

-------------------------------------------------------------------------------
(* A one-shot job is executed at most once per request: however recovery,  *)
(* retries, cancellation and crashes interleave, a run of it is claimed no *)
(* more often than a user submitted it or asked for it to run again        *)
(* (docs/reliability.md, "the default is at-most-once").                   *)
AtMostOnce == \A j \in Jobs \ Recurring : claims[j] <= permits[j]

(* No command is signalled before the cancellation of its run is durable   *)
(* (cancel_claimed_run: "must happen before the first signal"), and the    *)
(* request is never lost again afterwards.                                 *)
SignalAfterCommit ==
  \A r \in signalled : runs[r].state \notin {"starting", "running"}

(* A recorded result is the result: a run is only succeeded when its       *)
(* command exited with 0, and only failed when no command of it runs.      *)
ResultMeansCommandOver ==
  \A r \in Runs :
    /\ runs[r].state = "succeeded" => cmd[r] = "ok"
    /\ runs[r].state = "failed" => cmd[r] # "alive"

(* Every job that waits has someone who will look at it: while the         *)
(* supervisor is up the job is in the heap, in the batch being executed,   *)
(* or has a waker on the way, unless its waker gave up or died.            *)
WaitingIsOwned ==
  sup = "up" =>
    \A j \in Jobs : jobs[j].state \in Pending =>
      \/ heap[j] # NoDue
      \/ j \in exec.batch \cup exec.failed \cup {exec.job} \cup wakes \cup dropped
      \/ \E r \in RunsOf(j) : mon[r].pc = "wake"

(* The rows agree, as startup recovery insists (load_nonterminal,          *)
(* plan_recovery): a job has at most one active run, and only while it is  *)
(* starting, running or being cancelled.  A job that was run again is left *)
(* out: a monitor of its earlier run may still finish the job.             *)
Agrees(r) ==
  /\ jobs[runs[r].job].state \in Underway
  /\ ActiveRuns(runs[r].job) = {r}

RowsAgree ==
  \A r \in Runs :
    runs[r].state \in RunActive => permits[runs[r].job] > 1 \/ Agrees(r)

(* The history of a run: a terminal run never changes again (it may only   *)
(* be deleted), a committed cancellation is never taken back, and a run    *)
(* becomes cancelled only from a committed cancellation.                   *)
RunHistory ==
  [][\A r \in Runs :
       /\ runs[r].state \in RunTerminal => runs'[r].state \in {runs[r].state, "absent"}
       /\ runs[r].state = "cancel_requested" =>
            runs'[r].state \in RunTerminal \cup {"cancel_requested", "absent"}
       /\ runs'[r].state = "cancelled" => runs[r].state \in {"cancel_requested", "cancelled"}]_vars

(* A terminal job stays as it is until a user runs it again or retention   *)
(* deletes it; in particular no late monitor, canceller or recovery ever   *)
(* takes an interrupted job back (README, "never retried on their own").   *)
TerminalJobStays ==
  [][\A j \in Jobs : jobs[j].state \in JobTerminal =>
       \/ jobs'[j].state \in {jobs[j].state, "absent"}
       \/ permits'[j] = permits[j] + 1]_vars

(* Every one-shot job that was stored comes to an end, whoever cancels it  *)
(* meanwhile, unless its submitter was told that nobody supervises it: no  *)
(* interleaving of supervisor, monitor and cancellers leaves it hanging,   *)
(* as long as no fault strikes and the command ends.                       *)
JobsEnd ==
  \A j \in Jobs \ Recurring :
    jobs[j].state \in Pending \cup Underway
      ~> jobs[j].state \in JobTerminal \/ j \in dropped \/ faults > 0

===============================================================================
