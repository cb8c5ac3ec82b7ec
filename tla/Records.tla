-------------------------------- MODULE Records --------------------------------
(***************************************************************************)
(* The rows of the jobs and runs tables with the timestamps they carry,    *)
(* who writes them, and what a later read accepts                          *)
(* (src/domain/job.rs, run.rs, src/infrastructure/sqlite).                 *)
(*                                                                         *)
(* Lifecycle checks the order of the writes; here they are merged (the     *)
(* compare-and-swap on the revision makes each group one step or none) and *)
(* what remains is WHEN the clock was read for them.  A process that reads *)
(* the clock in one step and writes in a later one keeps what it read.     *)
(*                                                                         *)
(* Timestamps are stored as text with as many fractional digits as they    *)
(* need, and SQL compares the text.                                        *)
(***************************************************************************)
EXTENDS Domain, Integers, Sequences

CONSTANTS
  JobIds,          \* ids of two digits; a prefix is the first digit or the whole
  RunIds,          \* as JobIds
  Recurring,       \* the jobs submitted with --every, which skip what they missed
  TicksPerSecond,  \* the resolution of the modelled clock
  HistoryRetention, \* how long terminal runs are kept, in ticks
  JobRetention,    \* how long terminal jobs are kept, in ticks
  MaxTime,         \* bound: the last instant
  Loads            \* bounds: the workloads the behaviours choose from

(* A workload: the ids it uses, the last instant of its clock, how often   *)
(* that may be set back, how many monitors may be killed, how many         *)
(* supervisors may start, and the commands the user gives.                 *)
Command == [op : {"list", "show", "history", "output", "ps", "run", "run_yes", "rm",
                  "rm_keep", "rm_cancel", "cancel"},
            name : Nat \cup {-1}, state : JobState \cup {"any"}, limit : Nat]

(* RetentionPolicy::new: rows are kept for a day at least.                 *)
ASSUME RecordsAssumption ==
  /\ Recurring \subseteq JobIds
  /\ JobIds \cup RunIds \subseteq 10 .. 99
  /\ TicksPerSecond \in Nat \ {0}
  /\ HistoryRetention \in Nat /\ HistoryRetention >= TicksPerSecond
  /\ JobRetention \in Nat /\ JobRetention >= TicksPerSecond
  /\ MaxTime \in Nat
  /\ \A w \in Loads : w.commands \in Seq(Command) /\ w.ends \in Nat /\ w.ends <= MaxTime

VARIABLES
  load,    \* the workload of this behaviour
  now,     \* the wall clock
  faults,  \* how often it was set back, monitors were killed, supervisors started
  jobs,    \* the jobs table
  runs,    \* the runs table
  logs,    \* the captured output of each run: its file, and its truncated column
  mons,    \* the monitor of each run, and when it saw its command end
  sup      \* the supervisor: starting up or serving, and the clock recovery read

recordVars == <<load, now, faults, jobs, runs, logs, mons, sup>>

NoTime == -1
NoId == 0
Time == 0 .. MaxTime

(* Job, as its columns.                                                    *)
JobRow == [state : JobRowState, rev : Nat, created : Time, updated : Time,
           due : Nat, anchor : Nat, hidden : BOOLEAN]

(* Run, as its columns.  started stands for the two process identities and *)
(* the two log paths, which are written with it.                           *)
RunRow == [state : RunRowState, job : JobIds \cup {NoId}, seq : Nat, slot : Nat, created : Time,
           started : Time \cup {NoTime}, finished : Time \cup {NoTime},
           outcome : RunOutcome \cup {"none"}, column : {"none", "exit", "failure"}]

Monitor == {"none", "starting", "running", "drained", "flagged", "recorded", "gone"}

NoJobRow == [state |-> "absent", rev |-> 0, created |-> 0, updated |-> 0, due |-> 0,
             anchor |-> 0, hidden |-> FALSE]

NoRunRow == [state |-> "absent", job |-> NoId, seq |-> 0, slot |-> 0, created |-> 0,
             started |-> NoTime, finished |-> NoTime, outcome |-> "none", column |-> "none"]

RecordsInit ==
  /\ load \in Loads
  /\ now = 0
  /\ faults = [steps |-> 0, deaths |-> 0, starts |-> 0]
  /\ jobs = [j \in JobIds |-> NoJobRow]
  /\ runs = [r \in RunIds |-> NoRunRow]
  /\ logs = [r \in RunIds |-> [file |-> "none", truncated |-> FALSE]]
  /\ mons = [r \in RunIds |-> [pc |-> "none", finished |-> NoTime]]
  /\ sup = [pc |-> "serving", wall |-> 0]

JobRows == {j \in JobIds : jobs[j].state # "absent"}
RunRows == {r \in RunIds : runs[r].state # "absent"}
RunsOf(j) == {r \in RunRows : runs[r].job = j}
ActiveRuns == {r \in RunRows : runs[r].state \in RunActive}

-------------------------------------------------------------------------------
(* Job::rehydrate.  The other columns are written with the values they are *)
(* read back as.                                                           *)
JobReadable(j) == jobs[j].created <= jobs[j].updated

(* Run::rehydrate: the timeline, and an outcome exactly in terminal states *)
(* and of the state it stands for.                                         *)
TimelineHolds(row) ==
  /\ row.started # NoTime => row.created <= row.started
  /\ row.finished # NoTime => row.created <= row.finished
  /\ (row.started # NoTime /\ row.finished # NoTime) => row.started <= row.finished

OutcomeHolds(row) ==
  /\ (row.state \in RunTerminal) = (row.outcome # "none")
  /\ (row.state \in RunTerminal) = (row.finished # NoTime)
  /\ row.outcome # "none" => outcome_state(row.outcome) = row.state

(* validate_outcome_columns: the columns repeat the outcome.               *)
OutcomeColumn(outcome) ==
  CASE outcome = "none" -> "none"
    [] outcome \in {"exit_zero", "exit_nonzero"} -> "exit"
    [] OTHER -> "failure"

(* decode_run_row.                                                         *)
RunReadable(r) ==
  /\ TimelineHolds(runs[r])
  /\ OutcomeHolds(runs[r])
  /\ runs[r].column = OutcomeColumn(runs[r].outcome)

(* UtcTimestamp's text: its order is that of the instants except that a    *)
(* whole second, which has no fraction to print, sorts after all of its    *)
(* fractions ("05Z" > "05.5Z").                                            *)
TextRank(t) == IF t % TicksPerSecond = 0 THEN t + TicksPerSecond ELSE t

-------------------------------------------------------------------------------
(* Job::new and JobStore::create: due strictly after now, one second later *)
(* at the earliest.                                                        *)
CreateJob(j) ==
  /\ j \in load.jobs /\ jobs[j] = NoJobRow
  /\ jobs' = [jobs EXCEPT ![j] = [state |-> "scheduled", rev |-> 1, created |-> now,
                                  updated |-> now, due |-> now + TicksPerSecond,
                                  anchor |-> now + TicksPerSecond, hidden |-> FALSE]]
  /\ UNCHANGED <<load, now, faults, runs, logs, mons, sup>>

(* Job::transition: an update may not be older than the last one.          *)
MayUpdate(j) == JobReadable(j) /\ now >= jobs[j].updated

Updated(j, state, at) ==
  [jobs EXCEPT ![j].state = state, ![j].rev = @ + 1, ![j].updated = at]

(* claim_run: the next sequence number, and one run per scheduled instant. *)
NextSequence(j) ==
  1 + (IF RunsOf(j) = {} THEN 0
       ELSE CHOOSE n \in {runs[r].seq : r \in RunsOf(j)} : \A r \in RunsOf(j) : runs[r].seq <= n)

Claimed(j, r) ==
  [runs EXCEPT ![r] = [NoRunRow EXCEPT !.state = "starting", !.job = j, !.seq = NextSequence(j),
                                       !.slot = jobs[j].due, !.created = now]]

(* Run::with_outcome, whose finished instant is only compared with the     *)
(* creation of the run, and the columns record_run_terminal writes.        *)
WithOutcome(row, finished, outcome) ==
  [row EXCEPT !.state = complete_run(row.state, outcome), !.finished = finished,
              !.outcome = outcome, !.column = OutcomeColumn(outcome)]

MayRecord(r, finished, outcome) ==
  /\ RunReadable(r)
  /\ complete_run(runs[r].state, outcome) # "illegal"
  /\ finished >= runs[r].created

(* execute_due_job: the job is started, its run claimed, its monitor       *)
(* launched; when no monitor can be launched both end as failed.           *)
ExecuteDue(j, r) ==
  /\ sup.pc = "serving"
  /\ jobs[j].state \in Pending
  /\ jobs[j].due <= now
  /\ MayUpdate(j)
  /\ ~ \E q \in RunsOf(j) : runs[q].slot = jobs[j].due
  /\ r \in load.runs /\ runs[r] = NoRunRow /\ mons[r].pc = "none"
  /\ \/ /\ jobs' = Updated(j, "running", now)
        /\ runs' = Claimed(j, r)
        /\ mons' = [mons EXCEPT ![r].pc = "starting"]
     \/ /\ jobs' = Updated(j, "failed", now)
        /\ runs' = [runs EXCEPT ![r] = WithOutcome(Claimed(j, r)[r], now, "failure")]
        /\ mons' = [mons EXCEPT ![r].pc = "gone"]
  /\ UNCHANGED <<load, now, faults, logs, sup>>

-------------------------------------------------------------------------------
(* RunMonitor::execute: the command is started and marked as running.      *)
MonitorFrame == UNCHANGED <<load, now, faults, sup>>

MonitorMove(r, from, to) == mons[r].pc = from /\ mons' = [mons EXCEPT ![r].pc = to]

MarkRunning(r) ==
  /\ MonitorMove(r, "starting", "running")
  /\ RunReadable(r) /\ runs[r].state = "starting" /\ now >= runs[r].created
  /\ runs' = [runs EXCEPT ![r].state = "running", ![r].started = now]
  /\ logs' = [logs EXCEPT ![r].file = "part"]
  /\ UNCHANGED jobs /\ MonitorFrame

(* fail_run: the command could not be started.                             *)
FailRun(r) ==
  /\ MonitorMove(r, "starting", "recorded")
  /\ MayRecord(r, now, "failure")
  /\ runs' = [runs EXCEPT ![r] = WithOutcome(@, now, "failure")]
  /\ UNCHANGED <<jobs, logs>> /\ MonitorFrame

(* The command ends: its output is whole, or was cut at the cap, or could  *)
(* not be captured to the end, and the clock is read.                      *)
Drained(r) ==
  /\ mons[r].pc = "running"
  /\ mons' = [mons EXCEPT ![r] = [pc |-> "drained", finished |-> now]]
  /\ \E file \in {"whole", "cut", "part"} : logs' = [logs EXCEPT ![r].file = file]
  /\ UNCHANGED <<jobs, runs>> /\ MonitorFrame

(* record_log_truncation, before the outcome is recorded.                  *)
RecordTruncation(r) ==
  /\ MonitorMove(r, "drained", "flagged")
  /\ r \in RunRows
  /\ logs' = [logs EXCEPT ![r].truncated = (logs[r].file = "cut")]
  /\ UNCHANGED <<jobs, runs>> /\ MonitorFrame

RecordTerminal_Early(r) ==
  /\ MonitorMove(r, "drained", "recorded")
  /\ MayRecord(r, mons[r].finished, "exit_zero")
  /\ runs' = [runs EXCEPT ![r] = WithOutcome(@, mons[r].finished, "exit_zero")]
  /\ UNCHANGED <<jobs, logs>> /\ MonitorFrame

(* completion_outcome: a capture that failed makes the run a failure.  The *)
(* request to cancel may come after it was looked for, so that a cancelled *)
(* run may also end as the command did.                                    *)
Outcomes(r) ==
  IF logs[r].file = "part" THEN {"failure"}
  ELSE {"exit_zero", "exit_nonzero", "interrupted", "cancelled"}

RecordTerminal(r) ==
  /\ MonitorMove(r, "flagged", "recorded")
  /\ \E outcome \in Outcomes(r) :
        /\ MayRecord(r, mons[r].finished, outcome)
        /\ runs' = [runs EXCEPT ![r] = WithOutcome(@, mons[r].finished, outcome)]
  /\ UNCHANGED <<jobs, logs>> /\ MonitorFrame

(* finish_job: nothing when the job is terminal already; cancelled after a *)
(* request, the next occurrence of a recurring job, else the run's state.  *)
FinishTarget(r) ==
  LET j == runs[r].job
  IN  IF jobs[j].state = "cancel_requested" \/ runs[r].state = "cancelled" THEN "cancelled"
      ELSE IF j \in Recurring THEN "waiting"
      ELSE runs[r].state

CanFinish(r) ==
  LET j == runs[r].job
  IN  /\ r \in RunRows
      /\ j \in JobRows /\ jobs[j].state \notin JobTerminal
      /\ MayUpdate(j)
      /\ job_transition(jobs[j].state, FinishTarget(r), j \in Recurring)

FinishJob(r) ==
  /\ MonitorMove(r, "recorded", "gone")
  /\ CanFinish(r)
  /\ LET j    == runs[r].job
         done == Updated(j, FinishTarget(r), now)
     IN  jobs' = IF FinishTarget(r) # "waiting" THEN done
                 ELSE [done EXCEPT ![j].due = next_fixed_rate_utc(jobs[j].anchor, now,
                                                                  TicksPerSecond)]
  /\ UNCHANGED <<runs, logs>> /\ MonitorFrame

(* A store error, or the kill of the process, ends a monitor.              *)
MonitorCannot(r) ==
  \/ /\ mons[r].pc = "starting"
     /\ ~(RunReadable(r) /\ runs[r].state = "starting" /\ now >= runs[r].created)
  \/ /\ mons[r].pc = "drained" /\ r \notin RunRows
  \/ /\ mons[r].pc = "flagged"
     /\ ~ \E outcome \in Outcomes(r) :
            r \in RunRows /\ MayRecord(r, mons[r].finished, outcome)
  \/ /\ mons[r].pc = "recorded"
     /\ ~CanFinish(r)

MonitorErrors(r) ==
  /\ MonitorCannot(r)
  /\ mons' = [mons EXCEPT ![r].pc = "gone"]
  /\ UNCHANGED <<load, now, faults, jobs, runs, logs, sup>>

MonitorDies(r) ==
  /\ mons[r].pc \notin {"none", "gone"}
  /\ faults.deaths < load.deaths
  /\ faults' = [faults EXCEPT !.deaths = @ + 1]
  /\ mons' = [mons EXCEPT ![r].pc = "gone"]
  /\ UNCHANGED <<load, now, jobs, runs, logs, sup>>

-------------------------------------------------------------------------------
(* A supervisor starts: recover_startup_state reads the clock.             *)
SupervisorStarts ==
  /\ sup.pc \in {"serving", "down"}
  /\ faults.starts < load.starts
  /\ faults' = [faults EXCEPT !.starts = @ + 1]
  /\ sup' = [pc |-> "starting", wall |-> now]
  /\ UNCHANGED <<load, now, jobs, runs, logs, mons>>

(* load_nonterminal reads every active run and every job that is not over, *)
(* and plan_recovery looks at them: one unreadable row, a job with two     *)
(* active runs, or an active run of a job that is not underway, and the    *)
(* supervisor does not start.                                              *)
Loaded ==
  /\ \A r \in ActiveRuns : RunReadable(r) /\ jobs[runs[r].job].state \in Underway
  /\ \A r, q \in ActiveRuns : runs[r].job = runs[q].job => r = q
  /\ \A j \in JobRows : jobs[j].state \notin JobTerminal => JobReadable(j)

RecoveryFails ==
  /\ sup.pc = "starting"
  /\ ~Loaded
  /\ sup' = [pc |-> "down", wall |-> 0]
  /\ UNCHANGED <<load, now, faults, jobs, runs, logs, mons>>

(* plan_recovery and apply_recovery, with the clock as it was read before  *)
(* the load: an underway job whose monitor is not the recorded, live one   *)
(* is interrupted with its run; a job whose deadline passed is missed, or  *)
(* moves to its next occurrence.                                           *)
Orphaned(j) ==
  /\ jobs[j].state \in Underway
  /\ ~ \E r \in RunsOf(j) : /\ runs[r].state \in {"running", "cancel_requested"}
                            /\ runs[r].started # NoTime
                            /\ mons[r].pc \notin {"none", "gone"}

Overdue_Any(j) == jobs[j].state \in Pending

Overdue(j) == jobs[j].state \in Pending /\ jobs[j].due <= sup.wall

RecoveredJob(j) ==
  LET row == [jobs[j] EXCEPT !.rev = @ + 1, !.updated = sup.wall]
  IN  CASE Orphaned(j)                     -> [row EXCEPT !.state = "interrupted"]
        [] Overdue(j) /\ j \in Recurring   ->
             [row EXCEPT !.due = next_fixed_rate_utc(jobs[j].anchor, sup.wall, TicksPerSecond)]
        [] Overdue(j) /\ j \notin Recurring -> [row EXCEPT !.state = "missed"]
        [] OTHER                           -> jobs[j]

RecoveredRun(r) ==
  IF r \in ActiveRuns /\ Orphaned(runs[r].job)
  THEN [runs[r] EXCEPT !.state = "interrupted", !.finished = sup.wall,
                       !.outcome = "interrupted", !.column = "failure"]
  ELSE runs[r]

(* cleanup_retention: the text of a terminal row's last instant is smaller *)
(* than that of the cutoff; the runs of a deleted job go with it.          *)
Aged(t, retention) ==
  sup.wall >= retention /\ TextRank(t) < TextRank(sup.wall - retention)

Kept_AnyState(j, row) == ~Aged(row.updated, JobRetention)

Kept(j, row) == ~(row.state \in JobTerminal /\ Aged(row.updated, JobRetention))

Recover ==
  /\ sup.pc = "starting"
  /\ Loaded
  /\ LET recovered == [j \in JobIds |-> RecoveredJob(j)]
         ended     == [r \in RunIds |-> RecoveredRun(r)]
     IN  /\ jobs' = [j \in JobIds |-> IF Kept(j, recovered[j]) THEN recovered[j]
                                      ELSE [NoJobRow EXCEPT !.rev = 1]]
         /\ runs' = [r \in RunIds |->
                       IF \/ ended[r].state \in RunTerminal /\ Aged(ended[r].finished, HistoryRetention)
                          \/ /\ ended[r].state # "absent"
                             /\ ~Kept(ended[r].job, recovered[ended[r].job])
                       THEN NoRunRow ELSE ended[r]]
  /\ sup' = [pc |-> "serving", wall |-> 0]
  /\ UNCHANGED <<load, now, faults, logs, mons>>

-------------------------------------------------------------------------------
(* JobStore::transition_job for a canceller, with the clock it read: the   *)
(* row must be readable, the transition legal, and the update not older    *)
(* than the last one.                                                      *)
MayMove(j, state, at) ==
  /\ j \in JobRows
  /\ JobReadable(j) /\ at >= jobs[j].updated
  /\ job_transition(jobs[j].state, state, FALSE)

MoveJob(j, state, at) ==
  /\ MayMove(j, state, at)
  /\ jobs' = Updated(j, state, at)
  /\ UNCHANGED <<load, now, faults, runs, logs, mons, sup>>

(* commit_cancellation: a run that is not over is to be cancelled.         *)
CommitCancellation(r) ==
  /\ r \in ActiveRuns /\ RunReadable(r)
  /\ runs' = [runs EXCEPT ![r].state = "cancel_requested"]
  /\ UNCHANGED <<load, now, faults, jobs, logs, mons, sup>>

(* record_run_terminal for a run whose command was never started.          *)
RecordCancelled(r) ==
  /\ r \in RunRows /\ MayRecord(r, now, "cancelled")
  /\ runs' = [runs EXCEPT ![r] = WithOutcome(@, now, "cancelled")]
  /\ UNCHANGED <<load, now, faults, jobs, logs, mons, sup>>

(* prepare_rerun, with the clock its caller read: the update time is       *)
(* written without being compared with anything.                           *)
PrepareRerun(j, at) ==
  /\ j \in JobRows /\ ~jobs[j].hidden
  /\ jobs[j].state \in JobTerminal
  /\ jobs' = [Updated(j, "waiting", at) EXCEPT ![j].due = at]
  /\ UNCHANGED <<load, now, faults, runs, logs, mons, sup>>

(* hide_job: the runs go with the job unless their history is kept.        *)
HideJob(j, keep_history) ==
  /\ j \in JobRows /\ ~jobs[j].hidden
  /\ jobs[j].state \in JobTerminal
  /\ jobs' = [jobs EXCEPT ![j].hidden = TRUE]
  /\ runs' = [r \in RunIds |-> IF r \in RunsOf(j) /\ ~keep_history THEN NoRunRow ELSE runs[r]]
  /\ UNCHANGED <<load, now, faults, logs, mons, sup>>

-------------------------------------------------------------------------------
(* The wall clock goes on, and may be set back.                            *)
Tick ==
  /\ now < load.ends
  /\ now' = now + 1
  /\ UNCHANGED <<load, faults, jobs, runs, logs, mons, sup>>

SetBack ==
  /\ faults.steps < load.steps
  /\ \E t \in 0 .. (now - 1) : now' = t
  /\ faults' = [faults EXCEPT !.steps = @ + 1]
  /\ UNCHANGED <<load, jobs, runs, logs, mons, sup>>

RecordsStep ==
  \/ \E j \in JobIds : CreateJob(j)
  \/ \E j \in JobIds, r \in RunIds : ExecuteDue(j, r)
  \/ \E r \in RunIds :
       MarkRunning(r) \/ FailRun(r) \/ Drained(r) \/ RecordTruncation(r) \/ RecordTerminal(r)
         \/ FinishJob(r) \/ MonitorErrors(r) \/ MonitorDies(r)
  \/ SupervisorStarts \/ RecoveryFails \/ Recover
  \/ Tick \/ SetBack

RecordsTypeOK ==
  /\ now \in Time
  /\ faults \in [steps : Nat, deaths : Nat, starts : Nat]
  /\ jobs \in [JobIds -> JobRow]
  /\ runs \in [RunIds -> RunRow]
  /\ logs \in [RunIds -> [file : {"none", "part", "whole", "cut"}, truncated : BOOLEAN]]
  /\ mons \in [RunIds -> [pc : Monitor, finished : Time \cup {NoTime}]]
  /\ sup \in [pc : {"starting", "serving", "down"}, wall : Time]
===============================================================================
