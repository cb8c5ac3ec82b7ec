--------------------------------- MODULE Store ---------------------------------
(***************************************************************************)
(* The per-user SQLite database that the CLI, the supervisor and the run   *)
(* monitors share (src/infrastructure/sqlite).  Each operator is one       *)
(* committed statement or IMMEDIATE transaction, hence one atomic step; a  *)
(* caller that reads in one statement and writes in another keeps what it  *)
(* read in its own variables and takes two steps.                          *)
(*                                                                         *)
(* An operation that the code answers with StoreError changes nothing: its *)
(* guard (Can...) is FALSE and the caller decides what the error leads to. *)
(*                                                                         *)
(* The claim token of a run is checked by every statement that writes the  *)
(* run.  It is created with the run and handed only to the holders of its  *)
(* id, so a run id stands for the pair here.                               *)
(***************************************************************************)
EXTENDS Domain, Integers

CONSTANTS
  Jobs,        \* job ids
  NoJob,       \* the job of a run row that was never claimed
  Recurring,   \* the jobs submitted with --every
  Policy,      \* the missed policy of each job
  Delay,       \* how long after its submission a job is first due
  Interval,    \* the interval of a recurring job
  MaxRuns,     \* bound: how many runs may ever be claimed
  MaxReruns    \* bound: how often one job may be run again

MissedPolicy == {"hold", "skip", "run_latest"}

ASSUME JobsAssumption ==
  /\ NoJob \notin Jobs
  /\ Recurring \subseteq Jobs
  /\ Policy \in [Jobs -> MissedPolicy]
  /\ Delay \in [Jobs -> Nat]
  /\ Interval \in Nat \ {0}

ASSUME BoundsAssumption == MaxRuns \in Nat /\ MaxReruns \in Nat

Runs == 1 .. MaxRuns
NoRun == 0
NoDue == -1

VARIABLES
  jobs,     \* the jobs table; a row that is not there has state "absent"
  runs,     \* the runs table, by run id
  now,      \* the wall clock, which the elapsed clock follows
  permits,  \* history: how often a user asked for job j to be executed
  claims    \* history: how many runs of job j were ever claimed

storeVars == <<jobs, runs, permits, claims>>

JobRow == [state : JobRowState, rev : Nat, due : Nat, anchor : Nat, hidden : BOOLEAN]

RunRow == [state : RunRowState, job : Jobs \cup {NoJob}, slot : Nat, marked : BOOLEAN]

StoreInit ==
  /\ jobs = [j \in Jobs |-> [state |-> "absent", rev |-> 0, due |-> 0, anchor |-> 0,
                             hidden |-> FALSE]]
  /\ runs = [r \in Runs |-> [state |-> "absent", job |-> NoJob, slot |-> 0,
                             marked |-> FALSE]]
  /\ now = 0
  /\ permits = [j \in Jobs |-> 0]
  /\ claims = [j \in Jobs |-> 0]

RunsOf(j) == {r \in Runs : runs[r].job = j}

ActiveRuns(j) == {r \in RunsOf(j) : runs[r].state \in RunActive}

-------------------------------------------------------------------------------
(* JobStore::create: a fresh id, first revision, first due instant.        *)
create(j) ==
  /\ jobs[j].state = "absent"
  /\ permits[j] = 0
  /\ jobs' = [jobs EXCEPT ![j] = [state |-> "scheduled", rev |-> 1, due |-> now + Delay[j],
                                  anchor |-> now + Delay[j], hidden |-> FALSE]]
  /\ permits' = [permits EXCEPT ![j] = 1]
  /\ UNCHANGED <<runs, claims>>

(* JobStore::transition_job: compare-and-swap on the revision, then the    *)
(* one-shot table.                                                         *)
CanTransition(j, rev, to) ==
  /\ jobs[j].state # "absent"
  /\ jobs[j].rev = rev
  /\ job_transition(jobs[j].state, to, FALSE)

transition_job(j, rev, to) ==
  /\ CanTransition(j, rev, to)
  /\ jobs' = [jobs EXCEPT ![j].state = to, ![j].rev = rev + 1]
  /\ UNCHANGED <<runs, permits, claims>>

(* JobStore::advance_recurring_job, with the clock as its caller read it.  *)
CanAdvance(j, rev) ==
  /\ jobs[j].state # "absent"
  /\ jobs[j].rev = rev
  /\ j \in Recurring
  /\ job_transition(jobs[j].state, "waiting", TRUE)

advance_recurring_job(j, rev, clock) ==
  /\ CanAdvance(j, rev)
  /\ jobs' = [jobs EXCEPT ![j].state = "waiting", ![j].rev = rev + 1,
                          ![j].due = next_fixed_rate_utc(jobs[j].anchor, clock, Interval)]
  /\ UNCHANGED <<runs, permits, claims>>

(* prepare_rerun: a visible terminal job waits again, due at once.  The    *)
(* revision the caller read moments earlier must still be current; a row   *)
(* only changes with its revision, so reading it in this very step loses   *)
(* nothing but refusals, which change nothing.                             *)
prepare_rerun(j) ==
  /\ jobs[j].state \in JobTerminal
  /\ ~jobs[j].hidden
  /\ permits[j] <= MaxReruns
  /\ jobs' = [jobs EXCEPT ![j].state = "waiting", ![j].rev = @ + 1, ![j].due = now]
  /\ permits' = [permits EXCEPT ![j] = @ + 1]
  /\ UNCHANGED <<runs, claims>>

(* hide_job: a terminal job disappears from the CLI, and its runs are      *)
(* deleted unless the history is kept; the revision does not change.       *)
hide_job(j, keep_history) ==
  /\ jobs[j].state \in JobTerminal
  /\ ~jobs[j].hidden
  /\ jobs' = [jobs EXCEPT ![j].hidden = TRUE]
  /\ runs' = IF keep_history THEN runs
             ELSE [r \in Runs |-> IF runs[r].job = j
                                  THEN [runs[r] EXCEPT !.state = "absent"] ELSE runs[r]]
  /\ UNCHANGED <<permits, claims>>

-------------------------------------------------------------------------------
(* claim_run: one run per job and scheduled instant.  Nothing here looks   *)
(* at the job's row.  Run ids are taken in order, which stands for the     *)
(* per-job sequence numbers.                                               *)
DuplicateClaim(j, slot) ==
  \E r \in RunsOf(j) : runs[r].state # "absent" /\ runs[r].slot = slot

NextRun == {r \in Runs : runs[r].job = NoJob /\ \A q \in 1 .. (r - 1) : runs[q].job # NoJob}

claim_run(j, slot, r) ==
  /\ r \in NextRun
  /\ ~DuplicateClaim(j, slot)
  /\ runs' = [runs EXCEPT ![r] = [state |-> "starting", job |-> j, slot |-> slot,
                                  marked |-> FALSE]]
  /\ claims' = [claims EXCEPT ![j] = @ + 1]
  /\ UNCHANGED <<jobs, permits>>

(* mark_run_running: the load only allows what the UPDATE's WHERE clause   *)
(* checks again, so the two statements are one step.                       *)
CanMark_AnyActive(r) == runs[r].state \in RunActive

CanMark(r) == runs[r].state = "starting"

mark_run_running(r) ==
  /\ CanMark(r)
  /\ runs' = [runs EXCEPT ![r].state = "running", ![r].marked = TRUE]
  /\ UNCHANGED <<jobs, permits, claims>>

(* record_run_terminal: one step for the same reason; the outcomes legal   *)
(* for the state that was loaded stay legal in the states it can move to   *)
(* before the UPDATE, whose WHERE clause asks for an active run.           *)
CanRecord_Unchecked(r, outcome) == runs[r].state \in RunState

CanRecord(r, outcome) == complete_run(runs[r].state, outcome) # "illegal"

record_run_terminal(r, outcome) ==
  /\ CanRecord(r, outcome)
  /\ runs' = [runs EXCEPT ![r].state = complete_run(runs[r].state, outcome)]
  /\ UNCHANGED <<jobs, permits, claims>>

(* request_run_cancellation: the UPDATE asks for the very state that was   *)
(* loaded, so a run that moved in between is a conflict.                   *)
request_run_cancellation(r, previous) ==
  /\ runs[r].state = previous
  /\ previous \in RunActive
  /\ runs' = [runs EXCEPT ![r].state = "cancel_requested"]
  /\ UNCHANGED <<jobs, permits, claims>>

(* latest_active_run, as the set of its answers: NoRun when none is active. *)
latest_active_run(j) ==
  IF ActiveRuns(j) = {} THEN {NoRun}
  ELSE {r \in ActiveRuns(j) : \A q \in ActiveRuns(j) : q <= r}

-------------------------------------------------------------------------------
(* cleanup_retention: terminal runs and terminal jobs past their age go;   *)
(* the runs of a deleted job go with it (ON DELETE CASCADE).  Which rows   *)
(* are past their age is left open.                                        *)
cleanup_retention(oldRuns, oldJobs) ==
  /\ \A r \in oldRuns : runs[r].state \in RunTerminal
  /\ \A j \in oldJobs : jobs[j].state \in JobTerminal
  /\ jobs' = [j \in Jobs |-> IF j \in oldJobs THEN [jobs[j] EXCEPT !.state = "absent"]
                             ELSE jobs[j]]
  /\ runs' = [r \in Runs |-> IF r \in oldRuns \/ runs[r].job \in oldJobs
                             THEN [runs[r] EXCEPT !.state = "absent"] ELSE runs[r]]
  /\ UNCHANGED <<permits, claims>>

StoreTypeOK ==
  /\ jobs \in [Jobs -> JobRow]
  /\ runs \in [Runs -> RunRow]
  /\ now \in Nat
  /\ permits \in [Jobs -> Nat]
  /\ claims \in [Jobs -> Nat]

===============================================================================
