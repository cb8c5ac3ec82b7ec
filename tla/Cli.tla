---------------------------------- MODULE Cli ----------------------------------
(***************************************************************************)
(* The atx command line as far as it changes the database: submission,     *)
(* run again, remove, and cancel, which runs for as long as the command it *)
(* stops (src/cli/dispatch.rs, src/application/cancel.rs and submit.rs).   *)
(* Every invocation is a process of its own and can be killed at any step. *)
(***************************************************************************)
EXTENDS Store

CONSTANT Cancellers   \* invocations of atx cancel

VARIABLES
  can,        \* the state of each canceller
  wakes,      \* jobs whose submitter still tries to wake a supervisor
  signalled   \* history: runs whose command was sent a signal

cliVars == <<can, wakes, signalled>>

CanPc == {"new", "done", "request", "direct", "check", "load", "commit", "signal", "kill",
          "record", "poll", "finish"}

(* run: the active run seen before the request; previous: its state as     *)
(* request_run_cancellation loaded it; rev: the revision of the request.   *)
CanState == [pc : CanPc, job : Jobs \cup {NoJob}, rev : Nat, run : Runs \cup {NoRun},
             previous : RunRowState]

NotCancelling == [pc |-> "new", job |-> NoJob, rev |-> 0, run |-> NoRun,
                  previous |-> "absent"]

CliTypeOK ==
  /\ can \in [Cancellers -> CanState]
  /\ wakes \subseteq Jobs
  /\ signalled \subseteq Runs

CliInit ==
  /\ can = [c \in Cancellers |-> NotCancelling]
  /\ wakes = {}
  /\ signalled = {}

-------------------------------------------------------------------------------
(* submit_job: store the job, then wake a supervisor.                      *)
Submit(j) ==
  /\ create(j)
  /\ wakes' = wakes \cup {j}
  /\ UNCHANGED <<can, signalled>>

(* rerun_job; the caller confirms an interrupted job with --yes.           *)
Rerun(j) ==
  /\ prepare_rerun(j)
  /\ wakes' = wakes \cup {j}
  /\ UNCHANGED <<can, signalled>>

Remove(j) ==
  /\ \E keep_history \in BOOLEAN : hide_job(j, keep_history)
  /\ UNCHANGED cliVars

(* The client stops waiting: its wake was answered, or it gave up and      *)
(* reports a job that is stored but not supervised (exit 11).              *)
WakeEnds(j) ==
  /\ j \in wakes
  /\ wakes' = wakes \ {j}
  /\ UNCHANGED <<storeVars, can, signalled>>

-------------------------------------------------------------------------------
CanGoes(c, pc) == can' = [can EXCEPT ![c].pc = pc]

CanEnds(c) == can' = [can EXCEPT ![c] = [NotCancelling EXCEPT !.pc = "done"]]

CanFrame == UNCHANGED <<wakes, signalled>>

(* cancel_job reads the job and its latest active run.                     *)
CancelBegin(c, j) ==
  /\ can[c].pc = "new"
  /\ jobs[j].state \in (Pending \cup Underway) \ {"cancel_requested"}
  /\ \E r \in latest_active_run(j) :
        can' = [can EXCEPT ![c] = [NotCancelling EXCEPT !.pc = "request", !.job = j, !.run = r]]
  /\ CanFrame
  /\ UNCHANGED storeVars

(* The loop of compare-and-swap attempts.  A lost attempt changes nothing  *)
(* and reloads the job, so the attempt that decides is the one that finds  *)
(* the revision it loaded, or a job that needs no request any more.        *)
CancelRequest(c) ==
  LET j == can[c].job
  IN  /\ can[c].pc = "request"
      /\ transition_job(j, jobs[j].rev, "cancel_requested")
      /\ can' = [can EXCEPT ![c].pc = IF can[c].run = NoRun THEN "direct" ELSE "check",
                            ![c].rev = jobs[j].rev + 1]
      /\ CanFrame

CancelMoot(c) ==
  /\ can[c].pc = "request"
  /\ jobs[can[c].job].state \in JobTerminal \cup {"cancel_requested", "absent"}
  /\ CanEnds(c)
  /\ CanFrame
  /\ UNCHANGED storeVars

(* No run was active: "cancelled before command start".                    *)
CancelDirect(c) ==
  /\ can[c].pc = "direct"
  /\ transition_job(can[c].job, can[c].rev, "cancelled")
  /\ CanEnds(c)
  /\ CanFrame

CancelDirectRefused(c) ==
  /\ can[c].pc = "direct"
  /\ ~CanTransition(can[c].job, can[c].rev, "cancelled")
  /\ CanEnds(c)
  /\ CanFrame
  /\ UNCHANGED storeVars

(* cancel_claimed_run: a terminal run needs no signal.                     *)
CancelCheck(c) ==
  LET state == runs[can[c].run].state
  IN  /\ can[c].pc = "check"
      /\ IF state = "absent" THEN CanEnds(c)
         ELSE CanGoes(c, IF state \in RunTerminal THEN "poll" ELSE "load")
      /\ CanFrame
      /\ UNCHANGED storeVars

(* What follows a committed request: signal the recorded command, or, when *)
(* none is recorded, end the run here.                                     *)
AfterCommit_Waits(r) == IF runs[r].marked THEN "signal" ELSE "poll"

AfterCommit(r) == IF runs[r].marked THEN "signal" ELSE "record"

(* request_run_cancellation, its SELECT ...                                *)
CancelLoad_SignalsFirst(c) ==
  /\ can[c].pc = "load"
  /\ CanGoes(c, AfterCommit(can[c].run))
  /\ CanFrame
  /\ UNCHANGED storeVars

CancelLoad(c) ==
  LET r == can[c].run
  IN  /\ can[c].pc = "load"
      /\ IF runs[r].state = "absent" THEN CanEnds(c)
         ELSE IF runs[r].state \in RunTerminal \cup {"cancel_requested"}
              THEN CanGoes(c, AfterCommit(r))
         ELSE can' = [can EXCEPT ![c].pc = "commit", ![c].previous = runs[r].state]
      /\ CanFrame
      /\ UNCHANGED storeVars

(* ... and its UPDATE.                                                     *)
CancelCommit(c) ==
  LET r == can[c].run
  IN  /\ can[c].pc = "commit"
      /\ request_run_cancellation(r, can[c].previous)
      /\ CanGoes(c, AfterCommit(r))
      /\ CanFrame

CancelCommitRefused(c) ==
  /\ can[c].pc = "commit"
  /\ runs[can[c].run].state # can[c].previous
  /\ CanEnds(c)
  /\ CanFrame
  /\ UNCHANGED storeVars

(* CommittedBeforeSpawn: the canceller records the outcome itself.         *)
CancelRecord(c) ==
  /\ can[c].pc = "record"
  /\ record_run_terminal(can[c].run, "cancelled")
  /\ CanGoes(c, "poll")
  /\ CanFrame

CancelRecordRefused(c) ==
  /\ can[c].pc = "record"
  /\ ~CanRecord(can[c].run, "cancelled")
  /\ CanEnds(c)
  /\ CanFrame
  /\ UNCHANGED storeVars

(* Wait for the run to end; a run still active at the deadline, or a row   *)
(* that disappeared, is an error.                                          *)
CancelPoll(c) ==
  /\ can[c].pc = "poll"
  /\ runs[can[c].run].state \in RunTerminal
  /\ can' = [can EXCEPT ![c].pc = "finish", ![c].previous = runs[can[c].run].state]
  /\ CanFrame
  /\ UNCHANGED storeVars

CancelTimeout(c) ==
  /\ can[c].pc = "poll"
  /\ runs[can[c].run].state \notin RunTerminal
  /\ CanEnds(c)
  /\ CanFrame
  /\ UNCHANGED storeVars

(* finish_job_cancellation: the job follows its run, unless it is terminal *)
(* already or has moved where that is illegal.                             *)
CancelFinish(c) ==
  LET j == can[c].job
  IN  /\ can[c].pc = "finish"
      /\ transition_job(j, jobs[j].rev, can[c].previous)
      /\ CanEnds(c)
      /\ CanFrame

CancelFinishMoot(c) ==
  LET j == can[c].job
  IN  /\ can[c].pc = "finish"
      /\ ~CanTransition(j, jobs[j].rev, can[c].previous)
      /\ CanEnds(c)
      /\ CanFrame
      /\ UNCHANGED storeVars

(* The canceller is killed, or gives up on a storage or signalling error   *)
(* or after its eight attempts.                                            *)
CancelAbort(c) ==
  /\ can[c].pc \notin {"new", "done"}
  /\ CanEnds(c)
  /\ CanFrame
  /\ UNCHANGED storeVars

===============================================================================
